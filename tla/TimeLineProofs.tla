----------------------------- MODULE TimeLineProofs -----------------------------
(***************************************************************************)
(* Proofs about the timelines of buffers and resources, for any events,    *)
(* dates, quantities and lots.  The argument, in the order of the module:  *)
(*  - sums over a finite set, and over a line of events whose total is     *)
(*    stored at each (AddsUp, and MovedBy for what a walk adds to it);     *)
(*  - Good(T), a timeline at rest: the line in order, the stored totals    *)
(*    what they stand for, the lists of bounds those of the events in it;  *)
(*  - insert(), erase() and update() take good timelines to good ones,     *)
(*    update() by an invariant of its walk;                                *)
(*  - PlanInv, what the owners of timelines keep, and SweepInv, which adds *)
(*    that the iterator of a walk over the timeline stands in it;          *)
(*  - the stock at the end of a date is a sum of flowplans, a walk knows   *)
(*    from the stored totals how much every later date can lose;           *)
(*  - AccountInv: what the walk still expects to remove is what is over    *)
(*    the minimum at the end, and what it has passed is done with, because *)
(*    a removal never raises the excess of another flowplan.               *)
(* Induction is over a set of counterexamples and its smallest member      *)
(* (SmallestOf).  The theorems are at the end; their assumptions are that  *)
(* a bucketized resource gets its buckets before its loadplans, once, and  *)
(* none of its loadplans comes after the last of them; for NothingLeft     *)
(* also that the events are finite, so that End is none of them.           *)
(***************************************************************************)
EXTENDS OperatorDelete, FiniteSetTheorems, SequenceTheorems, WellFoundedInduction, TLAPS

-----------------------------------------------------------------------------
(* A set of natural numbers has a smallest: the induction of this module.  *)
LEMMA SmallestOf ==
  ASSUME NEW S \in SUBSET Nat, S # {}
  PROVE  \E m \in S : \A k \in S : m <= k
<1>1. PICK m \in S : \A k \in S : ~ <<k, m>> \in OpToRel(<, Nat)
  BY NatLessThanWellFounded, WFMin
<1>2. \A k \in S : ~ (k < m)
  BY <1>1 DEF OpToRel
<1> QED
  BY <1>2

-----------------------------------------------------------------------------
(* The total of a function over a finite set: the definition makes sense,  *)
(* and each element counts once, in whatever order they are taken.         *)
Chosen(s) == CHOOSE x \in s : TRUE

IsFold(f, S, g) ==
  g = [s \in SUBSET S |-> IF s = {} THEN 0 ELSE f[Chosen(s)] + g[s \ {Chosen(s)}]]

Small(S, n) == {s \in SUBSET S : Cardinality(s) <= n}

FoldsUpTo(f, S, n) ==
  \E g : g = [s \in Small(S, n) |-> IF s = {} THEN 0 ELSE f[Chosen(s)] + g[s \ {Chosen(s)}]]

LEMMA SubsetSize ==
  ASSUME NEW S, IsFiniteSet(S), NEW s \in SUBSET S
  PROVE  /\ IsFiniteSet(s) /\ Cardinality(s) \in Nat /\ Cardinality(s) <= Cardinality(S)
         /\ \A x \in s : Cardinality(s \ {x}) = Cardinality(s) - 1
         /\ s # {} => Chosen(s) \in s
<1>1. IsFiniteSet(s) /\ Cardinality(s) \in Nat /\ Cardinality(s) <= Cardinality(S)
  BY FS_Subset, FS_CardinalityType
<1>2. \A x \in s : Cardinality(s \ {x}) = Cardinality(s) - 1
  BY <1>1, FS_RemoveElement
<1>3. s # {} => Chosen(s) \in s
  BY DEF Chosen
<1> QED
  BY <1>1, <1>2, <1>3

LEMMA FoldsUpToAll ==
  ASSUME NEW f, NEW S, IsFiniteSet(S), NEW n \in Nat
  PROVE  FoldsUpTo(f, S, n)
<1> DEFINE Bad == {k \in Nat : ~FoldsUpTo(f, S, k)}
<1> SUFFICES ASSUME Bad # {} PROVE FALSE
  OBVIOUS
<1>1. PICK m \in Bad : \A k \in Bad : m <= k
  <2>1. Bad \in SUBSET Nat
    OBVIOUS
  <2> HIDE DEF Bad
  <2> QED
    BY <2>1, SmallestOf
<1>2. m # 0
  <2>1. SUFFICES FoldsUpTo(f, S, 0)
    BY <1>1
  <2>2. \A s \in Small(S, 0) : s = {}
    BY SubsetSize, FS_EmptySet DEF Small
  <2> DEFINE g == [s \in Small(S, 0) |-> 0]
  <2>3. g = [s \in Small(S, 0) |-> IF s = {} THEN 0 ELSE f[Chosen(s)] + g[s \ {Chosen(s)}]]
    BY <2>2
  <2> QED
    BY <2>3 DEF FoldsUpTo
<1>3. m - 1 \in Nat /\ FoldsUpTo(f, S, m - 1)
  <2>1. m \in Nat /\ m - 1 \in Nat /\ ~(m <= m - 1)
    BY <1>1, <1>2
  <2> QED
    BY <1>1, <2>1
<1>4. PICK g : g = [s \in Small(S, m - 1) |-> IF s = {} THEN 0 ELSE f[Chosen(s)] + g[s \ {Chosen(s)}]]
  BY <1>3 DEF FoldsUpTo
<1> DEFINE h == [s \in Small(S, m) |-> IF s = {} THEN 0 ELSE f[Chosen(s)] + g[s \ {Chosen(s)}]]
<1>5. \A s \in Small(S, m - 1) : s \in Small(S, m) /\ h[s] = g[s]
  <2>1. \A s \in Small(S, m - 1) : s \in Small(S, m)
    BY <1>3, SubsetSize DEF Small
  <2> QED
    BY <1>4, <2>1
<1>6. \A s \in Small(S, m) : s # {} => s \ {Chosen(s)} \in Small(S, m - 1)
  BY <1>3, SubsetSize DEF Small
<1>7. h = [s \in Small(S, m) |-> IF s = {} THEN 0 ELSE f[Chosen(s)] + h[s \ {Chosen(s)}]]
  BY <1>5, <1>6
<1>8. FoldsUpTo(f, S, m)
  BY <1>7 DEF FoldsUpTo
<1> QED
  BY <1>1, <1>8

LEMMA FoldExists ==
  ASSUME NEW f, NEW S, IsFiniteSet(S)
  PROVE  \E g : IsFold(f, S, g) /\ Total(f, S) = g[S]
<1>1. Cardinality(S) \in Nat /\ Small(S, Cardinality(S)) = SUBSET S
  BY SubsetSize, FS_CardinalityType DEF Small
<1>2. \E g : IsFold(f, S, g)
  <2>1. FoldsUpTo(f, S, Cardinality(S))
    BY <1>1, FoldsUpToAll
  <2> QED
    BY <1>1, <2>1 DEF FoldsUpTo, IsFold
<1> DEFINE G == CHOOSE g : IsFold(f, S, g)
<1>3. IsFold(f, S, G)
  BY <1>2
<1>4. Total(f, S) = G[S]
  BY DEF Total, MapThenSumSet, MapThenFoldSet, IsFold, Chosen
<1> QED
  BY <1>3, <1>4

(* Every fold, over whatever set, gives an element its weight once. *)
LEMMA FoldAdds ==
  ASSUME NEW f, NEW S, IsFiniteSet(S), \A x \in S : f[x] \in Int, NEW g, IsFold(f, S, g)
  PROVE  \A s \in SUBSET S : g[s] \in Int /\ \A x \in S \ s : g[s \cup {x}] = f[x] + g[s]
<1> DEFINE Adds(s) == g[s] \in Int /\ \A x \in s : g[s] = f[x] + g[s \ {x}]
           Bad == {s \in SUBSET S : ~Adds(s)}
           Sizes == {Cardinality(s) : s \in Bad}
<1>0. \A s \in SUBSET S : g[s] = IF s = {} THEN 0 ELSE f[Chosen(s)] + g[s \ {Chosen(s)}]
  BY DEF IsFold
<1>1. ASSUME Bad # {} PROVE FALSE
  <2>1. Sizes \in SUBSET Nat /\ Sizes # {}
    <3>1. \A s \in Bad : s \in SUBSET S
      OBVIOUS
    <3> HIDE DEF Bad
    <3>2. \A s \in Bad : Cardinality(s) \in Nat
      BY <3>1, SubsetSize
    <3> QED
      BY <1>1, <3>2
  <2>2. PICK m \in Sizes : \A k \in Sizes : m <= k
    BY <2>1, SmallestOf
  <2>3. PICK s \in Bad : Cardinality(s) = m
    BY <2>2
  <2>4. /\ s \in SUBSET S /\ ~Adds(s) /\ Cardinality(s) \in Nat
        /\ \A x \in s : Cardinality(s \ {x}) = Cardinality(s) - 1
        /\ s # {} => Chosen(s) \in s
    BY <2>3, SubsetSize
  <2>5. \A t \in SUBSET S : Cardinality(t) < Cardinality(s) => Adds(t)
    <3>1. SUFFICES ASSUME NEW t \in Bad PROVE ~(Cardinality(t) < Cardinality(s))
      OBVIOUS
    <3>2. Cardinality(t) \in Nat /\ Cardinality(s) <= Cardinality(t)
      BY <2>2, <2>3, <3>1, SubsetSize
    <3> QED
      BY <2>4, <3>2
  <2>6. s # {}
    <3>1. s = {} => g[s] = 0
      BY <1>0, <2>4
    <3>2. s = {} => Adds(s)
      BY <3>1
    <3> QED
      BY <2>4, <3>2
  <2> DEFINE c == Chosen(s)
  <2>7. c \in s /\ s \ {c} \in SUBSET S /\ g[s] = f[c] + g[s \ {c}]
    BY <1>0, <2>4, <2>6
  <2> HIDE DEF Adds, Bad, Sizes, c
  <2>8. \A x \in s : s \ {x} \in SUBSET S /\ Adds(s \ {x})
    BY <2>4, <2>5
  <2>9. \A x \in s : g[s \ {x}] \in Int
    BY <2>8 DEF Adds
  <2>10. ASSUME NEW x \in s, x # c PROVE g[s] = f[x] + g[s \ {x}]
    <3>1. c \in s \ {x} /\ x \in s \ {c}
      BY <2>7, <2>10
    <3>2. /\ g[s \ {x}] = f[c] + g[(s \ {x}) \ {c}]
          /\ g[s \ {c}] = f[x] + g[(s \ {c}) \ {x}]
      BY <2>7, <2>8, <3>1 DEF Adds
    <3>3. (s \ {x}) \ {c} = (s \ {c}) \ {x}
      OBVIOUS
    <3>4. Adds(s \ {x}) /\ (s \ {x}) \ {c} \in SUBSET S
      BY <2>8
    <3>5. Cardinality((s \ {x}) \ {c}) < Cardinality(s)
      <4>1. /\ s \ {x} \in SUBSET S /\ Cardinality(s \ {x}) = Cardinality(s) - 1
            /\ Cardinality((s \ {x}) \ {c}) = Cardinality(s \ {x}) - 1
        BY <2>4, <2>8, <3>1, SubsetSize
      <4> QED
        BY <2>4, <4>1
    <3>6. g[(s \ {x}) \ {c}] \in Int
      BY <2>5, <3>4, <3>5 DEF Adds
    <3>7. f[x] \in Int /\ f[c] \in Int
      BY <2>4, <2>7
    <3>8. g[s \ {c}] = f[x] + g[(s \ {x}) \ {c}]
      BY <3>2, <3>3, Zenon
    <3> QED
      BY <2>7, <3>2, <3>6, <3>7, <3>8
  <2>11. g[s] \in Int
    BY <2>4, <2>7, <2>9
  <2>12. Adds(s)
    BY <2>7, <2>10, <2>11 DEF Adds
  <2> QED
    BY <2>4, <2>12
<1>2. \A s \in SUBSET S : Adds(s)
  BY <1>1
<1> HIDE DEF Adds, Bad
<1>3. ASSUME NEW s \in SUBSET S, NEW x \in S \ s PROVE g[s \cup {x}] = f[x] + g[s]
  <2>1. s \cup {x} \in SUBSET S /\ x \in s \cup {x} /\ (s \cup {x}) \ {x} = s
    OBVIOUS
  <2> QED
    BY <1>2, <2>1 DEF Adds
<1>4. \A s \in SUBSET S : g[s] \in Int
  BY <1>2 DEF Adds
<1> QED
  BY <1>3, <1>4, Zenon

LEMMA FoldsAgree ==
  ASSUME NEW f, NEW T, IsFiniteSet(T), NEW S \in SUBSET T, NEW g, IsFold(f, S, g), NEW h, IsFold(f, T, h)
  PROVE  g[S] = h[S]
<1> DEFINE Bad == {s \in SUBSET S : g[s] # h[s]}
           Sizes == {Cardinality(s) : s \in Bad}
<1>0. \A s \in SUBSET S :
        /\ g[s] = IF s = {} THEN 0 ELSE f[Chosen(s)] + g[s \ {Chosen(s)}]
        /\ h[s] = IF s = {} THEN 0 ELSE f[Chosen(s)] + h[s \ {Chosen(s)}]
  BY DEF IsFold
<1>1. ASSUME Bad # {} PROVE FALSE
  <2>0. IsFiniteSet(S)
    BY FS_Subset
  <2>1. Sizes \in SUBSET Nat /\ Sizes # {}
    BY <1>1, <2>0, SubsetSize
  <2>2. PICK m \in Sizes : \A k \in Sizes : m <= k
    BY <2>1, SmallestOf
  <2>3. PICK s \in Bad : Cardinality(s) = m
    BY <2>2
  <2>4. /\ s \in SUBSET S /\ g[s] # h[s] /\ Cardinality(s) \in Nat
        /\ \A x \in s : Cardinality(s \ {x}) = Cardinality(s) - 1
        /\ s # {} => Chosen(s) \in s
    BY <2>0, <2>3, SubsetSize
  <2>5. s # {} /\ Chosen(s) \in s
    BY <1>0, <2>4
  <2>6. s \ {Chosen(s)} \in SUBSET S /\ ~(Cardinality(s) <= Cardinality(s \ {Chosen(s)}))
    BY <2>4, <2>5
  <2>7. g[s \ {Chosen(s)}] = h[s \ {Chosen(s)}]
    BY <2>2, <2>3, <2>6
  <2> QED
    BY <1>0, <2>4, <2>5, <2>7
<1> QED
  BY <1>1

LEMMA TotalAdd ==
  ASSUME NEW f, NEW S, IsFiniteSet(S), \A x \in S : f[x] \in Int
  PROVE  /\ Total(f, S) \in Int
         /\ S = {} => Total(f, S) = 0
         /\ \A x \in S : Total(f, S) = f[x] + Total(f, S \ {x})
<1>1. PICK g : IsFold(f, S, g) /\ Total(f, S) = g[S]
  BY FoldExists
<1>2. \A s \in SUBSET S : g[s] \in Int /\ \A x \in S \ s : g[s \cup {x}] = f[x] + g[s]
  <2>1. IsFold(f, S, g)
    BY <1>1
  <2> QED
    BY <2>1, FoldAdds
<1>3. S = {} => g[S] = 0
  BY <1>1 DEF IsFold
<1>4. ASSUME NEW x \in S PROVE Total(f, S) = f[x] + Total(f, S \ {x})
  <2>1. IsFiniteSet(S \ {x}) /\ S \ {x} \in SUBSET S /\ (S \ {x}) \cup {x} = S
    BY FS_Subset
  <2>2. PICK h : IsFold(f, S \ {x}, h) /\ Total(f, S \ {x}) = h[S \ {x}]
    BY <2>1, FoldExists
  <2>3. h[S \ {x}] = g[S \ {x}]
    BY <1>1, <2>1, <2>2, FoldsAgree
  <2>4. g[S] = f[x] + g[S \ {x}]
    BY <1>2, <2>1
  <2> QED
    BY <1>1, <2>2, <2>3, <2>4
<1> QED
  BY <1>1, <1>2, <1>3, <1>4

-----------------------------------------------------------------------------
(* The order of the events, and places in a line of distinct events.       *)
LEMMA Ordering ==
  ASSUME NEW T, T.dt \in [Event -> Int], T.qty \in [Event -> Int],
         NEW e \in Event, NEW f \in Event, NEW g \in Event
  PROVE  /\ ~Before(T, e, e)
         /\ ~(Before(T, e, f) /\ Before(T, f, e))
         /\ Before(T, e, f) /\ Before(T, f, g) => Before(T, e, g)
         /\ Before(T, e, f) \/ Before(T, f, e) \/ e = f
<1>1. e \in Int /\ f \in Int /\ g \in Int
  BY EventAssumption
<1>2. /\ T.dt[e] \in Int /\ T.dt[f] \in Int /\ T.dt[g] \in Int
      /\ T.qty[e] \in Int /\ T.qty[f] \in Int /\ T.qty[g] \in Int
  OBVIOUS
<1> QED
  BY <1>1, <1>2 DEF Before

Distinct(s) == \A i, j \in 1..Len(s) : s[i] = s[j] => i = j

LEMMA SeqFacts ==
  ASSUME NEW s \in Seq(Event)
  PROVE  /\ Len(s) \in Nat /\ DOMAIN s = 1..Len(s)
         /\ \A i \in 1..Len(s) : s[i] \in Event /\ s[i] \in ToSet(s)
         /\ \A e : e \in ToSet(s) <=> \E i \in 1..Len(s) : s[i] = e
<1>1. Len(s) \in Nat /\ DOMAIN s = 1..Len(s) /\ s \in [1..Len(s) -> Event]
  BY LenProperties
<1> QED
  BY <1>1 DEF ToSet

LEMMA PlaceOf ==
  ASSUME NEW s \in Seq(Event), Distinct(s), NEW i \in 1..Len(s)
  PROVE  Place(s, s[i]) = i
<1>1. i \in DOMAIN s /\ DOMAIN s = 1..Len(s)
  BY SeqFacts
<1> QED
  BY <1>1 DEF Place, Distinct

LEMMA PlaceIn ==
  ASSUME NEW s \in Seq(Event), Distinct(s), NEW e \in ToSet(s)
  PROVE  Place(s, e) \in 1..Len(s) /\ s[Place(s, e)] = e
<1>1. PICK i \in 1..Len(s) : s[i] = e
  BY SeqFacts
<1> QED
  BY <1>1, PlaceOf

LEMMA Inserted ==
  ASSUME NEW s \in Seq(Event), NEW e \in Event, NEW i \in 1..Len(s)+1
  PROVE  LET t == InsertAt(s, i, e)
         IN  /\ t \in Seq(Event) /\ Len(t) = Len(s) + 1
             /\ \A j \in 1..Len(s)+1 : t[j] = IF j < i THEN s[j] ELSE IF j = i THEN e ELSE s[j-1]
<1> DEFINE a == SubSeq(s, 1, i-1)
           b == SubSeq(s, i, Len(s))
<1>0. Len(s) \in Nat /\ \A j \in 1..Len(s) : s[j] \in Event
  BY SeqFacts
<1>1. a \in Seq(Event) /\ Len(a) = i - 1 /\ \A j \in 1..i-1 : a[j] = s[j]
  <2>1. \A j \in 1..i-1 : s[j] \in Event
    BY <1>0
  <2>2. /\ a \in Seq(Event) /\ Len(a) = (IF 1 <= i-1 THEN (i-1)-1+1 ELSE 0)
        /\ \A j \in 1..(i-1)-1+1 : a[j] = s[1+j-1]
    BY <1>0, <2>1, SubSeqProperties
  <2> HIDE DEF a
  <2>3. \A j \in 1..i-1 : j \in 1..(i-1)-1+1 /\ 1+j-1 = j
    BY <1>0
  <2>4. \A j \in 1..i-1 : a[j] = s[j]
    BY <2>2, <2>3
  <2> QED
    BY <1>0, <2>2, <2>4
<1>2. b \in Seq(Event) /\ Len(b) = Len(s) - i + 1 /\ \A j \in 1..Len(s)-i+1 : b[j] = s[j+i-1]
  <2>1. \A j \in i..Len(s) : s[j] \in Event
    BY <1>0
  <2>2. /\ b \in Seq(Event) /\ Len(b) = (IF i <= Len(s) THEN Len(s)-i+1 ELSE 0)
        /\ \A j \in 1..Len(s)-i+1 : b[j] = s[i+j-1]
    BY <1>0, <2>1, SubSeqProperties
  <2> HIDE DEF b
  <2>3. \A j \in 1..Len(s)-i+1 : i+j-1 = j+i-1
    BY <1>0
  <2> QED
    BY <1>0, <2>2, <2>3
<1>3. <<e>> \in Seq(Event) /\ Len(<<e>>) = 1 /\ <<e>>[1] = e
  OBVIOUS
<1> DEFINE c == <<e>>
<1> HIDE DEF a, b, c
<1>4. /\ a \o c \in Seq(Event) /\ Len(a \o c) = i
      /\ \A j \in 1..i : (a \o c)[j] = IF j < i THEN s[j] ELSE e
  <2>1. /\ a \o c \in Seq(Event) /\ Len(a \o c) = Len(a) + Len(c)
        /\ \A j \in 1..Len(a)+Len(c) : (a \o c)[j] = IF j <= Len(a) THEN a[j] ELSE c[j - Len(a)]
    BY <1>1, <1>3, ConcatProperties DEF c
  <2> QED
    BY <1>0, <1>1, <1>3, <2>1 DEF c
<1> DEFINE d == a \o c
<1> HIDE DEF d
<1>5. /\ d \o b \in Seq(Event) /\ Len(d \o b) = Len(d) + Len(b)
      /\ \A j \in 1..Len(d)+Len(b) : (d \o b)[j] = IF j <= Len(d) THEN d[j] ELSE b[j - Len(d)]
  <2>1. d \in Seq(Event)
    BY <1>4 DEF d
  <2> QED
    BY <1>2, <2>1, ConcatProperties
<1>6. d \o b = InsertAt(s, i, e)
  BY DEF d, a, b, c, InsertAt
<1>7. Len(d) = i /\ Len(b) = Len(s) - i + 1
  BY <1>2, <1>4 DEF d
<1>8. \A j \in 1..i : d[j] = IF j < i THEN s[j] ELSE e
  BY <1>4 DEF d
<1>9. \A j \in 1..Len(s)+1 : (d \o b)[j] = IF j < i THEN s[j] ELSE IF j = i THEN e ELSE s[j-1]
  <2>1. SUFFICES ASSUME NEW j \in 1..Len(s)+1
                 PROVE  (d \o b)[j] = IF j < i THEN s[j] ELSE IF j = i THEN e ELSE s[j-1]
    OBVIOUS
  <2>2. CASE j <= i
    BY <1>0, <1>5, <1>7, <1>8, <2>2
  <2>3. CASE j > i
    <3>1. (d \o b)[j] = b[j - i] /\ j - i \in 1..Len(s)-i+1 /\ (j - i) + i - 1 = j - 1
      BY <1>0, <1>5, <1>7, <2>3
    <3>2. b[j - i] = s[j - 1]
      BY <1>2, <3>1
    <3> QED
      BY <1>0, <2>3, <3>1, <3>2
  <2>4. j <= i \/ j > i
    BY <1>0
  <2> QED
    BY <2>2, <2>3, <2>4, Zenon
<1>10. Len(d \o b) = Len(s) + 1
  BY <1>0, <1>5, <1>7
<1> QED
  BY <1>5, <1>6, <1>9, <1>10

LEMMA RemovedAt ==
  ASSUME NEW s \in Seq(Event), NEW i \in 1..Len(s)
  PROVE  LET t == RemoveAt(s, i)
         IN  /\ t \in Seq(Event) /\ Len(t) = Len(s) - 1
             /\ \A j \in 1..Len(s)-1 : t[j] = IF j < i THEN s[j] ELSE s[j+1]
<1> DEFINE a == SubSeq(s, 1, i-1)
           b == SubSeq(s, i+1, Len(s))
<1>0. Len(s) \in Nat /\ \A j \in 1..Len(s) : s[j] \in Event
  BY SeqFacts
<1>1. a \in Seq(Event) /\ Len(a) = i - 1 /\ \A j \in 1..i-1 : a[j] = s[j]
  <2>1. \A j \in 1..i-1 : s[j] \in Event
    BY <1>0
  <2>2. /\ a \in Seq(Event) /\ Len(a) = (IF 1 <= i-1 THEN (i-1)-1+1 ELSE 0)
        /\ \A j \in 1..(i-1)-1+1 : a[j] = s[1+j-1]
    BY <1>0, <2>1, SubSeqProperties
  <2> HIDE DEF a
  <2>3. \A j \in 1..i-1 : j \in 1..(i-1)-1+1 /\ 1+j-1 = j
    BY <1>0
  <2>4. \A j \in 1..i-1 : a[j] = s[j]
    BY <2>2, <2>3
  <2> QED
    BY <1>0, <2>2, <2>4
<1>2. b \in Seq(Event) /\ Len(b) = Len(s) - i /\ \A j \in 1..Len(s)-i : b[j] = s[j+i]
  <2>1. \A j \in i+1..Len(s) : s[j] \in Event
    BY <1>0
  <2>2. /\ b \in Seq(Event) /\ Len(b) = (IF i+1 <= Len(s) THEN Len(s)-(i+1)+1 ELSE 0)
        /\ \A j \in 1..Len(s)-(i+1)+1 : b[j] = s[(i+1)+j-1]
    BY <1>0, <2>1, SubSeqProperties
  <2> HIDE DEF b
  <2>3. \A j \in 1..Len(s)-i : j \in 1..Len(s)-(i+1)+1 /\ (i+1)+j-1 = j+i
    BY <1>0
  <2> QED
    BY <1>0, <2>2, <2>3
<1> HIDE DEF a, b
<1>3. /\ a \o b \in Seq(Event) /\ Len(a \o b) = Len(a) + Len(b)
      /\ \A j \in 1..Len(a)+Len(b) : (a \o b)[j] = IF j <= Len(a) THEN a[j] ELSE b[j - Len(a)]
  BY <1>1, <1>2, ConcatProperties
<1>4. a \o b = RemoveAt(s, i)
  BY DEF a, b, RemoveAt
<1>5. ASSUME NEW j \in 1..Len(s)-1
      PROVE  (a \o b)[j] = IF j < i THEN s[j] ELSE s[j+1]
  <2>1. CASE j < i
    BY <1>0, <1>1, <1>2, <1>3, <2>1
  <2>2. CASE j >= i
    <3>1. (a \o b)[j] = b[j - (i-1)] /\ j - (i-1) \in 1..Len(s)-i /\ (j - (i-1)) + i = j + 1
      BY <1>0, <1>1, <1>2, <1>3, <2>2
    <3>2. b[j - (i-1)] = s[j + 1]
      BY <1>2, <3>1
    <3> QED
      BY <1>0, <2>2, <3>1, <3>2
  <2>3. j < i \/ j >= i
    BY <1>0
  <2> QED
    BY <2>1, <2>2, <2>3, Zenon
<1>6. Len(a \o b) = Len(s) - 1
  BY <1>0, <1>1, <1>2, <1>3
<1> QED
  BY <1>3, <1>4, <1>5, <1>6

(* The places of an event and of those behind it in its bucket: a run from *)
(* p to the next of the events "sets".                                     *)
Run(sets, s, p, P) ==
  /\ \A k \in P : k \in p..Len(s) /\ s[k] \notin sets
  /\ p <= Len(s) => (p \in P <=> s[p] \notin sets)
  /\ \A k \in p+1..Len(s) : k \in P <=> k - 1 \in P /\ s[k] \notin sets

LEMMA BucketIsRun ==
  ASSUME NEW s \in Seq(Event), NEW p \in 1..Len(s)+1
  PROVE  Run(SetEvent, s, p, Bucket(s, p))
<1>0. Len(s) \in Nat
  BY SeqFacts
<1>1. \A k \in Bucket(s, p) : k \in p..Len(s) /\ s[k] \notin SetEvent
  BY <1>0 DEF Bucket
<1>2. p <= Len(s) => (p \in Bucket(s, p) <=> s[p] \notin SetEvent)
  BY <1>0 DEF Bucket
<1>3. ASSUME NEW k \in p+1..Len(s)
      PROVE  k \in Bucket(s, p) <=> k - 1 \in Bucket(s, p) /\ s[k] \notin SetEvent
  <2>1. k \in p..Len(s) /\ k - 1 \in p..Len(s) /\ k \in p..k
    BY <1>0
  <2>2. \A j \in p..k : j \in p..k-1 \/ j = k
    BY <1>0
  <2>3. \A j \in p..k-1 : j \in p..k
    BY <1>0
  <2> QED
    BY <2>1, <2>2, <2>3 DEF Bucket
<1> QED
  BY <1>1, <1>2, <1>3 DEF Run

LEMMA RestIsRun ==
  ASSUME NEW s \in Seq(Event), NEW p \in 1..Len(s)+1
  PROVE  Run({}, s, p, p..Len(s))
<1>0. Len(s) \in Nat
  BY SeqFacts
<1> QED
  BY <1>0 DEF Run

(* The positions after an insertion and after a removal. *)
InsertedAt(s, p, e, t) ==
  /\ t \in Seq(Event) /\ Len(t) = Len(s) + 1
  /\ \A j \in 1..Len(s) : (j < p => t[j] = s[j]) /\ (j >= p => t[j+1] = s[j])
  /\ t[p] = e

LEMMA InsertAtInserts ==
  ASSUME NEW s \in Seq(Event), NEW e \in Event, NEW p \in 1..Len(s)+1
  PROVE  InsertedAt(s, p, e, InsertAt(s, p, e))
<1> DEFINE t == InsertAt(s, p, e)
<1>0. Len(s) \in Nat
  BY SeqFacts
<1>1. /\ t \in Seq(Event) /\ Len(t) = Len(s) + 1
      /\ \A j \in 1..Len(s)+1 : t[j] = IF j < p THEN s[j] ELSE IF j = p THEN e ELSE s[j-1]
  BY Inserted
<1> HIDE DEF t
<1>2. ASSUME NEW j \in 1..Len(s) PROVE (j < p => t[j] = s[j]) /\ (j >= p => t[j+1] = s[j])
  <2>1. j \in 1..Len(s)+1 /\ j + 1 \in 1..Len(s)+1 /\ (j + 1) - 1 = j
    BY <1>0
  <2>2. j >= p => ~(j + 1 < p) /\ j + 1 # p
    BY <1>0
  <2> QED
    BY <1>1, <2>1, <2>2
<1>3. t[p] = e
  BY <1>0, <1>1
<1> QED
  BY <1>1, <1>2, <1>3 DEF InsertedAt, t

LEMMA InsertedPlaces ==
  ASSUME NEW s \in Seq(Event), NEW p \in 1..Len(s)+1, NEW e, NEW t, InsertedAt(s, p, e, t)
  PROVE  \A i \in 1..Len(t) : \/ i < p /\ i \in 1..Len(s) /\ t[i] = s[i]
                              \/ i = p /\ t[i] = e
                              \/ \E j \in p..Len(s) : i = j + 1 /\ j \in 1..Len(s) /\ t[i] = s[j]
<1>0. Len(s) \in Nat /\ Len(t) = Len(s) + 1
  BY SeqFacts DEF InsertedAt
<1> TAKE i \in 1..Len(t)
<1>1. CASE i < p
  <2>1. i \in 1..Len(s)
    BY <1>0, <1>1
  <2> QED
    BY <1>1, <2>1 DEF InsertedAt
<1>2. CASE i = p
  BY <1>2 DEF InsertedAt
<1>3. CASE i > p
  <2>1. i - 1 \in 1..Len(s) /\ i - 1 \in p..Len(s) /\ i = (i - 1) + 1 /\ i - 1 >= p
    BY <1>0, <1>3
  <2>2. t[i] = s[i-1]
    BY <2>1 DEF InsertedAt
  <2> QED
    BY <2>1, <2>2
<1>4. i < p \/ i = p \/ i > p
  BY <1>0
<1> QED
  BY <1>1, <1>2, <1>3, <1>4, Zenon

RemovedFrom(s, p, t) ==
  /\ t \in Seq(Event) /\ Len(t) = Len(s) - 1
  /\ \A j \in 1..Len(t) : (j < p => t[j] = s[j]) /\ (j >= p => t[j] = s[j+1])

LEMMA RemoveAtRemoves ==
  ASSUME NEW s \in Seq(Event), NEW p \in 1..Len(s)
  PROVE  RemovedFrom(s, p, RemoveAt(s, p))
<1> DEFINE t == RemoveAt(s, p)
<1>0. Len(s) \in Nat
  BY SeqFacts
<1>1. /\ t \in Seq(Event) /\ Len(t) = Len(s) - 1
      /\ \A j \in 1..Len(s)-1 : t[j] = IF j < p THEN s[j] ELSE s[j+1]
  BY RemovedAt
<1> HIDE DEF t
<1>2. ASSUME NEW j \in 1..Len(t) PROVE (j < p => t[j] = s[j]) /\ (j >= p => t[j] = s[j+1])
  <2>1. j \in 1..Len(s)-1 /\ (j >= p => ~(j < p))
    BY <1>0, <1>1
  <2> QED
    BY <1>1, <2>1
<1> QED
  BY <1>1, <1>2 DEF RemovedFrom, t

-----------------------------------------------------------------------------
(* The stored totals, each in terms of the one before: event e has weight  *)
(* w[e], and at the events "sets" the total is set to v[e].                *)
Prior(f, s, i) == IF i = 1 THEN 0 ELSE f[s[i-1]]

AddsUp(sets, s, w, v, f) ==
  \A i \in 1..Len(s) :
    f[s[i]] = IF s[i] \in sets THEN v[s[i]] ELSE w[s[i]] + Prior(f, s, i)

Amounts == [Event -> Int]

SameBut(f, g, e) == \A x \in Event : x # e => g[x] = f[x]

LEMMA PriorType ==
  ASSUME NEW s \in Seq(Event), NEW i \in 1..Len(s), NEW f \in Amounts
  PROVE  /\ Prior(f, s, i) \in Int /\ s[i] \in Event /\ f[s[i]] \in Int
         /\ i # 1 => i - 1 \in 1..Len(s) /\ s[i-1] \in Event /\ Prior(f, s, i) = f[s[i-1]]
<1>1. i # 1 => i - 1 \in 1..Len(s)
  BY SeqFacts
<1>2. \A k \in 1..Len(s) : s[k] \in Event /\ f[s[k]] \in Int
  BY SeqFacts DEF Amounts
<1> QED
  BY <1>1, <1>2 DEF Prior

(* One event gets another weight, and its bucket changes by the difference. *)
MovedBy(s, P, q, f, g) ==
  \A k \in 1..Len(s) : g[s[k]] = IF k \in P THEN f[s[k]] + q ELSE f[s[k]]

LEMMA ShiftAdds ==
  ASSUME NEW sets, NEW s \in Seq(Event), Distinct(s), NEW p \in 1..Len(s), NEW P, Run(sets, s, p, P),
         NEW w \in Amounts, NEW v \in Amounts, NEW f \in Amounts, NEW w2 \in Amounts, NEW g \in Amounts,
         NEW q \in Int, AddsUp(sets, s, w, v, f), s[p] \notin sets,
         SameBut(w, w2, s[p]), w2[s[p]] = w[s[p]] + q, MovedBy(s, P, q, f, g)
  PROVE  AddsUp(sets, s, w2, v, g)
<1>1. ASSUME NEW i \in 1..Len(s)
      PROVE  g[s[i]] = IF s[i] \in sets THEN v[s[i]] ELSE w2[s[i]] + Prior(g, s, i)
  <2>1. /\ f[s[i]] = IF s[i] \in sets THEN v[s[i]] ELSE w[s[i]] + Prior(f, s, i)
        /\ g[s[i]] = IF i \in P THEN f[s[i]] + q ELSE f[s[i]]
        /\ i # 1 => g[s[i-1]] = IF i - 1 \in P THEN f[s[i-1]] + q ELSE f[s[i-1]]
    BY PriorType DEF AddsUp, MovedBy
  <2>2. /\ Prior(f, s, i) \in Int /\ s[i] \in Event /\ f[s[i]] \in Int /\ w[s[i]] \in Int
        /\ Prior(g, s, i) = IF i = 1 THEN 0 ELSE g[s[i-1]]
        /\ Prior(f, s, i) = IF i = 1 THEN 0 ELSE f[s[i-1]]
        /\ i # 1 => f[s[i-1]] \in Int
    BY PriorType DEF Prior, Amounts
  <2>3. CASE s[i] \in sets
    <3>1. i \notin P
      BY <2>3 DEF Run
    <3> QED
      BY <2>1, <2>3, <3>1
  <2>4. CASE s[i] \notin sets /\ i = p
    <3>1. i \in P /\ i - 1 \notin P
      <4>1. i \in P /\ p \in Int /\ p <= Len(s)
        BY <2>4, SeqFacts DEF Run
      <4>2. i - 1 \notin p..Len(s)
        BY <2>4, <4>1
      <4> QED
        BY <4>1, <4>2 DEF Run
    <3>2. w2[s[i]] = w[s[i]] + q
      BY <2>4
    <3>3. Prior(g, s, i) = Prior(f, s, i)
      BY <2>1, <2>2, <3>1
    <3> QED
      BY <2>1, <2>2, <2>4, <3>1, <3>2, <3>3
  <2>5. CASE s[i] \notin sets /\ i # p
    <3>1. w2[s[i]] = w[s[i]]
      BY <2>2, <2>5 DEF SameBut, Distinct
    <3>2. i # 1 => (i \in P <=> i - 1 \in P)
      <4>1. CASE i > p
        <5>1. i \in p+1..Len(s)
          BY <4>1, SeqFacts
        <5> QED
          BY <2>5, <5>1 DEF Run
      <4>2. CASE i < p
        <5>1. i \notin p..Len(s) /\ i - 1 \notin p..Len(s)
          BY <4>2, SeqFacts
        <5> QED
          BY <5>1 DEF Run
      <4> QED
        BY <2>5, <4>1, <4>2
    <3>3. i = 1 => i \notin P
      <4>1. i = 1 => i \notin p..Len(s)
        BY <2>5
      <4> QED
        BY <4>1 DEF Run
    <3> QED
      BY <2>1, <2>2, <2>5, <3>1, <3>2, <3>3
  <2> QED
    BY <2>3, <2>4, <2>5
<1> QED
  BY <1>1 DEF AddsUp

(* An event without weight comes and goes without further notice; one that *)
(* sets the total comes last.                                              *)
LEMMA InsertAdds ==
  ASSUME NEW sets, NEW s \in Seq(Event), NEW p \in 1..Len(s)+1, NEW e \in Event, e \notin ToSet(s),
         NEW t, InsertedAt(s, p, e, t),
         NEW w \in Amounts, NEW v \in Amounts, NEW f \in Amounts, NEW w2 \in Amounts, NEW g \in Amounts,
         AddsUp(sets, s, w, v, f), SameBut(w, w2, e), SameBut(f, g, e), w2[e] = 0,
         IF e \in sets THEN p = Len(s) + 1 /\ g[e] = v[e]
                       ELSE g[e] = IF p = 1 THEN 0 ELSE f[s[p-1]]
  PROVE  AddsUp(sets, t, w2, v, g)
<1>0. Len(s) \in Nat /\ Len(t) = Len(s) + 1 /\ t \in Seq(Event)
  BY SeqFacts DEF InsertedAt
<1>1. \A k \in 1..Len(s) : s[k] \in Event /\ s[k] # e
  BY SeqFacts
<1>2. \A k \in 1..Len(s) : g[s[k]] = f[s[k]] /\ w2[s[k]] = w[s[k]]
  BY <1>1 DEF SameBut
<1>3. ASSUME NEW i \in 1..Len(t)
      PROVE  g[t[i]] = IF t[i] \in sets THEN v[t[i]] ELSE w2[t[i]] + Prior(g, t, i)
  <2>1. CASE i < p /\ i \in 1..Len(s) /\ t[i] = s[i]
    <3>1. Prior(g, t, i) = Prior(f, s, i)
      <4>1. i # 1 => i - 1 \in 1..Len(s) /\ i - 1 < p
        BY <1>0, <2>1
      <4>2. i # 1 => t[i-1] = s[i-1]
        BY <4>1 DEF InsertedAt
      <4> QED
        BY <1>2, <4>1, <4>2 DEF Prior
    <3>2. f[s[i]] = IF s[i] \in sets THEN v[s[i]] ELSE w[s[i]] + Prior(f, s, i)
      BY <2>1 DEF AddsUp
    <3> QED
      BY <1>2, <2>1, <3>1, <3>2
  <2>2. CASE i = p /\ t[i] = e
    <3>1. i # 1 => i - 1 \in 1..Len(s) /\ i - 1 < p
      BY <1>0, <2>2
    <3>2. i # 1 => t[i-1] = s[i-1]
      BY <3>1 DEF InsertedAt
    <3>3. Prior(g, t, i) = IF i = 1 THEN 0 ELSE f[s[i-1]]
      BY <1>2, <3>1, <3>2 DEF Prior
    <3>4. i # 1 => f[s[i-1]] \in Int
      BY <1>1, <3>1 DEF Amounts
    <3> QED
      BY <2>2, <3>3, <3>4
  <2>3. CASE \E j \in p..Len(s) : i = j + 1 /\ j \in 1..Len(s) /\ t[i] = s[j]
    <3>1. PICK j \in p..Len(s) : i = j + 1 /\ j \in 1..Len(s) /\ t[i] = s[j]
      BY <2>3
    <3>2. e \notin sets
      BY <1>0, <3>1
    <3>3. f[s[j]] = IF s[j] \in sets THEN v[s[j]] ELSE w[s[j]] + Prior(f, s, j)
      BY <3>1 DEF AddsUp
    <3>4. Prior(g, t, i) = g[t[j]]
      <4>1. i # 1 /\ i - 1 = j
        BY <1>0, <3>1
      <4> QED
        BY <4>1 DEF Prior
    <3>5. g[t[j]] = Prior(f, s, j)
      <4>1. CASE j = p
        BY <3>2, <4>1 DEF Prior, InsertedAt
      <4>2. CASE j # p
        <5>1. j - 1 \in 1..Len(s) /\ j - 1 >= p /\ (j - 1) + 1 = j /\ j # 1
          BY <1>0, <3>1, <4>2
        <5>2. t[j] = s[j-1]
          BY <5>1 DEF InsertedAt
        <5> QED
          BY <1>2, <5>1, <5>2 DEF Prior
      <4> QED
        BY <4>1, <4>2
    <3> QED
      BY <1>2, <3>1, <3>3, <3>4, <3>5
  <2> QED
    BY <2>1, <2>2, <2>3, InsertedPlaces
<1> QED
  BY <1>3 DEF AddsUp

LEMMA RemoveAdds ==
  ASSUME NEW sets, NEW s \in Seq(Event), Distinct(s), NEW p \in 1..Len(s), NEW t, RemovedFrom(s, p, t),
         NEW w \in Amounts, NEW v \in Amounts, NEW f \in Amounts,
         NEW w2 \in Amounts, NEW v2 \in Amounts, NEW g \in Amounts,
         AddsUp(sets, s, w, v, f), s[p] \notin sets, w[s[p]] = 0,
         SameBut(w, w2, s[p]), SameBut(v, v2, s[p]), SameBut(f, g, s[p])
  PROVE  AddsUp(sets, t, w2, v2, g)
<1>0. Len(s) \in Nat /\ Len(t) = Len(s) - 1 /\ t \in Seq(Event)
  BY SeqFacts DEF RemovedFrom
<1>1. \A k \in 1..Len(s) : s[k] \in Event
  BY SeqFacts
<1>2. \A k \in 1..Len(s) : k # p => g[s[k]] = f[s[k]] /\ w2[s[k]] = w[s[k]] /\ v2[s[k]] = v[s[k]]
  BY <1>1 DEF SameBut, Distinct
<1>3. ASSUME NEW i \in 1..Len(t)
      PROVE  g[t[i]] = IF t[i] \in sets THEN v2[t[i]] ELSE w2[t[i]] + Prior(g, t, i)
  <2>1. CASE i < p
    <3>1. t[i] = s[i] /\ i \in 1..Len(s) /\ i # p
      BY <1>0, <2>1 DEF RemovedFrom
    <3>2. i # 1 => i - 1 \in 1..Len(s) /\ i - 1 \in 1..Len(t) /\ i - 1 < p /\ i - 1 # p
      BY <1>0, <2>1
    <3>3. i # 1 => t[i-1] = s[i-1]
      BY <3>2 DEF RemovedFrom
    <3>4. Prior(g, t, i) = Prior(f, s, i)
      BY <1>2, <3>2, <3>3 DEF Prior
    <3>5. f[s[i]] = IF s[i] \in sets THEN v[s[i]] ELSE w[s[i]] + Prior(f, s, i)
      BY <3>1 DEF AddsUp
    <3> QED
      BY <1>2, <3>1, <3>4, <3>5
  <2>2. CASE i >= p
    <3> DEFINE j == i + 1
    <3>1. t[i] = s[j] /\ j \in 1..Len(s) /\ j # p /\ j # 1 /\ j - 1 = i /\ i \in 1..Len(s)
      BY <1>0, <2>2 DEF RemovedFrom
    <3> HIDE DEF j
    <3>2. f[s[j]] = IF s[j] \in sets THEN v[s[j]] ELSE w[s[j]] + f[s[i]]
      BY <3>1 DEF AddsUp, Prior
    <3>3. Prior(g, t, i) = f[s[i]]
      <4>1. CASE i = p
        <5>1. f[s[p]] = Prior(f, s, p)
          <6>1. f[s[p]] = 0 + Prior(f, s, p) /\ Prior(f, s, p) \in Int
            BY PriorType DEF AddsUp
          <6> QED
            BY <6>1
        <5>2. i # 1 => i - 1 \in 1..Len(s) /\ i - 1 \in 1..Len(t) /\ i - 1 < p /\ i - 1 # p
          BY <1>0, <4>1
        <5>3. i # 1 => t[i-1] = s[i-1]
          BY <5>2 DEF RemovedFrom
        <5> QED
          BY <1>2, <4>1, <5>1, <5>2, <5>3 DEF Prior
      <4>2. CASE i # p
        <5>1. i # 1 /\ i - 1 \in 1..Len(t) /\ i - 1 >= p /\ (i - 1) + 1 = i
          BY <1>0, <2>2, <4>2
        <5>2. t[i-1] = s[i]
          BY <5>1 DEF RemovedFrom
        <5> QED
          BY <1>2, <3>1, <4>2, <5>1, <5>2 DEF Prior
      <4> QED
        BY <4>1, <4>2
    <3> QED
      BY <1>2, <3>1, <3>2, <3>3
  <2>3. i < p \/ i >= p
    BY <1>0
  <2> QED
    BY <2>1, <2>2, <2>3, Zenon
<1> QED
  BY <1>3 DEF AddsUp

(* Two neighbours change places: "a", the first of them, and "b". *)
Swapped(s, p, t) ==
  /\ t \in Seq(Event) /\ Len(t) = Len(s)
  /\ t[p] = s[p+1] /\ t[p+1] = s[p]
  /\ \A k \in 1..Len(s) : k # p /\ k # p + 1 => t[k] = s[k]

(* All others keep their weights, and what follows in the bucket moves by  *)
(* the difference.                                                         *)
OthersMovedBy(s, p, P, q, f, g) ==
  \A k \in 1..Len(s) : k # p /\ k # p + 1 => g[s[k]] = IF k \in P THEN f[s[k]] + q ELSE f[s[k]]

OthersKeep(s, p, w, w2) == \A k \in 1..Len(s) : k # p /\ k # p + 1 => w2[s[k]] = w[s[k]]

LEMMA SwapAdds ==
  ASSUME NEW sets, NEW s \in Seq(Event), NEW p \in 1..Len(s)-1, NEW t, Swapped(s, p, t),
         NEW P, Run(sets, s, p + 2, P),
         NEW w \in Amounts, NEW v \in Amounts, NEW f \in Amounts, NEW w2 \in Amounts, NEW g \in Amounts,
         NEW q \in Int, AddsUp(sets, s, w, v, f), OthersKeep(s, p, w, w2), OthersMovedBy(s, p, P, q, f, g),
         g[s[p+1]] = IF s[p+1] \in sets THEN v[s[p+1]] ELSE w2[s[p+1]] + Prior(f, s, p),
         g[s[p]] = IF s[p] \in sets THEN v[s[p]] ELSE w2[s[p]] + g[s[p+1]],
         g[s[p]] = f[s[p+1]] + q
  PROVE  AddsUp(sets, t, w2, v, g)
<1>0. Len(s) \in Nat /\ Len(t) = Len(s) /\ p \in 1..Len(s) /\ p + 1 \in 1..Len(s) /\ p \in Nat
  BY SeqFacts DEF Swapped
<1>1. \A k \in 1..Len(s) : s[k] \in Event /\ f[s[k]] \in Int /\ w[s[k]] \in Int
  BY SeqFacts DEF Amounts
<1>2. \A k \in P : k \in p+2..Len(s)
  BY DEF Run
<1>3. ASSUME NEW i \in 1..Len(t)
      PROVE  g[t[i]] = IF t[i] \in sets THEN v[t[i]] ELSE w2[t[i]] + Prior(g, t, i)
  <2>1. CASE i < p
    <3>1. i \in 1..Len(s) /\ i # p /\ i # p + 1 /\ i \notin P
      BY <1>0, <1>2, <2>1
    <3>2. i # 1 => i - 1 \in 1..Len(s) /\ i - 1 # p /\ i - 1 # p + 1 /\ i - 1 \notin P
      BY <1>0, <1>2, <2>1
    <3>3. t[i] = s[i] /\ g[s[i]] = f[s[i]] /\ w2[s[i]] = w[s[i]]
      BY <3>1 DEF Swapped, OthersMovedBy, OthersKeep
    <3>4. i # 1 => t[i-1] = s[i-1] /\ g[s[i-1]] = f[s[i-1]]
      BY <3>2 DEF Swapped, OthersMovedBy
    <3>5. Prior(g, t, i) = Prior(f, s, i)
      BY <3>4 DEF Prior
    <3> QED
      BY <3>1, <3>3, <3>5 DEF AddsUp
  <2>2. CASE i = p
    <3>1. i # 1 => i - 1 \in 1..Len(s) /\ i - 1 # p /\ i - 1 # p + 1 /\ i - 1 \notin P
      BY <1>0, <1>2, <2>2
    <3>2. i # 1 => t[i-1] = s[i-1] /\ g[s[i-1]] = f[s[i-1]]
      BY <3>1 DEF Swapped, OthersMovedBy
    <3>3. Prior(g, t, i) = Prior(f, s, p)
      BY <2>2, <3>2 DEF Prior
    <3>4. t[i] = s[p+1]
      BY <2>2 DEF Swapped
    <3> QED
      BY <3>3, <3>4
  <2>3. CASE i = p + 1
    <3>1. i # 1 /\ i - 1 = p
      BY <1>0, <2>3
    <3>2. t[i] = s[p] /\ t[p] = s[p+1]
      BY <2>3 DEF Swapped
    <3>3. Prior(g, t, i) = g[s[p+1]]
      BY <3>1, <3>2 DEF Prior
    <3> QED
      BY <3>2, <3>3
  <2>4. CASE i = p + 2
    <3>1. i \in 1..Len(s) /\ i # p /\ i # p + 1 /\ i # 1 /\ i - 1 = p + 1 /\ p + 2 <= Len(s)
      BY <1>0, <2>4
    <3>2. t[i] = s[i] /\ w2[s[i]] = w[s[i]] /\ g[s[i]] = IF i \in P THEN f[s[i]] + q ELSE f[s[i]]
      BY <3>1 DEF Swapped, OthersMovedBy, OthersKeep
    <3>3. i \in P <=> s[i] \notin sets
      BY <2>4, <3>1 DEF Run
    <3>4. Prior(g, t, i) = f[s[p+1]] + q
      BY <3>1 DEF Prior, Swapped
    <3>5. f[s[i]] = IF s[i] \in sets THEN v[s[i]] ELSE w[s[i]] + f[s[p+1]]
      BY <3>1 DEF AddsUp, Prior
    <3> QED
      BY <1>0, <1>1, <3>1, <3>2, <3>3, <3>4, <3>5
  <2>5. CASE i > p + 2
    <3>1. /\ i \in 1..Len(s) /\ i # p /\ i # p + 1 /\ i # 1 /\ i \in (p+2)+1..Len(s)
          /\ i - 1 \in 1..Len(s) /\ i - 1 # p /\ i - 1 # p + 1
      BY <1>0, <2>5
    <3>2. t[i] = s[i] /\ w2[s[i]] = w[s[i]] /\ g[s[i]] = IF i \in P THEN f[s[i]] + q ELSE f[s[i]]
      BY <3>1 DEF Swapped, OthersMovedBy, OthersKeep
    <3>3. t[i-1] = s[i-1] /\ g[s[i-1]] = IF i - 1 \in P THEN f[s[i-1]] + q ELSE f[s[i-1]]
      BY <3>1 DEF Swapped, OthersMovedBy
    <3>4. i \in P <=> i - 1 \in P /\ s[i] \notin sets
      BY <3>1 DEF Run
    <3>5. Prior(g, t, i) = g[s[i-1]]
      BY <3>1, <3>3 DEF Prior
    <3>6. f[s[i]] = IF s[i] \in sets THEN v[s[i]] ELSE w[s[i]] + f[s[i-1]]
      BY <3>1 DEF AddsUp, Prior
    <3>7. f[s[i-1]] \in Int /\ w[s[i]] \in Int
      BY <1>1, <3>1
    <3> QED
      BY <3>2, <3>3, <3>4, <3>5, <3>6, <3>7
  <2>6. i < p \/ i = p \/ i = p + 1 \/ i = p + 2 \/ i > p + 2
    BY <1>0
  <2> QED
    BY <2>1, <2>2, <2>3, <2>4, <2>5, <2>6, Zenon
<1> QED
  BY <1>3 DEF AddsUp

(* An event comes at place p, and the run Q behind it, in the line as it   *)
(* was, moves by its weight; or it goes, and the run moves back.           *)
RunBehind(p, Q) == {p} \cup {k + 1 : k \in Q}

LEMMA EnterAdds ==
  ASSUME NEW sets, NEW s \in Seq(Event), NEW p \in 1..Len(s)+1, NEW e \in Event, e \notin ToSet(s), e \notin sets,
         NEW t, InsertedAt(s, p, e, t), Distinct(t), NEW Q, Q \subseteq p..Len(s), Run(sets, t, p, RunBehind(p, Q)),
         NEW w \in Amounts, NEW v \in Amounts, NEW f \in Amounts, NEW g \in Amounts,
         AddsUp(sets, s, w, v, f), MovedBy(s, Q, w[e], f, g),
         g[e] = w[e] + IF p = 1 THEN 0 ELSE f[s[p-1]]
  PROVE  AddsUp(sets, t, w, v, g)
<1> DEFINE prior == IF p = 1 THEN 0 ELSE f[s[p-1]]
           w0 == [w EXCEPT ![e] = 0]
           f0 == [f EXCEPT ![e] = prior]
<1>0. Len(s) \in Nat /\ Len(t) = Len(s) + 1 /\ t \in Seq(Event) /\ p \in 1..Len(t) /\ t[p] = e
  BY SeqFacts DEF InsertedAt
<1>1. prior \in Int
  <2>1. p # 1 => p - 1 \in 1..Len(s)
    BY <1>0
  <2>2. p # 1 => s[p-1] \in Event
    BY <2>1, SeqFacts
  <2> QED
    BY <2>2 DEF Amounts
<1> HIDE DEF prior
<1>2. /\ w0 \in Amounts /\ w0[e] = 0 /\ SameBut(w, w0, e) /\ SameBut(w0, w, e)
      /\ f0 \in Amounts /\ f0[e] = prior /\ SameBut(f, f0, e)
  BY <1>1 DEF Amounts, SameBut
<1> HIDE DEF w0, f0
<1>3. AddsUp(sets, t, w0, v, f0)
  <2>1. IF e \in sets THEN p = Len(s) + 1 /\ f0[e] = v[e] ELSE f0[e] = IF p = 1 THEN 0 ELSE f[s[p-1]]
    BY <1>2 DEF prior
  <2> QED
    BY <1>2, <2>1, InsertAdds
<1>4. MovedBy(t, RunBehind(p, Q), w[e], f0, g)
  <2>1. SUFFICES ASSUME NEW i \in 1..Len(t)
                 PROVE  g[t[i]] = IF i \in RunBehind(p, Q) THEN f0[t[i]] + w[e] ELSE f0[t[i]]
    BY DEF MovedBy
  <2>2. \A j \in 1..Len(s) : s[j] # e /\ s[j] \in Event
    BY SeqFacts
  <2>3. \A j \in 1..Len(s) : f0[s[j]] = f[s[j]] /\ g[s[j]] = IF j \in Q THEN f[s[j]] + w[e] ELSE f[s[j]]
    BY <1>2, <2>2 DEF SameBut, MovedBy
  <2>4. CASE i < p /\ i \in 1..Len(s) /\ t[i] = s[i]
    <3>1. \A k \in Q : k \in Int /\ k >= p
      BY <1>0
    <3>2. i \notin Q /\ i # p /\ \A k \in Q : i # k + 1
      BY <1>0, <2>4, <3>1
    <3>3. i \notin RunBehind(p, Q)
      BY <3>2 DEF RunBehind
    <3> QED
      BY <2>3, <2>4, <3>2, <3>3
  <2>5. CASE i = p /\ t[i] = e
    <3>1. i \in RunBehind(p, Q)
      BY <2>5 DEF RunBehind
    <3>2. g[e] = w[e] + prior /\ w[e] \in Int
      BY DEF prior, Amounts
    <3>3. g[e] = prior + w[e]
      BY <1>1, <3>2
    <3> QED
      BY <1>2, <2>5, <3>1, <3>3
  <2>6. CASE \E j \in p..Len(s) : i = j + 1 /\ j \in 1..Len(s) /\ t[i] = s[j]
    <3>1. PICK j \in p..Len(s) : i = j + 1 /\ j \in 1..Len(s) /\ t[i] = s[j]
      BY <2>6
    <3>2. i \in RunBehind(p, Q) <=> j \in Q
      BY <1>0, <3>1 DEF RunBehind
    <3> QED
      BY <2>3, <3>1, <3>2
  <2> QED
    BY <2>4, <2>5, <2>6, InsertedPlaces
<1>5. w[t[p]] = w0[t[p]] + w[e] /\ w[e] \in Int /\ t[p] \notin sets /\ SameBut(w0, w, t[p])
  BY <1>0, <1>2 DEF Amounts
<1> HIDE DEF RunBehind
<1> QED
  BY <1>0, <1>2, <1>3, <1>4, <1>5, ShiftAdds

LEMMA LeaveAdds ==
  ASSUME NEW sets, NEW s \in Seq(Event), Distinct(s), NEW p \in 1..Len(s), NEW t, RemovedFrom(s, p, t),
         NEW P, Run(sets, s, p, P),
         NEW w \in Amounts, NEW v \in Amounts, NEW f \in Amounts,
         NEW w2 \in Amounts, NEW v2 \in Amounts, NEW g \in Amounts,
         AddsUp(sets, s, w, v, f), s[p] \notin sets,
         SameBut(w, w2, s[p]), SameBut(v, v2, s[p]),
         \A k \in 1..Len(s) : k # p => g[s[k]] = IF k \in P THEN f[s[k]] + (-w[s[p]]) ELSE f[s[k]]
  PROVE  AddsUp(sets, t, w2, v2, g)
<1> DEFINE e == s[p]
           w0 == [w EXCEPT ![e] = 0]
           f0 == [x \in Event |-> IF \E k \in P : s[k] = x THEN f[x] + (-w[e]) ELSE f[x]]
<1>0. e \in Event /\ w[e] \in Int /\ -w[e] \in Int
  <2>1. e \in Event
    BY SeqFacts
  <2> HIDE DEF e
  <2>2. w[e] \in Int
    BY <2>1 DEF Amounts
  <2> QED
    BY <2>1, <2>2
<1>1. w0 \in Amounts /\ w0[e] = w[e] + (-w[e]) /\ w0[e] = 0 /\ SameBut(w, w0, e) /\ SameBut(w0, w2, e)
  <2> HIDE DEF e
  <2>1. w0 \in Amounts /\ w0[e] = 0 /\ SameBut(w, w0, e)
    BY <1>0 DEF Amounts, SameBut
  <2>2. w[e] + (-w[e]) = 0
    BY <1>0
  <2>3. SameBut(w, w2, e)
    BY DEF e
  <2>4. SameBut(w0, w2, e)
    BY <2>1, <2>3 DEF SameBut
  <2> QED
    BY <2>1, <2>2, <2>4
<1>2. f0 \in Amounts /\ MovedBy(s, P, -w[e], f, f0)
  <2>1. f0 \in Amounts
    <3>1. \A x \in Event : f[x] \in Int /\ f[x] + (-w[e]) \in Int
      <4>1. \A x \in Event : f[x] \in Int
        BY DEF Amounts
      <4> HIDE DEF e
      <4> QED
        BY <1>0, <4>1
    <3> QED
      BY <3>1 DEF Amounts
  <2>2. \A k \in P : k \in 1..Len(s)
    <3>1. \A k \in P : k \in p..Len(s)
      BY DEF Run
    <3> QED
      BY <3>1, SeqFacts
  <2>3. \A k \in 1..Len(s) : (\E j \in P : s[j] = s[k]) <=> k \in P
    BY <2>2 DEF Distinct
  <2>4. \A k \in 1..Len(s) : s[k] \in Event
    BY SeqFacts
  <2> QED
    BY <2>1, <2>3, <2>4 DEF MovedBy
<1> HIDE DEF w0, f0
<1>3. AddsUp(sets, s, w0, v, f0)
  <2>1. -w[e] \in Int
    BY <1>0
  <2> QED
    BY <1>1, <1>2, <2>1, ShiftAdds
<1> DEFINE f1 == [f0 EXCEPT ![e] = g[e]]
<1>4. f1 \in Amounts /\ SameBut(f0, f1, e)
  BY <1>0, <1>2 DEF Amounts, SameBut
<1>5. \A k \in 1..Len(s) : k # p => g[s[k]] = f1[s[k]]
  <2>1. \A k \in 1..Len(s) : s[k] \in Event /\ (k # p => s[k] # e)
    BY SeqFacts DEF Distinct
  <2>2. \A k \in 1..Len(s) : k # p => f1[s[k]] = f0[s[k]]
    BY <1>4, <2>1 DEF SameBut
  <2> QED
    BY <1>2, <2>2 DEF MovedBy
<1> HIDE DEF f1
<1>6. AddsUp(sets, t, w2, v2, f1)
  BY <1>1, <1>2, <1>3, <1>4, RemoveAdds
<1>7. \A k \in 1..Len(t) : t[k] \in Event /\ g[t[k]] = f1[t[k]]
  <2>1. SUFFICES ASSUME NEW k \in 1..Len(t) PROVE t[k] \in Event /\ g[t[k]] = f1[t[k]]
    OBVIOUS
  <2>2. Len(s) \in Nat /\ Len(t) = Len(s) - 1
    BY SeqFacts DEF RemovedFrom
  <2>3. CASE k < p
    <3>1. k \in 1..Len(s) /\ k # p
      BY <2>2, <2>3
    <3> QED
      BY <1>5, <2>3, <3>1, SeqFacts DEF RemovedFrom
  <2>4. CASE k >= p
    <3>1. k + 1 \in 1..Len(s) /\ k + 1 # p
      BY <2>2, <2>4
    <3> QED
      BY <1>5, <2>4, <3>1, SeqFacts DEF RemovedFrom
  <2>5. k < p \/ k >= p
    BY <2>2
  <2> QED
    BY <2>3, <2>4, <2>5
<1>8. \A i \in 1..Len(t) : Prior(g, t, i) = Prior(f1, t, i)
  <2>1. Len(t) \in Nat
    BY SeqFacts DEF RemovedFrom
  <2>2. \A i \in 1..Len(t) : i # 1 => i - 1 \in 1..Len(t)
    BY <2>1
  <2> QED
    BY <1>7, <2>2 DEF Prior
<1> QED
  BY <1>6, <1>7, <1>8 DEF AddsUp

-----------------------------------------------------------------------------
(* The timeline at rest: the line in order, every stored total what it     *)
(* stands for, and in the list of each type the events of that type.       *)
Timelines ==
  [line : Seq(Event), dt : [Event -> Date], qty : Amounts, val : Amounts, oh : Amounts, cum : Amounts,
   chain : [2..4 -> Seq(Event)]]

Made(T) == [e \in Event |-> Produced(T.qty[e])]

InOrder(T, s) == \A i, j \in 1..Len(s) : i < j => Before(T, s[i], s[j])

Totals(T) ==
  /\ AddsUp(SetEvent, T.line, T.qty, T.val, T.oh)
  /\ AddsUp({}, T.line, Made(T), T.val, T.cum)

Lists(s, c, t) == Distinct(c) /\ \A e \in Event : e \in ToSet(c) <=> e \in ToSet(s) /\ Type(e) = t

Chained(T) == \A t \in 2..4 : Lists(T.line, T.chain[t], t)

NoWeight(T) == \A e \in Fixed : T.qty[e] = 0

Good(T) == T \in Timelines /\ InOrder(T, T.line) /\ Totals(T) /\ Chained(T) /\ NoWeight(T)

LEMMA Fields ==
  ASSUME NEW T \in Timelines
  PROVE  /\ T.line \in Seq(Event) /\ T.dt \in [Event -> Date] /\ T.dt \in [Event -> Int]
         /\ T.qty \in Amounts /\ T.qty \in [Event -> Int] /\ T.val \in Amounts
         /\ T.oh \in Amounts /\ T.cum \in Amounts /\ Made(T) \in Amounts /\ T.chain \in [2..4 -> Seq(Event)]
<1>1. /\ T.line \in Seq(Event) /\ T.dt \in [Event -> Date] /\ T.qty \in Amounts /\ T.val \in Amounts
      /\ T.oh \in Amounts /\ T.cum \in Amounts /\ T.chain \in [2..4 -> Seq(Event)]
  BY DEF Timelines
<1>2. T.dt \in [Event -> Int]
  BY <1>1 DEF Date
<1>3. Made(T) \in Amounts
  BY <1>1 DEF Made, Amounts, Produced
<1> QED
  BY <1>1, <1>2, <1>3 DEF Amounts

LEMMA Types == \A e \in Event : /\ Type(e) \in 1..4
                                /\ Type(e) \in 2..4 <=> e \in Fixed
                                /\ Type(e) = 2 <=> e \in SetEvent
                                /\ Type(e) = 1 <=> e \in Change
BY EventAssumption DEF Type, Event, Fixed

LEMMA OrderIsDistinct ==
  ASSUME NEW T \in Timelines, NEW s \in Seq(Event), InOrder(T, s)
  PROVE  Distinct(s)
<1>1. SUFFICES ASSUME NEW i \in 1..Len(s), NEW j \in 1..Len(s), s[i] = s[j], i < j PROVE FALSE
  <2>1. \A i, j \in 1..Len(s) : i < j \/ j < i \/ i = j
    BY SeqFacts
  <2> QED
    BY <2>1 DEF Distinct
<1>2. Before(T, s[i], s[i]) /\ s[i] \in Event
  BY <1>1, SeqFacts DEF InOrder
<1> QED
  BY <1>2, Fields, Ordering

LEMMA SameOrder ==
  ASSUME NEW T, NEW U, U.dt = T.dt, U.qty = T.qty
  PROVE  /\ \A e, f : Before(U, e, f) <=> Before(T, e, f)
         /\ \A s : InOrder(T, s) => InOrder(U, s)
<1>1. \A e, f : Before(U, e, f) <=> Before(T, e, f)
  BY DEF Before
<1> QED
  BY <1>1 DEF InOrder

LEMMA InsertedSet ==
  ASSUME NEW s \in Seq(Event), Distinct(s), NEW p \in 1..Len(s)+1, NEW e \in Event, e \notin ToSet(s),
         NEW t, InsertedAt(s, p, e, t)
  PROVE  Distinct(t) /\ \A x : x \in ToSet(t) <=> x \in ToSet(s) \/ x = e
<1>0. Len(s) \in Nat /\ t \in Seq(Event) /\ Len(t) = Len(s) + 1 /\ t[p] = e
  BY SeqFacts DEF InsertedAt
<1>1. \A j \in 1..Len(s) : s[j] \in Event /\ s[j] # e
  BY SeqFacts
<1>2. Distinct(t)
  <2>1. SUFFICES ASSUME NEW i \in 1..Len(t), NEW j \in 1..Len(t), t[i] = t[j], i < j PROVE FALSE
    <3>1. \A i, j \in 1..Len(t) : i < j \/ j < i \/ i = j
      BY <1>0
    <3> QED
      BY <3>1 DEF Distinct
  <2>2. \/ i < p /\ i \in 1..Len(s) /\ t[i] = s[i]
        \/ i = p /\ t[i] = e
        \/ \E k \in p..Len(s) : i = k + 1 /\ k \in 1..Len(s) /\ t[i] = s[k]
    BY InsertedPlaces
  <2>3. \/ j < p /\ j \in 1..Len(s) /\ t[j] = s[j]
        \/ j = p /\ t[j] = e
        \/ \E k \in p..Len(s) : j = k + 1 /\ k \in 1..Len(s) /\ t[j] = s[k]
    BY InsertedPlaces
  <2>4. \A a, b \in 1..Len(s) : s[a] = s[b] => a = b
    BY DEF Distinct
  <2> QED
    BY <1>0, <1>1, <2>1, <2>2, <2>3, <2>4
<1>3. ASSUME NEW x \in ToSet(t) PROVE x \in ToSet(s) \/ x = e
  <2>1. PICK i \in 1..Len(t) : t[i] = x
    BY <1>0, SeqFacts
  <2>2. \/ i \in 1..Len(s) /\ t[i] = s[i]
        \/ t[i] = e
        \/ \E k \in 1..Len(s) : t[i] = s[k]
    BY InsertedPlaces
  <2> QED
    BY <2>1, <2>2, SeqFacts
<1>4. e \in ToSet(t)
  <2>1. p \in 1..Len(t)
    BY <1>0
  <2> QED
    BY <1>0, <2>1, SeqFacts
<1>5. ASSUME NEW x \in ToSet(s) PROVE x \in ToSet(t)
  <2>1. PICK j \in 1..Len(s) : s[j] = x
    BY SeqFacts
  <2>2. (j < p => t[j] = s[j]) /\ (j >= p => t[j+1] = s[j])
    BY DEF InsertedAt
  <2>3. j \in 1..Len(t) /\ j + 1 \in 1..Len(t) /\ (j < p \/ j >= p)
    BY <1>0
  <2> QED
    BY <1>0, <2>1, <2>2, <2>3, SeqFacts
<1> QED
  BY <1>2, <1>3, <1>4, <1>5

LEMMA RemovedSet ==
  ASSUME NEW s \in Seq(Event), Distinct(s), NEW p \in 1..Len(s), NEW t, RemovedFrom(s, p, t)
  PROVE  Distinct(t) /\ \A x : x \in ToSet(t) <=> x \in ToSet(s) /\ x # s[p]
<1>0. Len(s) \in Nat /\ t \in Seq(Event) /\ Len(t) = Len(s) - 1
  BY SeqFacts DEF RemovedFrom
<1>1. ASSUME NEW i \in 1..Len(t)
      PROVE  \E k \in 1..Len(s) : k # p /\ t[i] = s[k] /\ ((i < p /\ k = i) \/ (i >= p /\ k = i + 1))
  <2>1. i < p => i \in 1..Len(s) /\ i # p /\ t[i] = s[i]
    BY <1>0 DEF RemovedFrom
  <2>2. i >= p => i + 1 \in 1..Len(s) /\ i + 1 # p /\ t[i] = s[i+1]
    BY <1>0 DEF RemovedFrom
  <2>3. CASE i < p
    <3> WITNESS i \in 1..Len(s)
    <3> QED
      BY <2>1, <2>3
  <2>4. CASE i >= p
    <3> DEFINE k == i + 1
    <3>1. k \in 1..Len(s) /\ k # p /\ t[i] = s[k] /\ i >= p /\ k = i + 1
      BY <2>2, <2>4
    <3> HIDE DEF k
    <3> QED
      BY <3>1
  <2>5. i < p \/ i >= p
    BY <1>0
  <2> QED
    BY <2>3, <2>4, <2>5, Zenon
<1>2. Distinct(t)
  <2>1. SUFFICES ASSUME NEW i \in 1..Len(t), NEW j \in 1..Len(t), t[i] = t[j] PROVE i = j
    BY DEF Distinct
  <2>2. PICK k \in 1..Len(s) : k # p /\ t[i] = s[k] /\ ((i < p /\ k = i) \/ (i >= p /\ k = i + 1))
    BY <1>1
  <2>3. PICK m \in 1..Len(s) : m # p /\ t[j] = s[m] /\ ((j < p /\ m = j) \/ (j >= p /\ m = j + 1))
    BY <1>1
  <2>4. k = m
    BY <2>1, <2>2, <2>3 DEF Distinct
  <2> QED
    BY <1>0, <2>2, <2>3, <2>4
<1>3. ASSUME NEW x \in ToSet(t) PROVE x \in ToSet(s) /\ x # s[p]
  <2>1. PICK i \in 1..Len(t) : t[i] = x
    BY <1>0, SeqFacts
  <2>2. PICK k \in 1..Len(s) : k # p /\ t[i] = s[k]
    BY <1>1
  <2> QED
    BY <2>1, <2>2, SeqFacts DEF Distinct
<1>4. ASSUME NEW x \in ToSet(s), x # s[p] PROVE x \in ToSet(t)
  <2>1. PICK k \in 1..Len(s) : s[k] = x
    BY SeqFacts
  <2>2. CASE k < p
    <3>1. k \in 1..Len(t) /\ t[k] = s[k]
      BY <1>0, <2>2 DEF RemovedFrom
    <3> QED
      BY <1>0, <2>1, <3>1, SeqFacts
  <2>3. CASE k > p
    <3>1. k - 1 \in 1..Len(t) /\ k - 1 >= p /\ (k - 1) + 1 = k
      BY <1>0, <2>3
    <3>2. t[k-1] = s[k]
      BY <3>1 DEF RemovedFrom
    <3> QED
      BY <1>0, <2>1, <3>1, <3>2, SeqFacts
  <2>4. k < p \/ k > p
    BY <1>0, <1>4, <2>1
  <2> QED
    BY <2>2, <2>3, <2>4
<1> QED
  BY <1>2, <1>3, <1>4

-----------------------------------------------------------------------------
(* insert(): the place is found, and e comes after all that are before it. *)
IsPlaceFor(T, e, start, at) ==
  /\ at \in 0..start
  /\ at = 0 \/ ~Before(T, e, T.line[at])
  /\ \A k \in at+1..start : Before(T, e, T.line[k])

LEMMA PlaceExists ==
  ASSUME NEW T, NEW e, NEW start \in Nat
  PROVE  \E at \in 0..start : IsPlaceFor(T, e, start, at)
<1> DEFINE S == {i \in 0..start : \A k \in i+1..start : Before(T, e, T.line[k])}
<1>1. S \in SUBSET Nat /\ start \in S
  <2>1. \A k \in start+1..start : FALSE
    OBVIOUS
  <2> QED
    BY <2>1
<1>2. PICK m \in S : \A k \in S : m <= k
  <2> HIDE DEF S
  <2> QED
    BY <1>1, SmallestOf
<1>3. ASSUME m # 0, Before(T, e, T.line[m]) PROVE FALSE
  <2>1. m - 1 \in 0..start /\ ~(m <= m - 1)
    BY <1>2, <1>3
  <2>2. \A k \in (m-1)+1..start : k = m \/ k \in m+1..start
    BY <1>2
  <2>3. m - 1 \in S
    BY <1>2, <1>3, <2>1, <2>2
  <2> QED
    BY <1>2, <2>1, <2>3
<1> QED
  BY <1>2, <1>3 DEF IsPlaceFor

SplitAt(T, e, at) ==
  /\ at \in 0..Len(T.line)
  /\ \A k \in 1..at : Before(T, T.line[k], e)
  /\ \A k \in at+1..Len(T.line) : Before(T, e, T.line[k])

LEMMA PlaceSplits ==
  ASSUME NEW T \in Timelines, InOrder(T, T.line), NEW e \in Event, e \notin ToSet(T.line),
         NEW start \in 0..Len(T.line), start < Len(T.line) => start # 0 /\ Before(T, e, T.line[start]),
         NEW at \in 0..start, IsPlaceFor(T, e, start, at)
  PROVE  SplitAt(T, e, at)
<1> DEFINE s == T.line
<1>0. s \in Seq(Event) /\ Len(s) \in Nat /\ T.dt \in [Event -> Int] /\ T.qty \in [Event -> Int] /\ start \in 0..Len(s)
  BY Fields, SeqFacts
<1>1. \A k \in 1..Len(s) : s[k] \in Event /\ s[k] # e
  BY <1>0, SeqFacts
<1>2. \A i, j \in 1..Len(s) : i < j => Before(T, s[i], s[j])
  BY DEF InOrder
<1> HIDE DEF s
<1>3. \A k \in 1..at : k \in 1..Len(s) /\ k <= at
  BY <1>0
<1>4. ASSUME NEW k \in 1..at PROVE Before(T, s[k], e)
  <2>1. at \in 1..Len(s) /\ k \in 1..Len(s) /\ at # 0 /\ (k < at \/ k = at)
    BY <1>0, <1>3
  <2>2. Before(T, s[at], e)
    <3>1. ~Before(T, e, s[at]) /\ s[at] \in Event /\ s[at] # e
      BY <1>1, <2>1 DEF IsPlaceFor, s
    <3> QED
      BY <1>0, <3>1, Ordering
  <2>3. CASE k < at
    <3>1. Before(T, s[k], s[at]) /\ s[k] \in Event /\ s[at] \in Event
      BY <1>1, <1>2, <2>1, <2>3
    <3> QED
      BY <1>0, <2>2, <3>1, Ordering
  <2> QED
    BY <2>1, <2>2, <2>3
<1>5. ASSUME NEW k \in at+1..Len(s) PROVE Before(T, e, s[k])
  <2>1. k \in 1..Len(s) /\ (k \in at+1..start \/ (start < Len(s) /\ start < k))
    BY <1>0
  <2>2. CASE k \in at+1..start
    BY <2>2 DEF IsPlaceFor, s
  <2>3. CASE start < Len(s) /\ start < k
    <3>1. start \in 1..Len(s) /\ Before(T, e, s[start])
      BY <1>0, <2>3 DEF s
    <3>2. Before(T, s[start], s[k]) /\ s[start] \in Event /\ s[k] \in Event
      BY <1>1, <1>2, <2>1, <2>3, <3>1
    <3> QED
      BY <1>0, <3>1, <3>2, Ordering
  <2> QED
    BY <2>1, <2>2, <2>3
<1>6. at \in 0..Len(s)
  BY <1>0
<1> QED
  BY <1>4, <1>5, <1>6 DEF SplitAt, s

LEMMA InsertKeepsOrder ==
  ASSUME NEW T \in Timelines, InOrder(T, T.line), NEW e \in Event, NEW at, SplitAt(T, e, at),
         NEW t, InsertedAt(T.line, at + 1, e, t)
  PROVE  InOrder(T, t)
<1> DEFINE s == T.line
           p == at + 1
<1>0. s \in Seq(Event) /\ Len(s) \in Nat /\ at \in 0..Len(s) /\ p \in 1..Len(s)+1
  BY Fields, SeqFacts DEF SplitAt
<1>1. \A i, j \in 1..Len(s) : i < j => Before(T, s[i], s[j])
  BY DEF InOrder
<1>2. /\ \A k \in 1..Len(s) : k < p => Before(T, s[k], e)
      /\ \A k \in p..Len(s) : Before(T, e, s[k])
  BY <1>0 DEF SplitAt
<1> HIDE DEF s, p
<1>3. InsertedAt(s, p, e, t) /\ Len(t) = Len(s) + 1
  BY DEF InsertedAt, s, p
<1>4. SUFFICES ASSUME NEW i \in 1..Len(t), NEW j \in 1..Len(t), i < j
               PROVE  Before(T, t[i], t[j])
  BY DEF InOrder
<1>5. \/ i < p /\ i \in 1..Len(s) /\ t[i] = s[i]
      \/ i = p /\ t[i] = e
      \/ \E k \in p..Len(s) : i = k + 1 /\ k \in 1..Len(s) /\ t[i] = s[k]
  BY <1>0, <1>3, InsertedPlaces
<1>6. \/ j < p /\ j \in 1..Len(s) /\ t[j] = s[j]
      \/ j = p /\ t[j] = e
      \/ \E k \in p..Len(s) : j = k + 1 /\ k \in 1..Len(s) /\ t[j] = s[k]
  BY <1>0, <1>3, InsertedPlaces
<1>7. CASE i < p /\ i \in 1..Len(s) /\ t[i] = s[i]
  <2>1. CASE j < p /\ j \in 1..Len(s) /\ t[j] = s[j]
    BY <1>1, <1>4, <1>7, <2>1
  <2>2. CASE j = p /\ t[j] = e
    BY <1>2, <1>7, <2>2
  <2>3. CASE \E k \in p..Len(s) : j = k + 1 /\ k \in 1..Len(s) /\ t[j] = s[k]
    <3>1. PICK k \in p..Len(s) : j = k + 1 /\ k \in 1..Len(s) /\ t[j] = s[k]
      BY <2>3
    <3>2. i < k
      BY <1>0, <1>7, <3>1
    <3> QED
      BY <1>1, <1>7, <3>1, <3>2
  <2> QED
    BY <1>6, <2>1, <2>2, <2>3
<1>8. CASE i = p /\ t[i] = e
  <2>1. PICK k \in p..Len(s) : j = k + 1 /\ k \in 1..Len(s) /\ t[j] = s[k]
    BY <1>0, <1>4, <1>6, <1>8
  <2> QED
    BY <1>2, <1>8, <2>1
<1>9. CASE \E k \in p..Len(s) : i = k + 1 /\ k \in 1..Len(s) /\ t[i] = s[k]
  <2>1. PICK k \in p..Len(s) : i = k + 1 /\ k \in 1..Len(s) /\ t[i] = s[k]
    BY <1>9
  <2>2. PICK m \in p..Len(s) : j = m + 1 /\ m \in 1..Len(s) /\ t[j] = s[m]
    BY <1>0, <1>4, <1>6, <2>1
  <2>3. k < m
    BY <1>4, <2>1, <2>2
  <2> QED
    BY <1>1, <2>1, <2>2, <2>3
<1> QED
  BY <1>5, <1>7, <1>8, <1>9

(* The list of its type: e is linked in somewhere, and in front when it is *)
(* not earlier than the first of the list, which is the last one in time.  *)
InFront(T, e) == T.chain[Type(e)] = <<>> \/ T.dt[e] >= T.dt[T.chain[Type(e)][1]]

LEMMA LinkInserts ==
  ASSUME NEW T \in Timelines, NEW e \in Fixed
  PROVE  \E p \in 1..Len(T.chain[Type(e)])+1 :
           InsertedAt(T.chain[Type(e)], p, e, Link(T, e)) /\ (InFront(T, e) => p = 1)
<1> DEFINE list == T.chain[Type(e)]
           Goes(k) == k = Len(list) \/ ~(T.dt[e] >= T.dt[list[k+1]])
           behind == CHOOSE k \in DOMAIN list :
                       /\ k = Len(list) \/ ~(T.dt[e] >= T.dt[list[k+1]])
                       /\ \A j \in 1..k-1 : T.dt[e] >= T.dt[list[j+1]]
<1>0. /\ e \in Event /\ list \in Seq(Event) /\ Len(list) \in Nat /\ DOMAIN list = 1..Len(list)
      /\ list = <<>> => Len(list) = 0
      /\ Link(T, e) = IF InFront(T, e) THEN <<e>> \o list ELSE InsertAt(list, behind + 1, e)
  <2>1. e \in Event /\ Type(e) \in 2..4
    BY Types DEF Event
  <2>2. list \in Seq(Event)
    BY <2>1, Fields
  <2>3. Link(T, e) = IF InFront(T, e) THEN <<e>> \o list ELSE InsertAt(list, behind + 1, e)
    BY DEF Link, InFront
  <2>4. list = <<>> => Len(list) = 0
    <3> HIDE DEF list
    <3> QED
      OBVIOUS
  <2> QED
    BY <2>1, <2>2, <2>3, <2>4, SeqFacts
<1>1. CASE InFront(T, e)
  <2> HIDE DEF list
  <2>1. /\ <<e>> \o list \in Seq(Event) /\ Len(<<e>> \o list) = 1 + Len(list)
        /\ \A i \in 1..1+Len(list) : (<<e>> \o list)[i] = IF i <= 1 THEN <<e>>[i] ELSE list[i-1]
    <3>1. <<e>> \in Seq(Event) /\ Len(<<e>>) = 1
      BY <1>0
    <3> QED
      BY <1>0, <3>1, ConcatProperties
  <2>2. <<e>>[1] = e
    OBVIOUS
  <2> DEFINE new == <<e>> \o list
  <2> HIDE DEF new
  <2>3. new \in Seq(Event) /\ Len(new) = Len(list) + 1
    BY <1>0, <2>1 DEF new
  <2>4. new[1] = e
    BY <1>0, <2>1, <2>2 DEF new
  <2>5. \A j \in 1..Len(list) : new[j+1] = list[j]
    <3>1. SUFFICES ASSUME NEW j \in 1..Len(list) PROVE new[j+1] = list[j]
      OBVIOUS
    <3>2. j + 1 \in 1..1+Len(list) /\ ~(j + 1 <= 1) /\ (j + 1) - 1 = j
      BY <1>0
    <3>3. new[j+1] = list[(j+1)-1]
      BY <2>1, <3>2 DEF new
    <3> QED
      BY <3>2, <3>3
  <2>6. InsertedAt(list, 1, e, new)
    <3>1. \A j \in 1..Len(list) : ~(j < 1)
      BY <1>0
    <3> QED
      BY <2>3, <2>4, <2>5, <3>1 DEF InsertedAt
  <2>7. 1 \in 1..Len(list)+1
    BY <1>0
  <2>8. Link(T, e) = new
    BY <1>0, <1>1 DEF new
  <2> QED
    BY <2>6, <2>7, <2>8 DEF list
<1>2. CASE ~InFront(T, e)
  <2>1. list # <<>> /\ Len(list) # 0
    <3>1. list # <<>>
      BY <1>2 DEF InFront
    <3> HIDE DEF list
    <3> QED
      BY <1>0, <3>1, EmptySeq
  <2> DEFINE S == {k \in 1..Len(list) : Goes(k)}
  <2> HIDE DEF list
  <2>2. S \in SUBSET Nat /\ S # {}
    <3>1. Len(list) \in S
      BY <1>0, <2>1
    <3> QED
      BY <1>0, <3>1
  <2>3. PICK m \in S : \A k \in S : m <= k
    <3> HIDE DEF S
    <3> QED
      BY <2>2, SmallestOf
  <2>4. \A j \in 1..m-1 : T.dt[e] >= T.dt[list[j+1]]
    <3>0. Len(list) \in Nat /\ m \in 1..Len(list)
      BY <1>0, <2>3
    <3> HIDE DEF S
    <3>1. \A j \in 1..m-1 : j \in 1..Len(list) /\ ~(m <= j)
      BY <3>0
    <3>2. \A j \in 1..m-1 : j \in 1..Len(list) /\ j \notin S
      BY <2>3, <3>1
    <3> QED
      BY <3>2 DEF S
  <2>5. behind \in 1..Len(list)
    BY <1>0, <2>3, <2>4
  <2> HIDE DEF behind
  <2>6. behind + 1 \in 1..Len(list)+1
    <3>1. Len(list) \in Nat
      BY <1>0
    <3> QED
      BY <2>5, <3>1
  <2>7. InsertedAt(list, behind + 1, e, InsertAt(list, behind + 1, e))
    BY <1>0, <2>6, InsertAtInserts
  <2> QED
    BY <1>0, <1>2, <2>6, <2>7 DEF list
<1> QED
  BY <1>1, <1>2

(* Shift changes the events at these places and no others. *)
LEMMA ShiftMoves ==
  ASSUME NEW s \in Seq(Event), Distinct(s), NEW f \in Amounts, NEW q \in Int, NEW P, P \subseteq 1..Len(s)
  PROVE  Shift(f, s, P, q) \in Amounts /\ MovedBy(s, P, q, f, Shift(f, s, P, q))
<1> DEFINE g == Shift(f, s, P, q)
<1>0. \A e \in Event : f[e] \in Int
  BY DEF Amounts
<1>1. g \in Amounts
  BY <1>0 DEF Shift, Amounts
<1>2. \A k \in 1..Len(s) : s[k] \in Event /\ (s[k] \in {s[j] : j \in P} <=> k \in P)
  BY SeqFacts DEF Distinct
<1>3. \A e \in Event : g[e] = IF e \in {s[k] : k \in P} THEN f[e] + q ELSE f[e]
  BY DEF Shift
<1> HIDE DEF g
<1>4. \A k \in 1..Len(s) : g[s[k]] = IF k \in P THEN f[s[k]] + q ELSE f[s[k]]
  BY <1>2, <1>3
<1> QED
  BY <1>1, <1>4 DEF MovedBy, g

(* The timeline with e at the place after "at". *)
Onhand(T, e, start, at) ==
  LET onhand == Shift(T.oh, T.line, {k \in at+1..start : T.line[k] \notin SetEvent}, T.qty[e])
  IN  [onhand EXCEPT ![e] = T.qty[e] + IF at = 0 THEN 0 ELSE onhand[T.line[at]]]

Cumulative(T, e, start, at) ==
  LET produced == Shift(T.cum, T.line, at+1..start, Produced(T.qty[e]))
  IN  [produced EXCEPT ![e] = Produced(T.qty[e]) + IF at = 0 THEN 0 ELSE produced[T.line[at]]]

Entered(T, e, start, at) ==
  [T EXCEPT !.line = InsertAt(T.line, at + 1, e),
            !.oh = Onhand(T, e, start, at),
            !.cum = Cumulative(T, e, start, at),
            !.chain = IF e \in Fixed THEN [@ EXCEPT ![Type(e)] = Link(T, e)] ELSE @]

LEMMA InsertIsEntered ==
  ASSUME NEW T, NEW e, SearchStart(T, e) \in Nat
  PROVE  \E at \in 0..SearchStart(T, e) :
           /\ IsPlaceFor(T, e, SearchStart(T, e), at)
           /\ Insert(T, e) = LET U == Entered(T, e, SearchStart(T, e), at)
                             IN  IF e \in SetEvent THEN SetOnhand(U, e) ELSE U
<1> DEFINE start == SearchStart(T, e)
           at == CHOOSE i \in 0..start :
                   /\ i = 0 \/ ~Before(T, e, T.line[i])
                   /\ \A k \in i+1..start : Before(T, e, T.line[k])
<1>1. at \in 0..start /\ IsPlaceFor(T, e, start, at)
  <2> HIDE DEF start
  <2>1. \E i \in 0..start : /\ i = 0 \/ ~Before(T, e, T.line[i])
                            /\ \A k \in i+1..start : Before(T, e, T.line[k])
    <3>1. start \in Nat
      BY DEF start
    <3> QED
      BY <3>1, PlaceExists DEF IsPlaceFor
  <2> QED
    BY <2>1 DEF IsPlaceFor
<1>2. Insert(T, e) = LET U == Entered(T, e, start, at)
                     IN  IF e \in SetEvent THEN SetOnhand(U, e) ELSE U
  BY DEF Insert, Entered, Onhand, Cumulative
<1> QED
  BY <1>1, <1>2, Zenon

LEMMA EnteredFields ==
  ASSUME NEW T \in Timelines, Distinct(T.line), NEW e \in Event, e \notin ToSet(T.line),
         NEW start \in 0..Len(T.line), NEW at \in 0..start
  PROVE  LET U == Entered(T, e, start, at)
             Q == {k \in at+1..start : T.line[k] \notin SetEvent}
         IN  /\ U \in Timelines
             /\ U.dt = T.dt /\ U.qty = T.qty /\ U.val = T.val
             /\ InsertedAt(T.line, at + 1, e, U.line)
             /\ U.chain = IF e \in Fixed THEN [T.chain EXCEPT ![Type(e)] = Link(T, e)] ELSE T.chain
             /\ MovedBy(T.line, Q, T.qty[e], T.oh, U.oh)
             /\ U.oh[e] = T.qty[e] + IF at + 1 = 1 THEN 0 ELSE T.oh[T.line[(at+1)-1]]
             /\ MovedBy(T.line, at+1..start, Made(T)[e], T.cum, U.cum)
             /\ U.cum[e] = Made(T)[e] + IF at + 1 = 1 THEN 0 ELSE T.cum[T.line[(at+1)-1]]
<1> DEFINE s == T.line
           q == T.qty[e]
           m == Produced(T.qty[e])
           Q == {k \in at+1..start : s[k] \notin SetEvent}
           f == Shift(T.oh, s, Q, q)
           g == Shift(T.cum, s, at+1..start, m)
           U == Entered(T, e, start, at)
<1>0. /\ s \in Seq(Event) /\ Len(s) \in Nat /\ q \in Int /\ m \in Int /\ m = Made(T)[e]
      /\ T.oh \in Amounts /\ T.cum \in Amounts
  <2>1. s \in Seq(Event) /\ T.oh \in Amounts /\ T.cum \in Amounts /\ T.qty \in [Event -> Int]
    BY Fields
  <2>2. q \in Int
    BY <2>1
  <2>3. m \in Int /\ m = Made(T)[e]
    BY <2>2 DEF Produced, Made
  <2> QED
    BY <2>1, <2>2, <2>3, SeqFacts
<1>1. at \in Nat /\ start \in Nat /\ start <= Len(s) /\ at <= start
  BY <1>0
<1>2. /\ \A k \in at+1..start : k \in 1..Len(s)
      /\ at # 0 => at \in 1..Len(s) /\ at \notin at+1..start
  BY <1>0, <1>1
<1>3. /\ f \in Amounts /\ MovedBy(s, Q, q, T.oh, f)
      /\ g \in Amounts /\ MovedBy(s, at+1..start, m, T.cum, g)
  <2> HIDE DEF q, m, s
  <2>1. Q \subseteq 1..Len(s) /\ at+1..start \subseteq 1..Len(s)
    BY <1>2
  <2>2. Distinct(s)
    BY DEF s
  <2> DEFINE R == at+1..start
  <2>3. R \subseteq 1..Len(s)
    BY <2>1
  <2> HIDE DEF Q, R
  <2>4. f \in Amounts /\ MovedBy(s, Q, q, T.oh, f)
    BY <1>0, <2>1, <2>2, ShiftMoves
  <2>5. Shift(T.cum, s, R, m) \in Amounts /\ MovedBy(s, R, m, T.cum, Shift(T.cum, s, R, m))
    BY <1>0, <2>3, <2>2, ShiftMoves
  <2> QED
    BY <2>4, <2>5 DEF R
<1>4. /\ U.oh = [f EXCEPT ![e] = q + IF at = 0 THEN 0 ELSE f[s[at]]]
      /\ U.cum = [g EXCEPT ![e] = m + IF at = 0 THEN 0 ELSE g[s[at]]]
      /\ U.line = InsertAt(s, at + 1, e) /\ U.dt = T.dt /\ U.qty = T.qty /\ U.val = T.val
      /\ U.chain = IF e \in Fixed THEN [T.chain EXCEPT ![Type(e)] = Link(T, e)] ELSE T.chain
      /\ U = [line |-> U.line, dt |-> U.dt, qty |-> U.qty, val |-> U.val, oh |-> U.oh, cum |-> U.cum, chain |-> U.chain]
  <2>1. Onhand(T, e, start, at) = [f EXCEPT ![e] = q + IF at = 0 THEN 0 ELSE f[s[at]]]
    BY DEF Onhand
  <2>2. Cumulative(T, e, start, at) = [g EXCEPT ![e] = m + IF at = 0 THEN 0 ELSE g[s[at]]]
    BY DEF Cumulative
  <2>3. /\ U.oh = Onhand(T, e, start, at) /\ U.cum = Cumulative(T, e, start, at)
        /\ U.line = InsertAt(s, at + 1, e) /\ U.dt = T.dt /\ U.qty = T.qty /\ U.val = T.val
        /\ U.chain = IF e \in Fixed THEN [T.chain EXCEPT ![Type(e)] = Link(T, e)] ELSE T.chain
        /\ U = [line |-> U.line, dt |-> U.dt, qty |-> U.qty, val |-> U.val, oh |-> U.oh, cum |-> U.cum, chain |-> U.chain]
    <3>1. T = [line |-> T.line, dt |-> T.dt, qty |-> T.qty, val |-> T.val, oh |-> T.oh, cum |-> T.cum, chain |-> T.chain]
      BY DEF Timelines
    <3> DEFINE a == InsertAt(s, at + 1, e)
               b == Onhand(T, e, start, at)
               c == Cumulative(T, e, start, at)
               d == IF e \in Fixed THEN [T.chain EXCEPT ![Type(e)] = Link(T, e)] ELSE T.chain
    <3>2. U = [T EXCEPT !.line = a, !.oh = b, !.cum = c, !.chain = d]
      BY DEF Entered
    <3> HIDE DEF U, f, g, Q, q, m, a, b, c, d
    <3>3. U = [line |-> a, dt |-> T.dt, qty |-> T.qty, val |-> T.val, oh |-> b, cum |-> c, chain |-> d]
      BY <3>1, <3>2
    <3> QED
      BY <3>3 DEF a, b, c, d
  <2> HIDE DEF U, f, g, s
  <2> QED
    BY <2>1, <2>2, <2>3
<1> HIDE DEF U, f, g, Q, m, q
<1>5. at # 0 => f[s[at]] = T.oh[s[at]] /\ g[s[at]] = T.cum[s[at]] /\ f[s[at]] \in Int /\ g[s[at]] \in Int
  <2>1. at # 0 => at \in 1..Len(s) /\ at \notin at+1..start /\ at \notin Q
    BY <1>2 DEF Q
  <2>2. at # 0 => s[at] \in Event
    BY <1>0, <2>1, SeqFacts
  <2> QED
    BY <1>3, <2>1, <2>2 DEF MovedBy, Amounts
<1>6. InsertedAt(s, at + 1, e, InsertAt(s, at + 1, e))
  <2>1. at + 1 \in 1..Len(s)+1
    BY <1>0, <1>1
  <2> QED
    BY <1>0, <2>1, InsertAtInserts
<1>7. \A k \in 1..Len(s) : s[k] # e /\ s[k] \in Event
  BY <1>0, SeqFacts
<1>8. /\ U.oh \in Amounts /\ U.cum \in Amounts
      /\ U.oh[e] = q + IF at = 0 THEN 0 ELSE f[s[at]]
      /\ U.cum[e] = m + IF at = 0 THEN 0 ELSE g[s[at]]
      /\ \A x \in Event : x # e => U.oh[x] = f[x] /\ U.cum[x] = g[x]
  <2> DEFINE a == q + IF at = 0 THEN 0 ELSE f[s[at]]
             b == m + IF at = 0 THEN 0 ELSE g[s[at]]
  <2>1. a \in Int /\ b \in Int
    BY <1>0, <1>5
  <2>2. U.oh = [f EXCEPT ![e] = a] /\ U.cum = [g EXCEPT ![e] = b]
    BY <1>4
  <2> HIDE DEF a, b
  <2>3. f \in [Event -> Int] /\ g \in [Event -> Int]
    BY <1>3 DEF Amounts
  <2>4. U.oh \in [Event -> Int] /\ U.oh[e] = a /\ \A x \in Event : x # e => U.oh[x] = f[x]
    BY <2>1, <2>2, <2>3
  <2>5. U.cum \in [Event -> Int] /\ U.cum[e] = b /\ \A x \in Event : x # e => U.cum[x] = g[x]
    BY <2>1, <2>2, <2>3
  <2> QED
    BY <2>4, <2>5 DEF a, b, Amounts
<1>9. MovedBy(s, Q, q, T.oh, U.oh) /\ MovedBy(s, at+1..start, m, T.cum, U.cum)
  BY <1>3, <1>7, <1>8 DEF MovedBy
<1>10. U.chain \in [2..4 -> Seq(Event)]
  <2>1. CASE e \in Fixed
    <3>1. Link(T, e) \in Seq(Event) /\ Type(e) \in 2..4
      BY <2>1, LinkInserts, Types DEF InsertedAt
    <3>2. T.chain \in [2..4 -> Seq(Event)] /\ U.chain = [T.chain EXCEPT ![Type(e)] = Link(T, e)]
      BY <1>4, <2>1, Fields
    <3> QED
      BY <3>1, <3>2
  <2>2. CASE e \notin Fixed
    BY <1>4, <2>2, Fields
  <2> QED
    BY <2>1, <2>2
<1>11. U \in Timelines
  <2>1. U.line \in Seq(Event) /\ U.dt \in [Event -> Date] /\ U.qty \in Amounts /\ U.val \in Amounts
    BY <1>4, <1>6, Fields DEF InsertedAt
  <2> QED
    BY <1>4, <1>8, <1>10, <2>1 DEF Timelines
<1>12. (at + 1 = 1 <=> at = 0) /\ (at + 1) - 1 = at
  BY <1>1
<1>13. /\ U.oh[e] = q + IF at + 1 = 1 THEN 0 ELSE T.oh[s[(at+1)-1]]
       /\ U.cum[e] = Made(T)[e] + IF at + 1 = 1 THEN 0 ELSE T.cum[s[(at+1)-1]]
  BY <1>0, <1>5, <1>8, <1>12
<1> QED
  BY <1>0, <1>4, <1>6, <1>9, <1>11, <1>13 DEF U, Q, q, s

(* The search starts at the end, or at the one event it passes that sets   *)
(* the onhand, when nothing is produced; one that sets the onhand itself   *)
(* comes last.                                                             *)
SearchesFrom(T, e, start) ==
  /\ start \in 0..Len(T.line)
  /\ start < Len(T.line) =>
       /\ start # 0 /\ Before(T, e, T.line[start])
       /\ T.line[start] \in SetEvent /\ Made(T)[e] = 0
  /\ \A k \in 1..start : T.line[k] \in SetEvent /\ Before(T, e, T.line[k]) => k = start
  /\ e \in SetEvent => start = Len(T.line) /\ \A k \in 1..Len(T.line) : ~Before(T, e, T.line[k])

LEMMA PassedIsRun ==
  ASSUME NEW T \in Timelines, NEW e \in Event \ SetEvent, NEW start, SearchesFrom(T, e, start),
         NEW at \in 0..start, SplitAt(T, e, at), NEW t, InsertedAt(T.line, at + 1, e, t)
  PROVE  LET Q == {k \in at+1..start : T.line[k] \notin SetEvent}
         IN  Q \subseteq at+1..Len(T.line) /\ Run(SetEvent, t, at + 1, RunBehind(at + 1, Q))
<1> DEFINE s == T.line
           p == at + 1
           Q == {k \in at+1..start : T.line[k] \notin SetEvent}
<1>0. /\ s \in Seq(Event) /\ Len(s) \in Nat /\ start \in 0..Len(s) /\ at \in Nat /\ at <= start
      /\ Len(t) = Len(s) + 1 /\ t[p] = e
  BY Fields, SeqFacts DEF SearchesFrom, InsertedAt
<1>1. \A k \in Q : k \in p..Len(s) /\ k <= start /\ s[k] \notin SetEvent
  BY <1>0
<1>2. \A j \in p..Len(s) : j \in 1..Len(s) /\ t[j+1] = s[j]
  <2>1. \A j \in p..Len(s) : j \in 1..Len(s) /\ j >= at + 1
    BY <1>0
  <2> QED
    BY <2>1 DEF InsertedAt
<1>3. \A j \in p..Len(s) : Before(T, e, s[j])
  BY DEF SplitAt
<1>4. start < Len(s) => start # 0 /\ at # start /\ s[start] \in SetEvent
  <2>1. SUFFICES ASSUME start < Len(s) PROVE at # start
    BY DEF SearchesFrom
  <2>2. start # 0 /\ Before(T, e, s[start])
    BY <2>1 DEF SearchesFrom
  <2>3. at = start => at \in 1..at
    BY <1>0, <2>2
  <2>4. at = start => Before(T, s[start], e) /\ s[start] \in Event
    BY <1>0, <2>2, <2>3, SeqFacts DEF SplitAt
  <2> QED
    BY <2>2, <2>4, Fields, Ordering
<1>5. ASSUME NEW j \in p..Len(s), j # p, j <= start PROVE s[j-1] \notin SetEvent
  <2>1. j - 1 \in p..Len(s) /\ j - 1 \in 1..start /\ j - 1 # start
    BY <1>0, <1>5
  <2> QED
    BY <1>3, <2>1 DEF SearchesFrom
<1>6. \A k \in p..Len(s) : k \in Q <=> k <= start /\ s[k] \notin SetEvent
  BY <1>0
<1> DEFINE R == RunBehind(p, Q)
<1>7. \A j \in p..Len(s) : (j + 1 \in R <=> j \in Q) /\ (j \in R <=> j = p \/ j - 1 \in Q)
  <2> HIDE DEF Q
  <2>1. \A k \in Q : k \in Int
    BY <1>1
  <2> QED
    BY <1>0, <2>1 DEF RunBehind
<1> HIDE DEF s, p, Q
<1>8. ASSUME NEW k \in R PROVE k \in p..Len(t) /\ t[k] \notin SetEvent
  <2>1. CASE k = p
    <3>1. p \in p..Len(t)
      BY <1>0 DEF p
    <3> QED
      BY <1>0, <2>1, <3>1
  <2>2. CASE \E j \in Q : k = j + 1
    <3>1. PICK j \in Q : k = j + 1
      BY <2>2
    <3>2. j \in p..Len(s) /\ s[j] \notin SetEvent /\ t[j+1] = s[j]
      BY <1>1, <1>2
    <3>3. k \in p..Len(t)
      BY <1>0, <3>1, <3>2 DEF p
    <3> QED
      BY <3>1, <3>2, <3>3
  <2> QED
    BY <2>1, <2>2 DEF RunBehind
<1>9. p \in R /\ t[p] \notin SetEvent
  BY <1>0 DEF RunBehind
<1>10. ASSUME NEW k \in p+1..Len(t) PROVE k \in R <=> k - 1 \in R /\ t[k] \notin SetEvent
  <2> DEFINE j == k - 1
  <2>1. j \in p..Len(s) /\ k = j + 1 /\ j \in Int
    BY <1>0 DEF p
  <2> HIDE DEF j
  <2>2. t[k] = s[j] /\ (k \in R <=> j \in Q) /\ (j \in R <=> j = p \/ j - 1 \in Q)
    BY <1>2, <1>7, <2>1
  <2>3. j \in Q <=> j <= start /\ s[j] \notin SetEvent
    BY <1>6, <2>1
  <2>4. j \in Q => j = p \/ j - 1 \in Q
    <3>1. SUFFICES ASSUME j \in Q, j # p PROVE j - 1 \in Q
      OBVIOUS
    <3>2. s[j-1] \notin SetEvent
      BY <1>5, <2>1, <2>3, <3>1
    <3>3. j - 1 \in p..Len(s) /\ j - 1 <= start
      BY <1>0, <2>1, <2>3, <3>1 DEF p
    <3> QED
      BY <1>6, <3>2, <3>3
  <2>5. j = p \/ j - 1 \in Q => j <= start
    <3>1. CASE j = p
      BY <1>0, <1>4, <2>1, <3>1 DEF p
    <3>2. CASE j - 1 \in Q
      <4>1. j - 1 <= start /\ s[j-1] \notin SetEvent
        BY <1>1, <3>2
      <4> QED
        BY <1>0, <1>4, <2>1, <4>1 DEF p
    <3> QED
      BY <3>1, <3>2
  <2>6. k - 1 = j
    BY DEF j
  <2> QED
    BY <2>2, <2>3, <2>4, <2>5, <2>6
<1>11. Run(SetEvent, t, p, R)
  BY <1>8, <1>9, <1>10 DEF Run
<1>12. Q \subseteq p..Len(s)
  BY <1>1
<1> QED
  BY <1>11, <1>12 DEF s, p, Q

(* What the sums say depends on the events in the line only. *)
Agree(s, f, g) == \A k \in 1..Len(s) : g[s[k]] = f[s[k]]

LEMMA SameAdds ==
  ASSUME NEW sets, NEW s \in Seq(Event), NEW w, NEW v, NEW f, NEW w2, NEW v2, NEW g,
         AddsUp(sets, s, w, v, f), Agree(s, w, w2), Agree(s, v, v2), Agree(s, f, g)
  PROVE  AddsUp(sets, s, w2, v2, g)
<1>1. \A i \in 1..Len(s) : Prior(g, s, i) = Prior(f, s, i)
  <2>1. \A i \in 1..Len(s) : i # 1 => i - 1 \in 1..Len(s)
    BY SeqFacts
  <2> QED
    BY <2>1 DEF Prior, Agree
<1> QED
  BY <1>1 DEF AddsUp, Agree

LEMMA SetOnhandLast ==
  ASSUME NEW T \in Timelines, Distinct(T.line), Len(T.line) # 0, NEW e, e = T.line[Len(T.line)]
  PROVE  SetOnhand(T, e) = [T EXCEPT !.oh = [T.oh EXCEPT ![e] = T.val[e]]]
<1> DEFINE s == T.line
<1>1. s \in Seq(Event) /\ Len(s) \in Nat /\ Len(s) \in 1..Len(s) /\ e \in Event
  <2>1. s \in Seq(Event) /\ Len(s) \in Nat
    BY Fields, SeqFacts
  <2>2. Len(s) \in 1..Len(s)
    BY <2>1
  <2> QED
    BY <2>1, <2>2, SeqFacts
<1>2. Place(s, e) = Len(s)
  BY <1>1, PlaceOf
<1>3. Bucket(s, Place(s, e) + 1) = {}
  BY <1>1, <1>2 DEF Bucket
<1>4. Cardinality(Bucket(s, Place(s, e) + 1)) = 0
  BY <1>3, FS_EmptySet
<1>5. T.val[e] \in Int /\ T.oh[e] \in Int
  BY <1>1, Fields DEF Amounts
<1>6. T.val[e] + 0 * (T.val[e] - T.oh[e]) = T.val[e]
  BY <1>5
<1>7. SetOnhand(T, e) = [T EXCEPT !.oh[e] = T.val[e] + 0 * (T.val[e] - T.oh[e])]
  BY <1>4 DEF SetOnhand
<1> QED
  BY <1>6, <1>7

(* What insert() does. *)
EnteredIn(T, e, U) ==
  /\ U.dt = T.dt /\ U.qty = T.qty /\ U.val = T.val
  /\ \E p \in 1..Len(T.line)+1 : InsertedAt(T.line, p, e, U.line) /\ (e \in SetEvent => p = Len(T.line) + 1)
  /\ \A x : x \in ToSet(U.line) <=> x \in ToSet(T.line) \/ x = e
  /\ \A t \in 2..4 : t # Type(e) => U.chain[t] = T.chain[t]
  /\ e \in Fixed => \E p \in 1..Len(T.chain[Type(e)])+1 :
                      /\ InsertedAt(T.chain[Type(e)], p, e, U.chain[Type(e)])
                      /\ InFront(T, e) => p = 1

LEMMA EntryLists ==
  ASSUME NEW T, Good(T), NEW e \in Event, e \notin ToSet(T.line),
         NEW U \in Timelines, NEW at \in 0..Len(T.line), InsertedAt(T.line, at + 1, e, U.line),
         e \in SetEvent => at = Len(T.line),
         U.dt = T.dt, U.qty = T.qty, U.val = T.val,
         U.chain = IF e \in Fixed THEN [T.chain EXCEPT ![Type(e)] = Link(T, e)] ELSE T.chain
  PROVE  Chained(U) /\ EnteredIn(T, e, U)
<1>0. /\ T \in Timelines /\ T.line \in Seq(Event) /\ Distinct(T.line) /\ Len(T.line) \in Nat
      /\ T.chain \in [2..4 -> Seq(Event)] /\ at + 1 \in 1..Len(T.line)+1
  BY Fields, SeqFacts, OrderIsDistinct DEF Good
<1>1. \A x : x \in ToSet(U.line) <=> x \in ToSet(T.line) \/ x = e
  BY <1>0, InsertedSet
<1>2. \A t \in 2..4 : t # Type(e) => U.chain[t] = T.chain[t]
  BY <1>0
<1>3. \A t \in 2..4 : Lists(T.line, T.chain[t], t)
  BY DEF Good, Chained
<1>4. e \in Fixed => Type(e) \in 2..4 /\ U.chain[Type(e)] = Link(T, e)
  BY <1>0, Types
<1>5. e \in Fixed => \E p \in 1..Len(T.chain[Type(e)])+1 :
                       /\ InsertedAt(T.chain[Type(e)], p, e, U.chain[Type(e)])
                       /\ InFront(T, e) => p = 1
  BY <1>0, <1>4, LinkInserts
<1>6. \E p \in 1..Len(T.line)+1 : InsertedAt(T.line, p, e, U.line) /\ (e \in SetEvent => p = Len(T.line) + 1)
  BY <1>0
<1>7. EnteredIn(T, e, U)
  BY <1>1, <1>2, <1>5, <1>6 DEF EnteredIn
<1>8. ASSUME NEW t \in 2..4 PROVE Lists(U.line, U.chain[t], t)
  <2>1. CASE t # Type(e)
    BY <1>1, <1>2, <1>3, <2>1 DEF Lists
  <2>2. CASE t = Type(e)
    <3>1. e \in Fixed
      BY <2>2, Types
    <3>2. PICK p \in 1..Len(T.chain[t])+1 : InsertedAt(T.chain[t], p, e, U.chain[t])
      BY <1>5, <2>2, <3>1
    <3>3. T.chain[t] \in Seq(Event) /\ Distinct(T.chain[t]) /\ e \notin ToSet(T.chain[t])
      BY <1>0, <1>3 DEF Lists
    <3>4. Distinct(U.chain[t]) /\ \A x : x \in ToSet(U.chain[t]) <=> x \in ToSet(T.chain[t]) \/ x = e
      BY <3>2, <3>3, InsertedSet
    <3> QED
      BY <1>1, <1>3, <2>2, <3>4 DEF Lists
  <2> QED
    BY <2>1, <2>2
<1> QED
  BY <1>7, <1>8 DEF Chained

LEMMA InsertGood ==
  ASSUME NEW T, Good(T), NEW e \in Event, e \notin ToSet(T.line), SearchesFrom(T, e, SearchStart(T, e))
  PROVE  Good(Insert(T, e)) /\ EnteredIn(T, e, Insert(T, e))
<1> DEFINE start == SearchStart(T, e)
           s == T.line
<1>0. /\ T \in Timelines /\ s \in Seq(Event) /\ Distinct(s) /\ InOrder(T, s) /\ Len(s) \in Nat
      /\ start \in 0..Len(s) /\ start \in Nat
  BY Fields, SeqFacts, OrderIsDistinct DEF Good, SearchesFrom
<1>1. PICK at \in 0..start :
        /\ IsPlaceFor(T, e, start, at)
        /\ Insert(T, e) = LET U == Entered(T, e, start, at)
                          IN  IF e \in SetEvent THEN SetOnhand(U, e) ELSE U
  BY <1>0, InsertIsEntered
<1> DEFINE U == Entered(T, e, start, at)
           Q == {k \in at+1..start : s[k] \notin SetEvent}
           p == at + 1
<1>2. SplitAt(T, e, at)
  <2>1. start < Len(s) => start # 0 /\ Before(T, e, s[start])
    BY DEF SearchesFrom
  <2> QED
    BY <1>0, <1>1, <2>1, PlaceSplits
<1>3. /\ U \in Timelines /\ U.dt = T.dt /\ U.qty = T.qty /\ U.val = T.val
      /\ InsertedAt(s, p, e, U.line)
      /\ U.chain = IF e \in Fixed THEN [T.chain EXCEPT ![Type(e)] = Link(T, e)] ELSE T.chain
      /\ MovedBy(s, Q, T.qty[e], T.oh, U.oh)
      /\ U.oh[e] = T.qty[e] + IF p = 1 THEN 0 ELSE T.oh[s[p-1]]
      /\ MovedBy(s, p..start, Made(T)[e], T.cum, U.cum)
      /\ U.cum[e] = Made(T)[e] + IF p = 1 THEN 0 ELSE T.cum[s[p-1]]
  <2>1. T \in Timelines /\ Distinct(T.line) /\ start \in 0..Len(T.line)
    BY <1>0
  <2> HIDE DEF start
  <2> QED
    BY <2>1, EnteredFields
<1> HIDE DEF U
<1>4. /\ at \in 0..Len(s) /\ p \in 1..Len(s)+1 /\ p \in Nat /\ Len(U.line) = Len(s) + 1
      /\ U.line \in Seq(Event) /\ Distinct(U.line)
      /\ T.qty \in Amounts /\ T.val \in Amounts /\ T.oh \in Amounts /\ T.cum \in Amounts /\ Made(T) \in Amounts
      /\ U.oh \in Amounts /\ U.cum \in Amounts
  <2>1. at \in 0..Len(s) /\ p \in 1..Len(s)+1 /\ p \in Nat
    BY <1>0
  <2>2. U.line \in Seq(Event) /\ Len(U.line) = Len(s) + 1 /\ Distinct(U.line)
    <3>1. U.line \in Seq(Event) /\ Len(U.line) = Len(s) + 1
      BY <1>3 DEF InsertedAt
    <3>2. e \notin ToSet(s)
      OBVIOUS
    <3> HIDE DEF s, p
    <3>3. Distinct(U.line)
      BY <1>0, <1>3, <2>1, <3>2, InsertedSet
    <3> QED
      BY <3>1, <3>3
  <2> HIDE DEF s, p
  <2> QED
    BY <1>0, <1>3, <2>1, <2>2, Fields
<1>5. InOrder(U, U.line)
  BY <1>0, <1>2, <1>3, InsertKeepsOrder, SameOrder
<1>6. e \in SetEvent => at = Len(s) /\ start = Len(s)
  <2>1. SUFFICES ASSUME e \in SetEvent, at < Len(s) PROVE FALSE
    BY <1>0, <1>4 DEF SearchesFrom
  <2>2. at + 1 \in at+1..Len(s) /\ at + 1 \in 1..Len(s)
    BY <1>0, <1>4, <2>1
  <2> QED
    BY <1>2, <2>1, <2>2 DEF SearchesFrom, SplitAt
<1>7. Chained(U) /\ EnteredIn(T, e, U)
  BY <1>3, <1>4, <1>6, EntryLists
<1>8. AddsUp({}, U.line, Made(U), U.val, U.cum)
  <2>1. AddsUp({}, s, Made(T), T.val, T.cum)
    BY DEF Good, Totals
  <2>2. MovedBy(s, p..Len(s), Made(T)[e], T.cum, U.cum)
    <3>1. CASE start = Len(s)
      BY <1>3, <3>1
    <3>2. CASE Made(T)[e] = 0
      <4>1. \A k \in 1..Len(s) : T.cum[s[k]] \in Int
        BY <1>0, <1>4, SeqFacts DEF Amounts
      <4>2. \A k \in 1..Len(s) : U.cum[s[k]] = T.cum[s[k]]
        BY <1>3, <3>2, <4>1 DEF MovedBy
      <4> QED
        BY <3>2, <4>1, <4>2 DEF MovedBy
    <3> QED
      BY <1>0, <3>1, <3>2 DEF SearchesFrom
  <2>3. Run({}, U.line, p, RunBehind(p, p..Len(s)))
    <3>1. \A k \in RunBehind(p, p..Len(s)) : k \in p..Len(s)+1
      BY <1>0, <1>4 DEF RunBehind
    <3>2. \A k \in p..Len(s)+1 : k = p \/ (k - 1 \in p..Len(s) /\ k = (k - 1) + 1)
      BY <1>0, <1>4
    <3>3. \A k \in p..Len(s)+1 : k \in RunBehind(p, p..Len(s))
      BY <3>2 DEF RunBehind
    <3>4. RunBehind(p, p..Len(s)) = p..Len(U.line)
      BY <1>4, <3>1, <3>3
    <3>5. p \in 1..Len(U.line)+1
      BY <1>4
    <3> QED
      BY <1>4, <3>4, <3>5, RestIsRun
  <2>4. AddsUp({}, U.line, Made(T), T.val, U.cum)
    <3>1. p..Len(s) \subseteq p..Len(s) /\ e \notin {}
      OBVIOUS
    <3> HIDE DEF p, s
    <3>2. e \notin ToSet(s)
      BY DEF s
    <3> QED
      BY <1>0, <1>3, <1>4, <2>1, <2>2, <2>3, <3>1, <3>2, EnterAdds
  <2>5. Made(U) = Made(T)
    BY <1>3 DEF Made
  <2> QED
    BY <1>3, <2>4, <2>5
<1>9. CASE e \notin SetEvent
  <2>1. AddsUp(SetEvent, U.line, T.qty, T.val, U.oh)
    <3>1. AddsUp(SetEvent, s, T.qty, T.val, T.oh)
      BY DEF Good, Totals
    <3>2. Q \subseteq p..Len(s) /\ Run(SetEvent, U.line, p, RunBehind(p, Q))
      BY <1>0, <1>2, <1>3, <1>9, PassedIsRun
    <3> HIDE DEF Q, s, p
    <3>3. e \notin ToSet(s)
      BY DEF s
    <3> QED
      BY <1>0, <1>3, <1>4, <1>9, <3>1, <3>2, <3>3, EnterAdds
  <2>2. Totals(U)
    BY <1>3, <1>8, <2>1 DEF Totals
  <2>3. Good(U)
    BY <1>3, <1>5, <1>7, <2>2 DEF Good, NoWeight
  <2>4. Insert(T, e) = U
    BY <1>1, <1>9 DEF U
  <2> QED
    BY <1>7, <2>3, <2>4
<1>10. CASE e \in SetEvent
  <2> DEFINE V == [U EXCEPT !.oh = [U.oh EXCEPT ![e] = U.val[e]]]
  <2>1. p = Len(s) + 1 /\ U.line[Len(U.line)] = e /\ Len(U.line) # 0
    BY <1>0, <1>3, <1>4, <1>6, <1>10 DEF InsertedAt
  <2>2. Insert(T, e) = V
    BY <1>1, <1>3, <1>4, <1>10, <2>1, SetOnhandLast DEF U
  <2>3. /\ V \in Timelines /\ V.line = U.line /\ V.dt = U.dt /\ V.qty = U.qty /\ V.val = U.val
        /\ V.cum = U.cum /\ V.chain = U.chain /\ V.oh \in Amounts /\ V.oh[e] = U.val[e]
        /\ \A x \in Event : x # e => V.oh[x] = U.oh[x]
    <3>1. U.oh \in [Event -> Int] /\ U.val[e] \in Int
      BY <1>3, <1>4 DEF Amounts
    <3> DEFINE o == [U.oh EXCEPT ![e] = U.val[e]]
    <3>2. o \in [Event -> Int] /\ o[e] = U.val[e] /\ \A x \in Event : x # e => o[x] = U.oh[x]
      BY <3>1
    <3> HIDE DEF o
    <3>3. V = [line |-> U.line, dt |-> U.dt, qty |-> U.qty, val |-> U.val, oh |-> o, cum |-> U.cum, chain |-> U.chain]
      <4>1. U = [line |-> U.line, dt |-> U.dt, qty |-> U.qty, val |-> U.val, oh |-> U.oh, cum |-> U.cum, chain |-> U.chain]
        BY <1>3 DEF Timelines
      <4>2. V = [U EXCEPT !.oh = o]
        BY DEF o
      <4> HIDE DEF V
      <4> QED
        BY <4>1, <4>2
    <3>4. V \in Timelines
      BY <1>3, <3>2, <3>3 DEF Timelines, Amounts
    <3> QED
      BY <3>2, <3>3, <3>4 DEF Amounts
  <2> HIDE DEF V
  <2>4. AddsUp(SetEvent, U.line, T.qty, T.val, V.oh)
    <3>1. AddsUp(SetEvent, s, T.qty, T.val, T.oh)
      BY DEF Good, Totals
    <3> DEFINE g == [T.oh EXCEPT ![e] = T.val[e]]
    <3>2. g \in Amounts /\ g[e] = T.val[e] /\ SameBut(T.oh, g, e) /\ SameBut(T.qty, T.qty, e) /\ T.qty[e] = 0
      <4>1. T.oh \in [Event -> Int] /\ T.val[e] \in Int
        BY <1>4 DEF Amounts
      <4>2. g \in [Event -> Int] /\ g[e] = T.val[e] /\ \A x \in Event : x # e => g[x] = T.oh[x]
        BY <4>1
      <4>3. T.qty[e] = 0
        BY <1>10 DEF Good, NoWeight, Fixed
      <4> QED
        BY <4>2, <4>3 DEF Amounts, SameBut
    <3> HIDE DEF g
    <3>3. AddsUp(SetEvent, U.line, T.qty, T.val, g)
      BY <1>0, <1>3, <1>4, <1>10, <2>1, <3>1, <3>2, InsertAdds
    <3>4. Agree(U.line, g, V.oh)
      <4>1. \A k \in 1..Len(s) : s[k] \in Event /\ s[k] # e /\ T.oh[s[k]] \in Int
        BY <1>0, <1>4, SeqFacts DEF Amounts
      <4>2. \A k \in 1..Len(s) : V.oh[s[k]] = T.oh[s[k]] /\ g[s[k]] = T.oh[s[k]]
        BY <1>3, <2>3, <3>2, <4>1 DEF MovedBy, SameBut
      <4>3. V.oh[e] = g[e]
        BY <1>3, <2>3, <3>2
      <4>4. SUFFICES ASSUME NEW k \in 1..Len(U.line) PROVE V.oh[U.line[k]] = g[U.line[k]]
        BY DEF Agree
      <4>5. \/ k \in 1..Len(s) /\ U.line[k] = s[k]
            \/ U.line[k] = e
            \/ \E j \in 1..Len(s) : U.line[k] = s[j]
        <5> HIDE DEF s, p
        <5> QED
          BY <1>0, <1>3, <1>4, InsertedPlaces
      <4> QED
        BY <4>2, <4>3, <4>5
    <3>5. Agree(U.line, T.qty, T.qty) /\ Agree(U.line, T.val, T.val)
      BY DEF Agree
    <3> QED
      BY <1>4, <3>3, <3>4, <3>5, SameAdds
  <2>5. Totals(V)
    <3>1. Made(V) = Made(U)
      BY <2>3 DEF Made
    <3> QED
      BY <1>3, <1>8, <2>3, <2>4, <3>1 DEF Totals
  <2>6. InOrder(V, V.line) /\ Chained(V) /\ NoWeight(V)
    <3>1. NoWeight(T)
      BY DEF Good
    <3> QED
      BY <1>3, <1>5, <1>7, <2>3, <3>1, SameOrder DEF Chained, NoWeight
  <2>7. Good(V)
    BY <2>3, <2>5, <2>6 DEF Good
  <2>8. EnteredIn(T, e, V)
    BY <1>7, <2>3 DEF EnteredIn
  <2> QED
    BY <2>2, <2>7, <2>8
<1> QED
  BY <1>9, <1>10

-----------------------------------------------------------------------------
(* erase(): the event gives back what it changed, and is forgotten. *)
LeftFrom(T, e, U) ==
  /\ SameBut(T.dt, U.dt, e) /\ SameBut(T.qty, U.qty, e) /\ SameBut(T.val, U.val, e)
  /\ U.dt[e] = 0 /\ U.qty[e] = 0
  /\ \E p \in 1..Len(T.line) : T.line[p] = e /\ RemovedFrom(T.line, p, U.line)
  /\ \A x : x \in ToSet(U.line) <=> x \in ToSet(T.line) /\ x # e
  /\ \A t \in 2..4 : t # Type(e) => U.chain[t] = T.chain[t]

LEMMA UnlinkRemoves ==
  ASSUME NEW c \in Seq(Event), Distinct(c), NEW e \in ToSet(c)
  PROVE  \E p \in 1..Len(c) : c[p] = e /\ RemovedFrom(c, p, RemoveFirst(c, e))
<1> DEFINE p == SelectInSeq(c, LAMBDA v : v = e)
<1>1. PICK i \in 1..Len(c) : c[i] = e
  BY SeqFacts
<1>2. RemoveFirst(c, e) = RemoveAt(c, p)
  BY <1>1 DEF RemoveFirst
<1>3. p = i
  <2>1. {j \in 1..Len(c) : c[j] = e} = {i}
    BY <1>1 DEF Distinct
  <2>2. i \in Int
    BY SeqFacts
  <2>3. p = IF {j \in 1..Len(c) : c[j] = e} = {} THEN 0
            ELSE CHOOSE x \in {j \in 1..Len(c) : c[j] = e} : \A y \in {j \in 1..Len(c) : c[j] = e} : x <= y
    BY DEF SelectInSeq, Min
  <2> HIDE DEF p
  <2>4. p = CHOOSE x \in {i} : \A y \in {i} : x <= y
    BY <2>1, <2>3
  <2>5. \A y \in {i} : i <= y
    BY <2>2
  <2> QED
    BY <2>4, <2>5
<1>4. RemovedFrom(c, i, RemoveFirst(c, e))
  BY <1>2, <1>3, RemoveAtRemoves
<1> QED
  BY <1>1, <1>4

LEMMA RemovedKeepsOrder ==
  ASSUME NEW T, NEW s \in Seq(Event), NEW p \in 1..Len(s), NEW t, RemovedFrom(s, p, t), InOrder(T, s)
  PROVE  InOrder(T, t)
<1>0. Len(s) \in Nat /\ Len(t) = Len(s) - 1
  BY SeqFacts DEF RemovedFrom
<1>1. SUFFICES ASSUME NEW i \in 1..Len(t), NEW j \in 1..Len(t), i < j PROVE Before(T, t[i], t[j])
  BY DEF InOrder
<1>2. /\ i < p => t[i] = s[i] /\ i \in 1..Len(s)
      /\ i >= p => t[i] = s[i+1] /\ i + 1 \in 1..Len(s)
      /\ j < p => t[j] = s[j] /\ j \in 1..Len(s)
      /\ j >= p => t[j] = s[j+1] /\ j + 1 \in 1..Len(s)
  BY <1>0 DEF RemovedFrom
<1>3. \A a, b \in 1..Len(s) : a < b => Before(T, s[a], s[b])
  BY DEF InOrder
<1>4. CASE i < p /\ j < p
  BY <1>1, <1>2, <1>3, <1>4
<1>5. CASE i < p /\ j >= p
  <2>1. i < j + 1
    BY <1>0, <1>1
  <2> QED
    BY <1>2, <1>3, <1>5, <2>1
<1>6. CASE i >= p /\ j >= p
  <2>1. i + 1 < j + 1
    BY <1>0, <1>1
  <2> QED
    BY <1>2, <1>3, <1>6, <2>1
<1>7. \/ i < p /\ j < p
      \/ i < p /\ j >= p
      \/ i >= p /\ j >= p
  BY <1>0, <1>1
<1> QED
  BY <1>4, <1>5, <1>6, <1>7, Zenon

(* The order depends on the dates and quantities of the line only. *)
LEMMA OrderOfLine ==
  ASSUME NEW T, NEW U, NEW s \in Seq(Event), InOrder(T, s), Agree(s, T.dt, U.dt), Agree(s, T.qty, U.qty)
  PROVE  InOrder(U, s)
BY DEF InOrder, Before, Agree

ErasedOh(T, e) == [Shift(T.oh, T.line, Bucket(T.line, Place(T.line, e)), -T.qty[e]) EXCEPT ![e] = 0]

ErasedCum(T, e) ==
  [Shift(T.cum, T.line, Place(T.line, e)..Len(T.line), -Produced(T.qty[e])) EXCEPT ![e] = 0]

LEMMA EraseFields ==
  ASSUME NEW T \in Timelines, NEW e \in Event
  PROVE  LET U == Erase(T, e)
         IN  U = [line |-> RemoveAt(T.line, Place(T.line, e)),
                  dt |-> [T.dt EXCEPT ![e] = 0], qty |-> [T.qty EXCEPT ![e] = 0], val |-> [T.val EXCEPT ![e] = 0],
                  oh |-> ErasedOh(T, e), cum |-> ErasedCum(T, e),
                  chain |-> IF e \in Fixed THEN [T.chain EXCEPT ![Type(e)] = RemoveFirst(T.chain[Type(e)], e)] ELSE T.chain]
<1> DEFINE a == RemoveAt(T.line, Place(T.line, e))
           b == ErasedOh(T, e)
           c == ErasedCum(T, e)
           d == IF e \in Fixed THEN [T.chain EXCEPT ![Type(e)] = RemoveFirst(T.chain[Type(e)], e)] ELSE T.chain
           x == [T.dt EXCEPT ![e] = 0]
           y == [T.qty EXCEPT ![e] = 0]
           z == [T.val EXCEPT ![e] = 0]
<1>1. T = [line |-> T.line, dt |-> T.dt, qty |-> T.qty, val |-> T.val, oh |-> T.oh, cum |-> T.cum, chain |-> T.chain]
  BY DEF Timelines
<1>2. Erase(T, e) = [T EXCEPT !.line = a, !.dt = x, !.qty = y, !.val = z, !.oh = b, !.cum = c, !.chain = d]
  <2> DEFINE oh1 == Shift(T.oh, T.line, Bucket(T.line, Place(T.line, e)), -T.qty[e])
             cum1 == Shift(T.cum, T.line, Place(T.line, e)..Len(T.line), -Produced(T.qty[e]))
             chain1 == RemoveFirst(T.chain[Type(e)], e)
  <2>1. b = [oh1 EXCEPT ![e] = 0] /\ c = [cum1 EXCEPT ![e] = 0]
    BY DEF ErasedOh, ErasedCum
  <2>2. Erase(T, e) = [T EXCEPT !.line = a, !.dt[e] = 0, !.qty[e] = 0, !.val[e] = 0,
                                !.oh = [oh1 EXCEPT ![e] = 0], !.cum = [cum1 EXCEPT ![e] = 0], !.chain = d]
    BY DEF Erase
  <2> HIDE DEF a, b, c, d, oh1, cum1
  <2>3. T.dt = T.dt /\ T.qty = T.qty /\ T.val = T.val
    OBVIOUS
  <2> QED
    BY <1>1, <2>1, <2>2
<1> HIDE DEF a, b, c, d, x, y, z
<1>3. Erase(T, e) = [line |-> a, dt |-> x, qty |-> y, val |-> z, oh |-> b, cum |-> c, chain |-> d]
  BY <1>1, <1>2
<1> QED
  BY <1>3 DEF a, b, c, d, x, y, z

LEMMA EraseGood ==
  ASSUME NEW T, Good(T), NEW e \in ToSet(T.line), e \notin SetEvent
  PROVE  Good(Erase(T, e)) /\ LeftFrom(T, e, Erase(T, e))
<1> DEFINE s == T.line
           p == Place(s, e)
           U == Erase(T, e)
           f == Shift(T.oh, s, Bucket(s, p), -T.qty[e])
           g == Shift(T.cum, s, p..Len(s), -Made(T)[e])
<1>0. /\ T \in Timelines /\ s \in Seq(Event) /\ Distinct(s) /\ InOrder(T, s) /\ Len(s) \in Nat /\ Chained(T)
      /\ p \in 1..Len(s) /\ s[p] = e /\ e \in Event
      /\ T.dt \in [Event -> Date] /\ T.qty \in Amounts /\ T.val \in Amounts /\ T.oh \in Amounts /\ T.cum \in Amounts
      /\ Made(T) \in Amounts /\ T.chain \in [2..4 -> Seq(Event)]
  <2>1. T \in Timelines /\ s \in Seq(Event) /\ Distinct(s) /\ InOrder(T, s) /\ Chained(T)
    BY Fields, OrderIsDistinct DEF Good
  <2>2. p \in 1..Len(s) /\ s[p] = e
    BY <2>1, PlaceIn
  <2>3. Len(s) \in Nat /\ e \in Event
    BY <2>1, <2>2, SeqFacts
  <2> QED
    BY <2>1, <2>2, <2>3, Fields
<1>1. /\ U.line = RemoveAt(s, p)
      /\ U.dt = [T.dt EXCEPT ![e] = 0] /\ U.qty = [T.qty EXCEPT ![e] = 0] /\ U.val = [T.val EXCEPT ![e] = 0]
      /\ U.oh = [f EXCEPT ![e] = 0] /\ U.cum = [g EXCEPT ![e] = 0]
      /\ U.chain = IF e \in Fixed THEN [T.chain EXCEPT ![Type(e)] = RemoveFirst(T.chain[Type(e)], e)] ELSE T.chain
      /\ U = [line |-> U.line, dt |-> U.dt, qty |-> U.qty, val |-> U.val, oh |-> U.oh, cum |-> U.cum, chain |-> U.chain]
  <2>1. Made(T)[e] = Produced(T.qty[e])
    BY <1>0 DEF Made
  <2>2. ErasedOh(T, e) = [f EXCEPT ![e] = 0] /\ ErasedCum(T, e) = [g EXCEPT ![e] = 0]
    BY <2>1 DEF ErasedOh, ErasedCum
  <2> HIDE DEF f, g, U
  <2>3. U = [line |-> RemoveAt(T.line, Place(T.line, e)),
             dt |-> [T.dt EXCEPT ![e] = 0], qty |-> [T.qty EXCEPT ![e] = 0], val |-> [T.val EXCEPT ![e] = 0],
             oh |-> ErasedOh(T, e), cum |-> ErasedCum(T, e),
             chain |-> IF e \in Fixed THEN [T.chain EXCEPT ![Type(e)] = RemoveFirst(T.chain[Type(e)], e)] ELSE T.chain]
    BY <1>0, EraseFields DEF U
  <2> QED
    BY <2>2, <2>3
<1> HIDE DEF U
<1>2. /\ f \in Amounts /\ MovedBy(s, Bucket(s, p), -T.qty[e], T.oh, f)
      /\ g \in Amounts /\ MovedBy(s, p..Len(s), -Made(T)[e], T.cum, g)
  <2>1. T.qty[e] \in Int /\ Made(T)[e] \in Int
    BY <1>0 DEF Amounts
  <2>2. -T.qty[e] \in Int /\ -Made(T)[e] \in Int
    BY <2>1
  <2> DEFINE P == Bucket(s, p)
             R == p..Len(s)
  <2>3. P \subseteq 1..Len(s) /\ R \subseteq 1..Len(s)
    BY <1>0 DEF Bucket
  <2> HIDE DEF P, R
  <2>4. f \in Amounts /\ MovedBy(s, P, -T.qty[e], T.oh, f)
    BY <1>0, <2>2, <2>3, ShiftMoves DEF P
  <2>5. g \in Amounts /\ MovedBy(s, R, -Made(T)[e], T.cum, g)
    BY <1>0, <2>2, <2>3, ShiftMoves DEF R
  <2> QED
    BY <2>4, <2>5 DEF P, R
<1> HIDE DEF f, g, p
<1>3. /\ U.dt \in [Event -> Date] /\ U.dt[e] = 0 /\ SameBut(T.dt, U.dt, e)
      /\ U.qty \in Amounts /\ U.qty[e] = 0 /\ SameBut(T.qty, U.qty, e)
      /\ U.val \in Amounts /\ SameBut(T.val, U.val, e)
      /\ U.oh \in Amounts /\ SameBut(f, U.oh, e)
      /\ U.cum \in Amounts /\ SameBut(g, U.cum, e)
  <2>1. 0 \in Date /\ 0 \in Int
    BY PlanAssumption DEF Date
  <2>2. \A h \in Amounts : [h EXCEPT ![e] = 0] \in Amounts /\ [h EXCEPT ![e] = 0][e] = 0 /\ SameBut(h, [h EXCEPT ![e] = 0], e)
    BY <1>0, <2>1 DEF Amounts, SameBut
  <2>3. U.dt \in [Event -> Date] /\ U.dt[e] = 0 /\ SameBut(T.dt, U.dt, e)
    BY <1>0, <1>1, <2>1 DEF SameBut
  <2>4. U.qty \in Amounts /\ U.qty[e] = 0 /\ SameBut(T.qty, U.qty, e)
    <3> DEFINE h == T.qty
               k == U.qty
    <3>1. h \in Amounts /\ k = [h EXCEPT ![e] = 0] /\ e \in Event
      BY <1>0, <1>1
    <3> HIDE DEF h, k
    <3>2. k \in Amounts /\ k[e] = 0 /\ \A y \in Event : y # e => k[y] = h[y]
      BY <2>1, <3>1 DEF Amounts
    <3> QED
      BY <3>2 DEF h, k, SameBut
  <2>5. U.val \in Amounts /\ SameBut(T.val, U.val, e)
    BY <1>0, <1>1, <2>2
  <2>6. U.oh \in Amounts /\ SameBut(f, U.oh, e) /\ U.cum \in Amounts /\ SameBut(g, U.cum, e)
    BY <1>1, <1>2, <2>2
  <2> QED
    BY <2>3, <2>4, <2>5, <2>6
<1>4. /\ RemovedFrom(s, p, U.line) /\ U.line \in Seq(Event) /\ Distinct(U.line)
      /\ \A x : x \in ToSet(U.line) <=> x \in ToSet(s) /\ x # e
  <2>1. RemovedFrom(s, p, U.line)
    BY <1>0, <1>1, RemoveAtRemoves
  <2>2. U.line \in Seq(Event)
    BY <2>1 DEF RemovedFrom
  <2>3. Distinct(U.line) /\ \A x : x \in ToSet(U.line) <=> x \in ToSet(s) /\ x # s[p]
    <3> HIDE DEF s
    <3> QED
      BY <1>0, <2>1, RemovedSet
  <2> QED
    BY <1>0, <2>1, <2>2, <2>3
<1>5. /\ \A t \in 2..4 : t # Type(e) => U.chain[t] = T.chain[t]
      /\ U.chain \in [2..4 -> Seq(Event)] /\ Chained(U)
  <2>1. \A t \in 2..4 : t # Type(e) => U.chain[t] = T.chain[t]
    BY <1>0, <1>1
  <2>2. ASSUME NEW t \in 2..4 PROVE U.chain[t] \in Seq(Event) /\ Lists(U.line, U.chain[t], t)
    <3>1. T.chain[t] \in Seq(Event) /\ Lists(s, T.chain[t], t)
      BY <1>0 DEF Chained
    <3>2. CASE t # Type(e)
      BY <1>4, <2>1, <3>1, <3>2 DEF Lists
    <3>3. CASE t = Type(e)
      <4>1. e \in Fixed /\ e \in ToSet(T.chain[t]) /\ Distinct(T.chain[t])
        BY <1>0, <3>1, <3>3, Types DEF Lists
      <4>2. U.chain[t] = RemoveFirst(T.chain[t], e)
        BY <1>0, <1>1, <3>3, <4>1
      <4>3. PICK k \in 1..Len(T.chain[t]) : T.chain[t][k] = e /\ RemovedFrom(T.chain[t], k, U.chain[t])
        BY <3>1, <4>1, <4>2, UnlinkRemoves
      <4>4. /\ Distinct(U.chain[t]) /\ U.chain[t] \in Seq(Event)
            /\ \A x : x \in ToSet(U.chain[t]) <=> x \in ToSet(T.chain[t]) /\ x # e
        <5> DEFINE c == T.chain[t]
                   d == U.chain[t]
        <5>1. c \in Seq(Event) /\ Distinct(c) /\ k \in 1..Len(c) /\ c[k] = e /\ RemovedFrom(c, k, d)
          BY <3>1, <4>1, <4>3
        <5> HIDE DEF c, d
        <5>2. Distinct(d) /\ \A x : x \in ToSet(d) <=> x \in ToSet(c) /\ x # c[k]
          BY <5>1, RemovedSet
        <5>3. d \in Seq(Event)
          BY <5>1 DEF RemovedFrom
        <5> QED
          BY <5>1, <5>2, <5>3 DEF c, d
      <4> QED
        BY <1>4, <3>1, <3>3, <4>4 DEF Lists
    <3> QED
      BY <3>2, <3>3
  <2>3. U.chain \in [2..4 -> Seq(Event)]
    <3>1. U.chain = [t \in 2..4 |-> U.chain[t]]
      BY <1>0, <1>1
    <3> QED
      BY <2>2, <3>1
  <2> QED
    BY <2>1, <2>2, <2>3 DEF Chained
<1>6. U \in Timelines
  BY <1>1, <1>3, <1>4, <1>5 DEF Timelines
<1>7. \A k \in 1..Len(s) : s[k] \in Event /\ (k # p => s[k] # e)
  BY <1>0, SeqFacts DEF Distinct
<1>8. InOrder(U, U.line)
  <2>1. InOrder(T, U.line)
    BY <1>0, <1>4, RemovedKeepsOrder
  <2>2. \A k \in 1..Len(U.line) : U.line[k] \in Event /\ U.line[k] # e
    BY <1>4, SeqFacts
  <2>3. Agree(U.line, T.dt, U.dt) /\ Agree(U.line, T.qty, U.qty)
    BY <1>3, <2>2 DEF Agree, SameBut
  <2> QED
    BY <1>4, <2>1, <2>3, OrderOfLine
<1>9. AddsUp(SetEvent, U.line, U.qty, U.val, U.oh)
  <2>1. AddsUp(SetEvent, s, T.qty, T.val, T.oh)
    BY DEF Good, Totals
  <2>2. Run(SetEvent, s, p, Bucket(s, p))
    <3>1. p \in 1..Len(s)+1
      BY <1>0
    <3> QED
      BY <1>0, <3>1, BucketIsRun
  <2>3. \A k \in 1..Len(s) : k # p => U.oh[s[k]] = IF k \in Bucket(s, p) THEN T.oh[s[k]] + (-T.qty[s[p]]) ELSE T.oh[s[k]]
    BY <1>0, <1>2, <1>3, <1>7 DEF MovedBy, SameBut
  <2> HIDE DEF s
  <2> QED
    BY <1>0, <1>3, <1>4, <2>1, <2>2, <2>3, LeaveAdds
<1>10. AddsUp({}, U.line, Made(U), U.val, U.cum)
  <2>1. AddsUp({}, s, Made(T), T.val, T.cum)
    BY DEF Good, Totals
  <2>2. Run({}, s, p, p..Len(s))
    <3>1. p \in 1..Len(s)+1
      BY <1>0
    <3> QED
      BY <1>0, <3>1, RestIsRun
  <2> DEFINE R == p..Len(s)
  <2>3. \A k \in 1..Len(s) : k # p => U.cum[s[k]] = IF k \in R THEN T.cum[s[k]] + (-Made(T)[s[p]]) ELSE T.cum[s[k]]
    BY <1>0, <1>2, <1>3, <1>7 DEF MovedBy, SameBut
  <2>4. SameBut(Made(T), Made(U), e) /\ Made(U) \in Amounts
    BY <1>3, <1>6, Fields DEF SameBut, Made
  <2>5. e \notin {} /\ Run({}, s, p, R)
    BY <2>2
  <2> DEFINE none == {}
             w == Made(T)
             w2 == Made(U)
  <2>6. AddsUp(none, s, w, T.val, T.cum) /\ s[p] \notin none /\ Run(none, s, p, R)
    BY <2>1, <2>5
  <2>7. SameBut(w, w2, s[p]) /\ SameBut(T.val, U.val, s[p]) /\ w \in Amounts /\ w2 \in Amounts
    BY <1>0, <1>3, <2>4
  <2>8. \A k \in 1..Len(s) : k # p => U.cum[s[k]] = IF k \in R THEN T.cum[s[k]] + (-w[s[p]]) ELSE T.cum[s[k]]
    BY <2>3
  <2> HIDE DEF s, R, none, w, w2
  <2>10. /\ s \in Seq(Event) /\ Distinct(s) /\ p \in 1..Len(s) /\ RemovedFrom(s, p, U.line)
         /\ T.val \in Amounts /\ T.cum \in Amounts /\ U.val \in Amounts /\ U.cum \in Amounts
    BY <1>0, <1>3, <1>4
  <2>9. AddsUp(none, U.line, w2, U.val, U.cum)
    BY <2>6, <2>7, <2>8, <2>10, LeaveAdds
  <2> QED
    BY <2>9 DEF none, w2
<1>11. NoWeight(U)
  <2>1. NoWeight(T)
    BY DEF Good
  <2> QED
    BY <1>3, <2>1 DEF NoWeight, SameBut, Event
<1>12. Good(U)
  BY <1>5, <1>6, <1>8, <1>9, <1>10, <1>11 DEF Good, Totals
<1>13. LeftFrom(T, e, U)
  BY <1>0, <1>3, <1>4, <1>5 DEF LeftFrom
<1> QED
  BY <1>12, <1>13 DEF U

-----------------------------------------------------------------------------
(* update(): while e walks, the line is in order but for e, and the sums   *)
(* are those with e at another weight, its quantity and "delta", and with  *)
(* what it produced before.                                                *)
InOrderBut(L, s, e) ==
  \A i, j \in 1..Len(s) : i < j /\ s[i] # e /\ s[j] # e => Before(L, s[i], s[j])

Shape(T, e, newqty, d, L) ==
  /\ L \in Timelines
  /\ L.dt = [T.dt EXCEPT ![e] = d] /\ L.qty = [T.qty EXCEPT ![e] = newqty]
  /\ L.val = T.val /\ L.chain = T.chain
  /\ Len(L.line) = Len(T.line) /\ Distinct(L.line) /\ \A x : x \in ToSet(L.line) <=> x \in ToSet(T.line)
  /\ InOrderBut(L, L.line, e)

Weights(L, e, delta) == [L.qty EXCEPT ![e] = L.qty[e] + delta]

MadeBut(L, e, oldqty) == [Made(L) EXCEPT ![e] = Produced(oldqty)]

Sums(L, e, oldqty, delta) ==
  /\ AddsUp(SetEvent, L.line, Weights(L, e, delta), L.val, L.oh)
  /\ AddsUp({}, L.line, MadeBut(L, e, oldqty), L.val, L.cum)

SetSeen(L) == \E x \in SetEvent : x \in ToSet(L.line)

LaterState(T, e, newqty, d, s) ==
  /\ Shape(T, e, newqty, d, s.tl)
  /\ Sums(s.tl, e, T.qty[e], s.delta)
  /\ s.delta \in Int /\ s.in_bucket \in BOOLEAN
  /\ s.in_bucket => s.delta = -newqty /\ SetSeen(s.tl) /\ ~PassesPrev(s.tl, e)
  /\ ~s.in_bucket => s.delta = T.qty[e] - newqty

EarlierState(T, e, newqty, d, s) ==
  /\ Shape(T, e, newqty, d, s.tl)
  /\ Sums(s.tl, e, T.qty[e], s.delta)
  /\ s.delta \in Int
  /\ s.delta = T.qty[e] - newqty \/ SetSeen(s.tl)
  /\ s.delta \in {0, T.qty[e] - newqty} \/ ~PassesPrev(s.tl, e)
  /\ ~PassesNext(s.tl, e)

LEMMA WeightFacts ==
  ASSUME NEW L \in Timelines, NEW e \in Event, NEW delta \in Int, NEW oldqty \in Int
  PROVE  /\ Weights(L, e, delta) \in Amounts /\ Weights(L, e, delta)[e] = L.qty[e] + delta
         /\ \A x \in Event : x # e => Weights(L, e, delta)[x] = L.qty[x]
         /\ MadeBut(L, e, oldqty) \in Amounts /\ MadeBut(L, e, oldqty)[e] = Produced(oldqty)
         /\ \A x \in Event : x # e => MadeBut(L, e, oldqty)[x] = Produced(L.qty[x])
         /\ L.qty[e] \in Int /\ Produced(oldqty) \in Int
<1>1. L.qty \in [Event -> Int] /\ Made(L) \in [Event -> Int] /\ L.qty[e] \in Int
  BY Fields DEF Amounts
<1>2. L.qty[e] + delta \in Int /\ Produced(oldqty) \in Int
  BY <1>1 DEF Produced
<1>3. \A x \in Event : Made(L)[x] = Produced(L.qty[x])
  BY DEF Made
<1> QED
  BY <1>1, <1>2, <1>3 DEF Weights, MadeBut, Amounts

LEMMA StartState ==
  ASSUME NEW T, Good(T), NEW e \in Change, e \in ToSet(T.line), NEW newqty \in Int, NEW d \in Date
  PROVE  LaterState(T, e, newqty, d, [tl |-> [T EXCEPT !.dt[e] = d, !.qty[e] = newqty],
                                      delta |-> T.qty[e] - newqty, in_bucket |-> FALSE])
<1> DEFINE L == [T EXCEPT !.dt[e] = d, !.qty[e] = newqty]
           q == T.qty[e] - newqty
<1>0. /\ T \in Timelines /\ T.line \in Seq(Event) /\ T.dt \in [Event -> Date] /\ T.qty \in [Event -> Int]
      /\ T.qty \in Amounts /\ Distinct(T.line) /\ e \in Event /\ InOrder(T, T.line) /\ q \in Int /\ T.qty[e] \in Int
  <2>1. T \in Timelines /\ InOrder(T, T.line) /\ e \in Event
    BY DEF Good, Event
  <2>2. T.qty \in [Event -> Int]
    BY <2>1, Fields
  <2>3. T.qty[e] \in Int /\ q \in Int
    BY <2>1, <2>2
  <2> QED
    BY <2>1, <2>2, <2>3, Fields, OrderIsDistinct
<1>1. /\ L.line = T.line /\ L.dt = [T.dt EXCEPT ![e] = d] /\ L.qty = [T.qty EXCEPT ![e] = newqty]
      /\ L.val = T.val /\ L.oh = T.oh /\ L.cum = T.cum /\ L.chain = T.chain
      /\ L = [line |-> L.line, dt |-> L.dt, qty |-> L.qty, val |-> L.val, oh |-> L.oh, cum |-> L.cum, chain |-> L.chain]
  <2>1. T = [line |-> T.line, dt |-> T.dt, qty |-> T.qty, val |-> T.val, oh |-> T.oh, cum |-> T.cum, chain |-> T.chain]
    BY <1>0 DEF Timelines
  <2> DEFINE x == [T.dt EXCEPT ![e] = d]
             y == [T.qty EXCEPT ![e] = newqty]
  <2>2. L = [T EXCEPT !.dt = x, !.qty = y]
    BY <2>1
  <2> HIDE DEF L, x, y
  <2>3. L = [line |-> T.line, dt |-> x, qty |-> y, val |-> T.val, oh |-> T.oh, cum |-> T.cum, chain |-> T.chain]
    BY <2>1, <2>2
  <2> QED
    BY <2>3 DEF x, y
<1> HIDE DEF L, q
<1>2. L \in Timelines
  <2>1. L.dt \in [Event -> Date] /\ L.qty \in [Event -> Int]
    BY <1>0, <1>1
  <2> QED
    BY <1>0, <1>1, <2>1, Fields DEF Timelines, Amounts
<1>3. InOrderBut(L, L.line, e)
  <2>1. \A x \in Event : x # e => L.dt[x] = T.dt[x] /\ L.qty[x] = T.qty[x]
    BY <1>0, <1>1
  <2>2. \A k \in 1..Len(T.line) : T.line[k] \in Event
    BY <1>0, SeqFacts
  <2>3. SUFFICES ASSUME NEW i \in 1..Len(T.line), NEW j \in 1..Len(T.line), i < j, T.line[i] # e, T.line[j] # e
                 PROVE  Before(L, T.line[i], T.line[j])
    BY <1>1 DEF InOrderBut
  <2>4. Before(T, T.line[i], T.line[j])
    BY <1>0, <2>3 DEF InOrder
  <2> QED
    BY <2>1, <2>2, <2>3, <2>4 DEF Before
<1>4. Shape(T, e, newqty, d, L)
  BY <1>0, <1>1, <1>2, <1>3 DEF Shape
<1>5. Weights(L, e, q) = T.qty
  <2>1. L.qty[e] = newqty /\ newqty + q = T.qty[e] /\ DOMAIN L.qty = Event /\ DOMAIN T.qty = Event
    BY <1>0, <1>1 DEF q
  <2> QED
    BY <1>0, <1>1, <2>1 DEF Weights
<1>6. MadeBut(L, e, T.qty[e]) = Made(T)
  <2>1. \A x \in Event : x # e => L.qty[x] = T.qty[x]
    BY <1>0, <1>1
  <2> QED
    BY <2>1 DEF MadeBut, Made
<1>7. Sums(L, e, T.qty[e], q)
  BY <1>1, <1>5, <1>6 DEF Sums, Good, Totals
<1> QED
  BY <1>0, <1>4, <1>7 DEF LaterState, L, q

LEMMA SwapKeepsOrder ==
  ASSUME NEW L, NEW e, NEW s \in Seq(Event), NEW p \in 1..Len(s)-1, NEW t, Swapped(s, p, t),
         s[p] = e \/ s[p+1] = e, InOrderBut(L, s, e)
  PROVE  InOrderBut(L, t, e)
<1>0. Len(s) \in Nat /\ Len(t) = Len(s) /\ p \in 1..Len(s) /\ p + 1 \in 1..Len(s)
  BY SeqFacts DEF Swapped
<1>1. SUFFICES ASSUME NEW i \in 1..Len(t), NEW j \in 1..Len(t), i < j, t[i] # e, t[j] # e
               PROVE  Before(L, t[i], t[j])
  BY DEF InOrderBut
<1>2. /\ i = p => t[i] = s[p+1]
      /\ i = p + 1 => t[i] = s[p]
      /\ i # p /\ i # p + 1 => t[i] = s[i]
      /\ j = p => t[j] = s[p+1]
      /\ j = p + 1 => t[j] = s[p]
      /\ j # p /\ j # p + 1 => t[j] = s[j]
  BY <1>0 DEF Swapped
<1>3. \A a, b \in 1..Len(s) : a < b /\ s[a] # e /\ s[b] # e => Before(L, s[a], s[b])
  BY DEF InOrderBut
<1>4. ~(i = p /\ j = p + 1)
  BY <1>1, <1>2
<1> DEFINE a == IF i = p THEN p + 1 ELSE IF i = p + 1 THEN p ELSE i
           b == IF j = p THEN p + 1 ELSE IF j = p + 1 THEN p ELSE j
<1>5. a \in 1..Len(s) /\ b \in 1..Len(s) /\ a < b
  BY <1>0, <1>1, <1>4
<1>6. t[i] = s[a] /\ t[j] = s[b]
  BY <1>2
<1> HIDE DEF a, b
<1> QED
  BY <1>1, <1>3, <1>5, <1>6

LEMMA SwappedSet ==
  ASSUME NEW s \in Seq(Event), Distinct(s), NEW p \in 1..Len(s)-1,
         NEW new, new = [s EXCEPT ![p] = s[p+1], ![p+1] = s[p]]
  PROVE  Swapped(s, p, new) /\ Distinct(new) /\ \A x : x \in ToSet(new) <=> x \in ToSet(s)
<1> DEFINE a == s[p]
           b == s[p+1]
           t == [s EXCEPT ![p] = b, ![p+1] = a]
<1>7. new = t
  OBVIOUS
<1>0. /\ Len(s) \in Nat /\ p \in 1..Len(s) /\ p + 1 \in 1..Len(s) /\ p # p + 1 /\ DOMAIN s = 1..Len(s)
      /\ s \in [1..Len(s) -> Event] /\ a \in Event /\ b \in Event
  <2>1. Len(s) \in Nat /\ DOMAIN s = 1..Len(s) /\ s \in [1..Len(s) -> Event]
    BY LenProperties
  <2>2. p \in 1..Len(s) /\ p + 1 \in 1..Len(s) /\ p # p + 1
    BY <2>1
  <2> QED
    BY <2>1, <2>2
<1> HIDE DEF a, b
<1>1. /\ t \in [1..Len(s) -> Event] /\ DOMAIN t = 1..Len(s)
      /\ t[p] = b /\ t[p+1] = a /\ \A k \in 1..Len(s) : k # p /\ k # p + 1 => t[k] = s[k]
  BY <1>0
<1> HIDE DEF t
<1>2. t \in Seq(Event) /\ Len(t) = Len(s)
  <2>1. t \in Seq(Event)
    BY <1>0, <1>1, SeqDef
  <2>2. Len(t) \in Nat /\ DOMAIN t = 1..Len(t)
    BY <2>1, SeqFacts
  <2>3. Len(t) = Len(s)
    BY <1>0, <1>1, <2>1, <2>2, LenProperties
  <2> QED
    BY <2>1, <2>3
<1>3. Swapped(s, p, t)
  BY <1>1, <1>2 DEF Swapped, a, b
<1>4. \A i \in 1..Len(t) : t[i] = s[IF i = p THEN p + 1 ELSE IF i = p + 1 THEN p ELSE i]
  BY <1>1, <1>2 DEF a, b
<1>5. Distinct(t)
  <2>1. SUFFICES ASSUME NEW i \in 1..Len(t), NEW j \in 1..Len(t), t[i] = t[j] PROVE i = j
    BY DEF Distinct
  <2> DEFINE k == IF i = p THEN p + 1 ELSE IF i = p + 1 THEN p ELSE i
             m == IF j = p THEN p + 1 ELSE IF j = p + 1 THEN p ELSE j
  <2>2. k \in 1..Len(s) /\ m \in 1..Len(s) /\ (k = m => i = j)
    BY <1>0, <1>2
  <2>3. s[k] = s[m]
    BY <1>4, <2>1
  <2> HIDE DEF k, m
  <2> QED
    BY <2>2, <2>3 DEF Distinct
<1>6. \A x : x \in ToSet(t) <=> x \in ToSet(s)
  <2>1. ASSUME NEW x \in ToSet(t) PROVE x \in ToSet(s)
    <3>1. PICK i \in 1..Len(t) : t[i] = x
      BY <1>2, <2>1, SeqFacts
    <3> DEFINE k == IF i = p THEN p + 1 ELSE IF i = p + 1 THEN p ELSE i
    <3>2. k \in 1..Len(s) /\ s[k] = x
      BY <1>0, <1>2, <1>4, <3>1
    <3> HIDE DEF k
    <3> QED
      BY <3>2, SeqFacts
  <2>2. ASSUME NEW x \in ToSet(s) PROVE x \in ToSet(t)
    <3>1. PICK i \in 1..Len(s) : s[i] = x
      BY <2>2, SeqFacts
    <3> DEFINE k == IF i = p THEN p + 1 ELSE IF i = p + 1 THEN p ELSE i
    <3>2. k \in 1..Len(t) /\ t[k] = x
      BY <1>0, <1>1, <1>2, <3>1 DEF a, b
    <3> HIDE DEF k
    <3> QED
      BY <1>2, <3>2, SeqFacts
  <2> QED
    BY <2>1, <2>2
<1> QED
  BY <1>3, <1>5, <1>6, <1>7

LEMMA SwapShape ==
  ASSUME NEW T, NEW e \in Event, NEW newqty, NEW d, NEW L, Shape(T, e, newqty, d, L),
         NEW p \in 1..Len(L.line)-1, L.line[p] = e \/ L.line[p+1] = e,
         NEW M \in Timelines, Swapped(L.line, p, M.line), Distinct(M.line),
         \A x : x \in ToSet(M.line) <=> x \in ToSet(L.line),
         M.dt = L.dt, M.qty = L.qty, M.val = L.val, M.chain = L.chain
  PROVE  Shape(T, e, newqty, d, M) /\ (SetSeen(M) <=> SetSeen(L))
<1>1. L \in Timelines /\ L.line \in Seq(Event) /\ InOrderBut(L, L.line, e)
  BY Fields DEF Shape
<1>2. InOrderBut(L, M.line, e)
  BY <1>1, SwapKeepsOrder
<1>3. InOrderBut(M, M.line, e)
  BY <1>2 DEF InOrderBut, Before
<1>4. Len(M.line) = Len(L.line)
  BY DEF Swapped
<1> QED
  BY <1>3, <1>4 DEF Shape, SetSeen

(* No event that sets the total takes part, and no weight changes. *)
LEMMA PlainSwapAdds ==
  ASSUME NEW sets, NEW s \in Seq(Event), NEW p \in 1..Len(s)-1, NEW t, Swapped(s, p, t),
         NEW w \in Amounts, NEW v \in Amounts, NEW f \in Amounts, NEW g \in Amounts,
         AddsUp(sets, s, w, v, f), s[p] \notin sets, s[p+1] \notin sets,
         g[s[p]] = f[s[p+1]], g[s[p+1]] = f[s[p+1]] - w[s[p]],
         \A k \in 1..Len(s) : k # p /\ k # p + 1 => g[s[k]] = f[s[k]]
  PROVE  AddsUp(sets, t, w, v, g)
<1> DEFINE P == {k \in p+2..Len(s) : \A j \in p+2..k : s[j] \notin sets}
           a == s[p]
           b == s[p+1]
<1>0. /\ Len(s) \in Nat /\ p \in 1..Len(s) /\ p + 1 \in 1..Len(s) /\ p + 1 # 1 /\ (p + 1) - 1 = p
      /\ a \in Event /\ b \in Event
  <2>1. Len(s) \in Nat /\ p \in 1..Len(s) /\ p + 1 \in 1..Len(s) /\ p + 1 # 1 /\ (p + 1) - 1 = p
    BY SeqFacts
  <2> QED
    BY <2>1, SeqFacts
<1> HIDE DEF a, b
<1>1. Run(sets, s, p + 2, P)
  <2>1. \A k \in P : k \in p+2..Len(s) /\ s[k] \notin sets
    BY <1>0
  <2>2. p + 2 <= Len(s) => (p + 2 \in P <=> s[p+2] \notin sets)
    BY <1>0
  <2>3. ASSUME NEW k \in (p+2)+1..Len(s) PROVE k \in P <=> k - 1 \in P /\ s[k] \notin sets
    <3>1. k \in p+2..Len(s) /\ k - 1 \in p+2..Len(s) /\ k \in p+2..k
      BY <1>0
    <3>2. \A j \in p+2..k : j \in p+2..k-1 \/ j = k
      BY <1>0
    <3>3. \A j \in p+2..k-1 : j \in p+2..k
      BY <1>0
    <3> QED
      BY <3>1, <3>2, <3>3
  <2> QED
    BY <2>1, <2>2, <2>3 DEF Run
<1> HIDE DEF P
<1>2. OthersKeep(s, p, w, w)
  BY DEF OthersKeep
<1>3. OthersMovedBy(s, p, P, 0, f, g)
  <2>1. \A k \in 1..Len(s) : f[s[k]] \in Int
    BY SeqFacts DEF Amounts
  <2> QED
    BY <2>1 DEF OthersMovedBy
<1>4. f[a] = w[a] + Prior(f, s, p) /\ f[b] = w[b] + f[a]
  <2>1. f[a] = w[a] + Prior(f, s, p) /\ f[b] = w[b] + Prior(f, s, p + 1)
    BY <1>0 DEF AddsUp, a, b
  <2> QED
    BY <1>0, <2>1 DEF Prior, a
<1>5. f[a] \in Int /\ f[b] \in Int /\ w[a] \in Int /\ w[b] \in Int /\ Prior(f, s, p) \in Int
  BY <1>0, PriorType DEF Amounts
<1>6. g[a] = f[b] /\ g[b] = f[b] - w[a]
  BY DEF a, b
<1>7. g[b] = w[b] + Prior(f, s, p) /\ g[a] = w[a] + g[b] /\ g[a] = f[b] + 0
  <2> DEFINE fa == f[a]
             fb == f[b]
             wa == w[a]
             wb == w[b]
             ga == g[a]
             gb == g[b]
             r == Prior(f, s, p)
  <2>1. /\ fa = wa + r /\ fb = wb + fa /\ ga = fb /\ gb = fb - wa
        /\ fa \in Int /\ fb \in Int /\ wa \in Int /\ wb \in Int /\ r \in Int
    BY <1>4, <1>5, <1>6
  <2> HIDE DEF fa, fb, wa, wb, ga, gb, r
  <2>2. gb = wb + r /\ ga = wa + gb /\ ga = fb + 0
    BY <2>1
  <2> QED
    BY <2>2 DEF fa, fb, wa, wb, ga, gb, r
<1>8. /\ g[s[p+1]] = IF s[p+1] \in sets THEN v[s[p+1]] ELSE w[s[p+1]] + Prior(f, s, p)
      /\ g[s[p]] = IF s[p] \in sets THEN v[s[p]] ELSE w[s[p]] + g[s[p+1]]
      /\ g[s[p]] = f[s[p+1]] + 0
  BY <1>7 DEF a, b
<1> HIDE DEF a, b
<1>9. /\ 0 \in Int /\ s \in Seq(Event) /\ p \in 1..Len(s)-1 /\ Swapped(s, p, t) /\ w \in Amounts /\ v \in Amounts
      /\ f \in Amounts /\ g \in Amounts /\ AddsUp(sets, s, w, v, f)
  OBVIOUS
<1> QED
  BY <1>1, <1>2, <1>3, <1>8, <1>9, SwapAdds

(* A step of the walk towards later events. *)
LEMMA LaterStep ==
  ASSUME NEW T, NEW e \in Event \ SetEvent, T.qty[e] \in Int, NEW newqty \in Int, NEW d, NEW s,
         LaterState(T, e, newqty, d, s), PassesNext(s.tl, e), e \in ToSet(s.tl.line)
  PROVE  /\ LaterState(T, e, newqty, d, SwapNext(s, e, T.qty[e]))
         /\ Place(SwapNext(s, e, T.qty[e]).tl.line, e) = Place(s.tl.line, e) + 1
<1> DEFINE L == s.tl
           l == L.line
           p == Place(l, e)
           x == l[p+1]
           old == T.qty[e]
           u == SwapNext(s, e, old)
           M == u.tl
           t == [l EXCEPT ![p] = x, ![p+1] = e]
           oh == IF x \in SetEvent THEN [L.oh EXCEPT ![e] = L.oh[x]]
                 ELSE IF s.in_bucket THEN [L.oh EXCEPT ![e] = L.oh[e] + L.qty[x]]
                 ELSE [L.oh EXCEPT ![e] = L.oh[x], ![x] = L.oh[x] - old]
           cum == [L.cum EXCEPT ![e] = L.cum[x], ![x] = L.cum[x] - Produced(old)]
<1>0. /\ L \in Timelines /\ l \in Seq(Event) /\ Len(l) \in Nat /\ Distinct(l)
      /\ p \in 1..Len(l)-1 /\ l[p] = e /\ x \in Event /\ x # e /\ ~Before(L, e, x)
      /\ p \in 1..Len(l) /\ p + 1 \in 1..Len(l)
  <2>1. L \in Timelines /\ l \in Seq(Event) /\ Len(l) \in Nat /\ Distinct(l)
    BY Fields, SeqFacts DEF LaterState, Shape
  <2>2. p \in 1..Len(l) /\ l[p] = e
    <3>1. e \in ToSet(l)
      OBVIOUS
    <3> HIDE DEF l
    <3> QED
      BY <2>1, <3>1, PlaceIn
  <2>3. p < Len(l) /\ ~Before(L, e, x)
    BY DEF PassesNext
  <2>4. p \in 1..Len(l)-1 /\ p + 1 \in 1..Len(l) /\ p # p + 1
    BY <2>1, <2>2, <2>3
  <2>5. x \in Event /\ x # e
    BY <2>1, <2>2, <2>4, SeqFacts DEF Distinct
  <2> QED
    BY <2>1, <2>2, <2>3, <2>4, <2>5
<1>1. /\ M.line = t /\ M.dt = L.dt /\ M.qty = L.qty /\ M.val = L.val /\ M.chain = L.chain
      /\ M.oh = oh /\ M.cum = cum
      /\ M = [line |-> M.line, dt |-> M.dt, qty |-> M.qty, val |-> M.val, oh |-> M.oh, cum |-> M.cum, chain |-> M.chain]
      /\ u.delta = (IF x \in SetEvent THEN -L.qty[e] ELSE s.delta)
      /\ u.in_bucket = (s.in_bucket \/ x \in SetEvent)
  <2>1. L = [line |-> l, dt |-> L.dt, qty |-> L.qty, val |-> L.val, oh |-> L.oh, cum |-> L.cum, chain |-> L.chain]
    BY <1>0 DEF Timelines
  <2>2. u = [tl |-> [L EXCEPT !.line = t, !.oh = oh, !.cum = cum],
             delta |-> IF x \in SetEvent THEN -L.qty[e] ELSE s.delta,
             in_bucket |-> s.in_bucket \/ x \in SetEvent]
    BY DEF SwapNext
  <2> HIDE DEF L, l, p, x, t, oh, cum, u, old
  <2>3. M = [L EXCEPT !.line = t, !.oh = oh, !.cum = cum]
    BY <2>2
  <2>4. M = [line |-> t, dt |-> L.dt, qty |-> L.qty, val |-> L.val, oh |-> oh, cum |-> cum, chain |-> L.chain]
    BY <2>1, <2>3
  <2> QED
    BY <2>2, <2>4
<1> HIDE DEF u
<1>2. Swapped(l, p, M.line) /\ Distinct(M.line) /\ \A y : y \in ToSet(M.line) <=> y \in ToSet(l)
  <2>1. M.line = [l EXCEPT ![p] = l[p+1], ![p+1] = l[p]]
    BY <1>0, <1>1
  <2> HIDE DEF M, l, p
  <2> QED
    BY <1>0, <2>1, SwappedSet
<1> HIDE DEF L, l, p, x, old, t, M
<1>3. /\ L.qty \in Amounts /\ L.val \in Amounts /\ L.oh \in Amounts /\ L.cum \in Amounts
      /\ L.qty[x] \in Int /\ L.qty[e] \in Int /\ L.oh[x] \in Int /\ L.oh[e] \in Int
      /\ L.cum[x] \in Int /\ L.cum[e] \in Int /\ old \in Int /\ Produced(old) \in Int /\ s.delta \in Int
  <2>1. L.qty \in Amounts /\ L.val \in Amounts /\ L.oh \in Amounts /\ L.cum \in Amounts
    BY <1>0, Fields
  <2>2. \A f \in Amounts : f[x] \in Int /\ f[e] \in Int
    BY <1>0 DEF Amounts
  <2>3. old \in Int /\ s.delta \in Int
    BY DEF LaterState, old
  <2>4. Produced(old) \in Int
    BY <2>3 DEF Produced
  <2> QED
    BY <2>1, <2>2, <2>3, <2>4
<1>4. /\ M.oh \in Amounts
      /\ M.oh[e] = IF x \notin SetEvent /\ s.in_bucket THEN L.oh[e] + L.qty[x] ELSE L.oh[x]
      /\ M.oh[x] = IF x \notin SetEvent /\ ~s.in_bucket THEN L.oh[x] - old ELSE L.oh[x]
      /\ \A y \in Event : y # x /\ y # e => M.oh[y] = L.oh[y]
  <2>1. CASE x \in SetEvent
    <3> DEFINE f == L.oh
               g == M.oh
               a == L.oh[x]
    <3>1. g = [f EXCEPT ![e] = a] /\ f \in Amounts /\ a \in Int /\ e \in Event /\ x \in Event /\ x # e
      BY <1>0, <1>1, <1>3, <2>1
    <3>2. f[x] = a
      OBVIOUS
    <3> HIDE DEF f, g, a
    <3>3. g \in Amounts /\ g[e] = a /\ \A y \in Event : y # e => g[y] = f[y]
      BY <3>1 DEF Amounts
    <3>4. g[x] = a
      BY <3>1, <3>2, <3>3
    <3> QED
      BY <2>1, <3>3, <3>4 DEF f, g, a
  <2>2. CASE x \notin SetEvent /\ s.in_bucket
    <3> DEFINE f == L.oh
               g == M.oh
               a == L.oh[e] + L.qty[x]
    <3>1. g = [f EXCEPT ![e] = a] /\ f \in Amounts /\ a \in Int /\ e \in Event /\ x \in Event /\ x # e
      <4>1. g = [f EXCEPT ![e] = a]
        BY <1>1, <2>2
      <4>2. f \in Amounts /\ a \in Int
        BY <1>3
      <4>3. e \in Event /\ x \in Event /\ x # e
        BY <1>0
      <4> QED
        BY <4>1, <4>2, <4>3
    <3> HIDE DEF f, g, a
    <3>2. g \in Amounts /\ g[e] = a /\ \A y \in Event : y # e => g[y] = f[y]
      BY <3>1 DEF Amounts
    <3>3. g[x] = f[x]
      BY <3>1, <3>2
    <3> QED
      BY <2>2, <3>2, <3>3 DEF f, g, a
  <2>3. CASE x \notin SetEvent /\ ~s.in_bucket
    <3>1. M.oh = [L.oh EXCEPT ![e] = L.oh[x], ![x] = L.oh[x] - old] /\ L.oh[x] - old \in Int
      BY <1>1, <1>3, <2>3
    <3> DEFINE a == L.oh[x]
               b == L.oh[x] - old
    <3>2. L.oh \in Amounts /\ e \in Event /\ x \in Event /\ e # x /\ a \in Int /\ b \in Int
      BY <1>0, <1>3
    <3>3. M.oh = [L.oh EXCEPT ![e] = a, ![x] = b]
      BY <3>1
    <3> HIDE DEF a, b
    <3>4. /\ M.oh \in Amounts /\ M.oh[e] = a /\ M.oh[x] = b
          /\ \A y \in Event : y # x /\ y # e => M.oh[y] = L.oh[y]
      BY <3>2, <3>3 DEF Amounts
    <3> QED
      BY <2>3, <3>4 DEF a, b
  <2> QED
    BY <2>1, <2>2, <2>3
<1>5. /\ M.cum \in Amounts /\ M.cum[e] = L.cum[x] /\ M.cum[x] = L.cum[x] - Produced(old)
      /\ \A y \in Event : y # x /\ y # e => M.cum[y] = L.cum[y]
  <2>1. M.cum = [L.cum EXCEPT ![e] = L.cum[x], ![x] = L.cum[x] - Produced(old)] /\ L.cum[x] - Produced(old) \in Int
    BY <1>1, <1>3
  <2> DEFINE a == L.cum[x]
             b == L.cum[x] - Produced(old)
  <2>2. L.cum \in Amounts /\ e \in Event /\ x \in Event /\ e # x /\ a \in Int /\ b \in Int
    BY <1>0, <1>3
  <2>3. M.cum = [L.cum EXCEPT ![e] = a, ![x] = b]
    BY <2>1
  <2> HIDE DEF a, b
  <2>4. /\ M.cum \in Amounts /\ M.cum[e] = a /\ M.cum[x] = b
        /\ \A y \in Event : y # x /\ y # e => M.cum[y] = L.cum[y]
    BY <2>2, <2>3 DEF Amounts
  <2> QED
    BY <2>4 DEF a, b
<1> HIDE DEF oh, cum
<1>6. M \in Timelines
  BY <1>0, <1>1, <1>2, <1>4, <1>5 DEF Timelines, Swapped
<1>7. Shape(T, e, newqty, d, M) /\ (SetSeen(M) <=> SetSeen(L))
  <2>1. Shape(T, e, newqty, d, L)
    BY DEF LaterState, L
  <2>2. /\ p \in 1..Len(L.line)-1 /\ L.line[p] = e /\ M \in Timelines
        /\ Swapped(L.line, p, M.line) /\ Distinct(M.line)
        /\ \A y : y \in ToSet(M.line) <=> y \in ToSet(L.line)
        /\ M.dt = L.dt /\ M.qty = L.qty /\ M.val = L.val /\ M.chain = L.chain
    BY <1>0, <1>1, <1>2, <1>6 DEF l
  <2> QED
    BY <2>1, <2>2, SwapShape
<1>8. L.qty[e] = newqty
  BY <1>0, Fields DEF LaterState, Shape, L
<1>9. u.delta \in Int
  BY <1>1, <1>3
<1>10. ~PassesPrev(M, e) /\ Place(M.line, e) = p + 1
  <2>1. M.line[p+1] = e /\ M.line[p] = x /\ p + 1 \in 1..Len(M.line) /\ M.line \in Seq(Event)
    BY <1>0, <1>2 DEF Swapped, x
  <2>2. Place(M.line, e) = p + 1 /\ (p + 1) - 1 = p
    BY <1>0, <1>2, <2>1, PlaceOf
  <2>3. Before(L, x, e)
    BY <1>0, Fields, Ordering
  <2>4. Before(M, x, e)
    BY <1>1, <2>3 DEF Before
  <2> QED
    BY <2>1, <2>2, <2>4 DEF PassesPrev
<1>11. x \in SetEvent => SetSeen(M)
  <2>1. x \in ToSet(l)
    BY <1>0, SeqFacts DEF x
  <2> QED
    BY <1>2, <2>1 DEF SetSeen
<1> DEFINE w == Weights(L, e, s.delta)
           w2 == Weights(M, e, u.delta)
           m == MadeBut(L, e, old)
           m2 == MadeBut(M, e, old)
<1>12. /\ w \in Amounts /\ w2 \in Amounts /\ w[e] = newqty + s.delta /\ w2[e] = newqty + u.delta
       /\ \A y \in Event : y # e => w[y] = L.qty[y] /\ w2[y] = L.qty[y]
       /\ m \in Amounts /\ m2 = m /\ m[e] = Produced(old)
       /\ \A y \in Event : y # e => m[y] = Produced(L.qty[y])
  <2>1. /\ w \in Amounts /\ w[e] = L.qty[e] + s.delta /\ \A y \in Event : y # e => w[y] = L.qty[y]
        /\ m \in Amounts /\ m[e] = Produced(old) /\ \A y \in Event : y # e => m[y] = Produced(L.qty[y])
    <3>1. L \in Timelines /\ e \in Event /\ s.delta \in Int /\ old \in Int
      BY <1>0, <1>3
    <3> QED
      BY <3>1, WeightFacts
  <2>2. w2 \in Amounts /\ w2[e] = M.qty[e] + u.delta /\ \A y \in Event : y # e => w2[y] = M.qty[y]
    <3>1. e \in Event /\ old \in Int
      BY <1>3
    <3> QED
      BY <1>6, <1>9, <3>1, WeightFacts
  <2>3. m2 = m
    BY <1>1 DEF MadeBut, Made
  <2> QED
    BY <1>1, <1>8, <2>1, <2>2, <2>3
<1> HIDE DEF w, w2, m, m2
<1>13. \A k \in 1..Len(l) : k # p /\ k # p + 1 => l[k] \in Event /\ l[k] # e /\ l[k] # x
  BY <1>0, SeqFacts DEF Distinct, x
<1>14. AddsUp(SetEvent, l, w, L.val, L.oh) /\ AddsUp({}, l, m, L.val, L.cum)
  BY DEF LaterState, Sums, L, l, w, m, old
<1>15. p + 2 \in 1..Len(l)+1 /\ p + 1 # 1 /\ (p + 1) - 1 = p
  BY <1>0
<1>16. AddsUp(SetEvent, M.line, w2, L.val, M.oh)
  <2> DEFINE P == Bucket(l, p + 2)
  <2>1. Run(SetEvent, l, p + 2, P)
    BY <1>0, <1>15, BucketIsRun
  <2> HIDE DEF P
  <2>2. OthersKeep(l, p, w, w2)
    BY <1>12, <1>13 DEF OthersKeep
  <2>3. OthersMovedBy(l, p, P, 0, L.oh, M.oh)
    <3>1. \A k \in 1..Len(l) : k # p /\ k # p + 1 => M.oh[l[k]] = L.oh[l[k]] /\ L.oh[l[k]] \in Int
      BY <1>3, <1>4, <1>13 DEF Amounts
    <3> QED
      BY <3>1 DEF OthersMovedBy
  <2>4. /\ L.oh[e] = w[e] + Prior(L.oh, l, p) /\ Prior(L.oh, l, p) \in Int
        /\ L.oh[x] = IF x \in SetEvent THEN L.val[x] ELSE L.qty[x] + L.oh[e]
    <3>1. L.oh[e] = w[e] + Prior(L.oh, l, p)
      BY <1>0, <1>14 DEF AddsUp
    <3>2. L.oh[x] = IF x \in SetEvent THEN L.val[x] ELSE w[x] + Prior(L.oh, l, p + 1)
      BY <1>0, <1>14 DEF AddsUp, x
    <3>3. Prior(L.oh, l, p + 1) = L.oh[e]
      BY <1>0, <1>15 DEF Prior
    <3>4. Prior(L.oh, l, p) \in Int
      BY <1>0, <1>3, PriorType
    <3> QED
      BY <1>0, <1>12, <3>1, <3>2, <3>3, <3>4
  <2>5. s.in_bucket \in BOOLEAN /\ (s.in_bucket => s.delta = -newqty) /\ (~s.in_bucket => s.delta = old - newqty)
    BY DEF LaterState, old
  <2>6. w2[e] = IF x \in SetEvent \/ s.in_bucket THEN 0 ELSE old
    <3>1. CASE x \in SetEvent
      BY <1>1, <1>8, <1>12, <3>1
    <3>2. CASE x \notin SetEvent /\ s.in_bucket
      BY <1>1, <1>12, <2>5, <3>2
    <3>3. CASE x \notin SetEvent /\ ~s.in_bucket
      BY <1>1, <1>3, <1>12, <2>5, <3>3
    <3> QED
      BY <2>5, <3>1, <3>2, <3>3
  <2>7. w[e] = IF s.in_bucket THEN 0 ELSE old
    BY <1>3, <1>12, <2>5
  <2>11. w2[x] = L.qty[x]
    BY <1>0, <1>12
  <2>8. M.oh[x] = IF x \in SetEvent THEN L.val[x] ELSE w2[x] + Prior(L.oh, l, p)
    BY <1>3, <1>4, <2>4, <2>5, <2>7, <2>11
  <2>9. M.oh[e] = w2[e] + M.oh[x] /\ M.oh[e] = L.oh[x] + 0
    BY <1>3, <1>4, <2>4, <2>5, <2>6, <2>7
  <2>10. /\ M.oh[l[p+1]] = IF l[p+1] \in SetEvent THEN L.val[l[p+1]] ELSE w2[l[p+1]] + Prior(L.oh, l, p)
         /\ M.oh[l[p]] = IF l[p] \in SetEvent THEN L.val[l[p]] ELSE w2[l[p]] + M.oh[l[p+1]]
         /\ M.oh[l[p]] = L.oh[l[p+1]] + 0
    BY <1>0, <2>8, <2>9 DEF x
  <2>12. /\ l \in Seq(Event) /\ p \in 1..Len(l)-1 /\ Swapped(l, p, M.line) /\ w \in Amounts /\ w2 \in Amounts
         /\ L.val \in Amounts /\ L.oh \in Amounts /\ M.oh \in Amounts /\ 0 \in Int /\ AddsUp(SetEvent, l, w, L.val, L.oh)
    BY <1>0, <1>2, <1>3, <1>4, <1>12, <1>14
  <2> QED
    BY <2>1, <2>2, <2>3, <2>10, <2>12, SwapAdds
<1>17. AddsUp({}, M.line, m, L.val, M.cum)
  <2> DEFINE none == {}
  <2>1. AddsUp(none, l, m, L.val, L.cum) /\ l[p] \notin none /\ l[p+1] \notin none
    BY <1>14
  <2> HIDE DEF none
  <2>2. M.cum[l[p]] = L.cum[l[p+1]] /\ M.cum[l[p+1]] = L.cum[l[p+1]] - m[l[p]]
    BY <1>0, <1>5, <1>12 DEF x
  <2>3. \A k \in 1..Len(l) : k # p /\ k # p + 1 => M.cum[l[k]] = L.cum[l[k]]
    BY <1>5, <1>13
  <2>4. /\ l \in Seq(Event) /\ p \in 1..Len(l)-1 /\ Swapped(l, p, M.line) /\ m \in Amounts
        /\ L.val \in Amounts /\ L.cum \in Amounts /\ M.cum \in Amounts
    BY <1>0, <1>2, <1>3, <1>5, <1>12
  <2>5. AddsUp(none, M.line, m, L.val, M.cum)
    BY <2>1, <2>2, <2>3, <2>4, PlainSwapAdds
  <2> QED
    BY <2>5 DEF none
<1>18. Sums(M, e, old, u.delta)
  BY <1>1, <1>12, <1>16, <1>17 DEF Sums, w2, m2
<1>19. /\ u.in_bucket \in BOOLEAN
       /\ u.in_bucket => u.delta = -newqty /\ SetSeen(M) /\ ~PassesPrev(M, e)
       /\ ~u.in_bucket => u.delta = old - newqty
  BY <1>1, <1>7, <1>8, <1>10, <1>11 DEF LaterState, L, old
<1>20. LaterState(T, e, newqty, d, u)
  BY <1>7, <1>9, <1>18, <1>19 DEF LaterState, M, old
<1> QED
  BY <1>10, <1>20 DEF u, M, p, l, L, old

(* A step of the walk towards earlier events. *)
LEMMA EarlierStep ==
  ASSUME NEW T, NEW e \in Event \ SetEvent, T.qty[e] \in Int, NEW newqty \in Int, NEW d, NEW s,
         EarlierState(T, e, newqty, d, s), PassesPrev(s.tl, e), e \in ToSet(s.tl.line)
  PROVE  /\ EarlierState(T, e, newqty, d, SwapPrev(s, e, T.qty[e]))
         /\ Place(SwapPrev(s, e, T.qty[e]).tl.line, e) = Place(s.tl.line, e) - 1
<1> DEFINE L == s.tl
           l == L.line
           p == Place(l, e)
           r == p - 1
           x == l[r]
           old == T.qty[e]
           u == SwapPrev(s, e, old)
           M == u.tl
           t == [l EXCEPT ![p] = x, ![r] = e]
           leave == IF s.delta # 0 THEN old ELSE L.qty[e]
           shifted == Shift(L.oh, t, Bucket(t, p+1), -leave)
           prior == IF p = 2 THEN 0 ELSE L.oh[t[p-2]]
           oh == IF x \in SetEvent THEN [shifted EXCEPT ![e] = L.qty[e] + prior]
                 ELSE [L.oh EXCEPT ![x] = L.oh[e], ![e] = L.oh[e] - L.qty[x]]
           cum == [L.cum EXCEPT ![x] = L.cum[e], ![e] = L.cum[e] - Produced(L.qty[x])]
<1>0. /\ L \in Timelines /\ l \in Seq(Event) /\ Len(l) \in Nat /\ Distinct(l)
      /\ r \in 1..Len(l)-1 /\ p = r + 1 /\ l[r+1] = e /\ l[p] = e /\ x \in Event /\ x # e /\ ~Before(L, x, e)
      /\ p \in 1..Len(l) /\ r \in 1..Len(l) /\ r # p
  <2>1. L \in Timelines /\ l \in Seq(Event) /\ Len(l) \in Nat /\ Distinct(l)
    BY Fields, SeqFacts DEF EarlierState, Shape
  <2>2. p \in 1..Len(l) /\ l[p] = e
    <3>1. e \in ToSet(l)
      OBVIOUS
    <3> HIDE DEF l
    <3> QED
      BY <2>1, <3>1, PlaceIn
  <2>3. p > 1 /\ ~Before(L, x, e)
    BY DEF PassesPrev
  <2>4. r \in 1..Len(l)-1 /\ r \in 1..Len(l) /\ r # p /\ p = r + 1
    BY <2>1, <2>2, <2>3
  <2>5. x \in Event /\ x # e
    BY <2>1, <2>2, <2>4, SeqFacts DEF Distinct
  <2> QED
    BY <2>1, <2>2, <2>3, <2>4, <2>5
<1>1. /\ M.line = t /\ M.dt = L.dt /\ M.qty = L.qty /\ M.val = L.val /\ M.chain = L.chain
      /\ M.oh = oh /\ M.cum = cum
      /\ M = [line |-> M.line, dt |-> M.dt, qty |-> M.qty, val |-> M.val, oh |-> M.oh, cum |-> M.cum, chain |-> M.chain]
      /\ u.delta = (IF x \in SetEvent THEN 0 ELSE s.delta)
  <2>1. L = [line |-> l, dt |-> L.dt, qty |-> L.qty, val |-> L.val, oh |-> L.oh, cum |-> L.cum, chain |-> L.chain]
    BY <1>0 DEF Timelines
  <2>2. u = [tl |-> [L EXCEPT !.line = t, !.oh = oh, !.cum = cum],
             delta |-> IF x \in SetEvent THEN 0 ELSE s.delta,
             in_bucket |-> s.in_bucket]
    BY DEF SwapPrev
  <2> HIDE DEF L, l, p, r, x, t, oh, cum, u, old
  <2>3. M = [L EXCEPT !.line = t, !.oh = oh, !.cum = cum]
    BY <2>2
  <2>4. M = [line |-> t, dt |-> L.dt, qty |-> L.qty, val |-> L.val, oh |-> oh, cum |-> cum, chain |-> L.chain]
    BY <2>1, <2>3
  <2> QED
    BY <2>2, <2>4
<1> HIDE DEF u
<1>2. /\ Swapped(l, r, M.line) /\ Distinct(M.line) /\ \A y : y \in ToSet(M.line) <=> y \in ToSet(l)
  <2>1. M.line = [l EXCEPT ![r+1] = l[r], ![r] = l[r+1]]
    BY <1>0, <1>1
  <2>2. M.line = [l EXCEPT ![r] = l[r+1], ![r+1] = l[r]]
    <3>1. DOMAIN l = 1..Len(l) /\ r \in DOMAIN l /\ r + 1 \in DOMAIN l /\ r # r + 1
      BY <1>0, SeqFacts
    <3> HIDE DEF M, l, r
    <3> QED
      BY <2>1, <3>1
  <2> HIDE DEF M, l, r
  <2> QED
    BY <1>0, <2>2, SwappedSet
<1> HIDE DEF L, l, p, r, x, old, t, M
<1>3. /\ L.qty \in Amounts /\ L.val \in Amounts /\ L.oh \in Amounts /\ L.cum \in Amounts
      /\ L.qty[x] \in Int /\ L.qty[e] \in Int /\ L.oh[x] \in Int /\ L.oh[e] \in Int
      /\ L.cum[x] \in Int /\ L.cum[e] \in Int /\ old \in Int /\ Produced(L.qty[x]) \in Int /\ s.delta \in Int
  <2>1. L.qty \in Amounts /\ L.val \in Amounts /\ L.oh \in Amounts /\ L.cum \in Amounts
    BY <1>0, Fields
  <2>2. \A f \in Amounts : f[x] \in Int /\ f[e] \in Int
    BY <1>0 DEF Amounts
  <2>3. old \in Int /\ s.delta \in Int
    BY DEF EarlierState, old
  <2>4. Produced(L.qty[x]) \in Int
    BY <2>1, <2>2 DEF Produced
  <2> QED
    BY <2>1, <2>2, <2>3, <2>4
<1>4. L.qty[e] = newqty
  BY <1>0, Fields DEF EarlierState, Shape, L
<1>5. s.delta \in {0, old - newqty}
  BY DEF EarlierState, L, old
<1>6. leave = newqty + s.delta /\ leave \in Int /\ -leave \in Int
  <2>1. leave = newqty + s.delta
    BY <1>3, <1>4, <1>5
  <2> HIDE DEF leave
  <2> QED
    BY <1>3, <2>1
<1>7. /\ prior = Prior(L.oh, l, r) /\ prior \in Int
  <2>1. r # 1 => r - 1 \in 1..Len(l) /\ r - 1 # r /\ r - 1 # r + 1 /\ p - 2 = r - 1
    BY <1>0
  <2>2. r = 1 <=> p = 2
    BY <1>0
  <2>3. r # 1 => t[p-2] = l[r-1]
    BY <1>1, <1>2, <2>1 DEF Swapped
  <2>4. prior = Prior(L.oh, l, r)
    BY <2>2, <2>3 DEF Prior
  <2>5. Prior(L.oh, l, r) \in Int
    BY <1>0, <1>3, PriorType
  <2> QED
    BY <2>4, <2>5
<1> HIDE DEF leave, prior
<1> DEFINE P == Bucket(l, r + 2)
<1>8. Run(SetEvent, l, r + 2, P) /\ P = Bucket(t, p + 1) /\ P \subseteq 1..Len(l) /\ r \notin P /\ r + 1 \notin P
  <2>1. r + 2 \in 1..Len(l)+1 /\ p + 1 = r + 2
    BY <1>0
  <2>2. Run(SetEvent, l, r + 2, P)
    BY <1>0, <2>1, BucketIsRun
  <2>3. \A j \in r+2..Len(l) : t[j] = l[j]
    <3>1. \A k \in 1..Len(l) : k # r /\ k # r + 1 => t[k] = l[k]
      BY <1>1, <1>2 DEF Swapped
    <3>2. \A j \in r+2..Len(l) : j \in 1..Len(l) /\ j # r /\ j # r + 1
      BY <1>0
    <3> QED
      BY <3>1, <3>2
  <2>4. Len(t) = Len(l)
    BY <1>1, <1>2 DEF Swapped
  <2>5. \A k \in r+2..Len(l) : \A j \in r+2..k : j \in r+2..Len(l)
    BY <1>0
  <2>6. P = Bucket(t, r + 2)
    BY <2>3, <2>4, <2>5 DEF Bucket
  <2>7. P \subseteq 1..Len(l) /\ r \notin P /\ r + 1 \notin P
    BY <1>0 DEF Bucket
  <2> QED
    BY <2>1, <2>2, <2>6, <2>7
<1> HIDE DEF P
<1>9. shifted \in Amounts /\ MovedBy(t, P, -leave, L.oh, shifted)
  <2>1. t \in Seq(Event) /\ Distinct(t) /\ P \subseteq 1..Len(t)
    BY <1>1, <1>2, <1>8 DEF Swapped
  <2>2. shifted = Shift(L.oh, t, P, -leave)
    BY <1>8
  <2> HIDE DEF shifted
  <2> QED
    BY <1>3, <1>6, <2>1, <2>2, ShiftMoves
<1> HIDE DEF shifted
<1>10. /\ M.oh \in Amounts
       /\ M.oh[e] = IF x \in SetEvent THEN newqty + prior ELSE L.oh[e] - L.qty[x]
       /\ M.oh[x] = IF x \in SetEvent THEN L.oh[x] ELSE L.oh[e]
       /\ \A y \in Event : y # x /\ y # e => M.oh[y] = IF x \in SetEvent THEN shifted[y] ELSE L.oh[y]
  <2>1. CASE x \in SetEvent
    <3>1. M.oh = [shifted EXCEPT ![e] = newqty + prior] /\ newqty + prior \in Int
      BY <1>1, <1>4, <1>7, <2>1
    <3> DEFINE a == newqty + prior
    <3>2. M.oh = [shifted EXCEPT ![e] = a] /\ a \in Int
      BY <3>1
    <3> HIDE DEF a
    <3>3. M.oh \in Amounts /\ M.oh[e] = a /\ \A y \in Event : y # e => M.oh[y] = shifted[y]
      BY <1>9, <3>2 DEF Amounts
    <3>4. shifted[x] = L.oh[x]
      <4>1. r \in 1..Len(t) /\ t[r+1] = x /\ r + 1 \in 1..Len(t)
        BY <1>0, <1>1, <1>2 DEF Swapped, x
      <4> QED
        BY <1>8, <1>9, <4>1 DEF MovedBy
    <3> QED
      BY <1>0, <2>1, <3>3, <3>4 DEF a
  <2>2. CASE x \notin SetEvent
    <3> DEFINE a == L.oh[e]
               b == L.oh[e] - L.qty[x]
    <3>1. M.oh = [L.oh EXCEPT ![x] = a, ![e] = b] /\ a \in Int /\ b \in Int
      BY <1>1, <1>3, <2>2
    <3> HIDE DEF a, b
    <3>3. L.oh \in Amounts /\ x \in Event /\ e \in Event /\ x # e
      BY <1>0, <1>3
    <3>2. M.oh \in Amounts /\ M.oh[x] = a /\ M.oh[e] = b /\ \A y \in Event : y # e /\ y # x => M.oh[y] = L.oh[y]
      BY <3>1, <3>3 DEF Amounts
    <3> QED
      BY <2>2, <3>2 DEF a, b
  <2> QED
    BY <2>1, <2>2
<1>11. /\ M.cum \in Amounts /\ M.cum[x] = L.cum[e] /\ M.cum[e] = L.cum[e] - Produced(L.qty[x])
       /\ \A y \in Event : y # x /\ y # e => M.cum[y] = L.cum[y]
  <2> DEFINE a == L.cum[e]
             b == L.cum[e] - Produced(L.qty[x])
  <2>1. M.cum = [L.cum EXCEPT ![x] = a, ![e] = b] /\ a \in Int /\ b \in Int
    BY <1>1, <1>3
  <2> HIDE DEF a, b
  <2>2. M.cum \in Amounts /\ M.cum[x] = a /\ M.cum[e] = b /\ \A y \in Event : y # e /\ y # x => M.cum[y] = L.cum[y]
    <3> DEFINE f == L.cum
               g == M.cum
    <3>1. f \in Amounts /\ e \in Event /\ x \in Event /\ x # e /\ a \in Int /\ b \in Int /\ g = [f EXCEPT ![x] = a, ![e] = b]
      BY <1>0, <1>3, <2>1
    <3> HIDE DEF f, g
    <3>2. g \in Amounts /\ g[x] = a /\ g[e] = b /\ \A y \in Event : y # e /\ y # x => g[y] = f[y]
      BY <3>1 DEF Amounts
    <3> QED
      BY <3>2 DEF f, g
  <2> QED
    BY <2>2 DEF a, b
<1> HIDE DEF oh, cum
<1>12. M \in Timelines
  BY <1>0, <1>1, <1>2, <1>10, <1>11 DEF Timelines, Swapped
<1>13. Shape(T, e, newqty, d, M) /\ (SetSeen(M) <=> SetSeen(L))
  <2>1. Shape(T, e, newqty, d, L)
    BY DEF EarlierState, L
  <2>2. r \in 1..Len(L.line)-1 /\ Swapped(L.line, r, M.line) /\ L.line[r+1] = e /\ \A y : y \in ToSet(M.line) <=> y \in ToSet(L.line)
    BY <1>0, <1>2 DEF l
  <2>3. /\ e \in Event /\ M \in Timelines /\ Distinct(M.line)
        /\ M.dt = L.dt /\ M.qty = L.qty /\ M.val = L.val /\ M.chain = L.chain
        /\ (L.line[r] = e \/ L.line[r+1] = e)
    BY <1>1, <1>2, <1>12, <2>2
  <2> QED
    BY <2>1, <2>2, <2>3, SwapShape, SMTT(60)
<1>14. ~PassesNext(M, e) /\ Place(M.line, e) = r
  <2>1. M.line[r] = e /\ M.line[r+1] = x /\ r \in 1..Len(M.line) /\ M.line \in Seq(Event)
    BY <1>0, <1>2 DEF Swapped, x
  <2>2. Place(M.line, e) = r
    BY <1>0, <1>2, <2>1, PlaceOf
  <2>3. Before(L, e, x)
    BY <1>0, Fields, Ordering
  <2>4. Before(M, e, x)
    BY <1>1, <2>3 DEF Before
  <2> QED
    BY <2>1, <2>2, <2>4 DEF PassesNext
<1>15. x \in SetEvent => SetSeen(M)
  <2>1. x \in ToSet(l)
    BY <1>0, SeqFacts DEF x
  <2> QED
    BY <1>2, <2>1 DEF SetSeen
<1> DEFINE w == Weights(L, e, s.delta)
           w2 == Weights(M, e, u.delta)
           m == MadeBut(L, e, old)
           m2 == MadeBut(M, e, old)
<1>16. u.delta \in Int /\ u.delta \in {0, old - newqty}
  BY <1>1, <1>3, <1>5
<1>17. /\ w \in Amounts /\ w2 \in Amounts /\ w[e] = leave /\ w2[e] = newqty + u.delta
       /\ \A y \in Event : y # e => w[y] = L.qty[y] /\ w2[y] = L.qty[y]
       /\ m \in Amounts /\ m2 = m
       /\ \A y \in Event : y # e => m[y] = Produced(L.qty[y])
  <2>1. /\ w \in Amounts /\ w[e] = L.qty[e] + s.delta /\ \A y \in Event : y # e => w[y] = L.qty[y]
        /\ m \in Amounts /\ \A y \in Event : y # e => m[y] = Produced(L.qty[y])
    <3>1. L \in Timelines /\ e \in Event /\ s.delta \in Int /\ old \in Int
      BY <1>0, <1>3
    <3> QED
      BY <3>1, WeightFacts
  <2>2. w2 \in Amounts /\ w2[e] = M.qty[e] + u.delta /\ \A y \in Event : y # e => w2[y] = M.qty[y]
    <3> DEFINE c == u.delta
               v == Weights(M, e, c)
    <3>1. M \in Timelines /\ e \in Event /\ c \in Int /\ old \in Int
      BY <1>3, <1>12, <1>16
    <3>2. w2 = v
      OBVIOUS
    <3> HIDE DEF c, w2
    <3>3. v \in Amounts /\ v[e] = M.qty[e] + c /\ \A y \in Event : y # e => v[y] = M.qty[y]
      BY <3>1, WeightFacts
    <3> HIDE DEF v
    <3> QED
      BY <3>2, <3>3 DEF c
  <2>3. m2 = m
    BY <1>1 DEF MadeBut, Made
  <2> QED
    BY <1>1, <1>4, <1>6, <2>1, <2>2, <2>3
<1>18. x \notin SetEvent => w2 = w
  BY <1>1 DEF w, w2, Weights
<1> HIDE DEF w, w2, m, m2
<1>19. \A k \in 1..Len(l) : k # r /\ k # r + 1 => l[k] \in Event /\ l[k] # e /\ l[k] # x
  BY <1>0, SeqFacts DEF Distinct, x
<1>20. AddsUp(SetEvent, l, w, L.val, L.oh) /\ AddsUp({}, l, m, L.val, L.cum)
  BY DEF EarlierState, Sums, L, l, w, m, old
<1>21. /\ L.oh[e] = leave + L.oh[x] /\ L.oh[x] = IF x \in SetEvent THEN L.val[x] ELSE L.qty[x] + prior
  <2>1. L.oh[e] = IF e \in SetEvent THEN L.val[e] ELSE w[e] + Prior(L.oh, l, r + 1)
    BY <1>0, <1>20 DEF AddsUp
  <2>2. L.oh[x] = IF x \in SetEvent THEN L.val[x] ELSE w[x] + Prior(L.oh, l, r)
    BY <1>0, <1>20 DEF AddsUp, x
  <2>3. r + 1 # 1 /\ (r + 1) - 1 = r
    BY <1>0
  <2>4. Prior(L.oh, l, r + 1) = L.oh[x]
    BY <2>3 DEF Prior, x
  <2> QED
    BY <1>0, <1>7, <1>17, <2>1, <2>2, <2>4
<1>22. AddsUp(SetEvent, M.line, w2, L.val, M.oh)
  <2>1. CASE x \in SetEvent
    <3>1. OthersKeep(l, r, w, w2)
      BY <1>17, <1>19 DEF OthersKeep
    <3>2. OthersMovedBy(l, r, P, -leave, L.oh, M.oh)
      <4>1. \A k \in 1..Len(l) : k # r /\ k # r + 1 => t[k] = l[k]
        BY <1>1, <1>2 DEF Swapped
      <4>2. Len(t) = Len(l)
        BY <1>1, <1>2 DEF Swapped
      <4>3. \A k \in 1..Len(l) : k # r /\ k # r + 1 =>
              shifted[l[k]] = IF k \in P THEN L.oh[l[k]] + (-leave) ELSE L.oh[l[k]]
        BY <1>9, <4>1, <4>2 DEF MovedBy
      <4>4. \A k \in 1..Len(l) : k # r /\ k # r + 1 => M.oh[l[k]] = shifted[l[k]]
        BY <1>10, <1>19, <2>1
      <4> QED
        BY <4>3, <4>4 DEF OthersMovedBy
    <3>3. M.oh[x] = L.val[x] /\ M.oh[e] = newqty + prior /\ w2[e] = newqty
      BY <1>1, <1>3, <1>10, <1>17, <1>21, <2>1
    <3>4. M.oh[x] = L.oh[e] + (-leave)
      BY <1>3, <1>6, <1>10, <1>21, <2>1
    <3>5. /\ M.oh[l[r+1]] = IF l[r+1] \in SetEvent THEN L.val[l[r+1]] ELSE w2[l[r+1]] + Prior(L.oh, l, r)
          /\ M.oh[l[r]] = IF l[r] \in SetEvent THEN L.val[l[r]] ELSE w2[l[r]] + M.oh[l[r+1]]
          /\ M.oh[l[r]] = L.oh[l[r+1]] + (-leave)
      BY <1>0, <1>7, <2>1, <3>3, <3>4 DEF x
    <3>6. /\ l \in Seq(Event) /\ r \in 1..Len(l)-1 /\ Swapped(l, r, M.line) /\ w \in Amounts /\ w2 \in Amounts
          /\ L.val \in Amounts /\ L.oh \in Amounts /\ M.oh \in Amounts /\ -leave \in Int /\ AddsUp(SetEvent, l, w, L.val, L.oh)
      BY <1>0, <1>2, <1>3, <1>6, <1>10, <1>17, <1>20
    <3> QED
      BY <1>8, <3>1, <3>2, <3>5, <3>6, SwapAdds
  <2>2. CASE x \notin SetEvent
    <3>1. \A k \in 1..Len(l) : k # r /\ k # r + 1 => M.oh[l[k]] = L.oh[l[k]]
      BY <1>10, <1>19, <2>2
    <3>2. /\ M.oh[l[r]] = L.oh[l[r+1]] /\ M.oh[l[r+1]] = L.oh[l[r+1]] - w[l[r]]
          /\ l[r] \notin SetEvent /\ l[r+1] \notin SetEvent
      BY <1>0, <1>10, <1>17, <2>2 DEF x
    <3>3. /\ l \in Seq(Event) /\ r \in 1..Len(l)-1 /\ Swapped(l, r, M.line) /\ w \in Amounts /\ L.val \in Amounts
          /\ L.oh \in Amounts /\ M.oh \in Amounts /\ AddsUp(SetEvent, l, w, L.val, L.oh)
      BY <1>0, <1>2, <1>3, <1>10, <1>17, <1>20
    <3>4. AddsUp(SetEvent, M.line, w, L.val, M.oh)
      BY <3>1, <3>2, <3>3, PlainSwapAdds
    <3> QED
      BY <1>18, <2>2, <3>4
  <2> QED
    BY <2>1, <2>2
<1>23. AddsUp({}, M.line, m, L.val, M.cum)
  <2> DEFINE none == {}
  <2>1. AddsUp(none, l, m, L.val, L.cum) /\ l[r] \notin none /\ l[r+1] \notin none
    BY <1>20
  <2> HIDE DEF none
  <2>2. M.cum[l[r]] = L.cum[l[r+1]] /\ M.cum[l[r+1]] = L.cum[l[r+1]] - m[l[r]]
    BY <1>0, <1>11, <1>17 DEF x
  <2>3. \A k \in 1..Len(l) : k # r /\ k # r + 1 => M.cum[l[k]] = L.cum[l[k]]
    BY <1>11, <1>19
  <2>4. /\ l \in Seq(Event) /\ r \in 1..Len(l)-1 /\ Swapped(l, r, M.line) /\ m \in Amounts
        /\ L.val \in Amounts /\ L.cum \in Amounts /\ M.cum \in Amounts
    BY <1>0, <1>2, <1>3, <1>11, <1>17
  <2>5. AddsUp(none, M.line, m, L.val, M.cum)
    BY <2>1, <2>2, <2>3, <2>4, PlainSwapAdds
  <2> QED
    BY <2>5 DEF none
<1>24. Sums(M, e, old, u.delta)
  BY <1>1, <1>17, <1>22, <1>23 DEF Sums, w2, m2
<1>25. u.delta = old - newqty \/ SetSeen(M)
  <2>1. s.delta = old - newqty \/ SetSeen(L)
    BY DEF EarlierState, old, L
  <2> QED
    BY <1>1, <1>13, <1>15, <2>1
<1>26. EarlierState(T, e, newqty, d, u)
  BY <1>13, <1>14, <1>16, <1>24, <1>25 DEF EarlierState, M, old
<1>27. r = p - 1
  BY <1>0 DEF r
<1> QED
  BY <1>14, <1>26, <1>27 DEF u, M, p, l, L, old

(* The walks as functions of the number of steps: they exist, ... *)
StepLater(x, e, oldqty) == IF PassesNext(x.tl, e) THEN SwapNext(x, e, oldqty) ELSE x

StepEarlier(x, e, oldqty) == IF PassesPrev(x.tl, e) THEN SwapPrev(x, e, oldqty) ELSE x

LaterWalk(s, e, oldqty, n, g) == g = [i \in 0..n |-> IF i = 0 THEN s ELSE StepLater(g[i-1], e, oldqty)]

EarlierWalk(s, e, oldqty, n, g) == g = [i \in 0..n |-> IF i = 0 THEN s ELSE StepEarlier(g[i-1], e, oldqty)]

LEMMA LaterWalkExists ==
  ASSUME NEW s, NEW e, NEW oldqty, NEW n \in Nat
  PROVE  \E g : LaterWalk(s, e, oldqty, n, g)
<1> DEFINE Bad == {k \in Nat : ~\E g : LaterWalk(s, e, oldqty, k, g)}
<1> SUFFICES ASSUME Bad # {} PROVE FALSE
  OBVIOUS
<1>1. PICK m \in Bad : \A k \in Bad : m <= k
  <2>1. Bad \in SUBSET Nat
    OBVIOUS
  <2> HIDE DEF Bad
  <2> QED
    BY <2>1, SmallestOf
<1>2. m \in Nat /\ ~\E g : LaterWalk(s, e, oldqty, m, g)
  OBVIOUS
<1>3. m # 0
  <2> DEFINE g == [i \in 0..0 |-> s]
  <2>1. LaterWalk(s, e, oldqty, 0, g)
    BY DEF LaterWalk
  <2> QED
    BY <1>2, <2>1
<1>4. PICK h : LaterWalk(s, e, oldqty, m - 1, h)
  <2>1. m - 1 \in Nat /\ ~(m <= m - 1)
    BY <1>2, <1>3
  <2> QED
    BY <1>1, <2>1
<1> DEFINE g == [i \in 0..m |-> IF i < m THEN h[i] ELSE StepLater(h[m-1], e, oldqty)]
<1>5. \A i \in 0..m-1 : h[i] = IF i = 0 THEN s ELSE StepLater(h[i-1], e, oldqty)
  BY <1>4 DEF LaterWalk
<1>6. \A i \in 0..m : g[i] = IF i < m THEN h[i] ELSE StepLater(h[m-1], e, oldqty)
  OBVIOUS
<1> HIDE DEF g
<1>7. ASSUME NEW i \in 0..m PROVE g[i] = IF i = 0 THEN s ELSE StepLater(g[i-1], e, oldqty)
  <2>1. i # 0 => i - 1 \in 0..m-1 /\ i - 1 < m /\ i - 1 \in 0..m
    BY <1>2
  <2>2. i # 0 => g[i-1] = h[i-1]
    BY <1>6, <2>1
  <2>3. CASE i < m
    <3>1. i \in 0..m-1
      BY <1>2, <2>3
    <3> QED
      BY <1>5, <1>6, <2>2, <2>3, <3>1
  <2>4. CASE ~(i < m)
    <3>1. i = m
      BY <1>2, <2>4
    <3>2. g[m] = StepLater(h[m-1], e, oldqty)
      BY <1>2, <1>6
    <3> QED
      BY <1>3, <2>2, <3>1, <3>2
  <2> QED
    BY <2>3, <2>4
<1>8. LaterWalk(s, e, oldqty, m, g)
  <2>1. g = [i \in 0..m |-> g[i]]
    BY DEF g
  <2>2. g = [i \in 0..m |-> IF i = 0 THEN s ELSE StepLater(g[i-1], e, oldqty)]
    BY <1>7, <2>1
  <2> QED
    BY <2>2 DEF LaterWalk
<1> QED
  BY <1>2, <1>8

LEMMA EarlierWalkExists ==
  ASSUME NEW s, NEW e, NEW oldqty, NEW n \in Nat
  PROVE  \E g : EarlierWalk(s, e, oldqty, n, g)
<1> DEFINE Bad == {k \in Nat : ~\E g : EarlierWalk(s, e, oldqty, k, g)}
<1> SUFFICES ASSUME Bad # {} PROVE FALSE
  OBVIOUS
<1>1. PICK m \in Bad : \A k \in Bad : m <= k
  <2>1. Bad \in SUBSET Nat
    OBVIOUS
  <2> HIDE DEF Bad
  <2> QED
    BY <2>1, SmallestOf
<1>2. m \in Nat /\ ~\E g : EarlierWalk(s, e, oldqty, m, g)
  OBVIOUS
<1>3. m # 0
  <2> DEFINE g == [i \in 0..0 |-> s]
  <2>1. EarlierWalk(s, e, oldqty, 0, g)
    BY DEF EarlierWalk
  <2> QED
    BY <1>2, <2>1
<1>4. PICK h : EarlierWalk(s, e, oldqty, m - 1, h)
  <2>1. m - 1 \in Nat /\ ~(m <= m - 1)
    BY <1>2, <1>3
  <2> QED
    BY <1>1, <2>1
<1> DEFINE g == [i \in 0..m |-> IF i < m THEN h[i] ELSE StepEarlier(h[m-1], e, oldqty)]
<1>5. \A i \in 0..m-1 : h[i] = IF i = 0 THEN s ELSE StepEarlier(h[i-1], e, oldqty)
  BY <1>4 DEF EarlierWalk
<1>6. \A i \in 0..m : g[i] = IF i < m THEN h[i] ELSE StepEarlier(h[m-1], e, oldqty)
  OBVIOUS
<1> HIDE DEF g
<1>7. ASSUME NEW i \in 0..m PROVE g[i] = IF i = 0 THEN s ELSE StepEarlier(g[i-1], e, oldqty)
  <2>1. i # 0 => i - 1 \in 0..m-1 /\ i - 1 < m /\ i - 1 \in 0..m
    BY <1>2
  <2>2. i # 0 => g[i-1] = h[i-1]
    BY <1>6, <2>1
  <2>3. CASE i < m
    <3>1. i \in 0..m-1
      BY <1>2, <2>3
    <3> QED
      BY <1>5, <1>6, <2>2, <2>3, <3>1
  <2>4. CASE ~(i < m)
    <3>1. i = m
      BY <1>2, <2>4
    <3>2. g[m] = StepEarlier(h[m-1], e, oldqty)
      BY <1>2, <1>6
    <3> QED
      BY <1>3, <2>2, <3>1, <3>2
  <2> QED
    BY <2>3, <2>4
<1>8. EarlierWalk(s, e, oldqty, m, g)
  <2>1. g = [i \in 0..m |-> g[i]]
    BY DEF g
  <2>2. g = [i \in 0..m |-> IF i = 0 THEN s ELSE StepEarlier(g[i-1], e, oldqty)]
    BY <1>7, <2>1
  <2> QED
    BY <2>2 DEF EarlierWalk
<1> QED
  BY <1>2, <1>8

LEMMA MoveLaterWalks ==
  ASSUME NEW s, NEW e, NEW oldqty, Len(s.tl.line) \in Nat
  PROVE  \E g : /\ MoveLater(s, e, oldqty) = g[Len(s.tl.line)] /\ g[0] = s
                /\ \A i \in 1..Len(s.tl.line) : g[i] = StepLater(g[i-1], e, oldqty)
<1> DEFINE n == Len(s.tl.line)
           walk == CHOOSE g : LaterWalk(s, e, oldqty, n, g)
<1>1. LaterWalk(s, e, oldqty, n, walk)
  BY LaterWalkExists
<1>2. MoveLater(s, e, oldqty) = walk[n]
  BY DEF MoveLater, LaterWalk, StepLater
<1> HIDE DEF walk, n
<1>3. walk[0] = s /\ \A i \in 1..n : walk[i] = StepLater(walk[i-1], e, oldqty)
  <2>1. n \in Nat
    BY DEF n
  <2>2. \A i \in 0..n : walk[i] = IF i = 0 THEN s ELSE StepLater(walk[i-1], e, oldqty)
    BY <1>1 DEF LaterWalk
  <2> QED
    BY <2>1, <2>2
<1> QED
  BY <1>2, <1>3 DEF n

LEMMA MoveEarlierWalks ==
  ASSUME NEW s, NEW e, NEW oldqty, Len(s.tl.line) \in Nat
  PROVE  \E g : /\ MoveEarlier(s, e, oldqty) = g[Len(s.tl.line)] /\ g[0] = s
                /\ \A i \in 1..Len(s.tl.line) : g[i] = StepEarlier(g[i-1], e, oldqty)
<1> DEFINE n == Len(s.tl.line)
           walk == CHOOSE g : EarlierWalk(s, e, oldqty, n, g)
<1>1. EarlierWalk(s, e, oldqty, n, walk)
  BY EarlierWalkExists
<1>2. MoveEarlier(s, e, oldqty) = walk[n]
  BY DEF MoveEarlier, EarlierWalk, StepEarlier
<1> HIDE DEF walk, n
<1>3. walk[0] = s /\ \A i \in 1..n : walk[i] = StepEarlier(walk[i-1], e, oldqty)
  <2>1. n \in Nat
    BY DEF n
  <2>2. \A i \in 0..n : walk[i] = IF i = 0 THEN s ELSE StepEarlier(walk[i-1], e, oldqty)
    BY <1>1 DEF EarlierWalk
  <2> QED
    BY <2>1, <2>2
<1> QED
  BY <1>2, <1>3 DEF n

(* ... and after as many steps as there are events the walk is over. *)
LEMMA MoveLaterEnds ==
  ASSUME NEW T, NEW e \in Event \ SetEvent, T.qty[e] \in Int, T.line \in Seq(Event), e \in ToSet(T.line),
         NEW newqty \in Int, NEW d, NEW s, LaterState(T, e, newqty, d, s)
  PROVE  LET u == MoveLater(s, e, T.qty[e]) IN LaterState(T, e, newqty, d, u) /\ ~PassesNext(u.tl, e)
<1> DEFINE n == Len(s.tl.line)
           old == T.qty[e]
<1>0. /\ \A x : LaterState(T, e, newqty, d, x) =>
           /\ Len(x.tl.line) = n /\ e \in ToSet(x.tl.line)
           /\ Place(x.tl.line, e) \in 1..n
      /\ n \in Nat
  <2>1. n = Len(T.line) /\ n \in Nat
    BY SeqFacts DEF LaterState, Shape
  <2>2. ASSUME NEW x, LaterState(T, e, newqty, d, x)
        PROVE  Len(x.tl.line) = n /\ e \in ToSet(x.tl.line) /\ Place(x.tl.line, e) \in 1..n
    <3>1. /\ x.tl \in Timelines /\ Len(x.tl.line) = n /\ e \in ToSet(x.tl.line) /\ Distinct(x.tl.line)
      BY <2>1, <2>2 DEF LaterState, Shape
    <3>2. x.tl.line \in Seq(Event)
      BY <3>1, Fields
    <3>3. Place(x.tl.line, e) \in 1..Len(x.tl.line)
      BY <3>1, <3>2, PlaceIn
    <3> QED
      BY <3>1, <3>3
  <2> QED
    BY <2>1, <2>2
<1>1. PICK g : /\ MoveLater(s, e, old) = g[n] /\ g[0] = s
               /\ \A i \in 1..n : g[i] = StepLater(g[i-1], e, old)
  <2>1. Len(s.tl.line) \in Nat
    BY <1>0
  <2> HIDE DEF old
  <2> QED
    BY <2>1, MoveLaterWalks
<1> DEFINE Fine(i) == /\ LaterState(T, e, newqty, d, g[i])
                      /\ PassesNext(g[i].tl, e) => Place(g[i].tl.line, e) >= i + 1
           Bad == {i \in 0..n : ~Fine(i)}
<1> HIDE DEF n
<1>2. Bad = {}
  <2> SUFFICES ASSUME Bad # {} PROVE FALSE
    OBVIOUS
  <2>1. PICK m \in Bad : \A k \in Bad : m <= k
    <3>1. Bad \in SUBSET Nat
      BY <1>0
    <3> HIDE DEF Bad
    <3> QED
      BY <3>1, SmallestOf
  <2>2. m \in 0..n /\ ~Fine(m)
    OBVIOUS
  <2>3. m # 0
    <3>1. LaterState(T, e, newqty, d, g[0])
      BY <1>1
    <3>2. Place(g[0].tl.line, e) >= 0 + 1
      BY <1>0, <3>1
    <3> QED
      BY <2>2, <3>1, <3>2
  <2>4. m - 1 \in 0..n /\ m \in 1..n /\ ~(m <= m - 1)
    BY <1>0, <2>2, <2>3
  <2>5. Fine(m - 1)
    BY <2>1, <2>4
  <2> DEFINE x == g[m-1]
  <2>6. /\ LaterState(T, e, newqty, d, x) /\ (PassesNext(x.tl, e) => Place(x.tl.line, e) >= (m - 1) + 1)
        /\ g[m] = StepLater(x, e, old) /\ e \in ToSet(x.tl.line) /\ Place(x.tl.line, e) \in 1..n
    BY <1>0, <1>1, <2>4, <2>5
  <2> HIDE DEF x
  <2>7. CASE PassesNext(x.tl, e)
    <3>1. g[m] = SwapNext(x, e, old)
      BY <2>6, <2>7 DEF StepLater
    <3>2. LaterState(T, e, newqty, d, SwapNext(x, e, old)) /\ Place(SwapNext(x, e, old).tl.line, e) = Place(x.tl.line, e) + 1
      BY <2>6, <2>7, LaterStep
    <3> HIDE DEF old
    <3>3. Place(g[m].tl.line, e) = Place(x.tl.line, e) + 1
      BY <3>1, <3>2
    <3>4. Place(g[m].tl.line, e) >= m + 1
      BY <1>0, <2>2, <2>6, <2>7, <3>3
    <3> QED
      BY <2>2, <3>1, <3>2, <3>4
  <2>8. CASE ~PassesNext(x.tl, e)
    <3>1. g[m] = x
      BY <2>6, <2>8 DEF StepLater
    <3> QED
      BY <2>2, <2>6, <2>8, <3>1
  <2> QED
    BY <2>7, <2>8
<1>3. Fine(n)
  BY <1>0, <1>2
<1>4. Place(g[n].tl.line, e) \in 1..n
  BY <1>0, <1>3
<1>5. ~PassesNext(g[n].tl, e)
  BY <1>0, <1>3, <1>4
<1> QED
  BY <1>1, <1>3, <1>5

LEMMA MoveEarlierEnds ==
  ASSUME NEW T, NEW e \in Event \ SetEvent, T.qty[e] \in Int, T.line \in Seq(Event), e \in ToSet(T.line),
         NEW newqty \in Int, NEW d, NEW s, EarlierState(T, e, newqty, d, s)
  PROVE  LET u == MoveEarlier(s, e, T.qty[e]) IN EarlierState(T, e, newqty, d, u) /\ ~PassesPrev(u.tl, e)
<1> DEFINE n == Len(s.tl.line)
           old == T.qty[e]
<1>0. /\ \A x : EarlierState(T, e, newqty, d, x) =>
           /\ Len(x.tl.line) = n /\ e \in ToSet(x.tl.line)
           /\ Place(x.tl.line, e) \in 1..n
      /\ n \in Nat
  <2>1. n = Len(T.line) /\ n \in Nat
    BY SeqFacts DEF EarlierState, Shape
  <2>2. ASSUME NEW x, EarlierState(T, e, newqty, d, x)
        PROVE  Len(x.tl.line) = n /\ e \in ToSet(x.tl.line) /\ Place(x.tl.line, e) \in 1..n
    <3>1. /\ x.tl \in Timelines /\ Len(x.tl.line) = n /\ e \in ToSet(x.tl.line) /\ Distinct(x.tl.line)
      BY <2>1, <2>2 DEF EarlierState, Shape
    <3>2. x.tl.line \in Seq(Event)
      BY <3>1, Fields
    <3>3. Place(x.tl.line, e) \in 1..Len(x.tl.line)
      BY <3>1, <3>2, PlaceIn
    <3> QED
      BY <3>1, <3>3
  <2> QED
    BY <2>1, <2>2
<1>1. PICK g : /\ MoveEarlier(s, e, old) = g[n] /\ g[0] = s
               /\ \A i \in 1..n : g[i] = StepEarlier(g[i-1], e, old)
  <2>1. Len(s.tl.line) \in Nat
    BY <1>0
  <2> HIDE DEF old
  <2> QED
    BY <2>1, MoveEarlierWalks
<1> DEFINE Fine(i) == /\ EarlierState(T, e, newqty, d, g[i])
                      /\ PassesPrev(g[i].tl, e) => Place(g[i].tl.line, e) <= n - i
           Bad == {i \in 0..n : ~Fine(i)}
<1> HIDE DEF n
<1>2. Bad = {}
  <2> SUFFICES ASSUME Bad # {} PROVE FALSE
    OBVIOUS
  <2>1. PICK m \in Bad : \A k \in Bad : m <= k
    <3>1. Bad \in SUBSET Nat
      BY <1>0
    <3> HIDE DEF Bad
    <3> QED
      BY <3>1, SmallestOf
  <2>2. m \in 0..n /\ ~Fine(m)
    OBVIOUS
  <2>3. m # 0
    <3>1. EarlierState(T, e, newqty, d, g[0])
      BY <1>1
    <3>2. Place(g[0].tl.line, e) <= n - 0
      BY <1>0, <3>1
    <3> QED
      BY <2>2, <3>1, <3>2
  <2>4. m - 1 \in 0..n /\ m \in 1..n /\ ~(m <= m - 1)
    BY <1>0, <2>2, <2>3
  <2>5. Fine(m - 1)
    BY <2>1, <2>4
  <2> DEFINE x == g[m-1]
  <2>6. /\ EarlierState(T, e, newqty, d, x) /\ (PassesPrev(x.tl, e) => Place(x.tl.line, e) <= n - (m - 1))
        /\ g[m] = StepEarlier(x, e, old) /\ e \in ToSet(x.tl.line) /\ Place(x.tl.line, e) \in 1..n
    BY <1>0, <1>1, <2>4, <2>5
  <2> HIDE DEF x
  <2>7. CASE PassesPrev(x.tl, e)
    <3>1. g[m] = SwapPrev(x, e, old)
      BY <2>6, <2>7 DEF StepEarlier
    <3>2. EarlierState(T, e, newqty, d, SwapPrev(x, e, old)) /\ Place(SwapPrev(x, e, old).tl.line, e) = Place(x.tl.line, e) - 1
      BY <2>6, <2>7, EarlierStep
    <3> HIDE DEF old
    <3>3. Place(g[m].tl.line, e) = Place(x.tl.line, e) - 1
      BY <3>1, <3>2
    <3>4. Place(g[m].tl.line, e) <= n - m
      BY <1>0, <2>2, <2>6, <2>7, <3>3
    <3> QED
      BY <2>2, <3>1, <3>2, <3>4
  <2>8. CASE ~PassesPrev(x.tl, e)
    <3>1. g[m] = x
      BY <2>6, <2>8 DEF StepEarlier
    <3> QED
      BY <2>2, <2>6, <2>8, <3>1
  <2> QED
    BY <2>7, <2>8
<1>3. Fine(n)
  BY <1>0, <1>2
<1>4. Place(g[n].tl.line, e) \in 1..n
  BY <1>0, <1>3
<1>5. ~PassesPrev(g[n].tl, e)
  BY <1>0, <1>3, <1>4
<1> QED
  BY <1>1, <1>3, <1>5

LEMMA LaterIsEarlier ==
  ASSUME NEW T, NEW e, NEW newqty \in Int, NEW d, NEW s, LaterState(T, e, newqty, d, s), ~PassesNext(s.tl, e)
  PROVE  EarlierState(T, e, newqty, d, s)
BY DEF LaterState, EarlierState

(* With its neighbours on the right sides of e the line is in order. *)
LEMMA WalkedInOrder ==
  ASSUME NEW L \in Timelines, NEW e \in Event, e \in ToSet(L.line), Distinct(L.line), InOrderBut(L, L.line, e),
         ~PassesNext(L, e), ~PassesPrev(L, e)
  PROVE  InOrder(L, L.line)
<1> DEFINE s == L.line
           p == Place(s, e)
<1>0. s \in Seq(Event) /\ Len(s) \in Nat /\ Distinct(s) /\ e \in ToSet(s)
  BY Fields, SeqFacts
<1>1. (p < Len(s) => Before(L, e, s[p+1])) /\ (p > 1 => Before(L, s[p-1], e))
  BY DEF PassesNext, PassesPrev
<1>2. \A i, j \in 1..Len(s) : i < j /\ s[i] # e /\ s[j] # e => Before(L, s[i], s[j])
  BY DEF InOrderBut
<1> HIDE DEF s
<1>3. p \in 1..Len(s) /\ s[p] = e
  BY <1>0, PlaceIn
<1> HIDE DEF p
<1>4. \A k \in 1..Len(s) : s[k] = e <=> k = p
  BY <1>0, <1>3 DEF Distinct
<1>5. \A k \in 1..Len(s) : s[k] \in Event
  BY <1>0, SeqFacts
<1>6. \A a, b, c \in Event : Before(L, a, b) /\ Before(L, b, c) => Before(L, a, c)
  BY Fields, Ordering
<1>7. ASSUME NEW i \in 1..Len(s), NEW j \in 1..Len(s), i < j
      PROVE  Before(L, s[i], s[j])
  <2>1. CASE i # p /\ j # p
    BY <1>2, <1>4, <1>7, <2>1
  <2>2. CASE i = p
    <3>1. p < Len(s) /\ p + 1 \in 1..Len(s) /\ p + 1 # p /\ (j = p + 1 \/ p + 1 < j) /\ j # p
      BY <1>0, <1>3, <1>7, <2>2
    <3>2. Before(L, s[i], s[p+1])
      BY <1>1, <1>3, <2>2, <3>1
    <3>3. j = p + 1 \/ Before(L, s[p+1], s[j])
      BY <1>2, <1>4, <3>1
    <3> QED
      BY <1>5, <1>6, <3>1, <3>2, <3>3
  <2>3. CASE j = p
    <3>1. p > 1 /\ p - 1 \in 1..Len(s) /\ p - 1 # p /\ (i = p - 1 \/ i < p - 1) /\ i # p
      BY <1>0, <1>3, <1>7, <2>3
    <3>2. Before(L, s[p-1], s[j])
      BY <1>1, <1>3, <2>3, <3>1
    <3>3. i = p - 1 \/ Before(L, s[i], s[p-1])
      BY <1>2, <1>4, <3>1
    <3> QED
      BY <1>5, <1>6, <3>1, <3>2, <3>3
  <2> QED
    BY <2>1, <2>2, <2>3
<1> QED
  BY <1>7 DEF InOrder, s

(* update(e, newqty, d): the total that was left to apply is applied. *)
MovedIn(T, e, newqty, d, U) ==
  /\ U.dt = [T.dt EXCEPT ![e] = d] /\ U.qty = [T.qty EXCEPT ![e] = newqty]
  /\ U.val = T.val /\ U.chain = T.chain
  /\ \A x : x \in ToSet(U.line) <=> x \in ToSet(T.line)

(* With events that set the onhand all others only take. *)
TakesOnly(T) == SetSeen(T) => \A x \in Event : T.qty[x] <= 0

LEMMA NewTotals ==
  ASSUME NEW L \in Timelines, NEW a, NEW b, NEW M, M = [L EXCEPT !.oh = a, !.cum = b]
  PROVE  M = [line |-> L.line, dt |-> L.dt, qty |-> L.qty, val |-> L.val, oh |-> a, cum |-> b, chain |-> L.chain]
<1> DEFINE l == L.line
           d == L.dt
           q == L.qty
           v == L.val
           o == L.oh
           c == L.cum
           h == L.chain
<1>1. L = [line |-> l, dt |-> d, qty |-> q, val |-> v, oh |-> o, cum |-> c, chain |-> h]
  BY DEF Timelines
<1> HIDE DEF l, d, q, v, o, c, h
<1>2. M = [line |-> l, dt |-> d, qty |-> q, val |-> v, oh |-> a, cum |-> b, chain |-> h]
  BY <1>1
<1> QED
  BY <1>2 DEF l, d, q, v, o, c, h

LEMMA SettleGood ==
  ASSUME NEW T, Good(T), NEW e \in Change, e \in ToSet(T.line), NEW newqty \in Int, NEW d \in Date,
         TakesOnly(T), SetSeen(T) => newqty <= 0,
         NEW s, EarlierState(T, e, newqty, d, s), ~PassesPrev(s.tl, e)
  PROVE  Good(Settle(s, e, T.qty[e])) /\ MovedIn(T, e, newqty, d, Settle(s, e, T.qty[e]))
<1> DEFINE L == s.tl
           l == L.line
           p == Place(l, e)
           old == T.qty[e]
           q == s.delta
           cumdelta == Produced(old) - Produced(L.qty[e])
           P == Bucket(l, p)
           R == p..Len(l)
           oh == Shift(L.oh, l, P, -q)
           cum == Shift(L.cum, l, R, -cumdelta)
           U == Settle(s, e, old)
<1>0. /\ T \in Timelines /\ T.qty \in Amounts /\ T.dt \in [Event -> Date] /\ e \in Event /\ old \in Int
      /\ L \in Timelines /\ l \in Seq(Event) /\ Distinct(l) /\ Len(l) \in Nat /\ e \notin SetEvent
      /\ L.qty \in Amounts /\ L.val \in Amounts /\ L.oh \in Amounts /\ L.cum \in Amounts /\ q \in Int
      /\ L.qty[e] = newqty
  <2>1. T \in Timelines /\ e \in Event /\ e \notin SetEvent
    BY EventAssumption DEF Good, Event, Fixed
  <2>2. T.qty \in Amounts /\ T.dt \in [Event -> Date] /\ old \in Int
    BY <2>1, Fields DEF Amounts
  <2>3. L \in Timelines /\ Distinct(l) /\ q \in Int /\ L.qty = [T.qty EXCEPT ![e] = newqty]
    BY DEF EarlierState, Shape
  <2>4. l \in Seq(Event) /\ Len(l) \in Nat
    BY <2>3, Fields, SeqFacts
  <2>5. L.qty[e] = newqty
    BY <2>1, <2>2, <2>3 DEF Amounts
  <2> QED
    BY <2>1, <2>2, <2>3, <2>4, <2>5, Fields
<1>1. p \in 1..Len(l) /\ l[p] = e
  <2>1. e \in ToSet(l)
    BY DEF EarlierState, Shape
  <2> HIDE DEF l
  <2> QED
    BY <1>0, <2>1, PlaceIn
<1>2. cumdelta = Produced(old) - Produced(newqty) /\ cumdelta \in Int /\ -cumdelta \in Int /\ -q \in Int
  BY <1>0 DEF Produced
<1>3. U = IF q = 0 THEN L ELSE [L EXCEPT !.oh = oh, !.cum = cum]
  BY DEF Settle
<1>4. /\ oh \in Amounts /\ MovedBy(l, P, -q, L.oh, oh)
      /\ cum \in Amounts /\ MovedBy(l, R, -cumdelta, L.cum, cum)
      /\ Run(SetEvent, l, p, P) /\ Run({}, l, p, R)
  <2>1. P \subseteq 1..Len(l) /\ R \subseteq 1..Len(l)
    BY <1>0, <1>1 DEF Bucket
  <2>2. Run(SetEvent, l, p, P)
    BY <1>0, <1>1, BucketIsRun
  <2>3. Run({}, l, p, R)
    BY <1>0, <1>1, RestIsRun
  <2> HIDE DEF P, R, cumdelta
  <2> QED
    BY <1>0, <1>2, <2>1, <2>2, <2>3, ShiftMoves
<1> HIDE DEF P, R, oh, cum
<1>5. /\ U.line = l /\ U.dt = L.dt /\ U.qty = L.qty /\ U.val = L.val /\ U.chain = L.chain
      /\ U.oh = (IF q = 0 THEN L.oh ELSE oh) /\ U.cum = (IF q = 0 THEN L.cum ELSE cum)
      /\ U = [line |-> U.line, dt |-> U.dt, qty |-> U.qty, val |-> U.val, oh |-> U.oh, cum |-> U.cum, chain |-> U.chain]
  <2>1. L = [line |-> l, dt |-> L.dt, qty |-> L.qty, val |-> L.val, oh |-> L.oh, cum |-> L.cum, chain |-> L.chain]
    BY <1>0 DEF Timelines
  <2> HIDE DEF U, L, q, p, old, cumdelta
  <2>2. CASE q = 0
    <3>1. U = L
      BY <1>3, <2>2
    <3>2. U.line = l
      BY <2>1, <3>1
    <3>3. U.oh = (IF q = 0 THEN L.oh ELSE oh) /\ U.cum = (IF q = 0 THEN L.cum ELSE cum)
      BY <2>2, <3>1
    <3>4. U = [line |-> U.line, dt |-> U.dt, qty |-> U.qty, val |-> U.val, oh |-> U.oh, cum |-> U.cum, chain |-> U.chain]
      <4>1. U = [line |-> U.line, dt |-> L.dt, qty |-> L.qty, val |-> L.val, oh |-> L.oh, cum |-> L.cum, chain |-> L.chain]
        BY <2>1, <3>1, <3>2
      <4> QED
        BY <3>1, <4>1
    <3>5. U.dt = L.dt /\ U.qty = L.qty /\ U.val = L.val /\ U.chain = L.chain
      BY <3>1
    <3> QED
      BY <3>2, <3>3, <3>4, <3>5
  <2>3. CASE q # 0
    <3>0. U = [L EXCEPT !.oh = oh, !.cum = cum]
      BY <1>3, <2>3
    <3>1. U = [line |-> l, dt |-> L.dt, qty |-> L.qty, val |-> L.val, oh |-> oh, cum |-> cum, chain |-> L.chain]
      BY <1>0, <3>0, NewTotals
    <3> QED
      BY <2>3, <3>1
  <2> QED
    BY <2>2, <2>3
<1> HIDE DEF U
<1>6. U \in Timelines
  BY <1>0, <1>4, <1>5 DEF Timelines
<1>7. InOrder(U, U.line)
  <2>1. InOrderBut(L, l, e) /\ ~PassesNext(L, e) /\ e \in ToSet(l)
    BY DEF EarlierState, Shape
  <2>2. InOrder(L, l)
    BY <1>0, <2>1, WalkedInOrder
  <2> HIDE DEF L, l
  <2> QED
    BY <1>5, <2>2, SameOrder
<1>8. MovedIn(T, e, newqty, d, U)
  BY <1>5 DEF EarlierState, Shape, MovedIn
<1>9. Chained(U)
  <2>1. \A t \in 2..4 : Lists(T.line, T.chain[t], t)
    BY DEF Good, Chained
  <2>2. U.chain = T.chain /\ \A x : x \in ToSet(U.line) <=> x \in ToSet(T.line)
    BY <1>8 DEF MovedIn
  <2> QED
    BY <2>1, <2>2 DEF Chained, Lists
<1>10. NoWeight(U)
  <2>1. \A x \in Fixed : T.qty[x] = 0 /\ x \in Event /\ x # e
    BY EventAssumption DEF Good, NoWeight, Event
  <2>2. U.qty = [T.qty EXCEPT ![e] = newqty] /\ T.qty \in [Event -> Int]
    BY <1>0, <1>8 DEF MovedIn, Amounts
  <2> QED
    BY <2>1, <2>2 DEF NoWeight
<1> DEFINE w == Weights(L, e, q)
           m == MadeBut(L, e, old)
<1>11. /\ AddsUp(SetEvent, l, w, L.val, L.oh) /\ AddsUp({}, l, m, L.val, L.cum)
       /\ q = old - newqty \/ SetSeen(L)
  BY DEF EarlierState, Sums
<1>12. SetSeen(L) => old <= 0 /\ newqty <= 0
  <2>1. SetSeen(L) => SetSeen(T)
    BY DEF EarlierState, Shape, SetSeen
  <2> QED
    BY <1>0, <2>1 DEF TakesOnly
<1> HIDE DEF L, l, p, q, old, cumdelta
<1>13. /\ w \in Amounts /\ w[e] = newqty + q /\ \A x \in Event : x # e => w[x] = L.qty[x]
       /\ m \in Amounts /\ m[e] = Produced(old) /\ \A x \in Event : x # e => m[x] = Produced(L.qty[x])
       /\ Produced(old) \in Int /\ Produced(newqty) \in Int
  <2>1. L \in Timelines /\ e \in Event /\ q \in Int /\ old \in Int
    BY <1>0
  <2>2. Produced(newqty) \in Int
    BY DEF Produced
  <2>3. /\ w \in Amounts /\ w[e] = L.qty[e] + q /\ \A x \in Event : x # e => w[x] = L.qty[x]
        /\ m \in Amounts /\ m[e] = Produced(old) /\ \A x \in Event : x # e => m[x] = Produced(L.qty[x])
        /\ Produced(old) \in Int
    BY <2>1, WeightFacts
  <2> HIDE DEF w, m
  <2> QED
    BY <1>0, <2>2, <2>3
<1>14. Made(L) \in Amounts /\ Made(L)[e] = Produced(newqty) /\ \A x \in Event : Made(L)[x] = Produced(L.qty[x])
  BY <1>0, Fields DEF Made
<1> HIDE DEF w, m
<1>15. AddsUp(SetEvent, l, L.qty, L.val, U.oh)
  <2>1. CASE q = 0
    <3>1. w = L.qty
      <4>1. \A x \in Event : w[x] = L.qty[x]
        BY <1>0, <1>13, <2>1
      <4> QED
        BY <1>0, <1>13, <4>1 DEF Amounts
    <3> QED
      BY <1>5, <1>11, <2>1, <3>1
  <2>2. CASE q # 0
    <3>1. SameBut(w, L.qty, l[p])
      BY <1>1, <1>13 DEF SameBut
    <3>2. L.qty[l[p]] = w[l[p]] + (-q) /\ l[p] \notin SetEvent
      BY <1>0, <1>1, <1>13
    <3>3. AddsUp(SetEvent, l, L.qty, L.val, oh)
      BY <1>0, <1>1, <1>2, <1>4, <1>11, <1>13, <3>1, <3>2, ShiftAdds
    <3> QED
      BY <1>5, <2>2, <3>3
  <2> QED
    BY <2>1, <2>2
<1>16. AddsUp({}, l, Made(L), L.val, U.cum)
  <2>1. CASE q = 0
    <3>1. Produced(old) = Produced(newqty)
      <4>1. CASE old = newqty
        BY <4>1
      <4>2. CASE SetSeen(L)
        BY <1>0, <1>12, <4>2 DEF Produced
      <4> QED
        BY <1>0, <1>11, <2>1, <4>1, <4>2
    <3>2. m = Made(L)
      <4>1. \A x \in Event : m[x] = Made(L)[x]
        BY <1>13, <1>14, <3>1
      <4> QED
        BY <1>13, <1>14, <4>1 DEF Amounts
    <3> QED
      BY <1>5, <1>11, <2>1, <3>2
  <2>2. CASE q # 0
    <3> DEFINE none == {}
    <3>1. AddsUp(none, l, m, L.val, L.cum) /\ l[p] \notin none /\ Run(none, l, p, R)
      BY <1>4, <1>11
    <3> HIDE DEF none
    <3>2. SameBut(m, Made(L), l[p])
      BY <1>1, <1>13, <1>14 DEF SameBut
    <3>3. Made(L)[l[p]] = m[l[p]] + (-cumdelta)
      BY <1>1, <1>2, <1>13, <1>14
    <3>4. AddsUp(none, l, Made(L), L.val, cum)
      BY <1>0, <1>1, <1>2, <1>4, <1>13, <1>14, <3>1, <3>2, <3>3, ShiftAdds
    <3> QED
      BY <1>5, <2>2, <3>4 DEF none
  <2> QED
    BY <2>1, <2>2
<1>17. Totals(U)
  <2>1. Made(U) = Made(L)
    BY <1>5 DEF Made
  <2> QED
    BY <1>5, <1>15, <1>16, <2>1 DEF Totals
<1>18. Good(U)
  BY <1>6, <1>7, <1>9, <1>10, <1>17 DEF Good
<1> QED
  BY <1>8, <1>18 DEF U, old

LEMMA UpdateGood ==
  ASSUME NEW T, Good(T), NEW e \in Change, e \in ToSet(T.line), NEW newqty \in Int, NEW d \in Date,
         TakesOnly(T), SetSeen(T) => newqty <= 0
  PROVE  Good(Update(T, e, newqty, d)) /\ MovedIn(T, e, newqty, d, Update(T, e, newqty, d))
<1> DEFINE old == T.qty[e]
           start == [tl |-> [T EXCEPT !.dt[e] = d, !.qty[e] = newqty], delta |-> old - newqty, in_bucket |-> FALSE]
           later == MoveLater(start, e, old)
           earlier == MoveEarlier(later, e, old)
<1>0. e \in Event \ SetEvent /\ T.line \in Seq(Event) /\ old \in Int
  <2>1. T \in Timelines /\ e \in Event /\ e \notin SetEvent
    BY EventAssumption DEF Good, Event, Fixed
  <2> QED
    BY <2>1, Fields
<1>1. LaterState(T, e, newqty, d, start)
  BY StartState
<1> HIDE DEF start
<1>2. LaterState(T, e, newqty, d, later) /\ ~PassesNext(later.tl, e)
  BY <1>0, <1>1, MoveLaterEnds
<1> HIDE DEF later
<1>3. EarlierState(T, e, newqty, d, later)
  BY <1>2, LaterIsEarlier
<1>4. EarlierState(T, e, newqty, d, earlier) /\ ~PassesPrev(earlier.tl, e)
  BY <1>0, <1>3, MoveEarlierEnds
<1> HIDE DEF earlier
<1>5. Good(Settle(earlier, e, old)) /\ MovedIn(T, e, newqty, d, Settle(earlier, e, old))
  BY <1>4, SettleGood
<1> QED
  BY <1>5 DEF Update, earlier, later, start

-----------------------------------------------------------------------------
(* What an owner does to its timeline.  An event that is not in the line   *)
(* can be given any date, quantity and value.                              *)
LEMMA SpareGood ==
  ASSUME NEW T, Good(T), NEW e \in Event, e \notin ToSet(T.line), NEW U \in Timelines,
         U.line = T.line, U.chain = T.chain, U.oh = T.oh, U.cum = T.cum,
         SameBut(T.dt, U.dt, e), SameBut(T.qty, U.qty, e), SameBut(T.val, U.val, e), e \in Fixed => U.qty[e] = 0
  PROVE  Good(U)
<1> DEFINE s == T.line
<1>0. /\ T \in Timelines /\ s \in Seq(Event) /\ InOrder(T, s) /\ Totals(T) /\ Chained(T) /\ NoWeight(T)
      /\ \A k \in 1..Len(s) : s[k] \in Event /\ s[k] # e
  <2>1. T \in Timelines /\ InOrder(T, s) /\ Totals(T) /\ Chained(T) /\ NoWeight(T)
    BY DEF Good
  <2>2. s \in Seq(Event)
    BY <2>1, Fields
  <2>3. \A k \in 1..Len(s) : s[k] \in Event /\ s[k] # e
    BY <2>2, SeqFacts
  <2> QED
    BY <2>1, <2>2, <2>3
<1>1. /\ Agree(s, T.qty, U.qty) /\ Agree(s, T.val, U.val) /\ Agree(s, T.dt, U.dt)
      /\ Agree(s, T.oh, U.oh) /\ Agree(s, T.cum, U.cum)
  BY <1>0 DEF Agree, SameBut
<1>2. Agree(s, Made(T), Made(U))
  BY <1>0 DEF Agree, Made, SameBut
<1>3. InOrder(U, U.line)
  BY <1>0, <1>1 DEF InOrder, Before, Agree
<1>4. Totals(U)
  <2>1. AddsUp(SetEvent, s, T.qty, T.val, T.oh) /\ AddsUp({}, s, Made(T), T.val, T.cum)
    BY <1>0 DEF Totals
  <2>2. AddsUp(SetEvent, s, U.qty, U.val, U.oh)
    BY <1>0, <1>1, <2>1, SameAdds
  <2>3. AddsUp({}, s, Made(U), U.val, U.cum)
    BY <1>0, <1>1, <1>2, <2>1, SameAdds
  <2> QED
    BY <2>2, <2>3 DEF Totals
<1>5. Chained(U)
  BY <1>0 DEF Chained
<1>6. NoWeight(U)
  <2>1. \A x \in Fixed : x \in Event
    BY DEF Event
  <2> QED
    BY <1>0, <2>1 DEF NoWeight, SameBut
<1> QED
  BY <1>3, <1>4, <1>5, <1>6 DEF Good

(* So can the value of an event that does not set the onhand. *)
LEMMA ValueGood ==
  ASSUME NEW T, Good(T), NEW e \in Event \ SetEvent, NEW U \in Timelines,
         U.line = T.line, U.chain = T.chain, U.oh = T.oh, U.cum = T.cum, U.dt = T.dt, U.qty = T.qty,
         SameBut(T.val, U.val, e)
  PROVE  Good(U)
<1> DEFINE s == T.line
<1>0. /\ T \in Timelines /\ s \in Seq(Event) /\ InOrder(T, s) /\ Totals(T) /\ Chained(T) /\ NoWeight(T)
      /\ \A k \in 1..Len(s) : s[k] \in Event
  <2>1. T \in Timelines /\ InOrder(T, s) /\ Totals(T) /\ Chained(T) /\ NoWeight(T)
    BY DEF Good
  <2>2. s \in Seq(Event)
    BY <2>1, Fields
  <2>3. \A k \in 1..Len(s) : s[k] \in Event
    BY <2>2, SeqFacts
  <2> QED
    BY <2>1, <2>2, <2>3
<1>1. AddsUp(SetEvent, s, T.qty, T.val, T.oh) /\ AddsUp({}, s, Made(T), T.val, T.cum)
  BY <1>0 DEF Totals
<1>2. \A k \in 1..Len(s) : s[k] \in SetEvent => U.val[s[k]] = T.val[s[k]]
  BY <1>0 DEF SameBut
<1>3. AddsUp(SetEvent, s, U.qty, U.val, U.oh)
  BY <1>1, <1>2 DEF AddsUp
<1>4. AddsUp({}, s, Made(U), U.val, U.cum)
  <2>1. Made(U) = Made(T)
    BY DEF Made
  <2> QED
    BY <1>1, <2>1 DEF AddsUp
<1>5. InOrder(U, U.line)
  BY <1>0 DEF InOrder, Before
<1> QED
  BY <1>0, <1>3, <1>4, <1>5 DEF Good, Totals, Chained, NoWeight

(* What the timelines of a buffer and of a bucketized resource are like:   *)
(* a buffer has no events that set the onhand; in the buckets of a         *)
(* resource all loadplans consume, and the chain of the events that set    *)
(* the onhand starts at the last one.                                      *)
LastFirst(T, c) == \A i, j \in 1..Len(c) : i < j => Before(T, c[j], c[i])

BucketsLine(T) ==
  /\ \A x \in Event : T.qty[x] <= 0
  /\ \A x \in ToSet(T.line) : x \in Change \union SetEvent
  /\ LastFirst(T, T.chain[2])

LEMMA NoneFirst ==
  ASSUME NEW T, Good(T), NEW t \in 2..4
  PROVE  /\ T.chain[t] = <<>> <=> \A x \in ToSet(T.line) : Type(x) # t
         /\ T.chain[t] \in Seq(Event) /\ Len(T.chain[t]) \in Nat /\ Distinct(T.chain[t])
         /\ \A x \in Event : x \in ToSet(T.chain[t]) <=> x \in ToSet(T.line) /\ Type(x) = t
<1> DEFINE c == T.chain[t]
<1>1. T \in Timelines /\ Lists(T.line, c, t)
  BY DEF Good, Chained
<1>2. c \in Seq(Event) /\ T.line \in Seq(Event)
  BY <1>1, Fields
<1>3. Distinct(c) /\ \A x \in Event : x \in ToSet(c) <=> x \in ToSet(T.line) /\ Type(x) = t
  BY <1>1 DEF Lists
<1> HIDE DEF c
<1>4. \A x \in ToSet(T.line) : x \in Event
  BY <1>2, SeqFacts
<1>5. c = <<>> => \A x \in ToSet(T.line) : Type(x) # t
  <2>1. c = <<>> => \A x : x \notin ToSet(c)
    <3>1. c = <<>> => Len(c) = 0
      OBVIOUS
    <3>2. c = <<>> => \A i : i \notin 1..Len(c)
      BY <3>1
    <3> QED
      BY <1>2, <3>2, SeqFacts
  <2> QED
    BY <1>3, <1>4, <2>1
<1>6. (\A x \in ToSet(T.line) : Type(x) # t) => c = <<>>
  <2>1. c # <<>> => Len(c) \in Nat /\ Len(c) # 0
    BY <1>2, EmptySeq
  <2>2. c # <<>> => 1 \in 1..Len(c)
    BY <2>1
  <2>3. c # <<>> => c[1] \in Event /\ c[1] \in ToSet(c)
    BY <1>2, <2>2, SeqFacts
  <2> QED
    BY <1>3, <2>3
<1> QED
  BY <1>2, <1>3, <1>5, <1>6, SeqFacts DEF c

LEMMA SearchInBuffer ==
  ASSUME NEW T, Good(T), ~SetSeen(T), NEW e \in Event \ SetEvent
  PROVE  SearchesFrom(T, e, SearchStart(T, e))
<1>1. T.line \in Seq(Event) /\ Len(T.line) \in Nat
  BY Fields, SeqFacts DEF Good
<1>2. \A x \in ToSet(T.line) : x \in Event /\ x \notin SetEvent
  BY <1>1, SeqFacts DEF SetSeen
<1>3. T.chain[2] = <<>>
  BY <1>2, NoneFirst, Types
<1>4. SearchStart(T, e) = Len(T.line)
  BY <1>3 DEF SearchStart
<1>5. \A k \in 1..Len(T.line) : T.line[k] \notin SetEvent
  BY <1>1, <1>2, SeqFacts
<1> QED
  BY <1>1, <1>4, <1>5 DEF SearchesFrom

(* The place where the search for a loadplan starts: the first event that  *)
(* sets the onhand after it.                                               *)
LEMMA SearchInBuckets ==
  ASSUME NEW T, Good(T), BucketsLine(T), NEW e \in Change, e \notin ToSet(T.line),
         NEW last \in SetEvent, last \in ToSet(T.line), T.dt[last] > T.dt[e]
  PROVE  SearchesFrom(T, e, SearchStart(T, e))
<1> DEFINE s == T.line
           c == T.chain[2]
           Stops(k) == (k = Len(c) \/ ~Before(T, e, c[k+1])) /\ \A j \in 1..k-1 : Before(T, e, c[j+1])
           stop == CHOOSE k \in DOMAIN c : Stops(k)
<1>0. /\ T \in Timelines /\ s \in Seq(Event) /\ Distinct(s) /\ Len(s) \in Nat /\ e \in Event /\ last \in Event
      /\ InOrder(T, s) /\ T.dt \in [Event -> Int] /\ T.qty \in [Event -> Int] /\ e \notin SetEvent
  <2>1. e \in Event /\ last \in Event /\ e \notin SetEvent
    BY EventAssumption DEF Event, Fixed
  <2> QED
    BY <2>1, Fields, SeqFacts, OrderIsDistinct DEF Good
<1>1. /\ c \in Seq(Event) /\ Len(c) \in Nat /\ DOMAIN c = 1..Len(c) /\ Distinct(c)
      /\ \A x \in Event : x \in ToSet(c) <=> x \in ToSet(s) /\ x \in SetEvent
  <2>1. /\ c \in Seq(Event) /\ Len(c) \in Nat /\ Distinct(c)
        /\ \A x \in Event : x \in ToSet(c) <=> x \in ToSet(s) /\ Type(x) = 2
    BY NoneFirst
  <2> QED
    BY <2>1, SeqFacts, Types
<1>2. /\ \A k \in 1..Len(c) : c[k] \in Event /\ c[k] \in SetEvent /\ c[k] \in ToSet(s)
      /\ \A i, j \in 1..Len(c) : i < j => Before(T, c[j], c[i])
  <2>1. \A k \in 1..Len(c) : c[k] \in Event /\ c[k] \in ToSet(c)
    BY <1>1, SeqFacts
  <2> QED
    BY <1>1, <2>1 DEF BucketsLine, LastFirst
<1> HIDE DEF c
<1>3. PICK m \in 1..Len(c) : c[m] = last
  <2>1. last \in ToSet(c)
    BY <1>0, <1>1
  <2> QED
    BY <1>1, <2>1, SeqFacts
<1>4. \A x, y, z \in Event : /\ Before(T, x, y) /\ Before(T, y, z) => Before(T, x, z)
                             /\ Before(T, x, y) \/ Before(T, y, x) \/ x = y
                             /\ ~(Before(T, x, y) /\ Before(T, y, x))
  BY <1>0, Ordering
<1>5. Before(T, e, c[1]) /\ 1 \in 1..Len(c)
  <2>1. Before(T, e, last)
    BY <1>0 DEF Before
  <2>2. 1 \in 1..Len(c) /\ (m = 1 \/ 1 < m)
    BY <1>1, <1>3
  <2> QED
    BY <1>0, <1>2, <1>3, <1>4, <2>1, <2>2
<1>6. \E k \in DOMAIN c : Stops(k)
  <2> DEFINE S == {k \in 1..Len(c) : k = Len(c) \/ ~Before(T, e, c[k+1])}
  <2>1. S \in SUBSET Nat /\ Len(c) \in S
    BY <1>1, <1>5
  <2>2. PICK k \in S : \A j \in S : k <= j
    <3>1. S # {}
      BY <2>1
    <3> HIDE DEF S
    <3> QED
      BY <2>1, <3>1, SmallestOf
  <2>3. k \in 1..Len(c) /\ (k = Len(c) \/ ~Before(T, e, c[k+1]))
    OBVIOUS
  <2>5. \A j \in 1..Len(c) : ~Before(T, e, c[j+1]) => k <= j
    BY <2>2
  <2> HIDE DEF S
  <2>4. ASSUME NEW j \in 1..k-1 PROVE Before(T, e, c[j+1])
    <3>2. j \in 1..Len(c) /\ ~(k <= j)
      <4> DEFINE n == Len(c)
      <4>1. n \in Nat /\ k \in 1..n /\ j \in 1..k-1
        BY <1>1, <2>3
      <4> HIDE DEF n
      <4>2. j \in 1..n /\ ~(k <= j)
        BY <4>1
      <4> QED
        BY <4>2 DEF n
    <3> QED
      BY <2>5, <3>2
  <2> QED
    BY <1>1, <2>3, <2>4
<1>7. stop \in 1..Len(c) /\ (stop = Len(c) \/ ~Before(T, e, c[stop+1])) /\ \A j \in 1..stop-1 : Before(T, e, c[j+1])
  BY <1>1, <1>6
<1> DEFINE start == Place(s, c[stop])
<1>8. SearchStart(T, e) = start
  <2>1. c # <<>>
    BY <1>5
  <2> QED
    BY <2>1 DEF SearchStart, c
<1> HIDE DEF stop
<1>9. Before(T, e, c[stop])
  <2>1. CASE stop = 1
    BY <1>5, <2>1
  <2>2. CASE stop # 1
    <3>1. stop - 1 \in 1..stop-1 /\ (stop - 1) + 1 = stop
      BY <1>7, <2>2
    <3> QED
      BY <1>7, <3>1
  <2> QED
    BY <2>1, <2>2
<1>10. start \in 1..Len(s) /\ s[start] = c[stop]
  <2>1. c[stop] \in ToSet(s)
    BY <1>2, <1>7
  <2> HIDE DEF s
  <2> QED
    BY <1>0, <2>1, PlaceIn
<1> HIDE DEF s, start
<1>11. Made(T)[e] = 0
  <2>1. T.qty[e] <= 0
    BY <1>0 DEF BucketsLine
  <2>2. T.qty[e] \in Int
    BY <1>0
  <2> QED
    BY <1>0, <2>1, <2>2 DEF Made, Produced
<1>12. ASSUME NEW k \in 1..start, s[k] \in SetEvent, Before(T, e, s[k])
       PROVE  k = start
  <2>1. k \in 1..Len(s) /\ k \in Int /\ start \in Int
    BY <1>0, <1>10
  <2>2. s[k] \in Event /\ s[k] \in ToSet(s)
    BY <1>0, <2>1, SeqFacts
  <2>3. PICK i \in 1..Len(c) : c[i] = s[k]
    BY <1>1, <1>12, <2>2, SeqFacts
  <2>4. i <= stop
    <3> SUFFICES ASSUME ~(i <= stop) PROVE FALSE
      OBVIOUS
    <3>1. stop + 1 \in 1..Len(c) /\ stop # Len(c) /\ (i = stop + 1 \/ stop + 1 < i)
      <4> DEFINE n == Len(c)
      <4>1. n \in Nat /\ stop \in 1..n /\ i \in 1..n /\ ~(i <= stop)
        BY <1>1, <1>7, <2>3
      <4> HIDE DEF n
      <4>2. stop + 1 \in 1..n /\ stop # n /\ (i = stop + 1 \/ stop + 1 < i)
        BY <4>1
      <4> QED
        BY <4>2 DEF n
    <3>2. ~Before(T, e, c[stop+1])
      BY <1>7, <3>1
    <3>3. i = stop + 1 \/ Before(T, c[i], c[stop+1])
      BY <1>2, <3>1
    <3> QED
      BY <1>0, <1>2, <1>4, <1>12, <2>3, <3>1, <3>2, <3>3
  <2>5. i = stop \/ Before(T, c[stop], c[i])
    <3>1. i = stop \/ i < stop
      BY <1>7, <2>3, <2>4
    <3> QED
      BY <1>2, <1>7, <2>3, <3>1
  <2>6. s[k] = s[start] \/ Before(T, s[start], s[k])
    BY <1>10, <2>3, <2>5
  <2>7. k < start => Before(T, s[k], s[start])
    BY <1>0, <1>10, <2>1 DEF InOrder
  <2>8. s[start] \in Event /\ (s[k] = s[start] => k = start)
    BY <1>0, <1>2, <1>7, <1>10, <2>1 DEF Distinct
  <2>9. k < start \/ k = start
    BY <2>1
  <2> QED
    BY <1>4, <2>2, <2>6, <2>7, <2>8, <2>9
<1>13. start \in 0..Len(s) /\ start # 0 /\ Before(T, e, s[start]) /\ s[start] \in SetEvent
  <2>1. start \in 0..Len(s) /\ start # 0
    BY <1>0, <1>10
  <2> QED
    BY <1>2, <1>7, <1>9, <1>10, <2>1
<1> QED
  BY <1>0, <1>8, <1>11, <1>12, <1>13 DEF SearchesFrom, s

(* An event that sets the onhand comes behind all others while the buckets *)
(* are made.                                                               *)
LEMMA SearchForBucket ==
  ASSUME NEW T, Good(T), BucketsLine(T), NEW e \in SetEvent,
         \A x \in ToSet(T.line) : x \in SetEvent /\ T.dt[x] < T.dt[e]
  PROVE  SearchesFrom(T, e, SearchStart(T, e)) /\ InFront(T, e)
<1> DEFINE s == T.line
           c == T.chain[2]
           Stops(k) == (k = Len(c) \/ ~Before(T, e, c[k+1])) /\ \A j \in 1..k-1 : Before(T, e, c[j+1])
           stop == CHOOSE k \in DOMAIN c : Stops(k)
<1>0. /\ T \in Timelines /\ s \in Seq(Event) /\ Distinct(s) /\ Len(s) \in Nat /\ e \in Event
      /\ InOrder(T, s) /\ T.dt \in [Event -> Int] /\ T.qty \in [Event -> Int] /\ Type(e) = 2
  <2>1. e \in Event /\ Type(e) = 2
    BY Types DEF Event, Fixed
  <2> QED
    BY <2>1, Fields, SeqFacts, OrderIsDistinct DEF Good
<1>1. /\ c \in Seq(Event) /\ Len(c) \in Nat /\ DOMAIN c = 1..Len(c) /\ Distinct(c)
      /\ \A x \in Event : x \in ToSet(c) <=> x \in ToSet(s) /\ x \in SetEvent
  <2>1. /\ c \in Seq(Event) /\ Len(c) \in Nat /\ Distinct(c)
        /\ \A x \in Event : x \in ToSet(c) <=> x \in ToSet(s) /\ Type(x) = 2
    BY NoneFirst
  <2> QED
    BY <2>1, SeqFacts, Types
<1>2. /\ \A k \in 1..Len(c) : c[k] \in Event /\ c[k] \in SetEvent /\ c[k] \in ToSet(s)
      /\ \A i, j \in 1..Len(c) : i < j => Before(T, c[j], c[i])
  <2>1. \A k \in 1..Len(c) : c[k] \in Event /\ c[k] \in ToSet(c)
    BY <1>1, SeqFacts
  <2> QED
    BY <1>1, <2>1 DEF BucketsLine, LastFirst
<1> HIDE DEF c
<1>3. \A x \in Event : x \in ToSet(s) => T.dt[x] < T.dt[e] /\ ~Before(T, e, x)
  <2>1. \A x \in Event : T.dt[x] \in Int /\ T.dt[e] \in Int
    BY <1>0
  <2>2. \A x \in ToSet(s) : T.dt[x] < T.dt[e]
    OBVIOUS
  <2> HIDE DEF s
  <2> QED
    BY <2>1, <2>2 DEF Before
<1>4. \A k \in 1..Len(s) : s[k] \in Event /\ s[k] \in ToSet(s) /\ s[k] \in SetEvent /\ ~Before(T, e, s[k])
  <2>1. \A k \in 1..Len(s) : s[k] \in Event /\ s[k] \in ToSet(s)
    BY <1>0, SeqFacts
  <2> QED
    BY <1>3, <2>1
<1>5. SearchStart(T, e) = Len(s)
  <2>1. CASE c = <<>>
    BY <2>1 DEF SearchStart, c
  <2>2. CASE c # <<>>
    <3>1. 1 \in 1..Len(c)
      <4>1. Len(c) # 0
        BY <1>1, <2>2, EmptySeq
      <4> QED
        BY <1>1, <4>1
    <3>2. \A k \in 1..Len(c) : ~Before(T, e, c[k])
      BY <1>2, <1>3
    <3>3. \E k \in DOMAIN c : Stops(k)
      <4>1. 1 = Len(c) \/ 1 + 1 \in 1..Len(c)
        BY <1>1, <3>1
      <4>2. \A j \in 1..1-1 : FALSE
        OBVIOUS
      <4>3. Stops(1)
        BY <3>2, <4>1, <4>2
      <4> QED
        BY <1>1, <3>1, <4>3
    <3>4. stop \in 1..Len(c) /\ Stops(stop)
      BY <1>1, <3>3
    <3> HIDE DEF stop
    <3>5. stop = 1
      <4> SUFFICES ASSUME stop # 1 PROVE FALSE
        OBVIOUS
      <4>1. stop - 1 \in 1..stop-1 /\ (stop - 1) + 1 = stop
        BY <3>4
      <4>2. Before(T, e, c[stop])
        BY <3>4, <4>1
      <4> QED
        BY <3>2, <3>4, <4>2
    <3>6. SearchStart(T, e) = Place(s, c[1])
      <4>1. SearchStart(T, e) = Place(s, c[stop])
        BY <2>2 DEF SearchStart, c, stop
      <4> QED
        BY <3>5, <4>1
    <3>7. PICK i \in 1..Len(s) : s[i] = c[1]
      BY <1>0, <1>2, <3>1, SeqFacts
    <3>8. i = Len(s)
      <4> SUFFICES ASSUME i # Len(s) PROVE FALSE
        OBVIOUS
      <4>1. Len(s) \in 1..Len(s) /\ i < Len(s)
        BY <1>0, <3>7
      <4>2. Before(T, c[1], s[Len(s)]) /\ s[Len(s)] \in Event
        BY <1>0, <1>4, <3>7, <4>1 DEF InOrder
      <4>3. PICK k \in 1..Len(c) : c[k] = s[Len(s)]
        BY <1>1, <1>4, <4>1, SeqFacts
      <4>4. k = 1 \/ 1 < k
        BY <1>1
      <4>5. k = 1 \/ Before(T, s[Len(s)], c[1])
        BY <1>2, <3>1, <4>3, <4>4
      <4> QED
        BY <1>0, <1>2, <3>1, <4>2, <4>3, <4>5, Ordering
    <3>9. Place(s, c[1]) = Len(s)
      <4>1. Place(s, s[i]) = i
        BY <1>0, PlaceOf
      <4> QED
        BY <3>7, <3>8, <4>1
    <3> QED
      BY <3>6, <3>9
  <2> QED
    BY <2>1, <2>2
<1>6. InFront(T, e)
  <2>1. CASE c = <<>>
    BY <1>0, <2>1 DEF InFront, c
  <2>2. CASE c # <<>>
    <3>1. 1 \in 1..Len(c)
      <4>1. Len(c) # 0
        BY <1>1, <2>2, EmptySeq
      <4> QED
        BY <1>1, <4>1
    <3>2. T.dt[c[1]] < T.dt[e] /\ T.dt[c[1]] \in Int /\ T.dt[e] \in Int
      BY <1>0, <1>2, <1>3, <3>1
    <3> QED
      BY <1>0, <3>2 DEF InFront, c
  <2> QED
    BY <2>1, <2>2
<1>7. SearchesFrom(T, e, Len(s))
  BY <1>0, <1>4 DEF SearchesFrom
<1> QED
  BY <1>5, <1>6, <1>7

OwnerLine(o, T) == IF o = "buffer" THEN ~SetSeen(T) ELSE BucketsLine(T)

(* Flowplans and loadplans leave the other events alone. *)
SameFixed(T, U) ==
  /\ \A x \in Fixed : U.dt[x] = T.dt[x] /\ U.val[x] = T.val[x] /\ (x \in ToSet(U.line) <=> x \in ToSet(T.line))
  /\ \A t \in 2..4 : U.chain[t] = T.chain[t]

LEMMA OwnerLineKept ==
  ASSUME NEW o, NEW T, NEW U, Good(T), Good(U), OwnerLine(o, T), SameFixed(T, U),
         o # "buffer" => \A x \in Event : U.qty[x] <= 0,
         \A x \in ToSet(U.line) : x \in ToSet(T.line) \/ x \in Change
  PROVE  OwnerLine(o, U)
<1>0. T \in Timelines /\ U \in Timelines /\ NoWeight(T) /\ NoWeight(U)
  BY DEF Good
<1>1. CASE o = "buffer"
  <2>1. \A x \in SetEvent : x \in Fixed
    BY DEF Fixed
  <2>2. ~SetSeen(U)
    BY <1>1, <2>1 DEF OwnerLine, SetSeen, SameFixed
  <2> QED
    BY <1>1, <2>2 DEF OwnerLine
<1>2. CASE o # "buffer"
  <2>1. BucketsLine(T)
    BY <1>2 DEF OwnerLine
  <2>2. U.chain[2] = T.chain[2]
    BY DEF SameFixed
  <2>3. /\ T.chain[2] \in Seq(Event)
        /\ \A x \in Event : x \in ToSet(T.chain[2]) <=> x \in ToSet(T.line) /\ Type(x) = 2
    BY NoneFirst
  <2>4. \A k \in 1..Len(T.chain[2]) : T.chain[2][k] \in Fixed
    <3>1. \A k \in 1..Len(T.chain[2]) : T.chain[2][k] \in Event /\ T.chain[2][k] \in ToSet(T.chain[2])
      BY <2>3, SeqFacts
    <3> QED
      BY <2>3, <3>1, Types DEF Fixed
  <2>5. \A x, y \in Fixed : Before(T, x, y) => Before(U, x, y)
    BY <1>0 DEF Before, NoWeight, SameFixed
  <2>6. LastFirst(U, U.chain[2])
    <3>1. SUFFICES ASSUME NEW i \in 1..Len(T.chain[2]), NEW j \in 1..Len(T.chain[2]), i < j
                   PROVE  Before(U, T.chain[2][j], T.chain[2][i])
      BY <2>2 DEF LastFirst
    <3>2. Before(T, T.chain[2][j], T.chain[2][i])
      BY <2>1, <3>1 DEF BucketsLine, LastFirst
    <3> QED
      BY <2>4, <2>5, <3>2
  <2>7. BucketsLine(U)
    BY <1>2, <2>1, <2>6 DEF BucketsLine
  <2> QED
    BY <1>2, <2>7 DEF OwnerLine
<1> QED
  BY <1>1, <1>2

LEMMA CreateGood ==
  ASSUME NEW o, NEW T, Good(T), OwnerLine(o, T), NEW e \in Change, e \notin ToSet(T.line),
         NEW d \in Date, NEW q \in Int,
         o # "buffer" => q <= 0 /\ \E x \in SetEvent : x \in ToSet(T.line) /\ T.dt[x] > d,
         NEW U, U = InsertChange(T, e, d, q)
  PROVE  /\ Good(U) /\ OwnerLine(o, U) /\ SameFixed(T, U)
         /\ \A x : x \in ToSet(U.line) <=> x \in ToSet(T.line) \/ x = e
         /\ SameBut(T.dt, U.dt, e) /\ SameBut(T.qty, U.qty, e) /\ U.dt[e] = d /\ U.qty[e] = q
<1> DEFINE R == [T EXCEPT !.dt[e] = d, !.qty[e] = q]
<1>0. /\ T \in Timelines /\ e \in Event \ SetEvent /\ e \notin Fixed
      /\ \A x \in Fixed : x \in Event /\ x # e
      /\ T.dt \in [Event -> Date] /\ T.qty \in [Event -> Int]
  <2>1. T \in Timelines /\ e \in Event \ SetEvent /\ e \notin Fixed
    BY EventAssumption DEF Good, Event, Fixed
  <2>2. \A x \in Fixed : x \in Event /\ x # e
    BY <2>1 DEF Event
  <2> QED
    BY <2>1, <2>2, Fields
<1>1. /\ R.line = T.line /\ R.dt = [T.dt EXCEPT ![e] = d] /\ R.qty = [T.qty EXCEPT ![e] = q]
      /\ R.val = T.val /\ R.oh = T.oh /\ R.cum = T.cum /\ R.chain = T.chain
      /\ R = [line |-> R.line, dt |-> R.dt, qty |-> R.qty, val |-> R.val, oh |-> R.oh, cum |-> R.cum, chain |-> R.chain]
  <2>1. T = [line |-> T.line, dt |-> T.dt, qty |-> T.qty, val |-> T.val, oh |-> T.oh, cum |-> T.cum, chain |-> T.chain]
    BY <1>0 DEF Timelines
  <2> DEFINE x == [T.dt EXCEPT ![e] = d]
             y == [T.qty EXCEPT ![e] = q]
  <2>2. R = [T EXCEPT !.dt = x, !.qty = y]
    BY <2>1
  <2> HIDE DEF R, x, y
  <2>3. R = [line |-> T.line, dt |-> x, qty |-> y, val |-> T.val, oh |-> T.oh, cum |-> T.cum, chain |-> T.chain]
    BY <2>1, <2>2
  <2> QED
    BY <2>3 DEF x, y
<1>2. U = Insert(R, e)
  BY DEF InsertChange
<1> HIDE DEF R
<1>3. R \in Timelines
  <2>1. R.dt \in [Event -> Date] /\ R.qty \in [Event -> Int]
    BY <1>0, <1>1
  <2> QED
    BY <1>0, <1>1, <2>1, Fields DEF Timelines, Amounts
<1>4. /\ SameBut(T.dt, R.dt, e) /\ SameBut(T.qty, R.qty, e) /\ SameBut(T.val, R.val, e) /\ R.dt[e] = d /\ R.qty[e] = q
  BY <1>0, <1>1 DEF SameBut
<1>5. Good(R)
  BY <1>0, <1>1, <1>3, <1>4, SpareGood
<1>6. SameFixed(T, R)
  BY <1>0, <1>1, <1>4 DEF SameFixed, SameBut
<1>7. o # "buffer" => \A x \in Event : R.qty[x] <= 0
  BY <1>0, <1>4 DEF OwnerLine, BucketsLine, SameBut
<1>8. OwnerLine(o, R)
  <2>1. \A x \in ToSet(R.line) : x \in ToSet(T.line) \/ x \in Change
    BY <1>1
  <2> QED
    BY <1>5, <1>6, <1>7, <2>1, OwnerLineKept
<1>9. SearchesFrom(R, e, SearchStart(R, e))
  <2>1. CASE o = "buffer"
    <3>1. ~SetSeen(R)
      BY <1>8, <2>1 DEF OwnerLine
    <3> QED
      BY <1>0, <1>5, <3>1, SearchInBuffer
  <2>2. CASE o # "buffer"
    <3>1. BucketsLine(R)
      BY <1>8, <2>2 DEF OwnerLine
    <3>2. PICK x \in SetEvent : x \in ToSet(T.line) /\ T.dt[x] > d
      BY <2>2
    <3>3. x \in ToSet(R.line) /\ R.dt[x] > R.dt[e]
      BY <1>0, <1>1, <1>4, <3>2 DEF SameBut, Fixed
    <3>4. e \notin ToSet(R.line)
      BY <1>1
    <3> QED
      BY <1>5, <3>1, <3>3, <3>4, SearchInBuckets
  <2> QED
    BY <2>1, <2>2
<1>10. Good(U) /\ EnteredIn(R, e, U)
  <2>1. e \notin ToSet(R.line)
    BY <1>1
  <2> QED
    BY <1>0, <1>2, <1>5, <1>9, <2>1, InsertGood
<1>11. /\ U.dt = R.dt /\ U.qty = R.qty /\ U.val = R.val
       /\ \A x : x \in ToSet(U.line) <=> x \in ToSet(R.line) \/ x = e
       /\ \A t \in 2..4 : U.chain[t] = R.chain[t]
  <2>1. \A t \in 2..4 : t # Type(e)
    BY <1>0, Types
  <2> QED
    BY <1>10, <2>1 DEF EnteredIn
<1>12. SameFixed(T, U)
  BY <1>0, <1>1, <1>6, <1>11 DEF SameFixed
<1>13. OwnerLine(o, U)
  BY <1>1, <1>7, <1>10, <1>11, <1>12, OwnerLineKept
<1> QED
  BY <1>1, <1>4, <1>10, <1>11, <1>12, <1>13

LEMMA MoveGood ==
  ASSUME NEW o, NEW T, Good(T), OwnerLine(o, T), NEW e \in Change, e \in ToSet(T.line),
         NEW d \in Date, NEW q \in Int, o # "buffer" => q <= 0,
         NEW U, U = Update(T, e, q, d)
  PROVE  /\ Good(U) /\ OwnerLine(o, U) /\ SameFixed(T, U)
         /\ \A x : x \in ToSet(U.line) <=> x \in ToSet(T.line)
         /\ SameBut(T.dt, U.dt, e) /\ SameBut(T.qty, U.qty, e) /\ U.dt[e] = d /\ U.qty[e] = q
<1>0. /\ T \in Timelines /\ e \in Event /\ e \notin Fixed
      /\ \A x \in Fixed : x \in Event /\ x # e
      /\ T.dt \in [Event -> Date] /\ T.qty \in [Event -> Int]
  <2>1. T \in Timelines /\ e \in Event /\ e \notin Fixed
    BY EventAssumption DEF Good, Event
  <2>2. \A x \in Fixed : x \in Event /\ x # e
    BY <2>1 DEF Event
  <2> QED
    BY <2>1, <2>2, Fields
<1>1. SetSeen(T) => o # "buffer"
  BY DEF OwnerLine
<1>2. TakesOnly(T) /\ (SetSeen(T) => q <= 0)
  BY <1>1 DEF OwnerLine, BucketsLine, TakesOnly
<1>3. Good(U) /\ MovedIn(T, e, q, d, U)
  BY <1>2, UpdateGood
<1>4. /\ SameBut(T.dt, U.dt, e) /\ SameBut(T.qty, U.qty, e) /\ U.dt[e] = d /\ U.qty[e] = q
      /\ U.val = T.val /\ U.chain = T.chain
      /\ \A x : x \in ToSet(U.line) <=> x \in ToSet(T.line)
  <2>1. /\ U.dt = [T.dt EXCEPT ![e] = d] /\ U.qty = [T.qty EXCEPT ![e] = q] /\ U.val = T.val /\ U.chain = T.chain
        /\ \A x : x \in ToSet(U.line) <=> x \in ToSet(T.line)
    BY <1>3 DEF MovedIn
  <2> QED
    BY <1>0, <2>1 DEF SameBut
<1>5. SameFixed(T, U)
  BY <1>0, <1>4 DEF SameFixed, SameBut
<1>6. o # "buffer" => \A x \in Event : U.qty[x] <= 0
  BY <1>4 DEF OwnerLine, BucketsLine, SameBut
<1>7. OwnerLine(o, U)
  BY <1>3, <1>4, <1>5, <1>6, OwnerLineKept
<1> QED
  BY <1>3, <1>4, <1>5, <1>7

LEMMA DeleteGood ==
  ASSUME NEW o, NEW T, Good(T), OwnerLine(o, T), NEW e \in Change, e \in ToSet(T.line),
         NEW U, U = Erase(T, e)
  PROVE  /\ Good(U) /\ OwnerLine(o, U) /\ SameFixed(T, U)
         /\ \A x : x \in ToSet(U.line) <=> x \in ToSet(T.line) /\ x # e
         /\ SameBut(T.dt, U.dt, e) /\ SameBut(T.qty, U.qty, e)
<1>0. /\ T \in Timelines /\ e \in Event /\ e \notin Fixed /\ e \notin SetEvent
      /\ \A x \in Fixed : x \in Event /\ x # e
  <2>1. T \in Timelines /\ e \in Event /\ e \notin Fixed /\ e \notin SetEvent
    BY EventAssumption DEF Good, Event, Fixed
  <2>2. \A x \in Fixed : x \in Event /\ x # e
    BY <2>1 DEF Event
  <2> QED
    BY <2>1, <2>2
<1>1. Good(U) /\ LeftFrom(T, e, U)
  BY <1>0, EraseGood
<1>2. /\ SameBut(T.dt, U.dt, e) /\ SameBut(T.qty, U.qty, e) /\ SameBut(T.val, U.val, e) /\ U.qty[e] = 0
      /\ \A x : x \in ToSet(U.line) <=> x \in ToSet(T.line) /\ x # e
      /\ \A t \in 2..4 : U.chain[t] = T.chain[t]
  <2>1. \A t \in 2..4 : t # Type(e)
    BY <1>0, Types
  <2> QED
    BY <1>1, <2>1 DEF LeftFrom
<1>3. SameFixed(T, U)
  BY <1>0, <1>2 DEF SameFixed, SameBut
<1>4. o # "buffer" => \A x \in Event : U.qty[x] <= 0
  BY <1>2 DEF OwnerLine, BucketsLine, SameBut
<1>5. OwnerLine(o, U)
  BY <1>1, <1>2, <1>3, <1>4, OwnerLineKept
<1> QED
  BY <1>1, <1>2, <1>3, <1>5

(* The event of a bound, or of a calendar, goes in front of the list of    *)
(* its type when none there is later.                                      *)
FixedMayEnter(o, T, e, d) ==
  /\ e \notin ToSet(T.line) /\ d \in Date
  /\ o = "buffer" => e \notin SetEvent
  /\ o # "buffer" => e \in SetEvent /\ \A x \in ToSet(T.line) : x \in SetEvent /\ T.dt[x] < d

FixedEntered(o, T, e, d, v, U) ==
  /\ Good(U) /\ OwnerLine(o, U)
  /\ \A x : x \in ToSet(U.line) <=> x \in ToSet(T.line) \/ x = e
  /\ SameBut(T.dt, U.dt, e) /\ SameBut(T.val, U.val, e) /\ U.dt[e] = d /\ U.val[e] = v
  /\ \A t \in 2..4 : t # Type(e) => U.chain[t] = T.chain[t]
  /\ \E p \in 1..Len(T.chain[Type(e)])+1 :
       /\ InsertedAt(T.chain[Type(e)], p, e, U.chain[Type(e)])
       /\ T.chain[Type(e)] = <<>> \/ d >= T.dt[T.chain[Type(e)][1]] => p = 1

LEMMA EnterFixedGood ==
  ASSUME NEW o, NEW T, Good(T), OwnerLine(o, T), NEW e \in Fixed, NEW d, NEW v \in Int, FixedMayEnter(o, T, e, d),
         NEW U, U = InsertFixed(T, e, d, v)
  PROVE  FixedEntered(o, T, e, d, v, U)
<1> DEFINE R == [T EXCEPT !.dt[e] = d, !.val[e] = v]
           c == T.chain[Type(e)]
<1> USE DEF FixedMayEnter
<1>0. /\ T \in Timelines /\ e \in Event /\ NoWeight(T) /\ Type(e) \in 2..4
      /\ T.dt \in [Event -> Date] /\ T.val \in [Event -> Int] /\ T.qty \in Amounts /\ T.line \in Seq(Event)
      /\ c \in Seq(Event) /\ \A k \in 1..Len(c) : c[k] \in Event /\ c[k] # e
  <2>1. T \in Timelines /\ e \in Event /\ NoWeight(T)
    BY DEF Good, Event
  <2>2. Type(e) \in 2..4
    BY <2>1, Types
  <2>3. T.dt \in [Event -> Date] /\ T.val \in [Event -> Int] /\ T.qty \in Amounts /\ T.line \in Seq(Event)
    BY <2>1, Fields DEF Amounts
  <2>4. c \in Seq(Event) /\ \A x \in Event : x \in ToSet(c) => x \in ToSet(T.line)
    BY <2>2, NoneFirst
  <2> HIDE DEF c
  <2>5. \A k \in 1..Len(c) : c[k] \in Event /\ c[k] # e
    BY <2>4, SeqFacts
  <2> QED
    BY <2>1, <2>2, <2>3, <2>4, <2>5
<1>1. /\ R.line = T.line /\ R.dt = [T.dt EXCEPT ![e] = d] /\ R.val = [T.val EXCEPT ![e] = v]
      /\ R.qty = T.qty /\ R.oh = T.oh /\ R.cum = T.cum /\ R.chain = T.chain
      /\ R = [line |-> R.line, dt |-> R.dt, qty |-> R.qty, val |-> R.val, oh |-> R.oh, cum |-> R.cum, chain |-> R.chain]
  <2>1. T = [line |-> T.line, dt |-> T.dt, qty |-> T.qty, val |-> T.val, oh |-> T.oh, cum |-> T.cum, chain |-> T.chain]
    BY <1>0 DEF Timelines
  <2> DEFINE x == [T.dt EXCEPT ![e] = d]
             y == [T.val EXCEPT ![e] = v]
  <2>2. R = [T EXCEPT !.dt = x, !.val = y]
    BY <2>1
  <2> HIDE DEF R, x, y
  <2>3. R = [line |-> T.line, dt |-> x, qty |-> T.qty, val |-> y, oh |-> T.oh, cum |-> T.cum, chain |-> T.chain]
    BY <2>1, <2>2
  <2> QED
    BY <2>3 DEF x, y
<1>2. U = Insert(R, e)
  BY DEF InsertFixed
<1> HIDE DEF R, c
<1>3. R \in Timelines
  <2>1. R.dt \in [Event -> Date] /\ R.val \in [Event -> Int]
    BY <1>0, <1>1
  <2> QED
    BY <1>0, <1>1, <2>1, Fields DEF Timelines, Amounts
<1>4. /\ SameBut(T.dt, R.dt, e) /\ SameBut(T.qty, R.qty, e) /\ SameBut(T.val, R.val, e) /\ R.dt[e] = d /\ R.val[e] = v
  BY <1>0, <1>1 DEF SameBut
<1>5. Good(R)
  <2>1. R.qty[e] = 0
    BY <1>0, <1>1 DEF NoWeight
  <2> QED
    BY <1>0, <1>1, <1>3, <1>4, <2>1, SpareGood
<1>6. OwnerLine(o, R)
  <2>1. CASE o = "buffer"
    BY <1>1, <2>1 DEF OwnerLine, SetSeen
  <2>2. CASE o # "buffer"
    <3>1. BucketsLine(T)
      BY <2>2 DEF OwnerLine
    <3>2. Type(e) = 2
      BY <1>0, <2>2, Types
    <3>3. R.chain[2] = c /\ T.chain[2] = c
      BY <1>1, <3>2 DEF c
    <3>4. LastFirst(T, c)
      BY <3>1, <3>3 DEF BucketsLine
    <3>5. LastFirst(R, c)
      <4>1. \A x \in Event : x # e => R.dt[x] = T.dt[x] /\ R.qty[x] = T.qty[x]
        BY <1>4 DEF SameBut
      <4>2. \A x, y \in Event : x # e /\ y # e /\ Before(T, x, y) => Before(R, x, y)
        BY <4>1 DEF Before
      <4> QED
        BY <1>0, <3>4, <4>2 DEF LastFirst
    <3>6. BucketsLine(R)
      BY <1>1, <3>1, <3>3, <3>5 DEF BucketsLine
    <3> QED
      BY <2>2, <3>6 DEF OwnerLine
  <2> QED
    BY <2>1, <2>2
<1>7. o # "buffer" => \A x \in ToSet(R.line) : x \in SetEvent /\ R.dt[x] < R.dt[e]
  <2>1. \A x \in ToSet(T.line) : x \in Event /\ x # e
    <3>1. ASSUME NEW x \in ToSet(T.line) PROVE x \in Event
      <4>1. T.line \in Seq(Event) /\ x \in ToSet(T.line)
        BY <1>0, <3>1
      <4>2. PICK i \in 1..Len(T.line) : T.line[i] = x
        BY <4>1, SeqFacts
      <4> QED
        BY <4>1, <4>2, SeqFacts
    <3> QED
      BY <3>1
  <2> QED
    BY <1>1, <1>4, <2>1 DEF SameBut
<1>8. SearchesFrom(R, e, SearchStart(R, e)) /\ (o # "buffer" => InFront(R, e))
  <2>1. CASE o = "buffer"
    <3>1. ~SetSeen(R) /\ e \in Event \ SetEvent
      BY <1>0, <1>6, <2>1 DEF OwnerLine
    <3> QED
      BY <1>5, <2>1, <3>1, SearchInBuffer
  <2>2. CASE o # "buffer"
    <3>1. BucketsLine(R) /\ e \in SetEvent
      BY <1>6, <2>2 DEF OwnerLine
    <3> QED
      BY <1>5, <1>7, <2>2, <3>1, SearchForBucket
  <2> QED
    BY <2>1, <2>2
<1>9. Good(U) /\ EnteredIn(R, e, U)
  <2>1. e \notin ToSet(R.line)
    BY <1>1
  <2> QED
    BY <1>0, <1>2, <1>5, <1>8, <2>1, InsertGood
<1>10. /\ U.dt = R.dt /\ U.qty = R.qty /\ U.val = R.val
       /\ \A x : x \in ToSet(U.line) <=> x \in ToSet(R.line) \/ x = e
       /\ \A t \in 2..4 : t # Type(e) => U.chain[t] = R.chain[t]
       /\ \E p \in 1..Len(R.chain[Type(e)])+1 :
            InsertedAt(R.chain[Type(e)], p, e, U.chain[Type(e)]) /\ (InFront(R, e) => p = 1)
  BY <1>9 DEF EnteredIn
<1>11. PICK p \in 1..Len(c)+1 : InsertedAt(c, p, e, U.chain[Type(e)]) /\ (InFront(R, e) => p = 1)
  BY <1>1, <1>10 DEF c
<1>12. InFront(R, e) <=> c = <<>> \/ d >= T.dt[c[1]]
  <2>1. c # <<>> => 1 \in 1..Len(c)
    <3>1. c # <<>> => Len(c) \in Nat /\ Len(c) # 0
      BY <1>0, SeqFacts, EmptySeq
    <3> QED
      BY <3>1
  <2>2. c # <<>> => R.dt[c[1]] = T.dt[c[1]]
    BY <1>0, <1>4, <2>1 DEF SameBut
  <2> QED
    BY <1>1, <1>4, <2>2 DEF InFront, c
<1>13. OwnerLine(o, U)
  <2>1. CASE o = "buffer"
    BY <1>6, <1>10, <2>1 DEF OwnerLine, SetSeen
  <2>2. CASE o # "buffer"
    <3> DEFINE h == U.chain[Type(e)]
    <3>1. BucketsLine(R) /\ e \in SetEvent /\ Type(e) = 2
      BY <1>0, <1>6, <2>2, Types DEF OwnerLine
    <3>2. LastFirst(R, c) /\ InsertedAt(c, 1, e, h)
      BY <1>1, <1>8, <1>11, <2>2, <3>1 DEF BucketsLine, c
    <3> HIDE DEF h
    <3>3. Len(c) \in Nat /\ Len(h) = Len(c) + 1 /\ h[1] = e /\ \A k \in 1..Len(c) : h[k+1] = c[k]
      <4>1. Len(c) \in Nat
        BY <1>0, SeqFacts
      <4> QED
        BY <3>2, <4>1 DEF InsertedAt
    <3>4. \A k \in 1..Len(c) : Before(R, c[k], e)
      <4>1. c \in Seq(Event) /\ \A x \in Event : x \in ToSet(c) => x \in ToSet(T.line)
        BY <3>1, NoneFirst DEF c
      <4>2. \A k \in 1..Len(c) : c[k] \in ToSet(R.line)
        BY <1>1, <4>1, SeqFacts
      <4> QED
        BY <1>7, <2>2, <4>2 DEF Before
    <3>5. LastFirst(R, h)
      <4>1. SUFFICES ASSUME NEW i \in 1..Len(h), NEW j \in 1..Len(h), i < j PROVE Before(R, h[j], h[i])
        BY DEF LastFirst
      <4>2. j - 1 \in 1..Len(c) /\ (j - 1) + 1 = j
        BY <3>3, <4>1
      <4>3. h[j] = c[j-1]
        BY <3>3, <4>2
      <4>4. CASE i = 1
        BY <3>3, <3>4, <4>2, <4>3, <4>4
      <4>5. CASE i # 1
        <5>1. i - 1 \in 1..Len(c) /\ (i - 1) + 1 = i /\ i - 1 < j - 1
          BY <3>3, <4>1, <4>5
        <5>2. h[i] = c[i-1]
          BY <3>3, <5>1
        <5>3. Before(R, c[j-1], c[i-1])
          BY <3>2, <4>2, <5>1 DEF LastFirst
        <5> QED
          BY <4>3, <5>2, <5>3
      <4> QED
        BY <4>4, <4>5
    <3>6. LastFirst(U, U.chain[2])
      <4>1. \A a, b : Before(R, a, b) => Before(U, a, b)
        BY <1>10, SameOrder
      <4>2. LastFirst(U, h)
        BY <3>5, <4>1 DEF LastFirst
      <4> QED
        BY <3>1, <4>2 DEF h
    <3>7. BucketsLine(U)
      BY <1>10, <3>1, <3>6 DEF BucketsLine
    <3> QED
      BY <2>2, <3>7 DEF OwnerLine
  <2> QED
    BY <2>1, <2>2
<1>14. \E n \in 1..Len(c)+1 : InsertedAt(c, n, e, U.chain[Type(e)]) /\ (c = <<>> \/ d >= T.dt[c[1]] => n = 1)
  BY <1>11, <1>12
<1> QED
  BY <1>1, <1>4, <1>9, <1>10, <1>13, <1>14 DEF FixedEntered, c

LEMMA EraseFixedGood ==
  ASSUME NEW T, Good(T), ~SetSeen(T), NEW e \in Fixed, e \in ToSet(T.line), NEW U, U = Erase(T, e)
  PROVE  /\ Good(U) /\ ~SetSeen(U)
         /\ \A x : x \in ToSet(U.line) <=> x \in ToSet(T.line) /\ x # e
         /\ SameBut(T.dt, U.dt, e) /\ SameBut(T.val, U.val, e)
         /\ \A t \in 2..4 : t # Type(e) => U.chain[t] = T.chain[t]
<1>1. e \notin SetEvent
  BY DEF SetSeen
<1>2. Good(U) /\ LeftFrom(T, e, U)
  BY <1>1, EraseGood
<1>3. \A x : x \in ToSet(U.line) <=> x \in ToSet(T.line) /\ x # e
  BY <1>2 DEF LeftFrom
<1>4. ~SetSeen(U)
  BY <1>3 DEF SetSeen
<1> QED
  BY <1>2, <1>3, <1>4 DEF LeftFrom

-----------------------------------------------------------------------------
(* The entries of a calendar, as they are inserted one after the other. *)
FillStep(x, new, c, n) ==
  IF n - 1 \in DOMAIN new THEN InsertFixed(x, new[n-1], n - 1, c[n-1]) ELSE x

Fills(s, new, c, n, g) == g = [i \in 0..n |-> IF i = 0 THEN s ELSE FillStep(g[i-1], new, c, i)]

LEMMA FillExists ==
  ASSUME NEW s, NEW new, NEW c, NEW n \in Nat
  PROVE  \E g : Fills(s, new, c, n, g)
<1> DEFINE Bad == {k \in Nat : ~\E g : Fills(s, new, c, k, g)}
<1> SUFFICES ASSUME Bad # {} PROVE FALSE
  OBVIOUS
<1>1. PICK m \in Bad : \A k \in Bad : m <= k
  <2>1. Bad \in SUBSET Nat
    OBVIOUS
  <2> HIDE DEF Bad
  <2> QED
    BY <2>1, SmallestOf
<1>2. m \in Nat /\ ~\E g : Fills(s, new, c, m, g)
  OBVIOUS
<1>3. m # 0
  <2> DEFINE g == [i \in 0..0 |-> s]
  <2>1. Fills(s, new, c, 0, g)
    BY DEF Fills
  <2> QED
    BY <1>2, <2>1
<1>4. PICK h : Fills(s, new, c, m - 1, h)
  <2>1. m - 1 \in Nat /\ ~(m <= m - 1)
    BY <1>2, <1>3
  <2> QED
    BY <1>1, <2>1
<1> DEFINE g == [i \in 0..m |-> IF i < m THEN h[i] ELSE FillStep(h[m-1], new, c, m)]
<1>5. \A i \in 0..m-1 : h[i] = IF i = 0 THEN s ELSE FillStep(h[i-1], new, c, i)
  BY <1>4 DEF Fills
<1>6. \A i \in 0..m : g[i] = IF i < m THEN h[i] ELSE FillStep(h[m-1], new, c, m)
  OBVIOUS
<1> HIDE DEF g
<1>7. ASSUME NEW i \in 0..m PROVE g[i] = IF i = 0 THEN s ELSE FillStep(g[i-1], new, c, i)
  <2>1. i # 0 => i - 1 \in 0..m-1 /\ i - 1 < m /\ i - 1 \in 0..m
    BY <1>2
  <2>2. i # 0 => g[i-1] = h[i-1]
    BY <1>6, <2>1
  <2>3. CASE i < m
    <3>1. i \in 0..m-1
      BY <1>2, <2>3
    <3> QED
      BY <1>5, <1>6, <2>2, <2>3, <3>1
  <2>4. CASE ~(i < m)
    <3>1. i = m
      BY <1>2, <2>4
    <3>2. g[m] = FillStep(h[m-1], new, c, m)
      BY <1>2, <1>6
    <3> QED
      BY <1>3, <2>2, <3>1, <3>2
  <2> QED
    BY <2>3, <2>4
<1>8. Fills(s, new, c, m, g)
  <2>1. g = [i \in 0..m |-> g[i]]
    BY DEF g
  <2>2. g = [i \in 0..m |-> IF i = 0 THEN s ELSE FillStep(g[i-1], new, c, i)]
    BY <1>7, <2>1
  <2> QED
    BY <2>2 DEF Fills
<1> QED
  BY <1>2, <1>8

LEMMA WithEntriesFills ==
  ASSUME NEW s, NEW new, NEW c
  PROVE  \E g : /\ WithEntries(s, new, c) = g[MaxDate+1] /\ g[0] = s
                /\ \A i \in 1..MaxDate+1 : g[i] = FillStep(g[i-1], new, c, i)
<1> DEFINE n == MaxDate + 1
           fill == CHOOSE g : Fills(s, new, c, n, g)
<1>0. n \in Nat
  BY PlanAssumption
<1>1. Fills(s, new, c, n, fill)
  BY <1>0, FillExists
<1>2. WithEntries(s, new, c) = fill[n]
  BY DEF WithEntries, Fills, FillStep
<1> HIDE DEF fill, n
<1>3. fill[0] = s /\ \A i \in 1..n : fill[i] = FillStep(fill[i-1], new, c, i)
  <2>2. \A i \in 0..n : fill[i] = IF i = 0 THEN s ELSE FillStep(fill[i-1], new, c, i)
    BY <1>1 DEF Fills
  <2> QED
    BY <1>0, <2>2
<1> QED
  BY <1>2, <1>3 DEF n

LatestFirst(T, c) == \A i, j \in 1..Len(c) : i < j => T.dt[c[j]] < T.dt[c[i]]

NewEvents(s, t, c, new) ==
  /\ DOMAIN new \subseteq Date
  /\ \A k \in DOMAIN new : new[k] \in Fixed /\ Type(new[k]) = t /\ new[k] \notin ToSet(s.line) /\ c[k] \in Int
  /\ \A j, k \in DOMAIN new : new[j] = new[k] => j = k

Newer(new, n, x) == \E k \in DOMAIN new : k < n /\ new[k] = x

(* After the first n dates. *)
Filled(o, s, t, c, new, n, U) ==
  /\ Good(U) /\ OwnerLine(o, U)
  /\ \A x : x \in ToSet(U.line) <=> x \in ToSet(s.line) \/ Newer(new, n, x)
  /\ \A x \in Event : ~Newer(new, n, x) => U.dt[x] = s.dt[x] /\ U.val[x] = s.val[x]
  /\ \A k \in DOMAIN new : k < n => U.dt[new[k]] = k /\ U.val[new[k]] = c[k]
  /\ \A r \in 2..4 : r # t => U.chain[r] = s.chain[r]
  /\ s.chain[t] = <<>> => LatestFirst(U, U.chain[t])

LEMMA FillStepGood ==
  ASSUME NEW o, NEW s, Good(s), NEW t \in 2..4, NEW c, NEW new, NewEvents(s, t, c, new),
         o = "buffer" <=> t # 2, o # "buffer" => \A x : x \notin ToSet(s.line),
         NEW i \in 1..MaxDate+1, NEW V, Filled(o, s, t, c, new, i - 1, V), NEW U, U = FillStep(V, new, c, i)
  PROVE  Filled(o, s, t, c, new, i, U)
<1> DEFINE k == i - 1
<1>0. i \in Int /\ k \in Nat /\ k \in Date /\ k + 1 = i
  BY PlanAssumption DEF Date
<1>1. /\ Good(V) /\ OwnerLine(o, V)
      /\ \A x : x \in ToSet(V.line) <=> x \in ToSet(s.line) \/ Newer(new, k, x)
      /\ \A x \in Event : ~Newer(new, k, x) => V.dt[x] = s.dt[x] /\ V.val[x] = s.val[x]
      /\ \A m \in DOMAIN new : m < k => V.dt[new[m]] = m /\ V.val[new[m]] = c[m]
      /\ \A r \in 2..4 : r # t => V.chain[r] = s.chain[r]
      /\ s.chain[t] = <<>> => LatestFirst(V, V.chain[t])
  BY DEF Filled
<1>2. U = IF k \in DOMAIN new THEN InsertFixed(V, new[k], k, c[k]) ELSE V
  BY DEF FillStep
<1> HIDE DEF k
<1>3. \A m \in DOMAIN new : m \in Nat /\ (m < i <=> m < k \/ m = k)
  <2>1. \A m \in Nat : m < i <=> m < k \/ m = k
    BY <1>0
  <2>2. \A m \in DOMAIN new : m \in Nat
    BY PlanAssumption DEF NewEvents, Date
  <2> QED
    BY <2>1, <2>2
<1>4. CASE k \notin DOMAIN new
  <2>1. \A m \in DOMAIN new : m < i <=> m < k
    BY <1>3, <1>4
  <2>2. \A x : Newer(new, i, x) <=> Newer(new, k, x)
    BY <2>1 DEF Newer
  <2> QED
    BY <1>1, <1>2, <1>4, <2>1, <2>2 DEF Filled
<1>5. CASE k \in DOMAIN new
  <2> DEFINE e == new[k]
  <2>1. /\ e \in Fixed /\ e \in Event /\ Type(e) = t /\ e \notin ToSet(s.line) /\ c[k] \in Int
        /\ \A m \in DOMAIN new : new[m] = e => m = k
    BY <1>5 DEF NewEvents, Event
  <2>2. \A x : Newer(new, i, x) <=> Newer(new, k, x) \/ x = e
    BY <1>3, <1>5 DEF Newer
  <2>3. ~Newer(new, k, e)
    BY <1>0, <2>1 DEF Newer
  <2>4. e \notin ToSet(V.line)
    BY <1>1, <2>1, <2>3
  <2>5. \A x : Newer(new, k, x) => x \in Fixed /\ x \in Event /\ Type(x) = t /\ V.dt[x] < k
    BY <1>1 DEF Newer, NewEvents, Event
  <2>6. o # "buffer" => e \in SetEvent /\ \A x \in ToSet(V.line) : x \in SetEvent /\ V.dt[x] < k
    <3>1. t = 2 => e \in SetEvent /\ \A x : Newer(new, k, x) => x \in SetEvent
      BY <2>1, <2>5, Types
    <3> QED
      BY <1>1, <2>5, <3>1
  <2>7. o = "buffer" => e \notin SetEvent
    BY <2>1, Types
  <2>8. U = InsertFixed(V, e, k, c[k])
    BY <1>2, <1>5
  <2> HIDE DEF e
  <2>9. /\ Good(U) /\ OwnerLine(o, U)
        /\ \A x : x \in ToSet(U.line) <=> x \in ToSet(V.line) \/ x = e
        /\ SameBut(V.dt, U.dt, e) /\ SameBut(V.val, U.val, e) /\ U.dt[e] = k /\ U.val[e] = c[k]
        /\ \A r \in 2..4 : r # Type(e) => U.chain[r] = V.chain[r]
        /\ \E p \in 1..Len(V.chain[Type(e)])+1 :
             /\ InsertedAt(V.chain[Type(e)], p, e, U.chain[Type(e)])
             /\ V.chain[Type(e)] = <<>> \/ k >= V.dt[V.chain[Type(e)][1]] => p = 1
    <3>1. FixedMayEnter(o, V, e, k)
      BY <1>0, <2>4, <2>6, <2>7 DEF FixedMayEnter
    <3>2. FixedEntered(o, V, e, k, c[k], U)
      BY <1>1, <2>1, <2>8, <3>1, EnterFixedGood
    <3> QED
      BY <3>2 DEF FixedEntered
  <2>10. \A x : x \in ToSet(U.line) <=> x \in ToSet(s.line) \/ Newer(new, i, x)
    BY <1>1, <2>2, <2>9
  <2>11. ASSUME NEW x \in Event, ~Newer(new, i, x) PROVE U.dt[x] = s.dt[x] /\ U.val[x] = s.val[x]
    BY <1>1, <2>2, <2>9, <2>11 DEF SameBut
  <2>12. ASSUME NEW m \in DOMAIN new, m < i PROVE U.dt[new[m]] = m /\ U.val[new[m]] = c[m]
    <3>1. CASE m = k
      BY <2>9, <3>1 DEF e
    <3>2. CASE m # k
      <4>1. m < k /\ new[m] # e /\ new[m] \in Event
        BY <1>3, <2>1, <2>12, <3>2 DEF NewEvents, Event
      <4> QED
        BY <1>1, <2>9, <4>1 DEF SameBut
    <3> QED
      BY <3>1, <3>2
  <2>13. \A r \in 2..4 : r # t => U.chain[r] = s.chain[r]
    BY <1>1, <2>1, <2>9
  <2>14. ASSUME s.chain[t] = <<>> PROVE LatestFirst(U, U.chain[t])
    <3> DEFINE f == V.chain[t]
               h == U.chain[t]
    <3>1. /\ f \in Seq(Event) /\ Len(f) \in Nat
          /\ \A x \in Event : x \in ToSet(f) <=> x \in ToSet(V.line) /\ Type(x) = t
      BY <1>1, NoneFirst
    <3>2. \A x \in ToSet(s.line) : Type(x) # t
      BY <2>14, NoneFirst
    <3>3. LatestFirst(V, f)
      BY <1>1, <2>14
    <3>4. PICK p \in 1..Len(f)+1 : InsertedAt(f, p, e, h) /\ (f = <<>> \/ k >= V.dt[f[1]] => p = 1)
      BY <2>1, <2>9
    <3> HIDE DEF f, h
    <3>5. \A m \in 1..Len(f) : f[m] \in Event /\ V.dt[f[m]] < k /\ f[m] # e
      <4>1. \A m \in 1..Len(f) : f[m] \in Event /\ f[m] \in ToSet(f)
        BY <3>1, SeqFacts
      <4>2. \A m \in 1..Len(f) : Newer(new, k, f[m])
        BY <1>1, <3>1, <3>2, <4>1
      <4> QED
        BY <2>3, <2>5, <4>1, <4>2
    <3>6. p = 1
      <4>1. CASE f = <<>>
        BY <3>4, <4>1
      <4>2. CASE f # <<>>
        <5>1. 1 \in 1..Len(f)
          <6>1. Len(f) # 0
            BY <3>1, <4>2, EmptySeq
          <6> QED
            BY <3>1, <6>1
        <5>2. V.dt[f[1]] \in Int
          <6>1. V.dt \in [Event -> Int]
            BY <1>1, Fields DEF Good
          <6> QED
            BY <3>5, <5>1, <6>1
        <5>3. k >= V.dt[f[1]]
          BY <1>0, <3>5, <5>1, <5>2
        <5> QED
          BY <3>4, <5>3
      <4> QED
        BY <4>1, <4>2
    <3>7. Len(h) = Len(f) + 1 /\ h[1] = e /\ \A m \in 1..Len(f) : h[m+1] = f[m]
      BY <3>1, <3>4, <3>6 DEF InsertedAt
    <3>9. \A m \in 1..Len(f) : U.dt[f[m]] = V.dt[f[m]]
      BY <2>9, <3>5 DEF SameBut
    <3>8. ASSUME NEW a \in 1..Len(h), NEW b \in 1..Len(h), a < b PROVE U.dt[h[b]] < U.dt[h[a]]
      <4>1. b - 1 \in 1..Len(f) /\ (b - 1) + 1 = b
        BY <3>1, <3>7, <3>8
      <4>2. h[b] = f[b-1] /\ U.dt[h[b]] = V.dt[f[b-1]]
        <5>1. h[b] = f[b-1]
          BY <3>7, <4>1
        <5> QED
          BY <3>9, <4>1, <5>1
      <4>3. CASE a = 1
        BY <2>9, <3>5, <3>7, <4>1, <4>2, <4>3
      <4>4. CASE a # 1
        <5>1. a - 1 \in 1..Len(f) /\ (a - 1) + 1 = a /\ a - 1 < b - 1
          BY <3>1, <3>7, <3>8, <4>4
        <5>3. h[a] = f[a-1]
          BY <3>7, <5>1
        <5>2. h[a] = f[a-1] /\ U.dt[h[a]] = V.dt[f[a-1]]
          BY <3>9, <5>1, <5>3
        <5> QED
          BY <3>3, <4>1, <4>2, <5>1, <5>2 DEF LatestFirst
      <4> QED
        BY <4>3, <4>4
    <3> QED
      BY <3>8 DEF LatestFirst, h
  <2> QED
    BY <2>9, <2>10, <2>11, <2>12, <2>13, <2>14 DEF Filled
<1> QED
  BY <1>4, <1>5

LEMMA WithEntriesGood ==
  ASSUME NEW o, NEW s, Good(s), OwnerLine(o, s), NEW t \in 2..4, NEW c, NEW new, NewEvents(s, t, c, new),
         o = "buffer" <=> t # 2, o # "buffer" => \A x : x \notin ToSet(s.line)
  PROVE  Filled(o, s, t, c, new, MaxDate + 1, WithEntries(s, new, c))
<1>1. PICK g : /\ WithEntries(s, new, c) = g[MaxDate+1] /\ g[0] = s
               /\ \A i \in 1..MaxDate+1 : g[i] = FillStep(g[i-1], new, c, i)
  BY WithEntriesFills
<1> DEFINE Bad == {i \in 0..MaxDate+1 : ~Filled(o, s, t, c, new, i, g[i])}
<1>2. Bad = {}
  <2> SUFFICES ASSUME Bad # {} PROVE FALSE
    OBVIOUS
  <2>1. PICK m \in Bad : \A k \in Bad : m <= k
    <3>1. Bad \in SUBSET Nat
      BY PlanAssumption
    <3> HIDE DEF Bad
    <3> QED
      BY <3>1, SmallestOf
  <2>2. m \in 0..MaxDate+1 /\ ~Filled(o, s, t, c, new, m, g[m])
    OBVIOUS
  <2>3. m # 0
    <3>1. \A k \in DOMAIN new : ~(k < 0)
      BY PlanAssumption DEF NewEvents, Date
    <3>2. \A x : ~Newer(new, 0, x)
      BY <3>1 DEF Newer
    <3>3. s.chain[t] = <<>> => LatestFirst(s, s.chain[t])
      <4>1. s.chain[t] = <<>> => Len(s.chain[t]) = 0
        OBVIOUS
      <4> QED
        BY <4>1 DEF LatestFirst
    <3>4. Filled(o, s, t, c, new, 0, s)
      BY <3>1, <3>2, <3>3 DEF Filled
    <3> QED
      BY <1>1, <2>2, <3>4
  <2>4. m \in 1..MaxDate+1 /\ m - 1 \in 0..MaxDate+1 /\ ~(m <= m - 1)
    BY <2>2, <2>3, PlanAssumption
  <2>5. Filled(o, s, t, c, new, m - 1, g[m-1])
    BY <2>1, <2>4
  <2>6. Filled(o, s, t, c, new, m, g[m])
    BY <1>1, <2>4, <2>5, FillStepGood
  <2> QED
    BY <2>2, <2>6
<1>3. MaxDate + 1 \in 0..MaxDate+1
  BY PlanAssumption
<1> QED
  BY <1>1, <1>2, <1>3

-----------------------------------------------------------------------------
(* The invariant of the plan: the timeline is right, it holds the flowplans *)
(* or loadplans that exist, the loadplans come after the buckets, and the   *)
(* bounds of a buffer, as long as no older event was left, are what the     *)
(* list of their type says: the one fixed value, or the entries of the      *)
(* calendar with the latest first.                                          *)
FixedBound(T, t, b) ==
  \/ T.chain[t] = <<>> /\ b = Unset
  \/ Len(T.chain[t]) = 1 /\ T.dt[T.chain[t][1]] = 0 /\ T.val[T.chain[t][1]] = b

Entries(T, t, c) ==
  /\ LatestFirst(T, T.chain[t])
  /\ \A k \in 1..Len(T.chain[t]) :
       T.dt[T.chain[t][k]] \in NewEntries(c) /\ T.val[T.chain[t][k]] = c[T.dt[T.chain[t][k]]]
  /\ \A d \in NewEntries(c) : \E k \in 1..Len(T.chain[t]) : T.dt[T.chain[t][k]] = d

Held(T, t, b, c) == IF c = NoCalendar THEN FixedBound(T, t, b) ELSE Entries(T, t, c)

PlanTypes ==
  /\ owner \in {"buffer", "resource_buckets"}
  /\ plans \subseteq Change
  /\ bound \in [Bound -> Value]
  /\ calendar \in [2..4 -> Calendar \union {NoCalendar}]
  /\ asked \in [2..4 -> Calendar \union {NoCalendar}]
  /\ stale \subseteq 2..4

PlansInLine == \A x \in Change : x \in plans <=> x \in ToSet(tl.line)

BucketsMade == owner # "buffer" /\ calendar[2] = NoCalendar => \A x : x \notin ToSet(tl.line)

BoundHeld(t) == asked[t] = calendar[t] /\ Held(tl, t, bound[t], calendar[t])

BoundsHeld == owner = "buffer" => \A t \in Bound \ stale : BoundHeld(t)

PlanInv == PlanTypes /\ Good(tl) /\ OwnerLine(owner, tl) /\ PlansInLine /\ BucketsMade /\ BoundsHeld

(* The list of a type says the same with the same dates and values. *)
LEMMA HeldKept ==
  ASSUME NEW T, Good(T), NEW U, NEW t \in 3..4, U.chain[t] = T.chain[t],
         \A x \in Event : x \in ToSet(T.line) /\ Type(x) = t => U.dt[x] = T.dt[x] /\ U.val[x] = T.val[x],
         NEW b, NEW c, Held(T, t, b, c)
  PROVE  Held(U, t, b, c)
<1> DEFINE h == T.chain[t]
<1>1. h \in Seq(Event) /\ \A x \in Event : x \in ToSet(h) <=> x \in ToSet(T.line) /\ Type(x) = t
  BY NoneFirst
<1>2. U.chain[t] = h
  OBVIOUS
<1> HIDE DEF h
<1>3. \A k \in 1..Len(h) : U.dt[h[k]] = T.dt[h[k]] /\ U.val[h[k]] = T.val[h[k]]
  <2>1. \A k \in 1..Len(h) : h[k] \in Event /\ h[k] \in ToSet(h)
    BY <1>1, SeqFacts
  <2> QED
    BY <1>1, <2>1
<1>4. CASE c = NoCalendar
  <2>1. (h = <<>> /\ b = Unset) \/ (Len(h) = 1 /\ T.dt[h[1]] = 0 /\ T.val[h[1]] = b)
    BY <1>4 DEF Held, FixedBound, h
  <2>2. Len(h) = 1 => 1 \in 1..Len(h)
    OBVIOUS
  <2>3. (h = <<>> /\ b = Unset) \/ (Len(h) = 1 /\ U.dt[h[1]] = 0 /\ U.val[h[1]] = b)
    BY <1>3, <2>1, <2>2
  <2> QED
    BY <1>2, <1>4, <2>3 DEF Held, FixedBound
<1>5. CASE c # NoCalendar
  <2>1. /\ LatestFirst(T, h)
        /\ \A k \in 1..Len(h) : T.dt[h[k]] \in NewEntries(c) /\ T.val[h[k]] = c[T.dt[h[k]]]
        /\ \A d \in NewEntries(c) : \E k \in 1..Len(h) : T.dt[h[k]] = d
    BY <1>5 DEF Held, Entries, h
  <2>2. LatestFirst(U, h)
    BY <1>3, <2>1 DEF LatestFirst
  <2>3. /\ \A k \in 1..Len(h) : U.dt[h[k]] \in NewEntries(c) /\ U.val[h[k]] = c[U.dt[h[k]]]
        /\ \A d \in NewEntries(c) : \E k \in 1..Len(h) : U.dt[h[k]] = d
    BY <1>3, <2>1
  <2> QED
    BY <1>2, <1>5, <2>2, <2>3 DEF Held, Entries
<1> QED
  BY <1>4, <1>5

LEMMA InitPlanInv == Init => PlanInv
<1> SUFFICES ASSUME Init PROVE PlanInv
  OBVIOUS
<1> DEFINE e0 == <<>>
           c0 == [t \in 2..4 |-> <<>>]
<1>0. tl = [line |-> e0, dt |-> Zero, qty |-> Zero, val |-> Zero, oh |-> Zero, cum |-> Zero, chain |-> c0]
  BY DEF Init, Empty
<1>1. e0 \in Seq(Event) /\ Len(e0) = 0 /\ ToSet(e0) = {} /\ \A i : i \notin 1..Len(e0)
  <2>1. e0 \in Seq(Event) /\ Len(e0) = 0
    OBVIOUS
  <2>2. \A i : i \notin 1..Len(e0)
    BY <2>1
  <2> HIDE DEF e0
  <2>3. \A x : x \notin ToSet(e0)
    BY <2>1, <2>2, SeqFacts
  <2> QED
    BY <2>1, <2>2, <2>3
<1>2. Zero \in [Event -> Date] /\ Zero \in Amounts
  BY PlanAssumption DEF Zero, Amounts, Date
<1>3. c0 \in [2..4 -> Seq(Event)] /\ \A t \in 2..4 : c0[t] = e0
  OBVIOUS
<1> HIDE DEF e0, c0
<1>4. /\ tl.line = e0 /\ tl.dt = Zero /\ tl.qty = Zero /\ tl.val = Zero /\ tl.oh = Zero /\ tl.cum = Zero /\ tl.chain = c0
      /\ tl \in Timelines
  BY <1>0, <1>1, <1>2, <1>3 DEF Timelines
<1>5. Good(tl)
  <2>1. InOrder(tl, tl.line)
    BY <1>1, <1>4 DEF InOrder
  <2>2. Totals(tl)
    BY <1>1, <1>4 DEF Totals, AddsUp
  <2>3. Chained(tl)
    BY <1>1, <1>3, <1>4 DEF Chained, Lists, Distinct
  <2>4. NoWeight(tl)
    BY <1>4 DEF NoWeight, Zero, Event
  <2> QED
    BY <1>4, <2>1, <2>2, <2>3, <2>4 DEF Good
<1>6. OwnerLine(owner, tl)
  <2>1. ~SetSeen(tl)
    BY <1>1, <1>4 DEF SetSeen
  <2>2. BucketsLine(tl)
    <3>1. \A x \in Event : tl.qty[x] <= 0
      BY <1>4 DEF Zero
    <3>2. LastFirst(tl, tl.chain[2])
      BY <1>1, <1>3, <1>4 DEF LastFirst
    <3> QED
      BY <1>1, <1>4, <3>1, <3>2 DEF BucketsLine
  <2> QED
    BY <2>1, <2>2 DEF OwnerLine
<1>7. PlanTypes
  BY PlanAssumption DEF Init, PlanTypes, Unset
<1>8. PlansInLine
  BY <1>1, <1>4 DEF PlansInLine, Init
<1>9. BucketsMade
  BY <1>1, <1>4 DEF BucketsMade
<1>10. BoundsHeld
  <2>1. \A t \in Bound : t \in 2..4 /\ bound[t] = Unset /\ calendar[t] = NoCalendar /\ asked[t] = NoCalendar
    BY DEF Init, Bound
  <2>2. \A t \in Bound : FixedBound(tl, t, bound[t])
    BY <1>3, <1>4, <2>1 DEF FixedBound, e0
  <2> QED
    BY <2>1, <2>2 DEF BoundsHeld, BoundHeld, Held
<1> QED
  BY <1>5, <1>6, <1>7, <1>8, <1>9, <1>10 DEF PlanInv

LEMMA ChangesKeepInv ==
  ASSUME PlanInv, UNCHANGED user, plans' \subseteq Change, Good(tl'), OwnerLine(owner, tl'), SameFixed(tl, tl'),
         \A x \in Change : x \in plans' <=> x \in ToSet(tl'.line),
         \A x : x \in ToSet(tl'.line) => (\E y : y \in ToSet(tl.line))
  PROVE  PlanInv'
<1>1. /\ owner' = owner /\ bound' = bound /\ calendar' = calendar /\ asked' = asked /\ stale' = stale
      /\ PlanTypes /\ Good(tl) /\ BucketsMade /\ BoundsHeld
  BY DEF user, PlanInv
<1>2. PlanTypes'
  BY <1>1 DEF PlanTypes
<1>3. PlansInLine'
  BY DEF PlansInLine
<1>4. BucketsMade'
  BY <1>1 DEF BucketsMade
<1>5. BoundsHeld'
  <2>1. SUFFICES ASSUME owner = "buffer", NEW t \in Bound \ stale PROVE BoundHeld(t)'
    BY <1>1 DEF BoundsHeld
  <2>2. t \in 3..4 /\ t \in 2..4 /\ BoundHeld(t)
    BY <1>1, <2>1 DEF BoundsHeld, Bound
  <2>3. Held(tl, t, bound[t], calendar[t])
    BY <2>2 DEF BoundHeld
  <2>4. tl'.chain[t] = tl.chain[t]
    BY <2>2 DEF SameFixed
  <2>5. \A x \in Event : x \in ToSet(tl.line) /\ Type(x) = t => tl'.dt[x] = tl.dt[x] /\ tl'.val[x] = tl.val[x]
    BY <2>2, Types DEF SameFixed
  <2>6. Held(tl', t, bound[t], calendar[t])
    BY <1>1, <2>2, <2>3, <2>4, <2>5, HeldKept
  <2> QED
    BY <1>1, <2>2, <2>6 DEF BoundHeld
<1> QED
  BY <1>1, <1>2, <1>3, <1>4, <1>5 DEF PlanInv

LEMMA CreateKeepsInv ==
  ASSUME PlanInv, OpenEnd = FALSE, NEW e \in Change, NEW d \in Date, NEW q \in Int, Create(e, d, q)
  PROVE  PlanInv'
<1>1. /\ e \notin plans /\ Allowed(d, q) /\ plans' = plans \union {e} /\ tl' = InsertChange(tl, e, d, q)
      /\ UNCHANGED user
  BY DEF Create
<1>2. /\ PlanTypes /\ Good(tl) /\ OwnerLine(owner, tl) /\ PlansInLine /\ plans \subseteq Change
      /\ owner \in {"buffer", "resource_buckets"} /\ BucketsMade
  BY DEF PlanInv, PlanTypes
<1>3. owner # "buffer" => q <= 0 /\ \E x \in SetEvent : x \in ToSet(tl.line) /\ tl.dt[x] > d
  <2>1. owner # "buffer" => owner = "resource_buckets"
    BY <1>2
  <2> QED
    BY <1>1, <2>1 DEF Allowed
<1>4. e \notin ToSet(tl.line)
  BY <1>1, <1>2 DEF PlansInLine
<1>5. /\ Good(tl') /\ OwnerLine(owner, tl') /\ SameFixed(tl, tl')
      /\ \A x : x \in ToSet(tl'.line) <=> x \in ToSet(tl.line) \/ x = e
  BY <1>1, <1>2, <1>3, <1>4, CreateGood
<1>6. \A x \in Change : x \in plans' <=> x \in ToSet(tl'.line)
  BY <1>1, <1>2, <1>5 DEF PlansInLine
<1>7. CASE owner = "buffer"
  <2>1. owner' = owner /\ bound' = bound /\ calendar' = calendar /\ asked' = asked /\ stale' = stale
    BY <1>1 DEF user
  <2>2. PlanTypes'
    BY <1>1, <1>2, <2>1 DEF PlanTypes
  <2>3. BucketsMade'
    BY <1>7, <2>1 DEF BucketsMade
  <2>4. PlansInLine'
    BY <1>6 DEF PlansInLine
  <2>5. BoundsHeld'
    <3>1. SUFFICES ASSUME NEW t \in Bound \ stale PROVE BoundHeld(t)'
      BY <2>1 DEF BoundsHeld
    <3>2. t \in 3..4 /\ t \in 2..4 /\ BoundHeld(t)
      BY <1>7, <3>1 DEF PlanInv, BoundsHeld, Bound
    <3>3. Held(tl, t, bound[t], calendar[t])
      BY <3>2 DEF BoundHeld
    <3>4. /\ tl'.chain[t] = tl.chain[t]
          /\ \A x \in Event : x \in ToSet(tl.line) /\ Type(x) = t => tl'.dt[x] = tl.dt[x] /\ tl'.val[x] = tl.val[x]
      BY <1>5, <3>2, Types DEF SameFixed
    <3>5. Held(tl', t, bound[t], calendar[t])
      BY <1>2, <3>2, <3>3, <3>4, HeldKept
    <3> QED
      BY <2>1, <3>2, <3>5 DEF BoundHeld
  <2> QED
    BY <1>5, <2>1, <2>2, <2>3, <2>4, <2>5 DEF PlanInv
<1>8. CASE owner # "buffer"
  <2>1. plans' \subseteq Change
    BY <1>1, <1>2
  <2>2. \E y : y \in ToSet(tl.line)
    BY <1>3, <1>8
  <2> QED
    BY <1>1, <1>5, <1>6, <2>1, <2>2, ChangesKeepInv
<1> QED
  BY <1>7, <1>8

LEMMA MoveKeepsInv ==
  ASSUME PlanInv, NEW e \in Change, NEW d \in Date, NEW q \in Int, Move(e, d, q)
  PROVE  PlanInv'
<1>1. /\ e \in plans /\ Allowed(d, q) /\ plans' = plans /\ tl' = Update(tl, e, q, d) /\ UNCHANGED user
  BY DEF Move
<1>2. /\ Good(tl) /\ OwnerLine(owner, tl) /\ PlansInLine /\ plans \subseteq Change
      /\ owner \in {"buffer", "resource_buckets"}
  BY DEF PlanInv, PlanTypes
<1>3. owner # "buffer" => q <= 0
  <2>1. owner # "buffer" => owner = "resource_buckets"
    BY <1>2
  <2> QED
    BY <1>1, <2>1 DEF Allowed
<1>4. e \in ToSet(tl.line)
  BY <1>1, <1>2 DEF PlansInLine
<1>5. /\ Good(tl') /\ OwnerLine(owner, tl') /\ SameFixed(tl, tl')
      /\ \A x : x \in ToSet(tl'.line) <=> x \in ToSet(tl.line)
  BY <1>1, <1>2, <1>3, <1>4, MoveGood
<1>6. \A x \in Change : x \in plans' <=> x \in ToSet(tl'.line)
  BY <1>1, <1>2, <1>5 DEF PlansInLine
<1> QED
  BY <1>1, <1>2, <1>5, <1>6, ChangesKeepInv

LEMMA DeleteKeepsInv ==
  ASSUME PlanInv, NEW e \in Change, Delete(e)
  PROVE  PlanInv'
<1>1. e \in plans /\ plans' = plans \ {e} /\ tl' = Erase(tl, e) /\ UNCHANGED user
  BY DEF Delete
<1>2. Good(tl) /\ OwnerLine(owner, tl) /\ PlansInLine /\ plans \subseteq Change
  BY DEF PlanInv, PlanTypes
<1>3. e \in ToSet(tl.line)
  BY <1>1, <1>2 DEF PlansInLine
<1>4. /\ Good(tl') /\ OwnerLine(owner, tl') /\ SameFixed(tl, tl')
      /\ \A x : x \in ToSet(tl'.line) <=> x \in ToSet(tl.line) /\ x # e
  BY <1>1, <1>2, <1>3, DeleteGood
<1>5. \A x \in Change : x \in plans' <=> x \in ToSet(tl'.line)
  BY <1>1, <1>2, <1>4 DEF PlansInLine
<1>6. plans' \subseteq Change
  BY <1>1, <1>2
<1> QED
  BY <1>1, <1>4, <1>5, <1>6, ChangesKeepInv

-----------------------------------------------------------------------------
(* The first event of a type in the line, and whether there is one. *)
LEMMA FirstOfType ==
  ASSUME Good(tl), NEW t \in 2..4
  PROVE  /\ InLine(t) = {} <=> tl.chain[t] = <<>>
         /\ InLine(t) # {} => First(t) \in ToSet(tl.line) /\ First(t) \in Fixed /\ Type(First(t)) = t
         /\ InLine(t) \subseteq 1..Len(tl.line)
<1> DEFINE s == tl.line
<1>1. s \in Seq(Event) /\ Len(s) \in Nat
  BY Fields DEF Good
<1>2. InLine(t) = {i \in 1..Len(s) : Type(s[i]) = t}
  BY <1>1 DEF InLine
<1>3. /\ \A i \in 1..Len(s) : s[i] \in Event /\ s[i] \in ToSet(s)
      /\ \A x \in ToSet(s) : \E i \in 1..Len(s) : s[i] = x
  BY <1>1, SeqFacts
<1>4. First(t) = s[CHOOSE i \in InLine(t) : \A k \in InLine(t) : i <= k]
  BY DEF First
<1>5. tl.chain[t] = <<>> <=> \A x \in ToSet(s) : Type(x) # t
  BY NoneFirst
<1> HIDE DEF s
<1>6. InLine(t) = {} <=> tl.chain[t] = <<>>
  BY <1>2, <1>3, <1>5
<1>7. ASSUME InLine(t) # {}
      PROVE  First(t) \in ToSet(s) /\ First(t) \in Fixed /\ Type(First(t)) = t
  <2>1. InLine(t) \in SUBSET Nat
    BY <1>1, <1>2
  <2>2. \E i \in InLine(t) : \A k \in InLine(t) : i <= k
    BY <1>7, <2>1, SmallestOf
  <2>3. PICK i \in InLine(t) : First(t) = s[i]
    BY <1>4, <2>2
  <2>4. i \in 1..Len(s) /\ Type(s[i]) = t
    BY <1>2, <2>3
  <2> QED
    BY <1>3, <2>3, <2>4, Types
<1> QED
  BY <1>2, <1>6, <1>7 DEF s

(* A change of one bound, with the calendar of its type or without. *)
LEMMA BoundChangeKeepsInv ==
  ASSUME PlanInv, owner = "buffer", owner' = owner, plans' = plans, NEW t \in 3..4,
         PlanTypes', Good(tl'), OwnerLine(owner, tl'),
         \A x \in Change : x \in ToSet(tl'.line) <=> x \in ToSet(tl.line),
         \A r \in Bound \ stale' : r # t =>
           /\ r \notin stale /\ asked'[r] = asked[r] /\ calendar'[r] = calendar[r] /\ bound'[r] = bound[r]
           /\ tl'.chain[r] = tl.chain[r]
           /\ \A x \in Event : x \in ToSet(tl.line) /\ Type(x) = r => tl'.dt[x] = tl.dt[x] /\ tl'.val[x] = tl.val[x],
         t \in Bound \ stale' => asked'[t] = calendar'[t] /\ Held(tl', t, bound'[t], calendar'[t])
  PROVE  PlanInv'
<1>1. Good(tl) /\ PlansInLine /\ BoundsHeld
  BY DEF PlanInv
<1>2. PlansInLine'
  BY <1>1 DEF PlansInLine
<1>3. BucketsMade'
  BY DEF BucketsMade
<1>4. BoundsHeld'
  <2>1. SUFFICES ASSUME NEW r \in Bound \ stale', r # t PROVE BoundHeld(r)'
    BY DEF BoundsHeld, BoundHeld
  <2>2. r \in 3..4 /\ r \in Bound \ stale /\ BoundHeld(r)
    BY <1>1, <2>1 DEF BoundsHeld, Bound
  <2>3. Held(tl, r, bound[r], calendar[r]) /\ asked[r] = calendar[r]
    BY <2>2 DEF BoundHeld
  <2>4. Held(tl', r, bound[r], calendar[r])
    BY <1>1, <2>1, <2>2, <2>3, HeldKept
  <2> QED
    BY <2>1, <2>2, <2>3, <2>4 DEF BoundHeld
<1> QED
  BY <1>2, <1>3, <1>4 DEF PlanInv

LEMMA SetBoundKeepsInv ==
  ASSUME PlanInv, NEW t \in Bound, NEW v \in Value, SetBound(t, v)
  PROVE  PlanInv'
<1>1. /\ owner = "buffer" /\ bound' = [bound EXCEPT ![t] = v]
      /\ owner' = owner /\ plans' = plans /\ calendar' = calendar /\ asked' = asked /\ stale' = stale
  BY DEF SetBound
<1>2. IF calendar[t] # NoCalendar THEN UNCHANGED tl
      ELSE IF InLine(t) # {} THEN tl' = [tl EXCEPT !.val[First(t)] = v]
      ELSE \E e \in OfType(t) : tl' = InsertFixed(tl, e, 0, v)
  BY DEF SetBound
<1>3. /\ PlanTypes /\ Good(tl) /\ OwnerLine(owner, tl) /\ PlansInLine /\ BoundsHeld
      /\ bound \in [Bound -> Value] /\ tl \in Timelines /\ ~SetSeen(tl)
  BY <1>1 DEF PlanInv, PlanTypes, Good, OwnerLine
<1>4. t \in 3..4 /\ t \in 2..4 /\ v \in Int
  BY PlanAssumption DEF Bound
<1>5. bound'[t] = v /\ \A r \in Bound : r # t => bound'[r] = bound[r]
  BY <1>1, <1>3
<1>6. PlanTypes'
  BY <1>1, <1>3 DEF PlanTypes
<1>7. t \notin stale => asked[t] = calendar[t] /\ Held(tl, t, bound[t], calendar[t])
  BY <1>1, <1>3 DEF BoundsHeld, BoundHeld
<1>8. CASE calendar[t] # NoCalendar
  <2>1. tl' = tl
    BY <1>2, <1>8
  <2>2. t \notin stale => Held(tl', t, bound'[t], calendar'[t])
    BY <1>1, <1>7, <1>8, <2>1 DEF Held
  <2>3. /\ Good(tl') /\ OwnerLine(owner, tl')
        /\ \A x \in Change : x \in ToSet(tl'.line) <=> x \in ToSet(tl.line)
    BY <1>3, <2>1
  <2>4. \A r \in Bound \ stale' : r # t =>
           /\ r \notin stale /\ asked'[r] = asked[r] /\ calendar'[r] = calendar[r] /\ bound'[r] = bound[r]
           /\ tl'.chain[r] = tl.chain[r]
           /\ \A x \in Event : x \in ToSet(tl.line) /\ Type(x) = r => tl'.dt[x] = tl.dt[x] /\ tl'.val[x] = tl.val[x]
    BY <1>1, <1>5, <2>1
  <2> QED
    BY <1>1, <1>4, <1>6, <1>7, <2>2, <2>3, <2>4, BoundChangeKeepsInv
<1>9. CASE calendar[t] = NoCalendar /\ InLine(t) # {}
  <2> DEFINE e == First(t)
  <2>1. tl' = [tl EXCEPT !.val[e] = v]
    BY <1>2, <1>9
  <2>2. e \in ToSet(tl.line) /\ e \in Fixed /\ Type(e) = t /\ tl.chain[t] # <<>>
    BY <1>3, <1>4, <1>9, FirstOfType
  <2> HIDE DEF e
  <2>3. e \in Event \ SetEvent
    BY <1>4, <2>2, Types DEF Event
  <2>4. /\ tl'.line = tl.line /\ tl'.chain = tl.chain /\ tl'.oh = tl.oh /\ tl'.cum = tl.cum /\ tl'.dt = tl.dt
        /\ tl'.qty = tl.qty /\ tl'.val = [tl.val EXCEPT ![e] = v] /\ tl' \in Timelines
    BY <1>3, <1>4, <2>1, <2>3 DEF Timelines, Amounts
  <2>5. tl'.val[e] = v /\ SameBut(tl.val, tl'.val, e)
    BY <1>3, <2>3, <2>4, Fields DEF SameBut, Amounts
  <2>6. Good(tl')
    BY <1>3, <2>3, <2>4, <2>5, ValueGood
  <2>7. OwnerLine(owner, tl')
    BY <1>1, <1>3, <2>4 DEF OwnerLine, SetSeen
  <2>8. \A x \in Event : Type(x) # t => tl'.val[x] = tl.val[x]
    BY <2>2, <2>5 DEF SameBut
  <2>9. t \notin stale => Held(tl', t, bound'[t], calendar'[t])
    <3>1. SUFFICES ASSUME t \notin stale PROVE FixedBound(tl', t, v)
      BY <1>1, <1>5, <1>9 DEF Held
    <3>2. Len(tl.chain[t]) = 1 /\ tl.dt[tl.chain[t][1]] = 0
      BY <1>7, <1>9, <2>2, <3>1 DEF Held, FixedBound
    <3>3. tl.chain[t][1] = e
      <4>1. /\ tl.chain[t] \in Seq(Event)
            /\ \A x \in Event : x \in ToSet(tl.chain[t]) <=> x \in ToSet(tl.line) /\ Type(x) = t
        BY <1>3, <1>4, NoneFirst
      <4>2. e \in ToSet(tl.chain[t])
        BY <2>2, <2>3, <4>1
      <4>3. PICK i \in 1..Len(tl.chain[t]) : tl.chain[t][i] = e
        BY <4>1, <4>2, SeqFacts
      <4> QED
        BY <3>2, <4>3
    <3> QED
      BY <2>4, <2>5, <3>2, <3>3 DEF FixedBound
  <2>10. \A r \in Bound \ stale' : r # t =>
           /\ r \notin stale /\ asked'[r] = asked[r] /\ calendar'[r] = calendar[r] /\ bound'[r] = bound[r]
           /\ tl'.chain[r] = tl.chain[r]
           /\ \A x \in Event : x \in ToSet(tl.line) /\ Type(x) = r => tl'.dt[x] = tl.dt[x] /\ tl'.val[x] = tl.val[x]
    BY <1>1, <1>5, <2>4, <2>8
  <2>11. \A x \in Change : x \in ToSet(tl'.line) <=> x \in ToSet(tl.line)
    BY <2>4
  <2> QED
    BY <1>1, <1>4, <1>6, <1>7, <2>6, <2>7, <2>9, <2>10, <2>11, BoundChangeKeepsInv
<1>10. CASE calendar[t] = NoCalendar /\ InLine(t) = {}
  <2>1. PICK e \in OfType(t) : tl' = InsertFixed(tl, e, 0, v)
    BY <1>2, <1>10
  <2>2. e \in Fixed /\ e \in Event /\ Type(e) = t
    BY DEF OfType, Event
  <2>3. tl.chain[t] = <<>>
    BY <1>3, <1>4, <1>10, FirstOfType
  <2>4. e \notin ToSet(tl.line)
    BY <1>3, <1>4, <2>2, <2>3, NoneFirst
  <2>5. FixedMayEnter(owner, tl, e, 0)
    <3>1. e \notin SetEvent
      BY <1>4, <2>2, Types
    <3>2. 0 \in Date
      BY PlanAssumption DEF Date
    <3> QED
      BY <1>1, <2>4, <3>1, <3>2 DEF FixedMayEnter
  <2>6. FixedEntered(owner, tl, e, 0, v, tl')
    BY <1>3, <1>4, <2>1, <2>2, <2>5, EnterFixedGood
  <2>7. /\ Good(tl') /\ OwnerLine(owner, tl')
        /\ \A x : x \in ToSet(tl'.line) <=> x \in ToSet(tl.line) \/ x = e
        /\ SameBut(tl.dt, tl'.dt, e) /\ SameBut(tl.val, tl'.val, e) /\ tl'.dt[e] = 0 /\ tl'.val[e] = v
        /\ \A r \in 2..4 : r # t => tl'.chain[r] = tl.chain[r]
        /\ \E p \in 1..Len(tl.chain[t])+1 : InsertedAt(tl.chain[t], p, e, tl'.chain[t])
    BY <2>2, <2>6 DEF FixedEntered
  <2>8. \A r \in Bound \ stale' : r # t =>
           /\ r \notin stale /\ asked'[r] = asked[r] /\ calendar'[r] = calendar[r] /\ bound'[r] = bound[r]
           /\ tl'.chain[r] = tl.chain[r]
           /\ \A x \in Event : x \in ToSet(tl.line) /\ Type(x) = r => tl'.dt[x] = tl.dt[x] /\ tl'.val[x] = tl.val[x]
    <3>1. \A r \in Bound : r \in 2..4
      BY DEF Bound
    <3> QED
      BY <1>1, <1>5, <2>2, <2>7, <3>1 DEF SameBut
  <2>9. Held(tl', t, bound'[t], calendar'[t])
    <3>1. PICK p \in 1..Len(tl.chain[t])+1 : InsertedAt(tl.chain[t], p, e, tl'.chain[t])
      BY <2>7
    <3>2. Len(tl.chain[t]) = 0
      BY <2>3
    <3>3. Len(tl'.chain[t]) = 1 /\ tl'.chain[t][1] = e
      BY <3>1, <3>2 DEF InsertedAt
    <3>4. FixedBound(tl', t, v)
      BY <2>7, <3>3 DEF FixedBound
    <3> QED
      BY <1>1, <1>5, <1>10, <3>4 DEF Held
  <2>10. \A x \in Change : x \in ToSet(tl'.line) <=> x \in ToSet(tl.line)
    <3>1. e \notin Change
      BY <2>2, EventAssumption
    <3> QED
      BY <2>7, <3>1
  <2> QED
    BY <1>1, <1>4, <1>6, <1>7, <2>7, <2>8, <2>9, <2>10, BoundChangeKeepsInv
<1> QED
  BY <1>8, <1>9, <1>10

LEMMA NotACalendar == \A c \in Calendar : c # NoCalendar
<1>1. 0 \in Date
  BY PlanAssumption DEF Date
<1>2. \A c \in Calendar : DOMAIN c = Date
  BY DEF Calendar
<1>3. DOMAIN NoCalendar = {}
  BY DEF NoCalendar
<1> QED
  BY <1>1, <1>2, <1>3

LEMMA PairSize ==
  ASSUME NEW i, NEW j, i # j
  PROVE  Cardinality({i, j}) = 2
<1> DEFINE S == {j}
<1>1. IsFiniteSet(S) /\ Cardinality(S) = 1
  BY FS_Singleton
<1>2. i \notin S /\ S \union {i} = {i, j}
  OBVIOUS
<1> HIDE DEF S
<1>3. Cardinality(S \union {i}) = Cardinality(S) + 1
  BY <1>1, <1>2, FS_AddElement
<1>4. Cardinality(S \union {i}) = 1 + 1
  BY <1>1, <1>3
<1> QED
  BY <1>2, <1>4

(* What is left when the first event of the type is gone. *)
ClearedOf(o, t, U) ==
  /\ Good(U) /\ OwnerLine(o, U)
  /\ \A x \in Change : x \in ToSet(U.line) <=> x \in ToSet(tl.line)
  /\ \A r \in 2..4 : r # t => U.chain[r] = tl.chain[r]
  /\ \A x \in Event : Type(x) # t => U.dt[x] = tl.dt[x] /\ U.val[x] = tl.val[x]
  /\ ~(Cardinality(InLine(t)) > 1) => U.chain[t] = <<>>
  /\ o # "buffer" => \A x : x \notin ToSet(U.line)

LEMMA ClearedGood ==
  ASSUME Good(tl), NEW o, OwnerLine(o, tl), NEW t \in 2..4, o = "buffer" <=> t # 2,
         o # "buffer" => \A x : x \notin ToSet(tl.line)
  PROVE  ClearedOf(o, t, Cleared(t))
<1> DEFINE U == Cleared(t)
<1>1. CASE InLine(t) = {}
  <2>1. U = tl
    BY <1>1 DEF Cleared
  <2>2. tl.chain[t] = <<>>
    BY <1>1, FirstOfType
  <2> QED
    BY <2>1, <2>2 DEF ClearedOf
<1>2. CASE InLine(t) # {}
  <2> DEFINE e == First(t)
  <2>1. U = Erase(tl, e)
    BY <1>2 DEF Cleared
  <2>2. e \in ToSet(tl.line) /\ e \in Fixed /\ Type(e) = t /\ InLine(t) \subseteq 1..Len(tl.line)
    BY <1>2, FirstOfType
  <2>3. o = "buffer" /\ ~SetSeen(tl)
    BY <2>2 DEF OwnerLine
  <2> HIDE DEF e, U
  <2>4. /\ Good(U) /\ ~SetSeen(U)
        /\ \A x : x \in ToSet(U.line) <=> x \in ToSet(tl.line) /\ x # e
        /\ SameBut(tl.dt, U.dt, e) /\ SameBut(tl.val, U.val, e)
        /\ \A r \in 2..4 : r # t => U.chain[r] = tl.chain[r]
    BY <2>1, <2>2, <2>3, EraseFixedGood
  <2>5. e \notin Change
    BY <2>2, EventAssumption
  <2>6. ASSUME ~(Cardinality(InLine(t)) > 1) PROVE U.chain[t] = <<>>
    <3>1. SUFFICES ASSUME NEW x \in ToSet(U.line), Type(x) = t PROVE FALSE
      BY <2>4, NoneFirst
    <3>2. x \in ToSet(tl.line) /\ x # e
      BY <2>4
    <3>3. tl.line \in Seq(Event)
      BY Fields DEF Good
    <3>4. PICK i \in 1..Len(tl.line), j \in 1..Len(tl.line) : tl.line[i] = x /\ tl.line[j] = e
      BY <2>2, <3>2, <3>3, SeqFacts
    <3>5. {i, j} \subseteq InLine(t) /\ i # j
      BY <2>2, <3>1, <3>2, <3>3, <3>4, SeqFacts DEF InLine
    <3>6. Len(tl.line) \in Nat
      BY <3>3
    <3>7. IsFiniteSet(1..Len(tl.line))
      BY <3>6, FS_Interval
    <3>8. IsFiniteSet(InLine(t)) /\ Cardinality(InLine(t)) \in Nat
      BY <2>2, <3>7, FS_Subset, FS_CardinalityType
    <3>9. Cardinality({i, j}) <= Cardinality(InLine(t))
      BY <3>5, <3>8, FS_Subset
    <3>10. Cardinality({i, j}) = 2
      BY <3>5, PairSize
    <3> QED
      BY <2>6, <3>8, <3>9, <3>10
  <2> QED
    BY <2>2, <2>3, <2>4, <2>5, <2>6 DEF ClearedOf, OwnerLine, SameBut, U
<1> QED
  BY <1>1, <1>2

LEMMA EntriesMade ==
  ASSUME NEW o, NEW s, Good(s), NEW t \in 3..4, s.chain[t] = <<>>, NEW c, NEW new, NewEvents(s, t, c, new),
         DOMAIN new = NewEntries(c), NEW U, Filled(o, s, t, c, new, MaxDate + 1, U)
  PROVE  Entries(U, t, c)
<1> DEFINE h == U.chain[t]
<1>0. t \in 2..4
  OBVIOUS
<1>1. /\ Good(U) /\ LatestFirst(U, h)
      /\ \A x : x \in ToSet(U.line) <=> x \in ToSet(s.line) \/ Newer(new, MaxDate + 1, x)
      /\ \A k \in DOMAIN new : k < MaxDate + 1 => U.dt[new[k]] = k /\ U.val[new[k]] = c[k]
  BY DEF Filled
<1>2. \A k \in DOMAIN new : /\ k < MaxDate + 1
                           /\ new[k] \in Fixed /\ Type(new[k]) = t
  BY PlanAssumption DEF NewEvents, Date
<1>3. \A x \in ToSet(s.line) : Type(x) # t
  BY <1>0, NoneFirst
<1>4. /\ h \in Seq(Event)
      /\ \A x \in Event : x \in ToSet(h) <=> x \in ToSet(U.line) /\ Type(x) = t
  BY <1>0, <1>1, NoneFirst
<1> HIDE DEF h
<1>5. /\ \A k \in 1..Len(h) : h[k] \in Event /\ h[k] \in ToSet(h)
      /\ \A e : e \in ToSet(h) <=> \E k \in 1..Len(h) : h[k] = e
  BY <1>4, SeqFacts
<1>6. ASSUME NEW k \in 1..Len(h)
      PROVE  U.dt[h[k]] \in NewEntries(c) /\ U.val[h[k]] = c[U.dt[h[k]]]
  <2>1. h[k] \in ToSet(U.line) /\ Type(h[k]) = t
    BY <1>4, <1>5
  <2>2. h[k] \notin ToSet(s.line)
    BY <1>3, <2>1
  <2>3. Newer(new, MaxDate + 1, h[k])
    BY <1>1, <2>1, <2>2
  <2>4. PICK m \in DOMAIN new : new[m] = h[k]
    BY <2>3 DEF Newer
  <2> QED
    BY <1>1, <1>2, <2>4
<1>7. ASSUME NEW d \in NewEntries(c)
      PROVE  \E k \in 1..Len(h) : U.dt[h[k]] = d
  <2>1. d \in DOMAIN new /\ d < MaxDate + 1 /\ new[d] \in Event /\ Type(new[d]) = t
    BY <1>2 DEF Event
  <2>2. Newer(new, MaxDate + 1, new[d])
    BY <2>1 DEF Newer
  <2>3. new[d] \in ToSet(h)
    BY <1>1, <1>4, <2>1, <2>2
  <2> QED
    BY <1>1, <1>5, <2>1, <2>3
<1> QED
  BY <1>1, <1>6, <1>7 DEF Entries, h

LEMMA SetCalendarKeepsInv ==
  ASSUME PlanInv, BucketsFirst = TRUE, NEW t \in Bound \union {2}, NEW c \in Calendar, SetCalendar(t, c)
  PROVE  PlanInv'
<1> DEFINE s == Cleared(t)
<1>1. /\ owner = "buffer" <=> t # 2
      /\ t = 2 => calendar[t] = NoCalendar
      /\ calendar' = [calendar EXCEPT ![t] = c] /\ asked' = [asked EXCEPT ![t] = c]
      /\ stale' = IF Cardinality(InLine(t)) > 1 THEN stale \union {t} ELSE stale
      /\ owner' = owner /\ plans' = plans /\ bound' = bound
  BY DEF SetCalendar
<1>2. PICK new \in Injection(NewEntries(c), OfType(t) \ ToSet(s.line)) : tl' = WithEntries(s, new, c)
  BY DEF SetCalendar
<1>3. /\ PlanTypes /\ Good(tl) /\ OwnerLine(owner, tl) /\ PlansInLine /\ BucketsMade /\ BoundsHeld
      /\ owner \in {"buffer", "resource_buckets"} /\ calendar \in [2..4 -> Calendar \union {NoCalendar}]
      /\ asked \in [2..4 -> Calendar \union {NoCalendar}] /\ stale \subseteq 2..4
  BY DEF PlanInv, PlanTypes
<1>4. t \in 2..4 /\ (t # 2 => t \in 3..4)
  BY DEF Bound
<1>5. owner # "buffer" => \A x : x \notin ToSet(tl.line)
  BY <1>1, <1>3 DEF BucketsMade
<1>6. ClearedOf(owner, t, s)
  BY <1>1, <1>3, <1>4, <1>5, ClearedGood
<1> HIDE DEF s
<1>7. /\ Good(s) /\ OwnerLine(owner, s)
      /\ \A x \in Change : x \in ToSet(s.line) <=> x \in ToSet(tl.line)
      /\ \A r \in 2..4 : r # t => s.chain[r] = tl.chain[r]
      /\ \A x \in Event : Type(x) # t => s.dt[x] = tl.dt[x] /\ s.val[x] = tl.val[x]
      /\ ~(Cardinality(InLine(t)) > 1) => s.chain[t] = <<>>
      /\ owner # "buffer" => \A x : x \notin ToSet(s.line)
  BY <1>6 DEF ClearedOf
<1>8. /\ new \in [NewEntries(c) -> OfType(t) \ ToSet(s.line)]
      /\ \A j, k \in DOMAIN new : new[j] = new[k] => j = k
  BY <1>2 DEF Injection, IsInjective
<1>9. NewEntries(c) \subseteq Date /\ \A k \in NewEntries(c) : c[k] \in Int
  BY PlanAssumption DEF NewEntries, Calendar
<1>10. NewEvents(s, t, c, new)
  <2>1. \A x \in OfType(t) : x \in Fixed /\ Type(x) = t
    BY DEF OfType
  <2> QED
    BY <1>8, <1>9, <2>1 DEF NewEvents
<1>11. Filled(owner, s, t, c, new, MaxDate + 1, tl')
  BY <1>1, <1>2, <1>4, <1>7, <1>10, WithEntriesGood
<1>12. /\ Good(tl') /\ OwnerLine(owner, tl')
       /\ \A x : x \in ToSet(tl'.line) <=> x \in ToSet(s.line) \/ Newer(new, MaxDate + 1, x)
       /\ \A x \in Event : ~Newer(new, MaxDate + 1, x) => tl'.dt[x] = s.dt[x] /\ tl'.val[x] = s.val[x]
       /\ \A r \in 2..4 : r # t => tl'.chain[r] = s.chain[r]
  BY <1>11 DEF Filled
<1>13. \A x : Newer(new, MaxDate + 1, x) => x \in Fixed /\ Type(x) = t
  BY <1>10 DEF Newer, NewEvents
<1>14. \A x \in Change : x \in ToSet(tl'.line) <=> x \in ToSet(tl.line)
  BY <1>7, <1>12, <1>13, EventAssumption
<1>15. PlanTypes'
  <2>1. stale' \subseteq 2..4
    BY <1>1, <1>3, <1>4
  <2> QED
    BY <1>1, <1>3, <1>4, <2>1 DEF PlanTypes
<1>16. c # NoCalendar
  BY NotACalendar
<1>17. CASE t = 2
  <2>1. owner # "buffer"
    BY <1>1, <1>17
  <2>2. PlansInLine'
    BY <1>1, <1>3, <1>14 DEF PlansInLine
  <2>3. BucketsMade'
    BY <1>1, <1>3, <1>16, <1>17 DEF BucketsMade
  <2>4. BoundsHeld'
    BY <1>1, <2>1 DEF BoundsHeld
  <2> QED
    BY <1>1, <1>12, <1>15, <2>2, <2>3, <2>4 DEF PlanInv
<1>18. CASE t # 2
  <2>1. owner = "buffer" /\ t \in 3..4
    BY <1>1, <1>4, <1>18
  <2>2. asked'[t] = calendar'[t] /\ calendar'[t] = c
    BY <1>1, <1>3, <1>4
  <2>3. ASSUME t \in Bound \ stale' PROVE Held(tl', t, bound'[t], calendar'[t])
    <3>1. ~(Cardinality(InLine(t)) > 1)
      BY <1>1, <2>3
    <3>2. s.chain[t] = <<>>
      BY <1>7, <3>1
    <3>3. DOMAIN new = NewEntries(c)
      BY <1>8
    <3>4. Entries(tl', t, c)
      BY <1>7, <1>10, <1>11, <2>1, <3>2, <3>3, EntriesMade
    <3> QED
      BY <1>16, <2>2, <3>4 DEF Held
  <2>4. \A r \in Bound \ stale' : r # t =>
           /\ r \notin stale /\ asked'[r] = asked[r] /\ calendar'[r] = calendar[r] /\ bound'[r] = bound[r]
           /\ tl'.chain[r] = tl.chain[r]
           /\ \A x \in Event : x \in ToSet(tl.line) /\ Type(x) = r => tl'.dt[x] = tl.dt[x] /\ tl'.val[x] = tl.val[x]
    <3>1. SUFFICES ASSUME NEW r \in Bound \ stale', r # t
          PROVE /\ r \notin stale /\ asked'[r] = asked[r] /\ calendar'[r] = calendar[r] /\ bound'[r] = bound[r]
                /\ tl'.chain[r] = tl.chain[r]
                /\ \A x \in Event : Type(x) = r => tl'.dt[x] = tl.dt[x] /\ tl'.val[x] = tl.val[x]
      OBVIOUS
    <3>2. r \in 2..4
      BY DEF Bound
    <3>3. \A x \in Event : Type(x) = r => ~Newer(new, MaxDate + 1, x)
      BY <1>13, <3>1
    <3>4. r \notin stale
      BY <1>1, <3>1
    <3>5. asked'[r] = asked[r] /\ calendar'[r] = calendar[r] /\ bound'[r] = bound[r]
      BY <1>1, <1>3, <3>1, <3>2
    <3>6. \A x \in Event : Type(x) = r => tl'.dt[x] = tl.dt[x] /\ tl'.val[x] = tl.val[x]
      BY <1>7, <1>12, <3>1, <3>3
    <3> QED
      BY <1>7, <1>12, <3>1, <3>2, <3>4, <3>5, <3>6
  <2> QED
    BY <1>1, <1>12, <1>14, <1>15, <2>1, <2>2, <2>3, <2>4, BoundChangeKeepsInv
<1> QED
  BY <1>17, <1>18

LEMMA RemoveCalendarKeepsInv ==
  ASSUME PlanInv, NEW t \in Bound \union {2}, RemoveCalendar(t)
  PROVE  PlanInv'
<1> DEFINE s == Cleared(t)
<1>1. /\ owner = "buffer" /\ t # 2 /\ tl' = s /\ asked' = [asked EXCEPT ![t] = NoCalendar]
      /\ stale' = stale \union {t}
      /\ owner' = owner /\ plans' = plans /\ bound' = bound /\ calendar' = calendar
  BY DEF RemoveCalendar
<1>2. /\ PlanTypes /\ Good(tl) /\ OwnerLine(owner, tl)
      /\ asked \in [2..4 -> Calendar \union {NoCalendar}] /\ stale \subseteq 2..4
  BY DEF PlanInv, PlanTypes
<1>3. t \in 3..4 /\ t \in 2..4
  BY <1>1 DEF Bound
<1>4. ClearedOf(owner, t, s)
  BY <1>1, <1>2, <1>3, ClearedGood
<1> HIDE DEF s
<1>5. /\ Good(s) /\ OwnerLine(owner, s)
      /\ \A x \in Change : x \in ToSet(s.line) <=> x \in ToSet(tl.line)
      /\ \A r \in 2..4 : r # t => s.chain[r] = tl.chain[r]
      /\ \A x \in Event : Type(x) # t => s.dt[x] = tl.dt[x] /\ s.val[x] = tl.val[x]
  BY <1>4 DEF ClearedOf
<1>6. PlanTypes'
  <2>1. stale' \subseteq 2..4
    BY <1>1, <1>2, <1>3
  <2> QED
    BY <1>1, <1>2, <2>1 DEF PlanTypes
<1>7. \A r \in Bound \ stale' : r # t =>
           /\ r \notin stale /\ asked'[r] = asked[r] /\ calendar'[r] = calendar[r] /\ bound'[r] = bound[r]
           /\ tl'.chain[r] = tl.chain[r]
           /\ \A x \in Event : x \in ToSet(tl.line) /\ Type(x) = r => tl'.dt[x] = tl.dt[x] /\ tl'.val[x] = tl.val[x]
  <2>1. \A r \in Bound : r \in 2..4
    BY DEF Bound
  <2>2. \A r \in Bound \ stale' : r # t => r \notin stale /\ asked'[r] = asked[r] /\ tl'.chain[r] = tl.chain[r]
    BY <1>1, <1>2, <1>5, <2>1
  <2>3. \A x \in Event : Type(x) # t => tl'.dt[x] = tl.dt[x] /\ tl'.val[x] = tl.val[x]
    BY <1>1, <1>5
  <2> QED
    BY <1>1, <2>2, <2>3
<1>8. t \notin Bound \ stale'
  BY <1>1
<1> QED
  BY <1>1, <1>3, <1>5, <1>6, <1>7, <1>8, BoundChangeKeepsInv

LEMMA NextKeepsInv ==
  ASSUME PlanInv, BucketsFirst = TRUE, OpenEnd = FALSE, Next
  PROVE  PlanInv'
<1>1. \A q \in Quantity : q \in Int
  BY PlanAssumption
<1>2. ASSUME NEW e \in Change, Delete(e) PROVE PlanInv'
  BY <1>2, DeleteKeepsInv
<1>3. ASSUME NEW e \in Change, NEW d \in Date, NEW q \in Quantity, Create(e, d, q) PROVE PlanInv'
  BY <1>1, <1>3, CreateKeepsInv
<1>4. ASSUME NEW e \in Change, NEW d \in Date, NEW q \in Quantity, Move(e, d, q) PROVE PlanInv'
  BY <1>1, <1>4, MoveKeepsInv
<1>5. ASSUME NEW t \in Bound, NEW v \in Value, SetBound(t, v) PROVE PlanInv'
  BY <1>5, SetBoundKeepsInv
<1>6. ASSUME NEW t \in Bound \union {2}, RemoveCalendar(t) PROVE PlanInv'
  BY <1>6, RemoveCalendarKeepsInv
<1>7. ASSUME NEW t \in Bound \union {2}, NEW c \in Calendar, SetCalendar(t, c) PROVE PlanInv'
  BY <1>7, SetCalendarKeepsInv
<1> QED
  BY <1>2, <1>3, <1>4, <1>5, <1>6, <1>7 DEF Next

-----------------------------------------------------------------------------
(* The greatest of some places, and the least of the values at them. *)
LEMMA GreatestOf ==
  ASSUME NEW n \in Nat, NEW S \in SUBSET (1..n), S # {}
  PROVE  Max(S) \in S /\ \A k \in S : k <= Max(S)
<1> DEFINE D == {m \in Nat : \A k \in S : k <= m}
<1>1. n \in D
  OBVIOUS
<1>2. PICK m \in D : \A k \in D : m <= k
  BY <1>1, SmallestOf
<1>3. m \in S
  <2>1. SUFFICES ASSUME m \notin S PROVE FALSE
    OBVIOUS
  <2>2. PICK x \in S : TRUE
    OBVIOUS
  <2>3. x <= m /\ x \in 1..n /\ x # m
    BY <1>2, <2>1
  <2>4. m \in Nat /\ m - 1 \in Nat /\ \A k \in S : k <= m /\ k # m /\ k \in 1..n
    BY <1>2, <2>1, <2>3
  <2>5. \A k \in S : k <= m - 1
    BY <2>4
  <2>6. m - 1 \in D
    BY <2>4, <2>5
  <2> QED
    BY <1>2, <2>4, <2>6
<1>4. \E x \in S : \A k \in S : k <= x
  BY <1>2, <1>3
<1>5. \A x, y \in S : (\A k \in S : k <= x) /\ (\A k \in S : k <= y) => x = y
  BY SMT
<1> HIDE DEF D
<1> QED
  BY <1>4 DEF Max

LEMMA LeastOf ==
  ASSUME NEW n \in Nat, NEW p \in 1..n, NEW g, \A k \in p..n : g[k] \in Int
  PROVE  LET least == Min({g[k] : k \in p..n})
         IN  least \in Int /\ (\E k \in p..n : least = g[k]) /\ \A k \in p..n : least <= g[k]
<1> DEFINE Least(m) == \E j \in p..m : \A k \in p..m : g[j] <= g[k]
           Bad == {m \in p..n : ~Least(m)}
           S == {g[k] : k \in p..n}
<1>1. Bad = {}
  <2> SUFFICES ASSUME Bad # {} PROVE FALSE
    OBVIOUS
  <2>1. PICK m \in Bad : \A k \in Bad : m <= k
    <3>1. Bad \in SUBSET Nat
      OBVIOUS
    <3> HIDE DEF Bad
    <3> QED
      BY <3>1, SmallestOf
  <2>2. m \in p..n /\ ~Least(m)
    OBVIOUS
  <2>3. m # p
    <3>1. Least(p)
      OBVIOUS
    <3> QED
      BY <2>2, <3>1
  <2>4. m - 1 \in p..n /\ ~(m <= m - 1)
    BY <2>2, <2>3
  <2>5. Least(m - 1)
    BY <2>1, <2>4
  <2>6. PICK j \in p..m-1 : \A k \in p..m-1 : g[j] <= g[k]
    BY <2>5
  <2>7. j \in p..m /\ j \in p..n /\ m \in p..m /\ g[j] \in Int /\ g[m] \in Int
    BY <2>2, <2>4, <2>6
  <2>8. \A k \in p..m : k \in p..n /\ (k \in p..m-1 \/ k = m)
    BY <2>2
  <2>9. Least(m)
    <3>1. CASE g[j] <= g[m]
      BY <2>6, <2>7, <2>8, <3>1
    <3>2. CASE ~(g[j] <= g[m])
      <4>1. ASSUME NEW k \in p..m PROVE g[m] <= g[k]
        <5>1. g[k] \in Int /\ (k \in p..m-1 \/ k = m)
          BY <2>8
        <5>2. CASE k \in p..m-1
          <6>1. g[j] <= g[k]
            BY <2>6, <5>2
          <6> QED
            BY <2>7, <3>2, <5>1, <6>1
        <5>3. CASE k = m
          BY <2>7, <5>3
        <5> QED
          BY <5>1, <5>2, <5>3
      <4> QED
        BY <2>7, <4>1
    <3> QED
      BY <3>1, <3>2
  <2> QED
    BY <2>2, <2>9
<1>2. n \in p..n
  OBVIOUS
<1>3. PICK j \in p..n : \A k \in p..n : g[j] <= g[k]
  BY <1>1, <1>2
<1>4. g[j] \in S /\ (\A y \in S : g[j] <= y) /\ \A y \in S : y \in Int /\ \E k \in p..n : y = g[k]
  BY <1>3
<1>5. Min(S) = CHOOSE x \in S : \A y \in S : x <= y
  BY DEF Min
<1> HIDE DEF S
<1>6. Min(S) \in S /\ \A y \in S : Min(S) <= y
  BY <1>4, <1>5
<1>7. \A k \in p..n : g[k] \in S
  BY DEF S
<1> QED
  BY <1>4, <1>6, <1>7 DEF S

LEMMA BoundAtType ==
  ASSUME NEW T, Good(T), NEW t \in 2..4, NEW d, NEW inclusive
  PROVE  BoundAt(T, t, d, inclusive) \in Int
<1> DEFINE h == T.chain[t]
           found == {k \in DOMAIN h : T.dt[h[k]] < d \/ (inclusive /\ T.dt[h[k]] = d)}
<1>1. BoundAt(T, t, d, inclusive) = IF found = {} THEN 0 ELSE T.val[h[CHOOSE k \in found : \A j \in found : k <= j]]
  BY DEF BoundAt
<1>2. h \in Seq(Event) /\ Len(h) \in Nat /\ DOMAIN h = 1..Len(h) /\ \A k \in 1..Len(h) : h[k] \in Event
  BY NoneFirst, SeqFacts
<1>3. T.val \in [Event -> Int]
  BY Fields DEF Good, Amounts
<1>4. found \in SUBSET Nat /\ found \subseteq 1..Len(h)
  BY <1>2
<1> HIDE DEF found, h
<1>5. CASE found = {}
  BY <1>1, <1>5
<1>6. CASE found # {}
  <2>1. \E k \in found : \A j \in found : k <= j
    BY <1>4, <1>6, SmallestOf
  <2>2. PICK k \in found : BoundAt(T, t, d, inclusive) = T.val[h[k]]
    BY <1>1, <1>6, <2>1
  <2> QED
    BY <1>2, <1>3, <1>4, <2>2
<1> QED
  BY <1>5, <1>6

(* The values at the places the walk of getExcess() sees. *)
MinPlaces(T, p, k) == {j \in p..k : T.line[j] \in MinEvent}
LeastMin(T, e, p, k) ==
  IF MinPlaces(T, p, k) = {} THEN BoundAt(T, 3, T.dt[e], FALSE) ELSE T.val[T.line[Max(MinPlaces(T, p, k))]]

LEMMA LeastMinType ==
  ASSUME NEW T, Good(T), NEW e \in Event, NEW p \in 1..Len(T.line), NEW k \in p..Len(T.line)
  PROVE  LeastMin(T, e, p, k) \in Int
<1>1. /\ T.line \in Seq(Event) /\ Len(T.line) \in Nat /\ T.val \in [Event -> Int]
      /\ \A i \in 1..Len(T.line) : T.line[i] \in Event
  BY Fields, SeqFacts DEF Good, Amounts
<1>2. CASE MinPlaces(T, p, k) = {}
  <2>1. BoundAt(T, 3, T.dt[e], FALSE) \in Int
    <3>1. 3 \in 2..4
      OBVIOUS
    <3> QED
      BY <3>1, BoundAtType
  <2> QED
    BY <1>2, <2>1 DEF LeastMin
<1>3. CASE MinPlaces(T, p, k) # {}
  <2> DEFINE M == MinPlaces(T, p, k)
  <2>1. M \in SUBSET (1..Len(T.line))
    BY <1>1 DEF MinPlaces
  <2> HIDE DEF M
  <2>2. Max(M) \in 1..Len(T.line)
    BY <1>1, <1>3, <2>1, GreatestOf DEF M
  <2>3. T.val[T.line[Max(M)]] \in Int
    BY <1>1, <2>2
  <2> QED
    BY <1>3, <2>3 DEF LeastMin, M
<1> QED
  BY <1>2, <1>3

(* What getExcess() returns: a lower bound of what lies over the minimum   *)
(* from the event on, and not less than the least of these.                *)
LEMMA ExcessIs ==
  ASSUME Good(tl), NEW e \in ToSet(tl.line)
  PROVE  LET p == Place(tl.line, e)
         IN  /\ p \in 1..Len(tl.line) /\ tl.line[p] = e
             /\ GetExcess(e) \in Int
             /\ \A k \in p..Len(tl.line) : GetExcess(e) <= tl.oh[tl.line[k]] - LeastMin(tl, e, p, k)
<1> DEFINE s == tl.line
           p == Place(s, e)
           n == Len(s)
           g == [k \in p..n |-> tl.oh[s[k]] - LeastMin(tl, e, p, k)]
<1>1. /\ s \in Seq(Event) /\ n \in Nat /\ Distinct(s) /\ tl.oh \in [Event -> Int]
      /\ \A i \in 1..n : s[i] \in Event
  BY Fields, SeqFacts, OrderIsDistinct DEF Good, Amounts
<1>2. p \in 1..n /\ s[p] = e /\ e \in Event
  BY <1>1, PlaceIn
<1>3. GetExcess(e) = Min({tl.oh[s[k]] - LeastMin(tl, e, p, k) : k \in p..n})
  BY DEF GetExcess, LeastMin, MinPlaces
<1> HIDE DEF p, n, s
<1>4. \A k \in p..n : k \in 1..n
  BY <1>1, <1>2
<1>5. ASSUME NEW k \in p..n PROVE tl.oh[s[k]] - LeastMin(tl, e, p, k) \in Int
  <2>1. LeastMin(tl, e, p, k) \in Int
    BY <1>2, LeastMinType DEF n, s
  <2>2. tl.oh[s[k]] \in Int
    BY <1>1, <1>4
  <2> QED
    BY <2>1, <2>2
<1>6. \A k \in p..n : g[k] \in Int /\ g[k] = tl.oh[s[k]] - LeastMin(tl, e, p, k)
  BY <1>5
<1>7. GetExcess(e) = Min({g[k] : k \in p..n})
  BY <1>3, <1>6
<1> HIDE DEF g
<1>8. GetExcess(e) \in Int /\ \A k \in p..n : GetExcess(e) <= g[k]
  BY <1>1, <1>2, <1>6, <1>7, LeastOf
<1> QED
  BY <1>2, <1>6, <1>8 DEF p, n, s

LEMMA NextOfType ==
  ASSUME Good(tl), NEW e \in ToSet(tl.line)
  PROVE  NextOf(tl.line, e) = End \/ (NextOf(tl.line, e) \in ToSet(tl.line) /\ NextOf(tl.line, e) # e)
<1> DEFINE s == tl.line
           p == Place(s, e)
<1>1. s \in Seq(Event) /\ Distinct(s) /\ Len(s) \in Nat
  BY Fields, OrderIsDistinct DEF Good
<1>2. p \in 1..Len(s) /\ s[p] = e
  BY <1>1, PlaceIn
<1>3. NextOf(s, e) = IF p = Len(s) THEN End ELSE s[p+1]
  BY DEF NextOf
<1> HIDE DEF p, s
<1>4. CASE p = Len(s)
  BY <1>3, <1>4 DEF s
<1>5. CASE p # Len(s)
  <2>1. p + 1 \in 1..Len(s) /\ p + 1 # p
    BY <1>1, <1>2, <1>5
  <2>2. s[p+1] \in ToSet(s) /\ s[p+1] # e
    BY <1>1, <1>2, <2>1, SeqFacts DEF Distinct
  <2> QED
    BY <1>3, <1>5, <2>2 DEF s
<1> QED
  BY <1>4, <1>5

LEMMA StockType ==
  ASSUME Good(tl)
  PROVE  Stock \in [Date -> Int]
<1> DEFINE s == tl.line
           Upto(d) == {k \in DOMAIN s : tl.dt[s[k]] <= d}
<1>1. /\ s \in Seq(Event) /\ Len(s) \in Nat /\ tl.oh \in [Event -> Int] /\ DOMAIN s = 1..Len(s)
      /\ \A i \in 1..Len(s) : s[i] \in Event
  BY Fields, SeqFacts DEF Good, Amounts
<1>2. Stock = [d \in Date |-> (IF Upto(d) = {} THEN 0 ELSE tl.oh[s[Max(Upto(d))]]) - BoundAt(tl, 3, d, TRUE)]
  BY DEF Stock
<1>3. ASSUME NEW d \in Date
      PROVE  (IF Upto(d) = {} THEN 0 ELSE tl.oh[s[Max(Upto(d))]]) - BoundAt(tl, 3, d, TRUE) \in Int
  <2> DEFINE M == Upto(d)
  <2>1. M \in SUBSET (1..Len(s))
    BY <1>1
  <2>2. BoundAt(tl, 3, d, TRUE) \in Int
    <3>1. 3 \in 2..4
      OBVIOUS
    <3> QED
      BY <3>1, BoundAtType
  <2> HIDE DEF M
  <2>3. M # {} => tl.oh[s[Max(M)]] \in Int
    BY <1>1, <2>1, GreatestOf
  <2>4. (IF M = {} THEN 0 ELSE tl.oh[s[Max(M)]]) - BoundAt(tl, 3, d, TRUE) \in Int
    <3> DEFINE x == tl.oh[s[Max(M)]]
               y == BoundAt(tl, 3, d, TRUE)
    <3>1. y \in Int /\ (M # {} => x \in Int)
      BY <2>2, <2>3
    <3> HIDE DEF x, y
    <3>2. (IF M = {} THEN 0 ELSE x) - y \in Int
      BY <3>1
    <3> QED
      BY <3>2 DEF x, y
  <2> QED
    BY <2>4 DEF M
<1> HIDE DEF Upto
<1> QED
  BY <1>2, <1>3

(* The sizes of operationplans.  The lots for a quantity are the least of  *)
(* those allowed that are enough for it, or the most when none is.         *)
Usual(o) == {o.lot, o.made, o.max} \subseteq Nat \ {0} /\ o.min \in Nat /\ o.min <= o.max

LEMMA TimesLe ==
  ASSUME NEW n \in Nat \ {0}, NEW j \in Int, NEW k \in Int
  PROVE  j * n \in Int /\ k * n \in Int /\ (j <= k <=> j * n <= k * n)
<1> DEFINE d == k - j
<1>1. d \in Int /\ n * d \in Int /\ j * n \in Int /\ k * n \in Int
  OBVIOUS
<1>2. n * d = k * n - j * n
  OBVIOUS
<1>3. j <= k <=> d >= 0
  OBVIOUS
<1> HIDE DEF d
<1>4. d >= 0 => n * d >= 0
  BY <1>1
<1>5. d <= -1 => n * d <= -n
  BY <1>1
<1> QED
  BY <1>1, <1>2, <1>3, <1>4, <1>5

LEMMA LotsAre ==
  ASSUME NEW o, Usual(o), NEW a \in Int, NEW n \in Nat \ {0}
  PROVE  LET k == Lots(o, a, n)
         IN  /\ k \in o.min..o.max
             /\ \A j \in o.min..o.max : a <= j * n => k <= j
             /\ a <= o.max * n => a <= k * n
             /\ ~(a <= o.max * n) => k = o.max
<1> DEFINE b == a + n - 1
           c == b \div n
           k == Lots(o, a, n)
<1>1. b \in Int /\ o.min \in Int /\ o.max \in Int /\ o.min <= o.max
  BY DEF Usual
<1>2. k = IF c < o.min THEN o.min ELSE IF c > o.max THEN o.max ELSE c
  BY DEF Lots
<1>3. c \in Int /\ n * c <= b /\ b < n * c + n
  <2> HIDE DEF b
  <2> QED
    BY <1>1
<1> HIDE DEF c, k
<1>4. c * n \in Int /\ c * n = n * c
  BY <1>3
<1>5. a <= c * n
  BY <1>3, <1>4
<1>6. ASSUME NEW j \in Int PROVE a <= j * n <=> c <= j
  <2>1. ASSUME a <= j * n PROVE c <= j
    <3> DEFINE d == c - j
    <3>1. d \in Int /\ n * d \in Int /\ j * n \in Int /\ n * d = c * n - j * n
      BY <1>3
    <3> HIDE DEF d
    <3>2. n * d <= n - 1
      BY <1>3, <1>4, <2>1, <3>1
    <3>3. d >= 1 => n * d >= n
      BY <3>1
    <3>4. d <= 0
      BY <3>1, <3>2, <3>3
    <3> QED
      BY <1>3, <3>4 DEF d
  <2>2. ASSUME c <= j PROVE a <= j * n
    <3>1. c * n <= j * n /\ j * n \in Int
      BY <1>3, <2>2, TimesLe
    <3> QED
      BY <1>4, <1>5, <3>1
  <2> QED
    BY <2>1, <2>2
<1>7. k \in o.min..o.max
  BY <1>1, <1>2, <1>3
<1>8. ASSUME NEW j \in o.min..o.max, a <= j * n PROVE k <= j
  <2>1. j \in Int /\ c <= j
    BY <1>1, <1>6, <1>8
  <2> QED
    BY <1>1, <1>2, <1>3, <2>1
<1>9. ASSUME a <= o.max * n PROVE a <= k * n
  <2>1. c <= o.max
    BY <1>1, <1>6, <1>9
  <2>2. k \in Int /\ c <= k
    BY <1>1, <1>2, <1>3, <2>1
  <2> QED
    BY <1>6, <2>2
<1>10. ASSUME ~(a <= o.max * n) PROVE k = o.max
  <2>1. ~(c <= o.max)
    BY <1>1, <1>6, <1>10
  <2> QED
    BY <1>1, <1>2, <1>3, <2>1
<1> QED
  BY <1>7, <1>8, <1>9, <1>10 DEF k

NewSize(o, q, x) == Lots(o, q - x, o.made) * o.made

(* The size that is needed is enough, and not more than there was.         *)
LEMMA NewSizeIs ==
  ASSUME NEW o, Usual(o), NEW m \in o.min..o.max, NEW q, q = m * o.made, NEW x \in Int, 0 < x
  PROVE  LET k == Lots(o, q - x, o.made)
         IN  /\ k \in o.min..o.max /\ k <= m
             /\ q \in Int /\ NewSize(o, q, x) = k * o.made /\ NewSize(o, q, x) \in Int
             /\ q - x <= NewSize(o, q, x) /\ NewSize(o, q, x) <= q
<1> DEFINE n == o.made
           a == q - x
           k == Lots(o, a, n)
<1>1. n \in Nat \ {0} /\ o.min \in Int /\ o.max \in Int /\ m \in Int /\ m <= o.max
  BY DEF Usual
<1>2. q \in Int /\ q <= o.max * n /\ o.max * n \in Int
  BY <1>1, TimesLe
<1>3. a \in Int /\ a <= q /\ a <= o.max * n /\ a <= m * n
  BY <1>2
<1> HIDE DEF n, a
<1>4. k \in o.min..o.max /\ k <= m /\ a <= k * n
  BY <1>1, <1>3, LotsAre
<1> HIDE DEF k
<1>5. k \in Int /\ k * n \in Int /\ k * n <= m * n
  BY <1>1, <1>4, TimesLe
<1>6. NewSize(o, q, x) = k * n
  BY DEF NewSize, k, a, n
<1> QED
  BY <1>2, <1>4, <1>5, <1>6 DEF k, a, n

(* The size that is set, for one that is needed.                           *)
LEMMA SizeSet ==
  ASSUME NEW o, Usual(o), NEW k \in o.min..o.max
  PROVE  LET r == Lots(o, k * o.made, o.lot)
         IN  /\ r \in o.min..o.max /\ r * o.made \in Int /\ k * o.made \in Int
             /\ o.made >= o.lot => k * o.made <= r * o.made
             /\ o.made <= o.lot => r <= k /\ r * o.made <= k * o.made
<1> DEFINE n == o.made
           l == o.lot
           s == k * n
           r == Lots(o, s, l)
<1>1. n \in Nat \ {0} /\ l \in Nat \ {0} /\ o.min \in Int /\ o.min >= 0 /\ o.max \in Int /\ k \in Int /\ k >= 0 /\ k <= o.max
  BY DEF Usual
<1>2. s \in Int
  BY <1>1, TimesLe
<1>3. /\ r \in o.min..o.max
      /\ \A j \in o.min..o.max : s <= j * l => r <= j
      /\ s <= o.max * l => s <= r * l
      /\ ~(s <= o.max * l) => r = o.max
  <2> HIDE DEF s, l
  <2> QED
    BY <1>1, <1>2, LotsAre
<1> HIDE DEF r
<1>4. r \in Int /\ r * n \in Int /\ r * l \in Int /\ k * l \in Int
  BY <1>1, <1>3, TimesLe
<1>5. ASSUME n >= l PROVE k <= r
  <2>1. CASE s <= o.max * l
    <3>1. k * l <= k * n
      <4>1. l <= n /\ l \in Int /\ n \in Int /\ k \in Int /\ k >= 0
        BY <1>1, <1>5
      <4> HIDE DEF l, n
      <4> DEFINE d == n - l
      <4>2. d \in Int /\ d >= 0 /\ k * d = k * n - k * l /\ k * d \in Int /\ k * n \in Int /\ k * l \in Int
        BY <4>1
      <4> HIDE DEF d
      <4>3. k * d >= 0
        BY <4>1, <4>2
      <4> QED
        BY <4>2, <4>3
    <3>2. s <= r * l
      BY <1>3, <2>1
    <3>3. k * l <= r * l
      BY <1>2, <1>4, <3>1, <3>2
    <3> QED
      BY <1>1, <1>4, <3>3, TimesLe
  <2>2. CASE ~(s <= o.max * l)
    BY <1>1, <1>3, <2>2
  <2> QED
    BY <2>1, <2>2
<1>6. ASSUME n <= l PROVE r <= k
  <2>1. k * n <= k * l
    <3>1. n <= l /\ l \in Int /\ n \in Int /\ k \in Int /\ k >= 0
      BY <1>1, <1>6
    <3> HIDE DEF l, n
    <3> DEFINE d == l - n
    <3>2. d \in Int /\ d >= 0 /\ k * d = k * l - k * n /\ k * d \in Int /\ k * n \in Int /\ k * l \in Int
      BY <3>1
    <3> HIDE DEF d
    <3>3. k * d >= 0
      BY <3>1, <3>2
    <3> QED
      BY <3>2, <3>3
  <2> QED
    BY <1>3, <2>1
<1>7. n >= l => s <= r * n
  BY <1>1, <1>4, <1>5, TimesLe
<1>8. n <= l => r <= k /\ r * n <= s
  BY <1>1, <1>4, <1>6, TimesLe
<1> QED
  BY <1>2, <1>3, <1>4, <1>7, <1>8 DEF r, s, n, l

(* A size that cannot be less by x cannot be less by y <= x.               *)
LEMMA NewSizeStays ==
  ASSUME NEW o, Usual(o), NEW q \in Int, NEW x \in Int, NewSize(o, q, x) = q, NEW y \in Int, 0 < y, y <= x
  PROVE  NewSize(o, q, y) = q
<1> DEFINE n == o.made
           k == Lots(o, q - x, n)
           j == Lots(o, q - y, n)
<1>1. n \in Nat \ {0} /\ q - x \in Int
  BY DEF Usual
<1>2. /\ k \in o.min..o.max /\ q = k * n
      /\ \A i \in o.min..o.max : q - x <= i * n => k <= i
  <2>1. q = k * n
    BY DEF NewSize
  <2> HIDE DEF n
  <2> QED
    BY <1>1, <2>1, LotsAre
<1>3. 0 < y
  OBVIOUS
<1> HIDE DEF k, n
<1>4. /\ j \in o.min..o.max /\ j <= k
      /\ NewSize(o, q, y) = j * n /\ q - y <= j * n /\ j * n \in Int
  BY <1>2, <1>3, NewSizeIs DEF n
<1> HIDE DEF j
<1>5. q - x <= j * n
  BY <1>4
<1>6. k <= j
  BY <1>2, <1>4, <1>5
<1>7. k = j
  <2>1. k \in Int /\ j \in Int
    BY <1>2, <1>4 DEF Usual
  <2> QED
    BY <1>4, <1>6, <2>1
<1> QED
  BY <1>2, <1>4, <1>7

(* What was given the size it needed, or less, cannot be less still.       *)
LEMMA NewSizeRest ==
  ASSUME NEW o, Usual(o), NEW m \in o.min..o.max, NEW q, q = m * o.made, NEW x \in Int, 0 < x, x < q,
         NEW r \in o.min..o.max, r <= Lots(o, q - x, o.made), NEW s, s = r * o.made,
         NEW y \in Int, 0 < y, y <= x - q + s
  PROVE  y < s /\ NewSize(o, s, y) = s
<1> DEFINE n == o.made
           k == Lots(o, q - x, n)
           j == Lots(o, s - y, n)
<1>1. n \in Nat \ {0} /\ q \in Int /\ s \in Int /\ r \in Int
  <2>1. o.made \in Nat \ {0} /\ m \in Int /\ r \in Int
    BY DEF Usual
  <2> QED
    BY <2>1, TimesLe
<1>2. q - x \in Int
  BY <1>1
<1>3. k \in o.min..o.max /\ \A i \in o.min..o.max : q - x <= i * n => k <= i
  <2> HIDE DEF n
  <2> QED
    BY <1>1, <1>2, LotsAre
<1>4. /\ j \in o.min..o.max /\ j <= r
      /\ NewSize(o, s, y) = j * n /\ s - y <= j * n /\ j * n \in Int
  BY NewSizeIs
<1>5. r <= k
  OBVIOUS
<1>6. s = r * n
  OBVIOUS
<1> HIDE DEF j, k, n
<1>7. q - x <= j * n
  BY <1>1, <1>4
<1>8. k <= j
  BY <1>3, <1>4, <1>7
<1>9. j = r
  <2>1. k \in Int /\ j \in Int
    BY <1>3, <1>4 DEF Usual
  <2> QED
    BY <1>1, <1>4, <1>5, <1>8, <2>1
<1>10. y < s
  BY <1>1
<1> QED
  BY <1>4, <1>6, <1>9, <1>10

-----------------------------------------------------------------------------
SweepInv ==
  /\ PlanInv
  /\ sweeping \in BOOLEAN /\ (sweeping => owner = "buffer") /\ (~sweeping => fiter = End)
  /\ fiter = End \/ fiter \in ToSet(tl.line)
  /\ locked \subseteq Change /\ excess \in Int /\ before \in [Date -> Int]
  /\ operation \in IF sweeping THEN Operations ELSE {NoOperation}
  /\ sweeping => Sized(operation)

(* The size a producer needs, and the one it gets. *)
LEMMA SmallerIs ==
  ASSUME SweepInv, sweeping, NEW e \in plans, tl.qty[e] > 0, GetExcess(e) \in Int, GetExcess(e) > 0
  PROVE  LET o == operation[e]
             k == Lots(o, tl.qty[e] - GetExcess(e), o.made)
             r == Lots(o, Smaller(e), o.lot)
         IN  /\ e \in Change /\ Usual(o) /\ \E m \in o.min..o.max : tl.qty[e] = m * o.made
             /\ Smaller(e) = k * o.made /\ k \in o.min..o.max
             /\ Smaller(e) = NewSize(o, tl.qty[e], GetExcess(e))
             /\ r \in o.min..o.max /\ Resized(e) = r * o.made
             /\ tl.qty[e] \in Int /\ Smaller(e) \in Int /\ Resized(e) \in Int
             /\ tl.qty[e] - Smaller(e) <= GetExcess(e) /\ Smaller(e) <= tl.qty[e]
             /\ o.made >= o.lot => Smaller(e) <= Resized(e)
             /\ o.made <= o.lot => r <= k /\ Resized(e) <= Smaller(e)
<1> DEFINE o == operation[e]
           x == GetExcess(e)
           q == tl.qty[e]
           k == Lots(o, q - x, o.made)
           s == Smaller(e)
           r == Lots(o, s, o.lot)
<1>1. operation \in Operations /\ Sized(operation) /\ e \in Change
  BY DEF SweepInv, PlanInv, PlanTypes
<1>2. Usual(o)
  BY <1>1, OperationAssumption DEF Usual
<1>3. PICK m \in o.min..o.max : q = m * o.made
  BY <1>1 DEF Sized
<1>4. s = k * o.made /\ s = NewSize(o, q, x) /\ Resized(e) = r * o.made
  BY DEF Smaller, Resized, NewSize
<1>5. x \in Int /\ 0 < x
  OBVIOUS
<1> HIDE DEF o, x, q, s
<1>6. /\ k \in o.min..o.max /\ q \in Int /\ NewSize(o, q, x) \in Int
      /\ q - x <= NewSize(o, q, x) /\ NewSize(o, q, x) <= q
  BY <1>2, <1>3, <1>5, NewSizeIs
<1>7. /\ r \in o.min..o.max /\ r * o.made \in Int
      /\ o.made >= o.lot => s <= r * o.made
      /\ o.made <= o.lot => r <= k /\ r * o.made <= s
  <2> HIDE DEF k
  <2>1. r = Lots(o, k * o.made, o.lot)
    BY <1>4
  <2> HIDE DEF r
  <2> QED
    BY <1>2, <1>4, <1>6, <2>1, SizeSet DEF k
<1> HIDE DEF k, r
<1>8. q - s <= x /\ s <= q /\ s \in Int
  BY <1>4, <1>5, <1>6
<1> QED
  BY <1>1, <1>2, <1>3, <1>4, <1>6, <1>7, <1>8 DEF o, x, q, k, s, r

LEMMA DeleteExcessKeepsInv ==
  ASSUME SweepInv, DeleteExcess
  PROVE  SweepInv'
<1>1. /\ sweeping /\ excess > 0 /\ fiter # End /\ tl.qty[fiter] > 0 /\ fiter \in Change
      /\ fiter' = NextOf(tl.line, fiter) /\ excess' = excess - tl.qty[fiter]
      /\ plans' = plans \ {fiter} /\ tl' = Erase(tl, fiter) /\ UNCHANGED user
      /\ sweeping' = sweeping /\ locked' = locked /\ before' = before /\ operation' = operation
  BY DEF DeleteExcess, Continues, Candidate
<1>2. /\ PlanInv /\ owner = "buffer" /\ fiter \in ToSet(tl.line) /\ Good(tl) /\ OwnerLine(owner, tl) /\ PlansInLine
      /\ locked \subseteq Change /\ excess \in Int /\ before \in [Date -> Int] /\ sweeping \in BOOLEAN
  BY <1>1 DEF SweepInv, PlanInv
<1>3. fiter \in plans
  BY <1>1, <1>2 DEF PlansInLine
<1>4. PlanInv'
  BY <1>1, <1>2, <1>3, DeleteKeepsInv DEF Delete
<1>5. (\A x : x \in ToSet(tl'.line) <=> x \in ToSet(tl.line) /\ x # fiter) /\ SameBut(tl.qty, tl'.qty, fiter)
  BY <1>1, <1>2, DeleteGood
<1>6. fiter' = End \/ fiter' \in ToSet(tl'.line)
  BY <1>1, <1>2, <1>5, NextOfType
<1>7. excess' \in Int
  <2>1. tl.qty \in [Event -> Int] /\ fiter \in Event
    BY <1>1, <1>2, Fields DEF Good, Event
  <2> QED
    BY <1>1, <1>2, <2>1
<1>8. operation \in Operations /\ Sized(operation) /\ plans \subseteq Change
  BY <1>1 DEF SweepInv, PlanInv, PlanTypes
<1>9. Sized(operation)'
  <2> SUFFICES ASSUME NEW e \in plans, e # fiter, tl'.qty[e] > 0
               PROVE  \E k \in operation[e].min..operation[e].max : tl'.qty[e] = k * operation[e].made
    BY <1>1 DEF Sized
  <2>1. tl'.qty[e] = tl.qty[e]
    BY <1>5, <1>8 DEF SameBut, Event
  <2> QED
    BY <1>8, <2>1 DEF Sized
<1> QED
  BY <1>1, <1>2, <1>4, <1>6, <1>7, <1>8, <1>9 DEF SweepInv, user

LEMMA ResizeExcessKeepsInv ==
  ASSUME SweepInv, ResizeExcess
  PROVE  SweepInv'
<1>1. /\ sweeping /\ excess > 0 /\ fiter # End /\ tl.qty[fiter] > 0 /\ fiter \in Change
      /\ fiter' = NextOf(tl.line, fiter) /\ excess' = excess - (tl.qty[fiter] - Smaller(fiter))
      /\ plans' = plans /\ tl' = Update(tl, fiter, Resized(fiter), tl.dt[fiter]) /\ UNCHANGED user
      /\ sweeping' = sweeping /\ locked' = locked /\ before' = before /\ operation' = operation
      /\ GetExcess(fiter) > 0
  BY DEF ResizeExcess, Continues, Candidate
<1>2. /\ PlanInv /\ owner = "buffer" /\ fiter \in ToSet(tl.line) /\ Good(tl) /\ OwnerLine(owner, tl) /\ PlansInLine
      /\ locked \subseteq Change /\ excess \in Int /\ before \in [Date -> Int] /\ sweeping \in BOOLEAN
  BY <1>1 DEF SweepInv, PlanInv
<1>3. fiter \in plans
  BY <1>1, <1>2 DEF PlansInLine
<1>4. tl.qty[fiter] \in Int /\ tl.dt[fiter] \in Date /\ GetExcess(fiter) \in Int
  <2>1. tl.qty \in [Event -> Int] /\ tl.dt \in [Event -> Date] /\ fiter \in Event
    BY <1>1, <1>2, Fields DEF Good, Event
  <2> QED
    BY <1>1, <1>2, <2>1, ExcessIs
<1>5. /\ Smaller(fiter) \in Int /\ Resized(fiter) \in Int
      /\ \E k \in operation[fiter].min..operation[fiter].max : Resized(fiter) = k * operation[fiter].made
  BY <1>1, <1>3, <1>4, SmallerIs
<1>6. Move(fiter, tl.dt[fiter], Resized(fiter))
  BY <1>1, <1>2, <1>3 DEF Move, Allowed
<1>7. PlanInv'
  BY <1>1, <1>2, <1>4, <1>5, <1>6, MoveKeepsInv
<1>8. /\ \A x : x \in ToSet(tl'.line) <=> x \in ToSet(tl.line)
      /\ SameBut(tl.qty, tl'.qty, fiter) /\ tl'.qty[fiter] = Resized(fiter)
  <2>1. owner # "buffer" => Resized(fiter) <= 0
    BY <1>2
  <2> DEFINE q == Resized(fiter)
             d == tl.dt[fiter]
  <2>2. /\ fiter \in Change /\ tl' = Update(tl, fiter, q, d) /\ d \in Date /\ q \in Int
        /\ owner # "buffer" => q <= 0
    BY <1>1, <1>4, <1>5, <2>1
  <2> HIDE DEF q, d
  <2>4. Good(tl) /\ OwnerLine(owner, tl) /\ fiter \in ToSet(tl.line)
    BY <1>2
  <2>3. /\ Good(tl') /\ OwnerLine(owner, tl') /\ SameFixed(tl, tl')
        /\ \A x : x \in ToSet(tl'.line) <=> x \in ToSet(tl.line)
        /\ SameBut(tl.dt, tl'.dt, fiter) /\ SameBut(tl.qty, tl'.qty, fiter) /\ tl'.dt[fiter] = d /\ tl'.qty[fiter] = q
    BY <2>2, <2>4, MoveGood
  <2> QED
    BY <2>3 DEF q
<1>9. fiter' = End \/ fiter' \in ToSet(tl'.line)
  BY <1>1, <1>2, <1>8, NextOfType
<1>10. excess' \in Int
  BY <1>1, <1>2, <1>4, <1>5
<1>11. operation \in Operations /\ Sized(operation) /\ plans \subseteq Change
  BY <1>1 DEF SweepInv, PlanInv, PlanTypes
<1>12. Sized(operation)'
  <2> SUFFICES ASSUME NEW e \in plans, tl'.qty[e] > 0
               PROVE  \E k \in operation[e].min..operation[e].max : tl'.qty[e] = k * operation[e].made
    BY <1>1 DEF Sized
  <2>1. CASE e = fiter
    BY <1>5, <1>8, <2>1
  <2>2. CASE e # fiter
    <3>1. tl'.qty[e] = tl.qty[e]
      BY <1>8, <1>11, <2>2 DEF SameBut, Event
    <3> QED
      BY <1>11, <3>1 DEF Sized
  <2> QED
    BY <2>1, <2>2
<1> QED
  BY <1>1, <1>2, <1>7, <1>9, <1>10, <1>11, <1>12 DEF SweepInv, user

LEMMA BeginKeepsInv ==
  ASSUME SweepInv, Begin
  PROVE  SweepInv'
<1>1. /\ owner = "buffer" /\ tl.line # <<>> /\ sweeping' = TRUE /\ fiter' = tl.line[1] /\ locked' \subseteq plans
      /\ excess' = tl.oh[LastEvent] - MinOf(LastEvent) /\ before' = Stock
      /\ owner' = owner /\ tl' = tl /\ plans' = plans /\ bound' = bound /\ calendar' = calendar
      /\ asked' = asked /\ stale' = stale
      /\ operation' \in Operations /\ Sized(operation')
  BY DEF Begin, vars
<1>2. PlanInv /\ Good(tl) /\ plans \subseteq Change
  BY DEF SweepInv, PlanInv, PlanTypes
<1>3. PlanInv'
  BY <1>1, <1>2 DEF PlanInv, PlanTypes, PlansInLine, BucketsMade, BoundsHeld, BoundHeld
<1>4. /\ tl.line \in Seq(Event) /\ Len(tl.line) \in Nat /\ tl.oh \in [Event -> Int] /\ tl.val \in [Event -> Int]
  BY <1>2, Fields DEF Good, Amounts
<1>5. 1 \in 1..Len(tl.line) /\ Len(tl.line) \in 1..Len(tl.line)
  BY <1>1, <1>4
<1>6. fiter' \in ToSet(tl'.line) /\ LastEvent \in Event
  BY <1>1, <1>4, <1>5, SeqFacts DEF LastEvent, Last
<1>7. MinOf(LastEvent) \in Int
  <2>1. BoundAt(tl, 3, tl.dt[LastEvent], TRUE) \in Int
    <3>1. 3 \in 2..4
      OBVIOUS
    <3> QED
      BY <1>2, <3>1, BoundAtType
  <2>2. tl.val[LastEvent] \in Int
    BY <1>4, <1>6
  <2> QED
    BY <2>1, <2>2 DEF MinOf
<1>8. excess' \in Int
  BY <1>1, <1>4, <1>6, <1>7
<1>9. before' \in [Date -> Int]
  BY <1>1, <1>2, StockType
<1>10. Sized(operation)'
  BY <1>1 DEF Sized
<1> QED
  BY <1>1, <1>2, <1>3, <1>6, <1>8, <1>9, <1>10 DEF SweepInv

LEMMA SweepNextKeepsInv ==
  ASSUME SweepInv, BucketsFirst = TRUE, OpenEnd = FALSE, SweepNext
  PROVE  SweepInv'
<1>1. CASE Begin
  BY <1>1, BeginKeepsInv
<1>2. CASE DeleteExcess
  BY <1>2, DeleteExcessKeepsInv
<1>3. CASE ResizeExcess
  BY <1>3, ResizeExcessKeepsInv
<1>4. ASSUME UNCHANGED vars PROVE (PlanInv => PlanInv') /\ owner' = owner /\ tl' = tl
  BY <1>4 DEF vars, PlanInv, PlanTypes, PlansInLine, BucketsMade, BoundsHeld, BoundHeld
<1>5. CASE Skip
  <2>1. /\ sweeping /\ fiter # End /\ fiter' = NextOf(tl.line, fiter) /\ UNCHANGED vars
        /\ sweeping' = sweeping /\ locked' = locked /\ excess' = excess /\ before' = before
        /\ operation' = operation /\ tl' = tl /\ plans' = plans
    BY <1>5 DEF Skip, Continues, vars
  <2>2. Good(tl) /\ fiter \in ToSet(tl.line)
    BY <2>1 DEF SweepInv, PlanInv
  <2>3. fiter' = End \/ fiter' \in ToSet(tl'.line)
    BY <1>4, <2>1, <2>2, NextOfType
  <2>4. sweeping => Sized(operation) /\ Sized(operation)'
    BY <2>1 DEF SweepInv, Sized
  <2> QED
    BY <1>4, <2>1, <2>3, <2>4 DEF SweepInv
<1>6. CASE Return
  <2>1. /\ sweeping' = FALSE /\ fiter' = End /\ locked' = {} /\ excess' = 0 /\ before' = NoStock /\ UNCHANGED vars
        /\ operation' = NoOperation
    BY <1>6 DEF Return
  <2>2. before' \in [Date -> Int] /\ excess' \in Int /\ locked' \subseteq Change
    BY <2>1 DEF NoStock
  <2>3. sweeping' \in BOOLEAN /\ ~sweeping' /\ fiter' = End
    BY <2>1
  <2>4. PlanInv'
    BY <1>4, <2>1 DEF SweepInv
  <2> QED
    BY <2>1, <2>2, <2>3, <2>4 DEF SweepInv
<1>7. CASE PlanChanges
  <2>1. /\ ~sweeping /\ Next /\ sweeping' = sweeping /\ fiter' = fiter /\ locked' = locked /\ excess' = excess
        /\ before' = before /\ operation' = operation
    BY <1>7 DEF PlanChanges, sweep
  <2>2. PlanInv'
    BY <2>1, NextKeepsInv DEF SweepInv
  <2> QED
    BY <2>1, <2>2 DEF SweepInv
<1> QED
  BY <1>1, <1>2, <1>3, <1>5, <1>6, <1>7 DEF SweepNext

LEMMA SweepInvHolds ==
  ASSUME BucketsFirst = TRUE, OpenEnd = FALSE
  PROVE  SweepSpec => []SweepInv
<1>1. SweepInit => SweepInv
  <2> SUFFICES ASSUME SweepInit PROVE SweepInv
    OBVIOUS
  <2>1. PlanInv
    BY InitPlanInv DEF SweepInit
  <2>2. before \in [Date -> Int] /\ excess \in Int /\ locked \subseteq Change
    BY DEF SweepInit, NoStock
  <2>3. sweeping \in BOOLEAN /\ ~sweeping /\ fiter = End /\ operation = NoOperation
    BY DEF SweepInit
  <2> QED
    BY <2>1, <2>2, <2>3 DEF SweepInv
<1>2. SweepInv /\ [SweepNext]_sweepVars => SweepInv'
  <2> SUFFICES ASSUME SweepInv, [SweepNext]_sweepVars PROVE SweepInv'
    OBVIOUS
  <2>1. CASE SweepNext
    BY <2>1, SweepNextKeepsInv
  <2>2. CASE UNCHANGED sweepVars
    BY <2>2 DEF sweepVars, vars, sweep, SweepInv, Sized, PlanInv, PlanTypes, PlansInLine, BucketsMade, BoundsHeld, BoundHeld
  <2> QED
    BY <2>1, <2>2
<1> QED
  BY <1>1, <1>2, PTL DEF SweepSpec

-----------------------------------------------------------------------------
(* The types of the plan and of the walk hold in every state.              *)
LEMMA InvGivesTypes == SweepInv => SweepTypeOK
<1> SUFFICES ASSUME SweepInv PROVE SweepTypeOK
  OBVIOUS
<1>1. /\ PlanTypes /\ Good(tl) /\ tl \in Timelines
      /\ sweeping \in BOOLEAN /\ (fiter = End \/ fiter \in ToSet(tl.line))
      /\ locked \subseteq Change /\ excess \in Int /\ before \in [Date -> Int]
      /\ operation \in IF sweeping THEN Operations ELSE {NoOperation}
  BY DEF SweepInv, PlanInv, Good
<1>2. tl.line \in Seq(Event) /\ Distinct(tl.line)
  BY <1>1, Fields, OrderIsDistinct DEF Good
<1>3. \A s \in Seq(Event) : Distinct(s) => IsInjective(s)
  BY DEF Distinct, IsInjective
<1>4. \A e \in Event : tl.dt[e] \in Date /\ {tl.qty[e], tl.oh[e], tl.cum[e], tl.val[e]} \subseteq Int
  <2>1. /\ tl.dt \in [Event -> Date] /\ tl.qty \in [Event -> Int] /\ tl.oh \in [Event -> Int]
        /\ tl.cum \in [Event -> Int] /\ tl.val \in [Event -> Int]
    BY <1>1, Fields DEF Amounts
  <2> QED
    BY <2>1
<1>5. ASSUME NEW t \in 2..4 PROVE tl.chain[t] \in Seq(OfType(t)) /\ IsInjective(tl.chain[t])
  <2> DEFINE h == tl.chain[t]
  <2>1. /\ h \in Seq(Event) /\ Len(h) \in Nat /\ Distinct(h)
        /\ \A x \in Event : x \in ToSet(h) <=> x \in ToSet(tl.line) /\ Type(x) = t
    BY <1>1, NoneFirst
  <2> HIDE DEF h
  <2>2. /\ \A k \in 1..Len(h) : h[k] \in Event /\ h[k] \in ToSet(h)
        /\ DOMAIN h = 1..Len(h)
    BY <2>1, SeqFacts
  <2>3. \A k \in 1..Len(h) : h[k] \in OfType(t)
    BY <2>1, <2>2, Types DEF OfType
  <2>4. h \in Seq(OfType(t))
    BY <2>1, <2>2, <2>3
  <2> QED
    BY <1>3, <2>1, <2>4 DEF h
<1>6. TypeOK
  BY <1>1, <1>2, <1>3, <1>4, <1>5 DEF TypeOK, PlanTypes
<1>7. fiter \in ToSet(tl.line) \union {End}
  BY <1>1
<1> QED
  BY <1>1, <1>6, <1>7 DEF SweepTypeOK

-----------------------------------------------------------------------------
(* What the totals add up to, from the first event of the line to the last.*)
Upto(s, i) == {s[k] : k \in 1..i}
SetLast(T, U) == {x \in U \intersect SetEvent : \A r \in U \intersect SetEvent : r = x \/ Before(T, r, x)}
Thereafter(T, U) == {f \in U \intersect Change : \A x \in SetLast(T, U) : Before(T, x, f)}

LEMMA UptoFacts ==
  ASSUME NEW s \in Seq(Event), Distinct(s), NEW i \in 0..Len(s)
  PROVE  /\ Upto(s, i) \subseteq Event /\ IsFiniteSet(Upto(s, i))
         /\ i = 0 => Upto(s, i) = {}
         /\ i # 0 => /\ s[i] \in Upto(s, i) /\ s[i] \notin Upto(s, i - 1)
                     /\ Upto(s, i) = Upto(s, i - 1) \union {s[i]}
                     /\ Upto(s, i) \ {s[i]} = Upto(s, i - 1)
<1>1. i \in Nat /\ Len(s) \in Nat /\ \A k \in 1..Len(s) : s[k] \in Event
  BY SeqFacts
<1>2. Upto(s, i) \subseteq Event
  BY <1>1 DEF Upto
<1>3. IsFiniteSet(Upto(s, i))
  <2> DEFINE g == [k \in 1..i |-> s[k]]
             S == Upto(s, i)
  <2>1. g \in [1..i -> S] /\ \A x \in S : \E k \in 1..i : g[k] = x
    BY DEF Upto
  <2> HIDE DEF g, S
  <2>2. g \in Surjection(1..i, S)
    BY <2>1 DEF Surjection
  <2>3. ExistsSurjection(1..i, S)
    BY <2>2 DEF ExistsSurjection
  <2> QED
    BY <1>1, <2>3, FS_NatSurjection DEF S
<1>4. i = 0 => Upto(s, i) = {}
  BY DEF Upto
<1>5. ASSUME i # 0
      PROVE  /\ s[i] \in Upto(s, i) /\ s[i] \notin Upto(s, i - 1)
             /\ Upto(s, i) = Upto(s, i - 1) \union {s[i]}
  <2>1. i \in 1..i /\ \A k \in 1..i : k \in 1..i-1 \/ k = i
    BY <1>1, <1>5
  <2>2. \A k \in 1..i-1 : k \in 1..i /\ k # i /\ k \in 1..Len(s) /\ i \in 1..Len(s)
    BY <1>1, <1>5
  <2> QED
    BY <2>1, <2>2 DEF Upto, Distinct
<1> QED
  BY <1>2, <1>3, <1>4, <1>5

LEMMA CumulativeSum ==
  ASSUME NEW T, Good(T), NEW i \in 1..Len(T.line)
  PROVE  T.cum[T.line[i]] = Total(Made(T), Upto(T.line, i))
<1> DEFINE s == T.line
           R(k) == IF k = 0 THEN 0 ELSE T.cum[s[k]]
           Bad == {k \in 0..Len(s) : R(k) # Total(Made(T), Upto(s, k))}
<1>1. s \in Seq(Event) /\ Len(s) \in Nat /\ Distinct(s) /\ \A k \in 1..Len(s) : s[k] \in Event
  BY Fields, SeqFacts, OrderIsDistinct DEF Good
<1>2. \A k \in 1..Len(s) : T.cum[s[k]] = Made(T)[s[k]] + Prior(T.cum, s, k)
  BY DEF Good, Totals, AddsUp
<1>3. \A e \in Event : Made(T)[e] \in Int
  BY Fields DEF Good, Amounts
<1>4. \A k \in 0..Len(s) : \A x \in Upto(s, k) : Made(T)[x] \in Int
  BY <1>1, <1>3, UptoFacts
<1>5. ASSUME Bad # {} PROVE FALSE
  <2>1. PICK m \in Bad : \A k \in Bad : m <= k
    <3>1. Bad \in SUBSET Nat
      OBVIOUS
    <3> HIDE DEF Bad
    <3> QED
      BY <1>5, <3>1, SmallestOf
  <2>2. m \in 0..Len(s) /\ R(m) # Total(Made(T), Upto(s, m))
    OBVIOUS
  <2> HIDE DEF s
  <2>3. m # 0
    <3>1. Upto(s, 0) = {} /\ IsFiniteSet(Upto(s, 0))
      BY <1>1, UptoFacts
    <3>2. Total(Made(T), Upto(s, 0)) = 0
      BY <3>1, TotalAdd
    <3> QED
      BY <2>2, <3>2
  <2>4. m \in 1..Len(s) /\ m - 1 \in 0..Len(s) /\ ~(m <= m - 1)
    BY <1>1, <2>2, <2>3
  <2>5. R(m - 1) = Total(Made(T), Upto(s, m - 1))
    BY <2>1, <2>4
  <2>6. Total(Made(T), Upto(s, m)) = Made(T)[s[m]] + Total(Made(T), Upto(s, m - 1))
    <3> DEFINE S == Upto(s, m)
    <3>1. IsFiniteSet(S) /\ s[m] \in S /\ S \ {s[m]} = Upto(s, m - 1) /\ \A x \in S : Made(T)[x] \in Int
      BY <1>1, <1>4, <2>2, <2>3, UptoFacts
    <3> HIDE DEF S
    <3>2. Total(Made(T), S) = Made(T)[s[m]] + Total(Made(T), S \ {s[m]})
      BY <3>1, TotalAdd
    <3> QED
      BY <3>1, <3>2 DEF S
  <2>7. Prior(T.cum, s, m) = R(m - 1)
    BY <1>1, <2>4 DEF Prior
  <2>8. R(m) = Made(T)[s[m]] + Prior(T.cum, s, m)
    BY <1>2, <2>3, <2>4
  <2> QED
    BY <2>2, <2>5, <2>6, <2>7, <2>8
<1>6. i \in 0..Len(s) /\ i # 0
  BY <1>1
<1> QED
  BY <1>5, <1>6

LEMMA NextEvent ==
  ASSUME NEW T, Good(T), NEW V \in SUBSET Event, NEW e \in Event, e \notin V, \A x \in V : Before(T, x, e),
         NEW U, U = V \union {e}
  PROVE  /\ e \in SetEvent => SetLast(T, U) = {e} /\ Thereafter(T, U) = {}
         /\ e \notin SetEvent => SetLast(T, U) = SetLast(T, V)
         /\ e \in Change => Thereafter(T, U) = Thereafter(T, V) \union {e} /\ e \notin Thereafter(T, V)
         /\ e \notin SetEvent \union Change => Thereafter(T, U) = Thereafter(T, V)
<1>1. /\ \A x \in V : ~Before(T, e, x) /\ x # e /\ x \in Event
      /\ ~Before(T, e, e)
  <2>1. T.dt \in [Event -> Int] /\ T.qty \in [Event -> Int]
    BY Fields DEF Good
  <2> QED
    BY <2>1, Ordering
<1>2. \A x : x \in Change => x \notin SetEvent
  BY EventAssumption DEF Fixed
<1>3. CASE e \in SetEvent
  <2>1. \A x : x \in SetLast(T, U) <=> x = e
    BY <1>1, <1>3 DEF SetLast
  <2>2. SetLast(T, U) = {e}
    BY <2>1
  <2>3. \A x : x \notin Thereafter(T, U)
    BY <1>1, <1>2, <1>3, <2>2 DEF Thereafter
  <2> QED
    BY <1>2, <1>3, <2>2, <2>3
<1>4. CASE e \notin SetEvent
  <2>1. U \intersect SetEvent = V \intersect SetEvent
    BY <1>4
  <2>2. SetLast(T, U) = SetLast(T, V)
    BY <2>1 DEF SetLast
  <2>3. \A x \in SetLast(T, V) : Before(T, x, e)
    BY DEF SetLast
  <2>4. e \notin Thereafter(T, V)
    BY DEF Thereafter
  <2>5. \A x : x \in Thereafter(T, U) <=> x \in Thereafter(T, V) \/ (x = e /\ e \in Change)
    BY <2>2, <2>3 DEF Thereafter
  <2>6. e \in Change => Thereafter(T, U) = Thereafter(T, V) \union {e}
    BY <2>5
  <2>7. e \notin Change => Thereafter(T, U) = Thereafter(T, V)
    BY <2>5
  <2> QED
    BY <1>4, <2>2, <2>4, <2>6, <2>7
<1> QED
  BY <1>3, <1>4

LEMMA OnhandSum ==
  ASSUME NEW T, Good(T), NEW i \in 1..Len(T.line)
  PROVE  T.oh[T.line[i]] = Total(T.val, SetLast(T, Upto(T.line, i))) + Total(T.qty, Thereafter(T, Upto(T.line, i)))
<1> DEFINE s == T.line
           R(k) == IF k = 0 THEN 0 ELSE T.oh[s[k]]
           A(k) == Total(T.val, SetLast(T, Upto(s, k)))
           B(k) == Total(T.qty, Thereafter(T, Upto(s, k)))
           Bad == {k \in 0..Len(s) : R(k) # A(k) + B(k)}
<1>1. /\ s \in Seq(Event) /\ Len(s) \in Nat /\ Distinct(s) /\ InOrder(T, s)
      /\ \A k \in 1..Len(s) : s[k] \in Event
  BY Fields, SeqFacts, OrderIsDistinct DEF Good
<1>2. \A k \in 1..Len(s) :
        T.oh[s[k]] = IF s[k] \in SetEvent THEN T.val[s[k]] ELSE T.qty[s[k]] + Prior(T.oh, s, k)
  BY DEF Good, Totals, AddsUp
<1>3. \A e \in Event : T.val[e] \in Int /\ T.qty[e] \in Int /\ (e \in Fixed => T.qty[e] = 0)
  BY Fields DEF Good, Amounts, NoWeight
<1>4. ASSUME NEW k \in 0..Len(s)
      PROVE  /\ IsFiniteSet(SetLast(T, Upto(s, k))) /\ IsFiniteSet(Thereafter(T, Upto(s, k)))
             /\ \A x \in SetLast(T, Upto(s, k)) : T.val[x] \in Int
             /\ \A x \in Thereafter(T, Upto(s, k)) : T.qty[x] \in Int
             /\ A(k) \in Int /\ B(k) \in Int
  <2> DEFINE X == SetLast(T, Upto(s, k))
             Y == Thereafter(T, Upto(s, k))
  <2>1. Upto(s, k) \subseteq Event /\ IsFiniteSet(Upto(s, k))
    BY <1>1, UptoFacts
  <2>2. X \subseteq Upto(s, k) /\ Y \subseteq Upto(s, k)
    BY DEF SetLast, Thereafter
  <2>3. A(k) = Total(T.val, X) /\ B(k) = Total(T.qty, Y)
    OBVIOUS
  <2> HIDE DEF X, Y, A, B
  <2>4. IsFiniteSet(X) /\ IsFiniteSet(Y)
    BY <2>1, <2>2, FS_Subset
  <2>5. (\A x \in X : T.val[x] \in Int) /\ \A x \in Y : T.qty[x] \in Int
    BY <1>3, <2>1, <2>2
  <2>6. Total(T.val, X) \in Int /\ Total(T.qty, Y) \in Int
    BY <2>4, <2>5, TotalAdd
  <2> QED
    BY <2>3, <2>4, <2>5, <2>6 DEF X, Y
<1>5. R(0) = A(0) + B(0)
  <2>1. Upto(s, 0) = {}
    BY <1>1, UptoFacts
  <2>2. SetLast(T, Upto(s, 0)) = {} /\ Thereafter(T, Upto(s, 0)) = {}
    BY <2>1 DEF SetLast, Thereafter
  <2>3. \A f : Total(f, {}) = 0
    BY TotalAdd, FS_EmptySet
  <2>4. A(0) = Total(T.val, {}) /\ B(0) = Total(T.qty, {}) /\ R(0) = 0
    BY <2>2
  <2>5. A(0) = 0 /\ B(0) = 0 /\ R(0) = 0
    BY <2>3, <2>4
  <2> QED
    BY <2>5
<1>6. ASSUME NEW k \in 1..Len(s), R(k-1) = A(k-1) + B(k-1)
      PROVE  R(k) = A(k) + B(k)
  <2> DEFINE e == s[k]
             U == Upto(s, k)
             V == Upto(s, k - 1)
  <2>0. k \in 0..Len(s) /\ k - 1 \in 0..Len(s) /\ k # 0 /\ e \in Event
    BY <1>1
  <2>1. U = V \union {e} /\ e \notin V /\ V \in SUBSET Event /\ \A x \in V : Before(T, x, e)
    <3>1. \A j \in 1..k-1 : j \in 1..Len(s) /\ j < k
      BY <1>1
    <3>2. \A x \in V : Before(T, x, e)
      BY <1>1, <3>1 DEF Upto, InOrder
    <3> QED
      BY <1>1, <2>0, <3>2, UptoFacts
  <2>2. /\ e \in SetEvent => SetLast(T, U) = {e} /\ Thereafter(T, U) = {}
        /\ e \notin SetEvent => SetLast(T, U) = SetLast(T, V)
        /\ e \in Change => Thereafter(T, U) = Thereafter(T, V) \union {e} /\ e \notin Thereafter(T, V)
        /\ e \notin SetEvent \union Change => Thereafter(T, U) = Thereafter(T, V)
    <3> HIDE DEF U, V, e
    <3> QED
      BY <2>0, <2>1, NextEvent
  <2>3. Prior(T.oh, s, k) = R(k - 1)
    BY <1>1 DEF Prior
  <2>4. /\ A(k) = Total(T.val, SetLast(T, U)) /\ B(k) = Total(T.qty, Thereafter(T, U))
        /\ A(k-1) = Total(T.val, SetLast(T, V)) /\ B(k-1) = Total(T.qty, Thereafter(T, V))
        /\ R(k) = T.oh[e]
    BY <2>0
  <2>5. /\ A(k) \in Int /\ B(k) \in Int /\ A(k-1) \in Int /\ B(k-1) \in Int
        /\ IsFiniteSet(SetLast(T, U)) /\ IsFiniteSet(Thereafter(T, U))
        /\ \A x \in SetLast(T, U) : T.val[x] \in Int
        /\ \A x \in Thereafter(T, U) : T.qty[x] \in Int
    BY <1>4, <2>0
  <2>6. T.oh[e] = IF e \in SetEvent THEN T.val[e] ELSE T.qty[e] + Prior(T.oh, s, k)
    BY <1>2
  <2>7. T.val[e] \in Int /\ T.qty[e] \in Int /\ (e \in Fixed => T.qty[e] = 0)
    BY <1>3, <2>0
  <2> HIDE DEF A, B, R, U, V, e, s
  <2>8. CASE e \in SetEvent
    <3> DEFINE X == SetLast(T, U)
               Y == Thereafter(T, U)
    <3>1. X = {e} /\ Y = {} /\ IsFiniteSet(X) /\ IsFiniteSet(Y) /\ (\A x \in X : T.val[x] \in Int)
          /\ X \ {e} = {} /\ e \in X
      BY <2>2, <2>5, <2>8
    <3> HIDE DEF X, Y
    <3>2. Total(T.qty, Y) = 0
      BY <3>1, TotalAdd
    <3>3. Total(T.val, X) = T.val[e] + Total(T.val, X \ {e})
      BY <3>1, TotalAdd
    <3>4. Total(T.val, {}) = 0
      BY FS_EmptySet, TotalAdd
    <3>5. Total(T.val, X \ {e}) = 0
      BY <3>1, <3>4
    <3>6. A(k) = Total(T.val, X) /\ B(k) = Total(T.qty, Y)
      BY <2>4 DEF X, Y
    <3>7. A(k) = T.val[e] /\ B(k) = 0
      BY <2>7, <3>2, <3>3, <3>5, <3>6
    <3> QED
      BY <2>4, <2>6, <2>7, <2>8, <3>7
  <2>9. CASE e \notin SetEvent
    <3>1. A(k) = A(k-1)
      BY <2>2, <2>4, <2>9
    <3>2. B(k) = T.qty[e] + B(k-1)
      <4>1. CASE e \in Change
        <5> DEFINE Y == Thereafter(T, U)
                   Z == Thereafter(T, V)
        <5>1. /\ Y = Z \union {e} /\ e \notin Z /\ IsFiniteSet(Y) /\ (\A x \in Y : T.qty[x] \in Int)
              /\ Y \ {e} = Z /\ e \in Y
          BY <2>2, <2>5, <4>1
        <5> HIDE DEF Y, Z
        <5>2. Total(T.qty, Y) = T.qty[e] + Total(T.qty, Y \ {e})
          BY <5>1, TotalAdd
        <5> QED
          BY <2>4, <5>1, <5>2 DEF Y, Z
      <4>2. CASE e \notin Change
        <5>1. e \in Fixed
          BY <2>0, <4>2 DEF Event
        <5>2. B(k) = B(k-1)
          BY <2>2, <2>4, <2>9, <4>2
        <5> QED
          BY <2>5, <2>7, <5>1, <5>2
      <4> QED
        BY <4>1, <4>2
    <3>3. R(k) = T.qty[e] + R(k-1)
      BY <2>3, <2>4, <2>6, <2>9
    <3> QED
      BY <1>6, <2>5, <2>7, <3>1, <3>2, <3>3
  <2> QED
    BY <2>8, <2>9
<1> HIDE DEF R, A, B
<1>7. ASSUME Bad # {} PROVE FALSE
  <2>1. PICK m \in Bad : \A k \in Bad : m <= k
    <3>1. Bad \in SUBSET Nat
      OBVIOUS
    <3> HIDE DEF Bad
    <3> QED
      BY <1>7, <3>1, SmallestOf
  <2>2. m \in 0..Len(s) /\ R(m) # A(m) + B(m)
    OBVIOUS
  <2> HIDE DEF s
  <2>3. m # 0
    BY <1>5, <2>2
  <2>4. m \in 1..Len(s) /\ m - 1 \in 0..Len(s) /\ ~(m <= m - 1)
    BY <1>1, <2>2, <2>3
  <2>5. R(m - 1) = A(m - 1) + B(m - 1)
    BY <2>1, <2>4
  <2> QED
    BY <1>6, <2>2, <2>4, <2>5
<1>8. i \in 0..Len(s) /\ i # 0
  BY <1>1
<1>9. R(i) = A(i) + B(i)
  BY <1>7, <1>8
<1> QED
  BY <1>8, <1>9 DEF R, A, B

LEMMA InvGivesSums == PlanInv => OnhandIsSum
<1> SUFFICES ASSUME PlanInv PROVE OnhandIsSum
  OBVIOUS
<1> DEFINE s == tl.line
<1>1. Good(tl) /\ PlansInLine /\ plans \subseteq Change
  BY DEF PlanInv, PlanTypes
<1>2. /\ s \in Seq(Event) /\ Len(s) \in Nat /\ Distinct(s) /\ InOrder(tl, s)
      /\ \A k \in 1..Len(s) : s[k] \in Event
  BY <1>1, Fields, SeqFacts, OrderIsDistinct DEF Good
<1>3. ToSet(s) \intersect Change = plans
  BY <1>1 DEF PlansInLine
<1>4. ASSUME NEW e \in ToSet(s)
      PROVE  /\ tl.oh[e] = Total(tl.val, LastSet(e)) + Total(tl.qty, Since(e))
             /\ tl.cum[e] = Total([f \in Event |-> Produced(tl.qty[f])], Until(e))
  <2>1. PICK i \in 1..Len(s) : s[i] = e
    BY <1>2, SeqFacts
  <2>2. Until(e) = Upto(s, i)
    <3>1. ASSUME NEW x PROVE x \in Until(e) <=> x \in Upto(s, i)
      <4>1. x \in Until(e) <=> x \in ToSet(s) /\ (x = e \/ Before(tl, x, e))
        BY DEF Until
      <4>2. x \in Upto(s, i) <=> \E k \in 1..i : s[k] = x
        BY DEF Upto
      <4>3. x \in ToSet(s) <=> \E k \in 1..Len(s) : s[k] = x
        BY <1>2, SeqFacts
      <4> HIDE DEF s
      <4>4. ASSUME NEW k \in 1..Len(s) PROVE (s[k] = e \/ Before(tl, s[k], e)) <=> k \in 1..i
        <5>1. CASE k < i
          BY <1>2, <2>1, <5>1 DEF InOrder
        <5>2. CASE k = i
          BY <1>2, <2>1, <5>2
        <5>3. CASE k > i
          <6>1. Before(tl, e, s[k])
            BY <1>2, <2>1, <5>3 DEF InOrder
          <6>2. s[k] # e
            BY <1>2, <2>1, <5>3 DEF Distinct
          <6>3. ~Before(tl, s[k], e)
            <7>1. tl.dt \in [Event -> Int] /\ tl.qty \in [Event -> Int] /\ e \in Event /\ s[k] \in Event
              BY <1>1, <1>2, <2>1, Fields DEF Good
            <7> QED
              BY <6>1, <7>1, Ordering
          <6> QED
            BY <5>3, <6>2, <6>3
        <5> QED
          BY <1>2, <2>1, <5>1, <5>2, <5>3
      <4>5. \A k \in 1..i : k \in 1..Len(s)
        BY <1>2, <2>1
      <4> QED
        BY <4>1, <4>2, <4>3, <4>4, <4>5
    <3> QED
      BY <3>1
  <2>3. LastSet(e) = SetLast(tl, Until(e)) /\ Since(e) = Thereafter(tl, Until(e))
    BY DEF LastSet, SetLast, Since, Thereafter
  <2>4. /\ tl.oh[e] = Total(tl.val, SetLast(tl, Upto(s, i))) + Total(tl.qty, Thereafter(tl, Upto(s, i)))
        /\ tl.cum[e] = Total(Made(tl), Upto(s, i))
    BY <1>1, <2>1, OnhandSum, CumulativeSum
  <2>5. Made(tl) = [f \in Event |-> Produced(tl.qty[f])]
    BY DEF Made
  <2> QED
    BY <2>2, <2>3, <2>4, <2>5
<1> QED
  BY <1>3, <1>4 DEF OnhandIsSum

-----------------------------------------------------------------------------
(* A value that is not entered anew is still the one before.               *)
LEMMA SameUntilNewEntry ==
  ASSUME NEW c \in Calendar, NEW a \in Date, NEW d \in Date, a <= d, \A j \in NewEntries(c) : ~(a < j /\ j <= d)
  PROVE  c[d] = c[a]
<1> DEFINE Bad == {j \in a..d : c[j] # c[a]}
<1>1. a \in Nat /\ d \in Nat
  BY PlanAssumption DEF Date
<1>2. ASSUME Bad # {} PROVE FALSE
  <2>1. PICK m \in Bad : \A k \in Bad : m <= k
    <3>1. Bad \in SUBSET Nat
      BY <1>1
    <3> HIDE DEF Bad
    <3> QED
      BY <1>2, <3>1, SmallestOf
  <2>2. m \in a..d /\ c[m] # c[a]
    OBVIOUS
  <2>3. m # a /\ m \in Nat /\ m # 0 /\ m - 1 \in a..d /\ ~(m <= m - 1) /\ a < m /\ m <= d
    BY <1>1, <2>2
  <2>4. m \in Date
    BY <1>1, <2>2, PlanAssumption DEF Date
  <2>5. c[m-1] = c[a]
    BY <2>1, <2>3
  <2>6. m \notin NewEntries(c)
    BY <2>3
  <2>7. c[m] = c[m-1]
    BY <2>3, <2>4, <2>6 DEF NewEntries
  <2> QED
    BY <2>2, <2>5, <2>7
<1>3. d \in a..d
  BY <1>1
<1> QED
  BY <1>2, <1>3

LEMMA NoNewEntryYet ==
  ASSUME NEW c \in Calendar, NEW d \in Date, \A j \in NewEntries(c) : ~(j <= d)
  PROVE  c[d] = 0
<1>1. d \in Nat /\ 0 \in Date /\ 0 <= d
  BY PlanAssumption DEF Date
<1>2. c[0] = 0
  <2>1. 0 \notin NewEntries(c)
    BY <1>1
  <2> QED
    BY <1>1, <2>1 DEF NewEntries
<1>3. c[d] = c[0]
  BY <1>1, SameUntilNewEntry
<1> QED
  BY <1>2, <1>3

(* The search along the list of the type. *)
LEMMA BoundFound ==
  ASSUME NEW T, Good(T), NEW t \in 2..4, NEW d \in Int
  PROVE  LET h == T.chain[t]
         IN  \/ (\A k \in 1..Len(h) : ~(T.dt[h[k]] <= d)) /\ BoundAt(T, t, d, TRUE) = 0
             \/ \E k \in 1..Len(h) : /\ T.dt[h[k]] <= d /\ BoundAt(T, t, d, TRUE) = T.val[h[k]]
                                     /\ \A j \in 1..Len(h) : T.dt[h[j]] <= d => k <= j
<1> DEFINE h == T.chain[t]
           found == {k \in DOMAIN h : T.dt[h[k]] < d \/ (TRUE /\ T.dt[h[k]] = d)}
<1>1. BoundAt(T, t, d, TRUE) = IF found = {} THEN 0 ELSE T.val[h[CHOOSE k \in found : \A j \in found : k <= j]]
  BY DEF BoundAt
<1>2. h \in Seq(Event) /\ Len(h) \in Nat /\ DOMAIN h = 1..Len(h) /\ \A k \in 1..Len(h) : h[k] \in Event
  BY NoneFirst, SeqFacts
<1>3. \A e \in Event : T.dt[e] \in Int
  BY Fields DEF Good
<1>4. found \in SUBSET Nat /\ \A k : k \in found <=> k \in 1..Len(h) /\ T.dt[h[k]] <= d
  BY <1>2, <1>3
<1> HIDE DEF found, h
<1>5. CASE found = {}
  BY <1>1, <1>4, <1>5 DEF h
<1>6. CASE found # {}
  <2>1. \E k \in found : \A j \in found : k <= j
    BY <1>4, <1>6, SmallestOf
  <2>2. PICK k \in found : BoundAt(T, t, d, TRUE) = T.val[h[k]] /\ \A j \in found : k <= j
    BY <1>1, <1>6, <2>1
  <2> QED
    BY <1>4, <2>2 DEF h
<1> QED
  BY <1>5, <1>6

Says(T, t, b, c) == \A d \in Date : BoundAt(T, t, d, TRUE) = IF c = NoCalendar THEN b ELSE c[d]

LEMMA HeldGivesBound ==
  ASSUME NEW T, Good(T), NEW t \in 3..4, NEW b, NEW c \in Calendar \union {NoCalendar}, Held(T, t, b, c)
  PROVE  Says(T, t, b, c)
<1> SUFFICES ASSUME NEW d \in Date PROVE BoundAt(T, t, d, TRUE) = IF c = NoCalendar THEN b ELSE c[d]
  BY DEF Says
<1> DEFINE h == T.chain[t]
           v == BoundAt(T, t, d, TRUE)
<1>0. d \in Int /\ 0 <= d /\ t \in 2..4
  BY PlanAssumption DEF Date
<1>1. \/ (\A k \in 1..Len(h) : ~(T.dt[h[k]] <= d)) /\ v = 0
      \/ \E k \in 1..Len(h) : /\ T.dt[h[k]] <= d /\ v = T.val[h[k]]
                              /\ \A j \in 1..Len(h) : T.dt[h[j]] <= d => k <= j
  BY <1>0, BoundFound
<1>2. Len(h) \in Nat
  BY <1>0, NoneFirst
<1>3. CASE c = NoCalendar
  <2>1. (h = <<>> /\ b = 0) \/ (Len(h) = 1 /\ T.dt[h[1]] = 0 /\ T.val[h[1]] = b)
    BY <1>3 DEF Held, FixedBound, Unset
  <2> HIDE DEF h, v
  <2>2. CASE h = <<>> /\ b = 0
    <3>1. Len(h) = 0
      BY <2>2
    <3>2. v = 0
      BY <1>1, <3>1
    <3> QED
      BY <1>3, <2>2, <3>2 DEF v
  <2>3. CASE Len(h) = 1 /\ T.dt[h[1]] = 0 /\ T.val[h[1]] = b
    <3>1. \A k \in 1..Len(h) : k = 1
      BY <2>3
    <3>2. 1 \in 1..Len(h) /\ T.dt[h[1]] <= d
      BY <1>0, <2>3
    <3>3. v = T.val[h[1]]
      BY <1>1, <3>1, <3>2
    <3> QED
      BY <1>3, <2>3, <3>3 DEF v
  <2> QED
    BY <2>1, <2>2, <2>3
<1>4. CASE c # NoCalendar
  <2>1. /\ c \in Calendar /\ LatestFirst(T, h)
        /\ \A k \in 1..Len(h) : T.dt[h[k]] \in NewEntries(c) /\ T.val[h[k]] = c[T.dt[h[k]]]
        /\ \A j \in NewEntries(c) : \E k \in 1..Len(h) : T.dt[h[k]] = j
    BY <1>4 DEF Held, Entries
  <2>2. NewEntries(c) \subseteq Date /\ Date \subseteq Int
    BY DEF NewEntries, Date
  <2> HIDE DEF h, v
  <2>3. CASE (\A k \in 1..Len(h) : ~(T.dt[h[k]] <= d)) /\ v = 0
    <3>1. \A j \in NewEntries(c) : ~(j <= d)
      BY <2>1, <2>3
    <3>2. c[d] = 0
      BY <2>1, <3>1, NoNewEntryYet
    <3> QED
      BY <1>4, <2>3, <3>2 DEF v
  <2>4. ASSUME NEW k \in 1..Len(h), T.dt[h[k]] <= d, v = T.val[h[k]],
               \A j \in 1..Len(h) : T.dt[h[j]] <= d => k <= j
        PROVE  v = c[d]
    <3> DEFINE a == T.dt[h[k]]
    <3>1. a \in NewEntries(c) /\ a \in Date /\ v = c[a] /\ a <= d
      BY <2>1, <2>2, <2>4
    <3>2. ASSUME NEW j \in NewEntries(c), a < j, j <= d PROVE FALSE
      <4>1. PICK m \in 1..Len(h) : T.dt[h[m]] = j
        BY <2>1
      <4>2. k <= m /\ j \in Int /\ a \in Int
        BY <2>2, <2>4, <3>1, <3>2, <4>1
      <4>3. k < m
        BY <1>2, <3>2, <4>1, <4>2
      <4>4. T.dt[h[m]] < T.dt[h[k]]
        BY <2>1, <4>3 DEF LatestFirst
      <4> QED
        BY <3>2, <4>1, <4>2, <4>4
    <3> HIDE DEF a
    <3>3. c[d] = c[a]
      BY <2>1, <3>1, <3>2, SameUntilNewEntry
    <3> QED
      BY <3>1, <3>3
  <2>5. v = c[d]
    BY <1>1, <2>1, <2>3, <2>4, <1>4 DEF v
  <2> QED
    BY <1>4, <2>5 DEF v
<1> QED
  BY <1>3, <1>4

LEMMA InvGivesBounds == PlanInv => BoundsFollowCalendar
<1> SUFFICES ASSUME PlanInv, owner = "buffer", NEW t \in Bound \ stale PROVE Follows(t)
  BY DEF BoundsFollowCalendar
<1>1. Good(tl) /\ BoundHeld(t) /\ calendar \in [2..4 -> Calendar \union {NoCalendar}]
  BY DEF PlanInv, PlanTypes, BoundsHeld
<1>2. t \in 3..4 /\ t \in 2..4
  BY DEF Bound
<1>3. asked[t] = calendar[t] /\ Held(tl, t, bound[t], calendar[t]) /\ calendar[t] \in Calendar \union {NoCalendar}
  BY <1>1, <1>2 DEF BoundHeld
<1>4. Says(tl, t, bound[t], calendar[t])
  BY <1>1, <1>2, <1>3, HeldGivesBound
<1>5. Says(tl, t, bound[t], asked[t])
  BY <1>3, <1>4
<1> QED
  BY <1>5 DEF Says, Follows

-----------------------------------------------------------------------------
(* The stock at the end of a date is what the flowplans until then add up  *)
(* to, so that a walk that removes some of it knows what the dates lose.   *)
LEMMA TotalSame ==
  ASSUME NEW S, IsFiniteSet(S), NEW f, NEW g, \A x \in S : f[x] \in Int /\ g[x] = f[x]
  PROVE  Total(f, S) = Total(g, S)
<1> DEFINE Bad == {n \in Nat : \E R \in SUBSET S : Cardinality(R) = n /\ Total(f, R) # Total(g, R)}
<1>1. \A R \in SUBSET S : IsFiniteSet(R) /\ Cardinality(R) \in Nat
  BY FS_Subset, FS_CardinalityType
<1>2. ASSUME Bad # {} PROVE FALSE
  <2>1. PICK m \in Bad : \A k \in Bad : m <= k
    <3>1. Bad \in SUBSET Nat
      OBVIOUS
    <3> HIDE DEF Bad
    <3> QED
      BY <1>2, <3>1, SmallestOf
  <2>2. m \in Nat
    OBVIOUS
  <2>3. PICK R \in SUBSET S : Cardinality(R) = m /\ Total(f, R) # Total(g, R)
    OBVIOUS
  <2>4. IsFiniteSet(R) /\ \A x \in R : f[x] \in Int /\ g[x] \in Int /\ g[x] = f[x]
    BY <1>1
  <2>5. R # {}
    BY <2>3, <2>4, TotalAdd
  <2>6. PICK x \in R : TRUE
    BY <2>5
  <2> DEFINE Q == R \ {x}
  <2>7. Q \in SUBSET S /\ Cardinality(Q) = m - 1 /\ Cardinality(Q) \in Nat
    <3>1. Cardinality(Q) = Cardinality(R) - 1
      BY <2>4, <2>6, FS_RemoveElement
    <3> QED
      BY <1>1, <2>3, <3>1
  <2>8. Total(f, Q) = Total(g, Q)
    <3>1. Cardinality(Q) \notin Bad
      BY <2>1, <2>2, <2>7
    <3> QED
      BY <2>7, <3>1
  <2>9. Total(f, R) = f[x] + Total(f, Q) /\ Total(g, R) = g[x] + Total(g, Q)
    <3> HIDE DEF Bad
    <3> QED
      BY <2>4, <2>6, TotalAdd
  <2> QED
    BY <2>3, <2>4, <2>6, <2>8, <2>9
<1>3. Cardinality(S) \in Nat /\ S \in SUBSET S
  BY <1>1
<1> QED
  BY <1>2, <1>3

(* The places until the end of a date, the flowplans until then, what is   *)
(* on hand after them.                                                     *)
PlacesBy(T, d) == {k \in DOMAIN T.line : T.dt[T.line[k]] <= d}
By(T, d) == {x \in ToSet(T.line) \intersect Change : T.dt[x] <= d}
Level(T, d) == IF PlacesBy(T, d) = {} THEN 0 ELSE T.oh[T.line[Max(PlacesBy(T, d))]]

LEMMA StockIs == \A d \in Date : Stock[d] = Level(tl, d) - BoundAt(tl, 3, d, TRUE)
BY DEF Stock, Level, PlacesBy

LEMMA LastPlaceBy ==
  ASSUME NEW T, Good(T), NEW d \in Int, PlacesBy(T, d) # {}
  PROVE  LET i == Max(PlacesBy(T, d))
         IN  /\ i \in 1..Len(T.line)
             /\ \A k \in 1..Len(T.line) : T.dt[T.line[k]] <= d <=> k <= i
<1> DEFINE s == T.line
           M == PlacesBy(T, d)
           i == Max(M)
<1>1. /\ s \in Seq(Event) /\ Len(s) \in Nat /\ InOrder(T, s) /\ DOMAIN s = 1..Len(s)
      /\ \A k \in 1..Len(s) : s[k] \in Event /\ T.dt[s[k]] \in Int
  BY Fields, SeqFacts DEF Good
<1>2. M \in SUBSET (1..Len(s)) /\ \A k : k \in M <=> k \in 1..Len(s) /\ T.dt[s[k]] <= d
  BY <1>1 DEF PlacesBy
<1> HIDE DEF M, s
<1>3. i \in M /\ \A k \in M : k <= i
  BY <1>1, <1>2, GreatestOf DEF M
<1> HIDE DEF i
<1>4. \A k \in 1..Len(s) : k < i => T.dt[s[k]] <= T.dt[s[i]]
  BY <1>1, <1>2, <1>3 DEF InOrder, Before
<1>5. ASSUME NEW k \in 1..Len(s) PROVE T.dt[s[k]] <= d <=> k <= i
  <2>1. i \in 1..Len(s) /\ T.dt[s[i]] <= d /\ T.dt[s[i]] \in Int /\ T.dt[s[k]] \in Int
    BY <1>1, <1>2, <1>3
  <2>2. k <= i => k < i \/ k = i
    BY <1>1, <2>1
  <2>3. k <= i => T.dt[s[k]] <= d
    BY <1>4, <2>1, <2>2
  <2> QED
    BY <1>2, <1>3, <2>3
<1> QED
  BY <1>2, <1>3, <1>5 DEF i, M, s

LEMMA LevelIs ==
  ASSUME NEW T, Good(T), ~SetSeen(T), NEW d \in Int
  PROVE  /\ Level(T, d) = Total(T.qty, By(T, d))
         /\ IsFiniteSet(By(T, d)) /\ \A x \in By(T, d) : T.qty[x] \in Int
<1> DEFINE s == T.line
           M == PlacesBy(T, d)
           i == Max(M)
<1>1. /\ s \in Seq(Event) /\ Len(s) \in Nat /\ Distinct(s) /\ DOMAIN s = 1..Len(s)
      /\ \A k \in 1..Len(s) : s[k] \in Event
      /\ \A x : x \in ToSet(s) <=> \E k \in 1..Len(s) : s[k] = x
      /\ \A x \in Event : T.qty[x] \in Int
  BY Fields, SeqFacts, OrderIsDistinct DEF Good
<1>2. By(T, d) \subseteq ToSet(s) /\ By(T, d) \subseteq Event
  BY <1>1 DEF By
<1>3. IsFiniteSet(By(T, d)) /\ \A x \in By(T, d) : T.qty[x] \in Int
  <2>1. Upto(s, Len(s)) = ToSet(s)
    BY <1>1 DEF Upto
  <2>2. Len(s) \in 0..Len(s)
    BY <1>1
  <2>3. IsFiniteSet(ToSet(s))
    BY <1>1, <2>1, <2>2, UptoFacts
  <2> QED
    BY <1>1, <1>2, <2>3, FS_Subset
<1>4. CASE M = {}
  <2>1. Level(T, d) = 0
    BY <1>4 DEF Level
  <2>2. By(T, d) = {}
    BY <1>1, <1>4 DEF By, PlacesBy
  <2>3. Total(T.qty, By(T, d)) = 0
    BY <1>3, <2>2, TotalAdd
  <2> QED
    BY <1>3, <2>1, <2>3
<1>5. CASE M # {}
  <2>1. i \in 1..Len(s) /\ \A k \in 1..Len(s) : T.dt[s[k]] <= d <=> k <= i
    BY <1>5, LastPlaceBy
  <2>2. Level(T, d) = T.oh[s[i]]
    BY <1>5 DEF Level
  <2>3. T.oh[s[i]] = Total(T.val, SetLast(T, Upto(s, i))) + Total(T.qty, Thereafter(T, Upto(s, i)))
    BY <2>1, OnhandSum
  <2> HIDE DEF i, M
  <2>4. \A x : x \in Upto(s, i) <=> x \in ToSet(s) /\ T.dt[x] <= d
    <3> HIDE DEF s
    <3>1. \A k : k \in 1..i <=> k \in 1..Len(s) /\ T.dt[s[k]] <= d
      BY <1>1, <2>1
    <3> QED
      BY <1>1, <3>1 DEF Upto
  <2>5. SetLast(T, Upto(s, i)) = {}
    BY <2>4 DEF SetLast, SetSeen
  <2>6. \A x : x \in Thereafter(T, Upto(s, i)) <=> x \in By(T, d)
    BY <2>4, <2>5 DEF Thereafter, By
  <2>7. Thereafter(T, Upto(s, i)) = By(T, d)
    BY <2>6
  <2>8. Total(T.val, {}) = 0
    BY FS_EmptySet, TotalAdd
  <2>9. Total(T.qty, By(T, d)) \in Int
    BY <1>3, TotalAdd
  <2> QED
    BY <1>3, <2>2, <2>3, <2>5, <2>7, <2>8, <2>9
<1> QED
  BY <1>4, <1>5

(* Minima: the search before a date, the same search in another timeline.  *)
Newest(T, h, F) == IF F = {} THEN 0 ELSE T.val[h[CHOOSE k \in F : \A j \in F : k <= j]]

LEMMA BoundBefore ==
  ASSUME NEW T, Good(T), NEW t \in 2..4, NEW d \in Int
  PROVE  BoundAt(T, t, d, FALSE) = BoundAt(T, t, d - 1, TRUE)
<1> DEFINE h == T.chain[t]
           found == {k \in DOMAIN h : T.dt[h[k]] < d \/ (FALSE /\ T.dt[h[k]] = d)}
           other == {k \in DOMAIN h : T.dt[h[k]] < d - 1 \/ (TRUE /\ T.dt[h[k]] = d - 1)}
<1>1. BoundAt(T, t, d, FALSE) = Newest(T, h, found) /\ BoundAt(T, t, d - 1, TRUE) = Newest(T, h, other)
  BY DEF BoundAt, Newest
<1>2. \A k \in DOMAIN h : T.dt[h[k]] \in Int
  <2>1. h \in Seq(Event) /\ DOMAIN h = 1..Len(h) /\ \A k \in 1..Len(h) : h[k] \in Event
    BY NoneFirst, SeqFacts
  <2>2. \A x \in Event : T.dt[x] \in Int
    BY Fields DEF Good
  <2> QED
    BY <2>1, <2>2
<1>3. \A k \in DOMAIN h : T.dt[h[k]] < d <=> T.dt[h[k]] < d - 1 \/ T.dt[h[k]] = d - 1
  BY <1>2
<1>4. found = other
  BY <1>3
<1> HIDE DEF found, other, h
<1> QED
  BY <1>1, <1>4

LEMMA SameSearch ==
  ASSUME NEW T, Good(T), NEW t \in 2..4, NEW a \in Int, NEW d \in Int,
         \A x \in ToSet(T.line) : Type(x) = t => (T.dt[x] <= a <=> T.dt[x] <= d)
  PROVE  BoundAt(T, t, a, TRUE) = BoundAt(T, t, d, TRUE)
<1> DEFINE h == T.chain[t]
           found == {k \in DOMAIN h : T.dt[h[k]] < a \/ (TRUE /\ T.dt[h[k]] = a)}
           other == {k \in DOMAIN h : T.dt[h[k]] < d \/ (TRUE /\ T.dt[h[k]] = d)}
<1>1. BoundAt(T, t, a, TRUE) = Newest(T, h, found) /\ BoundAt(T, t, d, TRUE) = Newest(T, h, other)
  BY DEF BoundAt, Newest
<1>2. \A k \in DOMAIN h : T.dt[h[k]] \in Int /\ (T.dt[h[k]] <= a <=> T.dt[h[k]] <= d)
  <2>1. /\ h \in Seq(Event) /\ DOMAIN h = 1..Len(h) /\ \A k \in 1..Len(h) : h[k] \in Event /\ h[k] \in ToSet(h)
        /\ \A x \in Event : x \in ToSet(h) <=> x \in ToSet(T.line) /\ Type(x) = t
    BY NoneFirst, SeqFacts
  <2>2. \A x \in Event : T.dt[x] \in Int
    BY Fields DEF Good
  <2> HIDE DEF h
  <2> QED
    BY <2>1, <2>2
<1>3. found = other
  BY <1>2
<1> HIDE DEF found, other, h
<1> QED
  BY <1>1, <1>3

LEMMA BoundKept ==
  ASSUME NEW T, Good(T), NEW U, SameFixed(T, U), NEW t \in 2..4, NEW d
  PROVE  BoundAt(U, t, d, TRUE) = BoundAt(T, t, d, TRUE)
<1> DEFINE h == T.chain[t]
           found == {k \in DOMAIN h : T.dt[h[k]] < d \/ (TRUE /\ T.dt[h[k]] = d)}
           other == {k \in DOMAIN h : U.dt[h[k]] < d \/ (TRUE /\ U.dt[h[k]] = d)}
           least == CHOOSE k \in found : \A j \in found : k <= j
<1>1. U.chain[t] = h
  BY DEF SameFixed
<1>2. BoundAt(T, t, d, TRUE) = Newest(T, h, found) /\ BoundAt(U, t, d, TRUE) = Newest(U, h, other)
  BY <1>1 DEF BoundAt, Newest
<1>3. /\ DOMAIN h \in SUBSET Nat
      /\ \A k \in DOMAIN h : U.dt[h[k]] = T.dt[h[k]] /\ U.val[h[k]] = T.val[h[k]]
  <2>1. /\ h \in Seq(Event) /\ DOMAIN h = 1..Len(h) /\ \A k \in 1..Len(h) : h[k] \in Event /\ h[k] \in ToSet(h)
        /\ \A x \in Event : x \in ToSet(h) <=> x \in ToSet(T.line) /\ Type(x) = t
    BY NoneFirst, SeqFacts
  <2> HIDE DEF h
  <2>2. \A k \in DOMAIN h : h[k] \in Fixed
    BY <2>1, Types
  <2>3. DOMAIN h \in SUBSET Nat
    BY <2>1
  <2> QED
    BY <2>2, <2>3 DEF SameFixed
<1>4. found = other /\ found \in SUBSET Nat /\ found \subseteq DOMAIN h
  BY <1>3
<1> HIDE DEF found, other, h
<1>5. Newest(U, h, found) = Newest(T, h, found)
  <2>1. CASE found = {}
    BY <2>1 DEF Newest
  <2>2. CASE found # {}
    <3>1. \E k \in found : \A j \in found : k <= j
      BY <1>4, <2>2, SmallestOf
    <3>2. least \in found
      BY <3>1
    <3>3. Newest(U, h, found) = U.val[h[least]] /\ Newest(T, h, found) = T.val[h[least]]
      BY <2>2 DEF Newest
    <3> HIDE DEF least
    <3> QED
      BY <1>3, <1>4, <3>2, <3>3
  <2> QED
    BY <2>1, <2>2
<1> QED
  BY <1>2, <1>4, <1>5

(* From a producer on, the minimum that getExcess() takes at a place is    *)
(* the one that is valid at the end of the date.                           *)
LEMMA MinimumSeen ==
  ASSUME NEW T, Good(T), LatestFirst(T, T.chain[3]), NEW e \in Change, e \in ToSet(T.line), T.qty[e] > 0,
         NEW d \in Int, T.dt[e] <= d
  PROVE  LET p == Place(T.line, e)
             i == Max(PlacesBy(T, d))
         IN  /\ PlacesBy(T, d) # {} /\ i \in p..Len(T.line)
             /\ LeastMin(T, e, p, i) = BoundAt(T, 3, d, TRUE)
<1> DEFINE s == T.line
           h == T.chain[3]
           p == Place(s, e)
           i == Max(PlacesBy(T, d))
           M == MinPlaces(T, p, i)
<1>1. /\ s \in Seq(Event) /\ Len(s) \in Nat /\ Distinct(s) /\ InOrder(T, s) /\ DOMAIN s = 1..Len(s)
      /\ \A k \in 1..Len(s) : s[k] \in Event
      /\ \A x : x \in ToSet(s) <=> \E k \in 1..Len(s) : s[k] = x
      /\ \A x \in Event : T.dt[x] \in Int /\ T.qty[x] \in Int /\ (x \in Fixed => T.qty[x] = 0)
  BY Fields, SeqFacts, OrderIsDistinct DEF Good, NoWeight
<1>2. p \in 1..Len(s) /\ s[p] = e /\ e \in Event
  BY <1>1, PlaceIn DEF Event
<1>3. PlacesBy(T, d) # {}
  <2>1. p \in PlacesBy(T, d)
    BY <1>1, <1>2 DEF PlacesBy
  <2> QED
    BY <2>1
<1>4. /\ i \in 1..Len(s) /\ \A k \in 1..Len(s) : T.dt[s[k]] <= d <=> k <= i
  BY <1>3, LastPlaceBy
<1>5. /\ h \in Seq(Event) /\ Len(h) \in Nat /\ \A k \in 1..Len(h) : h[k] \in Event
      /\ \A x \in Event : (\E k \in 1..Len(h) : h[k] = x) <=> x \in ToSet(s) /\ Type(x) = 3
  <2>1. 3 \in 2..4
    OBVIOUS
  <2>2. h \in Seq(Event) /\ Len(h) \in Nat /\ \A x \in Event : x \in ToSet(h) <=> x \in ToSet(s) /\ Type(x) = 3
    BY <2>1, NoneFirst
  <2> HIDE DEF h
  <2> QED
    BY <2>2, SeqFacts
<1>6. \A x \in Event : (Type(x) = 3 <=> x \in MinEvent) /\ (x \in MinEvent => x \in Fixed)
  BY EventAssumption DEF Type, Event, Fixed
<1>7. M = {j \in p..i : s[j] \in MinEvent} /\ MinPlaces(T, p, i) = M
  BY DEF MinPlaces
<1>8. LeastMin(T, e, p, i) = IF M = {} THEN BoundAt(T, 3, T.dt[e], FALSE) ELSE T.val[s[Max(M)]]
  BY DEF LeastMin
<1> HIDE DEF p, i, M, h, s
<1>9. i \in p..Len(s)
  BY <1>2, <1>4
<1>10. CASE M = {}
  <2>1. ASSUME NEW x \in ToSet(s), Type(x) = 3 PROVE T.dt[x] <= T.dt[e] - 1 <=> T.dt[x] <= d
    <3>1. PICK j \in 1..Len(s) : s[j] = x
      BY <1>1
    <3>2. x \in Event /\ x \in MinEvent /\ T.dt[x] \in Int /\ T.dt[e] \in Int /\ T.qty[x] = 0 /\ T.qty[e] > 0
          /\ T.qty[e] \in Int
      BY <1>1, <1>2, <1>6, <2>1, <3>1
    <3>3. ASSUME T.dt[x] <= d PROVE T.dt[x] <= T.dt[e] - 1
      <4>1. j <= i
        BY <1>4, <3>1, <3>3
      <4>2. j \notin p..i
        BY <1>7, <1>10, <3>1, <3>2
      <4>3. j < p
        BY <1>2, <1>4, <4>1, <4>2
      <4>4. Before(T, x, e)
        BY <1>1, <1>2, <3>1, <4>3 DEF InOrder
      <4> QED
        BY <3>2, <4>4 DEF Before
    <3> QED
      BY <3>2, <3>3
  <2>2. T.dt[e] \in Int /\ T.dt[e] - 1 \in Int /\ 3 \in 2..4
    BY <1>1, <1>2
  <2>3. BoundAt(T, 3, T.dt[e], FALSE) = BoundAt(T, 3, T.dt[e] - 1, TRUE)
    BY <2>2, BoundBefore
  <2>4. BoundAt(T, 3, T.dt[e] - 1, TRUE) = BoundAt(T, 3, d, TRUE)
    BY <2>1, <2>2, SameSearch DEF s
  <2>5. LeastMin(T, e, p, i) = BoundAt(T, 3, d, TRUE)
    BY <1>8, <1>10, <2>3, <2>4
  <2> QED
    BY <1>3, <1>9, <2>5 DEF p, i, s
<1>11. CASE M # {}
  <2> DEFINE m == Max(M)
             y == s[m]
  <2>1. m \in M /\ \A k \in M : k <= m
    <3>1. M \in SUBSET (1..Len(s))
      BY <1>2, <1>4, <1>7
    <3> QED
      BY <1>1, <1>11, <3>1, GreatestOf
  <2> HIDE DEF m
  <2>2. m \in p..i /\ m \in 1..Len(s) /\ y \in MinEvent /\ y \in Event /\ y \in ToSet(s) /\ T.dt[y] <= d
    <3>1. m \in p..i /\ s[m] \in MinEvent
      BY <1>7, <2>1
    <3>2. m \in 1..Len(s) /\ m <= i
      BY <1>2, <1>4, <3>1
    <3> QED
      BY <1>1, <1>4, <3>1, <3>2
  <2> HIDE DEF y
  <2>3. PICK j \in 1..Len(h) : h[j] = y
    BY <1>5, <1>6, <2>2
  <2>4. PICK k \in 1..Len(h) : /\ T.dt[h[k]] <= d /\ BoundAt(T, 3, d, TRUE) = T.val[h[k]]
                              /\ \A r \in 1..Len(h) : T.dt[h[r]] <= d => k <= r
    <3>1. 3 \in 2..4
      OBVIOUS
    <3>2. \/ (\A r \in 1..Len(h) : ~(T.dt[h[r]] <= d)) /\ BoundAt(T, 3, d, TRUE) = 0
          \/ \E r \in 1..Len(h) : /\ T.dt[h[r]] <= d /\ BoundAt(T, 3, d, TRUE) = T.val[h[r]]
                                  /\ \A q \in 1..Len(h) : T.dt[h[q]] <= d => r <= q
      BY <3>1, BoundFound DEF h
    <3> QED
      BY <2>2, <2>3, <3>2
  <2>5. ASSUME k < j PROVE FALSE
    <3> DEFINE x == h[k]
    <3>1. T.dt[y] < T.dt[x]
      BY <2>3, <2>5 DEF LatestFirst, h
    <3>2. x \in Event /\ x \in ToSet(s) /\ x \in MinEvent
      BY <1>5, <1>6
    <3>3. PICK r \in 1..Len(s) : s[r] = x
      BY <1>1, <3>2
    <3>4. r <= i
      BY <1>4, <2>4, <3>3
    <3>5. m < r
      <4>1. CASE r < m
        <5>1. Before(T, x, y)
          BY <1>1, <2>2, <3>3, <4>1 DEF InOrder, y
        <5> QED
          BY <1>1, <2>2, <3>1, <3>2, <5>1 DEF Before
      <4>2. r # m
        BY <1>1, <2>2, <3>1, <3>2, <3>3 DEF y
      <4> QED
        BY <2>2, <4>1, <4>2
    <3>6. r \in M
      BY <1>2, <1>4, <1>7, <2>2, <3>2, <3>3, <3>4, <3>5
    <3> QED
      BY <2>1, <2>2, <3>5, <3>6
  <2>6. k = j
    BY <1>5, <2>2, <2>3, <2>4, <2>5
  <2>7. LeastMin(T, e, p, i) = T.val[y]
    BY <1>8, <1>11 DEF y, m
  <2>8. LeastMin(T, e, p, i) = BoundAt(T, 3, d, TRUE)
    BY <2>3, <2>4, <2>6, <2>7
  <2> QED
    BY <1>3, <1>9, <2>8 DEF p, i, s
<1> QED
  BY <1>10, <1>11

LEMMA MinimaOrdered ==
  ASSUME PlanInv, owner = "buffer", Sound
  PROVE  LatestFirst(tl, tl.chain[3])
<1> DEFINE h == tl.chain[3]
<1>1. Good(tl) /\ BoundsHeld /\ 3 \in 2..4
  BY DEF PlanInv
<1>2. Len(h) \in Nat /\ (h = <<>> <=> \A x \in ToSet(tl.line) : Type(x) # 3)
  BY <1>1, NoneFirst
<1>3. CASE 3 \in Bound
  <2>1. Held(tl, 3, bound[3], calendar[3])
    BY <1>1, <1>3 DEF BoundsHeld, BoundHeld, Sound
  <2>2. LatestFirst(tl, h) \/ h = <<>> \/ Len(h) = 1
    BY <2>1 DEF Held, FixedBound, Entries
  <2> HIDE DEF h
  <2>3. h = <<>> \/ Len(h) = 1 => \A i, j \in 1..Len(h) : ~(i < j)
    <3>1. h = <<>> => Len(h) = 0
      OBVIOUS
    <3> QED
      BY <3>1
  <2>4. LatestFirst(tl, h)
    BY <2>2, <2>3 DEF LatestFirst
  <2> QED
    BY <2>4 DEF h
<1>4. CASE 3 \notin Bound
  <2>1. OfType(3) = {}
    BY <1>4 DEF Bound
  <2>2. \A x \in ToSet(tl.line) : x \in Event
    BY <1>1, Fields, SeqFacts DEF Good
  <2>3. \A x \in ToSet(tl.line) : Type(x) # 3
    BY <2>1, <2>2, Types DEF OfType
  <2>4. h = <<>>
    BY <1>2, <2>3
  <2> HIDE DEF h
  <2>5. Len(h) = 0
    BY <2>4
  <2>6. LatestFirst(tl, h)
    BY <2>5 DEF LatestFirst
  <2> QED
    BY <2>6 DEF h
<1> QED
  BY <1>3, <1>4

LEMMA LevelChanges ==
  ASSUME NEW T, Good(T), ~SetSeen(T), NEW U, Good(U), ~SetSeen(U), NEW e \in Change, e \in ToSet(T.line),
         SameBut(T.dt, U.dt, e), SameBut(T.qty, U.qty, e), NEW newqty \in Int,
         \/ newqty = 0 /\ \A x : x \in ToSet(U.line) <=> x \in ToSet(T.line) /\ x # e
         \/ newqty = U.qty[e] /\ U.dt[e] = T.dt[e] /\ \A x : x \in ToSet(U.line) <=> x \in ToSet(T.line),
         NEW d \in Int
  PROVE  /\ Level(T, d) \in Int /\ T.qty[e] \in Int
         /\ Level(U, d) = IF T.dt[e] <= d THEN Level(T, d) - T.qty[e] + newqty ELSE Level(T, d)
<1> DEFINE A == By(T, d)
           B == By(U, d)
           R == A \ {e}
           f == T.qty
           g == U.qty
<1>1. /\ Level(T, d) = Total(f, A) /\ IsFiniteSet(A) /\ (\A x \in A : f[x] \in Int)
      /\ Level(U, d) = Total(g, B) /\ IsFiniteSet(B) /\ (\A x \in B : g[x] \in Int)
  BY LevelIs
<1>2. /\ e \in A <=> T.dt[e] <= d
      /\ A \subseteq Change /\ f[e] \in Int
      /\ R \subseteq B /\ B \subseteq R \union {e}
      /\ e \in B => e \in A /\ newqty = g[e]
      /\ e \in A /\ e \notin B => newqty = 0
  <2>1. e \in Event /\ \A x \in Change : x \in Event
    BY DEF Event
  <2>2. \A x \in Change : x # e => U.dt[x] = T.dt[x]
    BY <2>1 DEF SameBut
  <2>3. f[e] \in Int
    BY <2>1, Fields DEF Good
  <2>4. A \subseteq Change /\ (e \in A <=> T.dt[e] <= d)
    BY DEF By
  <2>5. R \subseteq B /\ B \subseteq R \union {e}
    BY <2>2 DEF By
  <2>6. e \in B => e \in A /\ newqty = g[e]
    BY DEF By
  <2>7. e \in A /\ e \notin B => newqty = 0
    BY DEF By
  <2> QED
    BY <2>3, <2>4, <2>5, <2>6, <2>7
<1>3. \A x \in R : f[x] \in Int /\ g[x] = f[x]
  <2>1. \A x \in R : x \in Event /\ x # e /\ x \in A
    BY <1>2 DEF Event
  <2> HIDE DEF A, R
  <2> QED
    BY <1>1, <2>1 DEF SameBut
<1>4. IsFiniteSet(R) /\ Total(f, R) = Total(g, R) /\ Total(f, R) \in Int
  <2>1. IsFiniteSet(R)
    BY <1>1, FS_Subset
  <2> HIDE DEF R
  <2> QED
    BY <1>3, <2>1, TotalSame, TotalAdd
<1>5. /\ e \in A => Total(f, A) = f[e] + Total(f, R)
      /\ e \notin A => A = R
      /\ e \in B => Total(g, B) = g[e] + Total(g, R)
      /\ e \notin B => B = R
  <2>1. e \in B => B \ {e} = R
    BY <1>2
  <2>2. e \in A => Total(f, A) = f[e] + Total(f, A \ {e})
    <3> HIDE DEF A
    <3> QED
      BY <1>1, TotalAdd
  <2>3. e \in B => Total(g, B) = g[e] + Total(g, B \ {e})
    <3> HIDE DEF B
    <3> QED
      BY <1>1, TotalAdd
  <2>4. e \notin A => A = R
    OBVIOUS
  <2>5. e \notin B => B = R
    BY <1>2
  <2> QED
    BY <2>1, <2>2, <2>3, <2>4, <2>5
<1>6. Total(f, A) \in Int
  <2> HIDE DEF A
  <2> QED
    BY <1>1, TotalAdd
<1> DEFINE tf == Total(f, R)
           tg == Total(g, R)
           ta == Total(f, A)
           tb == Total(g, B)
           qe == f[e]
<1>7. /\ ta \in Int /\ tf \in Int /\ tg = tf /\ qe \in Int
      /\ e \in A => ta = qe + tf
      /\ e \notin A => ta = tf
      /\ e \in B => tb = newqty + tg
      /\ e \notin B => tb = tg
  BY <1>2, <1>4, <1>5, <1>6
<1> HIDE DEF tf, tg, ta, tb, qe, A, B, R
<1>8. tb = IF e \in A THEN ta - qe + newqty ELSE ta
  BY <1>2, <1>7
<1>9. Level(T, d) = ta /\ Level(U, d) = tb /\ qe = T.qty[e]
  BY <1>1 DEF ta, tb, qe
<1> QED
  BY <1>2, <1>7, <1>8, <1>9

(* A producer that loses no more than its excess creates no shortage.      *)
LEMMA RemovalLeavesEnough ==
  ASSUME PlanInv, owner = "buffer", Sound, NEW e \in Change, e \in ToSet(tl.line), tl.qty[e] > 0, GetExcess(e) > 0,
         Good(tl'), ~SetSeen(tl'), SameFixed(tl, tl'), SameBut(tl.dt, tl'.dt, e), SameBut(tl.qty, tl'.qty, e),
         NEW newqty \in Int, tl.qty[e] - newqty <= GetExcess(e),
         \/ newqty = 0 /\ \A x : x \in ToSet(tl'.line) <=> x \in ToSet(tl.line) /\ x # e
         \/ newqty = tl'.qty[e] /\ tl'.dt[e] = tl.dt[e] /\ \A x : x \in ToSet(tl'.line) <=> x \in ToSet(tl.line),
         NEW d \in Date
  PROVE  Stock'[d] >= 0 \/ Stock'[d] = Stock[d]
<1> DEFINE p == Place(tl.line, e)
           i == Max(PlacesBy(tl, d))
           L == Level(tl, d)
           K == Level(tl', d)
           b == BoundAt(tl, 3, d, TRUE)
           x == GetExcess(e)
<1>1. Good(tl) /\ ~SetSeen(tl) /\ d \in Int /\ 3 \in 2..4
  BY DEF PlanInv, OwnerLine, Date
<1>2. Stock[d] = L - b
  BY StockIs
<1>3. Stock'[d] = K - BoundAt(tl', 3, d, TRUE)
  BY DEF Stock, Level, PlacesBy
<1>4. BoundAt(tl', 3, d, TRUE) = b /\ b \in Int
  BY <1>1, BoundKept, BoundAtType
<1>5. /\ L \in Int /\ tl.qty[e] \in Int
      /\ K = IF tl.dt[e] <= d THEN L - tl.qty[e] + newqty ELSE L
  BY <1>1, LevelChanges
<1>6. ASSUME tl.dt[e] <= d PROVE x \in Int /\ x <= L - b
  <2>1. LatestFirst(tl, tl.chain[3])
    BY MinimaOrdered
  <2>2. PlacesBy(tl, d) # {} /\ i \in p..Len(tl.line) /\ LeastMin(tl, e, p, i) = b
    BY <1>1, <1>6, <2>1, MinimumSeen
  <2>3. L = tl.oh[tl.line[i]]
    BY <2>2 DEF Level
  <2>4. x \in Int /\ \A k \in p..Len(tl.line) : x <= tl.oh[tl.line[k]] - LeastMin(tl, e, p, k)
    BY <1>1, ExcessIs
  <2> HIDE DEF i, p, L, b, x
  <2>5. x <= tl.oh[tl.line[i]] - LeastMin(tl, e, p, i)
    BY <2>2, <2>4
  <2> QED
    BY <2>2, <2>3, <2>4, <2>5
<1> HIDE DEF K, L, b, x, i, p
<1>7. CASE tl.dt[e] <= d
  <2>1. K - b >= 0
    <3>1. x \in Int /\ x <= L - b /\ tl.qty[e] - newqty <= x /\ K = L - tl.qty[e] + newqty
      BY <1>5, <1>6, <1>7 DEF x
    <3> QED
      BY <1>4, <1>5, <3>1
  <2> QED
    BY <1>3, <1>4, <2>1
<1>8. CASE ~(tl.dt[e] <= d)
  BY <1>2, <1>3, <1>4, <1>5, <1>8
<1> QED
  BY <1>7, <1>8

LEMMA SweepKeepsStock ==
  ASSUME SweepInv, BucketsFirst = TRUE, OpenEnd = FALSE, NoNewShortage, SweepNext
  PROVE  NoNewShortage'
<1> DEFINE e == fiter
<1>1. PlanInv /\ Good(tl) /\ OwnerLine(owner, tl)
  BY DEF SweepInv, PlanInv
<1>2. CASE Begin
  <2>1. before' = Stock /\ tl' = tl
    BY <1>2 DEF Begin, vars
  <2>2. Stock' = Stock
    BY <2>1 DEF Stock
  <2> QED
    BY <2>1, <2>2 DEF NoNewShortage
<1>3. CASE Skip
  <2>1. before' = before /\ tl' = tl /\ sweeping' = sweeping /\ stale' = stale /\ operation' = operation
    BY <1>3 DEF Skip, vars
  <2>2. Stock' = Stock
    BY <2>1 DEF Stock
  <2> QED
    BY <2>1, <2>2 DEF NoNewShortage, Sound
<1>4. CASE Return
  BY <1>4 DEF Return, NoNewShortage
<1>5. CASE PlanChanges
  BY <1>5 DEF PlanChanges, sweep, NoNewShortage
<1>6. CASE DeleteExcess \/ ResizeExcess
  <2>1. /\ sweeping /\ e # End /\ tl.qty[e] > 0 /\ e \in Change /\ GetExcess(e) > 0
        /\ sweeping' = sweeping /\ before' = before /\ owner' = owner /\ stale' = stale
        /\ operation' = operation
    BY <1>6 DEF DeleteExcess, ResizeExcess, Continues, Candidate, user
  <2>2. owner = "buffer" /\ e \in ToSet(tl.line) /\ ~SetSeen(tl)
    BY <1>1, <2>1 DEF SweepInv, OwnerLine
  <2>3. tl.qty[e] \in Int /\ tl.dt[e] \in Date /\ GetExcess(e) \in Int
    <3>1. tl.qty \in [Event -> Int] /\ tl.dt \in [Event -> Date] /\ e \in Event
      BY <1>1, <2>1, Fields DEF Good, Event
    <3> QED
      BY <1>1, <2>2, <3>1, ExcessIs
  <2>4. SUFFICES ASSUME Sound, \A y \in Change : operation[y].made >= operation[y].lot, NEW d \in Date
                 PROVE Stock'[d] >= 0 \/ Stock'[d] = before[d]
    BY <2>1 DEF NoNewShortage, Sound
  <2>5. Stock[d] >= 0 \/ Stock[d] = before[d]
    BY <2>1, <2>4 DEF NoNewShortage
  <2>6. CASE DeleteExcess
    <3>1. tl' = Erase(tl, e) /\ GetExcess(e) >= tl.qty[e]
      BY <2>6 DEF DeleteExcess
    <3> HIDE DEF e
    <3>2. /\ Good(tl') /\ OwnerLine(owner, tl') /\ SameFixed(tl, tl')
          /\ \A x : x \in ToSet(tl'.line) <=> x \in ToSet(tl.line) /\ x # e
          /\ SameBut(tl.dt, tl'.dt, e) /\ SameBut(tl.qty, tl'.qty, e)
      BY <1>1, <2>1, <2>2, <3>1, DeleteGood
    <3>3. ~SetSeen(tl')
      BY <2>2, <3>2 DEF OwnerLine
    <3>4. 0 \in Int /\ tl.qty[e] - 0 <= GetExcess(e)
      BY <2>3, <3>1
    <3>5. Stock'[d] >= 0 \/ Stock'[d] = Stock[d]
      BY <1>1, <2>1, <2>2, <2>4, <3>2, <3>3, <3>4, RemovalLeavesEnough
    <3> QED
      BY <2>5, <3>5
  <2>7. CASE ResizeExcess
    <3> DEFINE q == Resized(e)
               a == tl.dt[e]
    <3>1. tl' = Update(tl, e, q, a)
      BY <2>7 DEF ResizeExcess
    <3>2. q \in Int /\ tl.qty[e] - q <= GetExcess(e) /\ a \in Date
      <4>1. e \in plans
        BY <1>1, <2>1, <2>2 DEF PlansInLine, PlanInv
      <4>2. /\ Smaller(e) \in Int /\ q \in Int /\ tl.qty[e] - Smaller(e) <= GetExcess(e)
            /\ operation[e].made >= operation[e].lot => Smaller(e) <= q
        BY <2>1, <2>3, <4>1, SmallerIs
      <4>3. Smaller(e) <= q
        BY <2>1, <2>4, <4>2
      <4> HIDE DEF q, e
      <4> QED
        BY <2>3, <4>2, <4>3
    <3>3. owner # "buffer" => q <= 0
      BY <2>2
    <3> HIDE DEF e, q, a
    <3>4. /\ Good(tl') /\ OwnerLine(owner, tl') /\ SameFixed(tl, tl')
          /\ \A x : x \in ToSet(tl'.line) <=> x \in ToSet(tl.line)
          /\ SameBut(tl.dt, tl'.dt, e) /\ SameBut(tl.qty, tl'.qty, e) /\ tl'.dt[e] = a /\ tl'.qty[e] = q
      BY <1>1, <2>1, <2>2, <3>1, <3>2, <3>3, MoveGood
    <3>5. ~SetSeen(tl') /\ a = tl.dt[e]
      BY <2>2, <3>4 DEF OwnerLine, a
    <3>6. Stock'[d] >= 0 \/ Stock'[d] = Stock[d]
      BY <1>1, <2>1, <2>2, <2>4, <3>2, <3>4, <3>5, RemovalLeavesEnough
    <3> QED
      BY <2>5, <3>6
  <2> QED
    BY <1>6, <2>6, <2>7
<1> QED
  BY <1>2, <1>3, <1>4, <1>5, <1>6 DEF SweepNext

-----------------------------------------------------------------------------

(* Two totals over sets that agree but for one element.                    *)
AlikeBut(f, A, g, B, x) ==
  /\ IsFiniteSet(A) /\ IsFiniteSet(B) /\ A \ {x} = B \ {x}
  /\ \A z \in A : f[z] \in Int
  /\ \A z \in B : g[z] \in Int
  /\ \A z \in A : z # x => g[z] = f[z]
LEMMA TotalBut ==
  ASSUME NEW f, NEW A, NEW g, NEW B, NEW x, AlikeBut(f, A, g, B, x)
  PROVE  Total(g, B) = Total(f, A) + (IF x \in B THEN g[x] ELSE 0) - (IF x \in A THEN f[x] ELSE 0)
<1>0. /\ IsFiniteSet(A) /\ IsFiniteSet(B) /\ A \ {x} = B \ {x}
      /\ \A z \in A : f[z] \in Int
      /\ \A z \in B : g[z] \in Int
      /\ \A z \in A : z # x => g[z] = f[z]
  BY DEF AlikeBut
<1> DEFINE C == A \ {x}
           c == Total(f, C)
           a == Total(f, A)
           b == Total(g, B)
<1>1. IsFiniteSet(C) /\ C = B \ {x}
  BY <1>0, FS_Subset
<1>2. a \in Int /\ b \in Int /\ c \in Int
  BY <1>0, <1>1, TotalAdd
<1>3. Total(g, C) = c
  BY <1>0, <1>1, TotalSame
<1>4. a = c + (IF x \in A THEN f[x] ELSE 0)
  <2>1. CASE x \in A
    BY <1>0, <1>2, <2>1, TotalAdd
  <2>2. CASE x \notin A
    <3>1. C = A
      BY <2>2
    <3> HIDE DEF C
    <3>2. c = a
      BY <3>1
    <3> QED
      BY <1>2, <2>2, <3>2
  <2> QED
    BY <2>1, <2>2
<1>5. b = c + (IF x \in B THEN g[x] ELSE 0)
  <2>1. CASE x \in B
    BY <1>0, <1>1, <1>2, <1>3, <2>1, TotalAdd
  <2>2. CASE x \notin B
    <3>1. C = B
      BY <1>1, <2>2
    <3> HIDE DEF C
    <3>2. b = c
      BY <1>3, <3>1
    <3> QED
      BY <1>2, <2>2, <3>2
  <2> QED
    BY <2>1, <2>2
<1>6. (x \in A => f[x] \in Int) /\ (x \in B => g[x] \in Int)
  BY <1>0
<1> HIDE DEF a, b, c
<1>7. b = a + (IF x \in B THEN g[x] ELSE 0) - (IF x \in A THEN f[x] ELSE 0)
  BY <1>2, <1>4, <1>5, <1>6
<1> QED
  BY <1>2, <1>7 DEF a, b

(* The places of a line are those of its order.                            *)
LEMMA OrderOfPlaces ==
  ASSUME NEW T, Good(T), NEW i \in 1..Len(T.line), NEW j \in 1..Len(T.line)
  PROVE  /\ T.line[i] \in Event /\ T.line[j] \in Event /\ i \in Nat /\ j \in Nat
         /\ i < j <=> Before(T, T.line[i], T.line[j])
         /\ i = j <=> T.line[i] = T.line[j]
         /\ i = j <=> T.line[j] = T.line[i]
<1> DEFINE s == T.line
<1>1. /\ s \in Seq(Event) /\ Len(s) \in Nat /\ Distinct(s) /\ InOrder(T, s)
      /\ T.dt \in [Event -> Int] /\ T.qty \in [Event -> Int]
  BY Fields, SeqFacts, OrderIsDistinct DEF Good
<1>2. s[i] \in Event /\ s[j] \in Event
  BY <1>1, SeqFacts
<1>3. i = j <=> s[i] = s[j]
  BY <1>1 DEF Distinct
<1>4. i < j => Before(T, s[i], s[j])
  BY <1>1 DEF InOrder
<1>5. j < i => Before(T, s[j], s[i])
  BY <1>1 DEF InOrder
<1>6. i = j => ~Before(T, s[i], s[j])
  BY <1>1, <1>2, <1>3, Ordering
<1>7. ~(Before(T, s[i], s[j]) /\ Before(T, s[j], s[i]))
  BY <1>1, <1>2, Ordering
<1>8. i < j \/ j < i \/ i = j
  BY <1>1
<1> HIDE DEF s
<1>9. i < j <=> Before(T, s[i], s[j])
  BY <1>4, <1>5, <1>6, <1>7, <1>8
<1> QED
  BY <1>1, <1>2, <1>3, <1>9 DEF s

(* Without bucket starts the onhand is the sum of all changes until then.  *)
Behind(T, y) == {x \in ToSet(T.line) \intersect Change : x = y \/ Before(T, x, y)}

LEMMA OnhandOf ==
  ASSUME NEW T, Good(T), ~SetSeen(T), NEW y \in ToSet(T.line)
  PROVE  /\ T.oh[y] = Total(T.qty, Behind(T, y)) /\ T.oh[y] \in Int
         /\ IsFiniteSet(Behind(T, y)) /\ \A x \in Behind(T, y) : x \in Event /\ T.qty[x] \in Int
<1> DEFINE s == T.line
           i == Place(s, y)
           B == Behind(T, y)
<1>1. /\ s \in Seq(Event) /\ Len(s) \in Nat /\ Distinct(s)
      /\ \A k \in 1..Len(s) : s[k] \in Event /\ s[k] \in ToSet(s)
      /\ \A x : x \in ToSet(s) <=> \E k \in 1..Len(s) : s[k] = x
      /\ \A x \in Event : T.qty[x] \in Int /\ T.oh[x] \in Int
  BY Fields, SeqFacts, OrderIsDistinct DEF Good, Amounts
<1>2. i \in 1..Len(s) /\ s[i] = y /\ y \in Event
  BY <1>1, PlaceIn
<1>3. T.oh[s[i]] = Total(T.val, SetLast(T, Upto(s, i))) + Total(T.qty, Thereafter(T, Upto(s, i)))
  BY <1>2, OnhandSum
<1>4. Upto(s, i) \subseteq Event /\ IsFiniteSet(Upto(s, i))
  <2>1. i \in 0..Len(s)
    BY <1>1, <1>2
  <2> QED
    BY <1>1, <2>1, UptoFacts
<1>5. \A k \in 1..Len(s) : k <= i <=> s[k] = y \/ Before(T, s[k], y)
  <2> SUFFICES ASSUME NEW k \in 1..Len(s) PROVE k <= i <=> s[k] = y \/ Before(T, s[k], y)
    OBVIOUS
  <2>1. /\ k \in Nat /\ i \in Nat
        /\ k < i <=> Before(T, s[k], s[i])
        /\ k = i <=> s[k] = s[i]
    BY <1>2, OrderOfPlaces
  <2> QED
    BY <1>2, <2>1
<1> HIDE DEF i, s
<1>6. \A x : x \in Upto(s, i) <=> x \in ToSet(s) /\ (x = y \/ Before(T, x, y))
  <2>1. \A k : k \in 1..i <=> k \in 1..Len(s) /\ k <= i
    BY <1>1, <1>2
  <2> QED
    BY <1>1, <1>5, <2>1 DEF Upto
<1>7. SetLast(T, Upto(s, i)) = {}
  BY <1>6 DEF SetLast, SetSeen, s
<1>8. Thereafter(T, Upto(s, i)) = B
  <2>1. \A x : x \in Thereafter(T, Upto(s, i)) <=> x \in B
    BY <1>6, <1>7 DEF Thereafter, Behind, s
  <2> QED
    BY <2>1
<1>9. Total(T.val, {}) = 0
  BY FS_EmptySet, TotalAdd
<1>10. B \subseteq Upto(s, i)
  BY <1>8 DEF Thereafter
<1>11. IsFiniteSet(B) /\ \A x \in B : x \in Event /\ T.qty[x] \in Int
  BY <1>1, <1>4, <1>10, FS_Subset
<1>12. Total(T.qty, B) \in Int
  BY <1>11, TotalAdd
<1>13. T.oh[s[i]] = Total(T.qty, B)
  BY <1>3, <1>7, <1>8, <1>9, <1>12
<1> QED
  BY <1>2, <1>11, <1>12, <1>13

(* One flowplan is removed or becomes smaller where it is.                 *)
Shrunk(T, U, x) ==
  /\ Good(T) /\ Good(U) /\ ~SetSeen(T) /\ ~SetSeen(U)
  /\ x \in Change /\ x \in ToSet(T.line) /\ T.qty[x] > 0
  /\ SameFixed(T, U) /\ SameBut(T.dt, U.dt, x) /\ SameBut(T.qty, U.qty, x)
  /\ \/ \A y : y \in ToSet(U.line) <=> y \in ToSet(T.line) /\ y # x
     \/ /\ \A y : y \in ToSet(U.line) <=> y \in ToSet(T.line)
        /\ U.dt[x] = T.dt[x] /\ U.qty[x] <= T.qty[x]

LEMMA LineTypes ==
  ASSUME NEW T, Good(T)
  PROVE  /\ T.dt \in [Event -> Int] /\ T.qty \in [Event -> Int] /\ T.oh \in [Event -> Int] /\ T.val \in [Event -> Int]
         /\ \A y \in ToSet(T.line) : y \in Event
<1>1. T \in Timelines
  BY DEF Good
<1>2. T.line \in Seq(Event)
  BY <1>1, Fields
<1>3. \A y \in ToSet(T.line) : y \in Event
  BY <1>2, SeqFacts
<1>4. T.dt \in [Event -> Int] /\ T.qty \in [Event -> Int] /\ T.oh \in [Event -> Int] /\ T.val \in [Event -> Int]
  BY <1>1, Fields DEF Amounts
<1> QED
  BY <1>3, <1>4

LEMMA OrderKept ==
  ASSUME NEW T, NEW U, NEW x, Shrunk(T, U, x)
  PROVE  /\ \A y, z \in Event : y # x /\ z # x => (Before(U, y, z) <=> Before(T, y, z))
         /\ \A y \in Event : y # x /\ x \in ToSet(U.line) =>
              (Before(T, y, x) => Before(U, y, x)) /\ (Before(U, x, y) => Before(T, x, y))
<1>1. /\ SameBut(T.dt, U.dt, x) /\ SameBut(T.qty, U.qty, x) /\ x \in Event /\ x \in Int
      /\ x \in ToSet(U.line) => U.dt[x] = T.dt[x] /\ U.qty[x] <= T.qty[x]
  BY EventAssumption DEF Shrunk, Event
<1>2. T.dt \in [Event -> Int] /\ T.qty \in [Event -> Int] /\ U.dt \in [Event -> Int] /\ U.qty \in [Event -> Int]
  BY LineTypes DEF Shrunk
<1>3. ASSUME NEW y \in Event, NEW z \in Event, y # x, z # x PROVE Before(U, y, z) <=> Before(T, y, z)
  <2>1. U.dt[y] = T.dt[y] /\ U.dt[z] = T.dt[z] /\ U.qty[y] = T.qty[y] /\ U.qty[z] = T.qty[z]
    BY <1>1, <1>3 DEF SameBut
  <2> QED
    BY <2>1 DEF Before
<1>4. ASSUME NEW y \in Event, y # x, x \in ToSet(U.line)
      PROVE  (Before(T, y, x) => Before(U, y, x)) /\ (Before(U, x, y) => Before(T, x, y))
  <2>1. /\ U.dt[y] = T.dt[y] /\ U.qty[y] = T.qty[y] /\ U.dt[x] = T.dt[x] /\ U.qty[x] <= T.qty[x]
    BY <1>1, <1>4 DEF SameBut
  <2>2. T.dt[y] \in Int /\ T.dt[x] \in Int /\ T.qty[y] \in Int /\ T.qty[x] \in Int /\ U.qty[x] \in Int /\ y \in Int
    BY <1>1, <1>2, EventAssumption
  <2> QED
    BY <1>1, <2>1, <2>2 DEF Before
<1> QED
  BY <1>3, <1>4

(* The onhand of no other event rises, and before x it stays.              *)
LEMMA OnhandFalls ==
  ASSUME NEW T, NEW U, NEW x, Shrunk(T, U, x), NEW y, y \in ToSet(U.line), y # x
  PROVE  /\ y \in ToSet(T.line) /\ T.oh[y] \in Int /\ U.oh[y] \in Int
         /\ U.oh[y] <= T.oh[y]
         /\ x \in ToSet(U.line) /\ Before(U, x, y) => U.oh[y] = T.oh[y] - T.qty[x] + U.qty[x]
<1> DEFINE A == Behind(T, y)
           B == Behind(U, y)
<1>1. /\ Good(T) /\ Good(U) /\ ~SetSeen(T) /\ ~SetSeen(U) /\ x \in Change /\ x \in ToSet(T.line) /\ y \in ToSet(T.line)
      /\ T.qty[x] > 0 /\ SameBut(T.qty, U.qty, x) /\ x \in Event
      /\ \A z : z # x => (z \in ToSet(U.line) <=> z \in ToSet(T.line))
      /\ x \in ToSet(U.line) => U.qty[x] <= T.qty[x]
  BY DEF Shrunk, Event
<1>2. /\ T.oh[y] = Total(T.qty, A) /\ T.oh[y] \in Int
      /\ IsFiniteSet(A) /\ \A z \in A : z \in Event /\ T.qty[z] \in Int
  BY <1>1, OnhandOf
<1>3. /\ U.oh[y] = Total(U.qty, B) /\ U.oh[y] \in Int
      /\ IsFiniteSet(B) /\ \A z \in B : z \in Event /\ U.qty[z] \in Int
  BY <1>1, OnhandOf
<1>4. y \in Event /\ T.qty[x] \in Int /\ U.qty[x] \in Int
  BY <1>1, LineTypes
<1>5. \A z : z # x => (z \in A <=> z \in B)
  BY <1>1, <1>4, OrderKept DEF Behind, Event
<1>6. x \in B <=> x \in ToSet(U.line) /\ Before(U, x, y)
  BY <1>1 DEF Behind
<1>7. x \in B => x \in A
  BY <1>1, <1>4, <1>6, OrderKept DEF Behind
<1> HIDE DEF A, B
<1>8. A \ {x} = B \ {x}
  BY <1>5
<1>9. \A z \in A : z # x => U.qty[z] = T.qty[z]
  BY <1>1, <1>2 DEF SameBut
<1>10. Total(U.qty, B) = Total(T.qty, A) + (IF x \in B THEN U.qty[x] ELSE 0) - (IF x \in A THEN T.qty[x] ELSE 0)
  <2>1. AlikeBut(T.qty, A, U.qty, B, x)
    BY <1>2, <1>3, <1>8, <1>9 DEF AlikeBut
  <2> QED
    BY <2>1, TotalBut
<1>11. U.oh[y] = T.oh[y] + (IF x \in B THEN U.qty[x] ELSE 0) - (IF x \in A THEN T.qty[x] ELSE 0)
  BY <1>2, <1>3, <1>10
<1> QED
  BY <1>1, <1>2, <1>3, <1>4, <1>6, <1>7, <1>11

(* The minimum that getExcess() holds against an event, without places.    *)
MinBetween(T, e, y) == {m \in MinEvent : m \in ToSet(T.line) /\ Before(T, e, m) /\ (m = y \/ Before(T, m, y))}
LatestIn(T, M) == {m \in M : \A r \in M : r = m \/ Before(T, r, m)}
LeastAt(T, e, y) ==
  IF MinBetween(T, e, y) = {} THEN BoundAt(T, 3, T.dt[e], FALSE)
  ELSE T.val[CHOOSE m : m \in LatestIn(T, MinBetween(T, e, y))]

LEMMA LeastIs ==
  ASSUME NEW T, Good(T), NEW e \in Change, NEW p \in 1..Len(T.line), T.line[p] = e, NEW k \in p..Len(T.line)
  PROVE  /\ LeastMin(T, e, p, k) = LeastAt(T, e, T.line[k])
         /\ MinBetween(T, e, T.line[k]) # {} => LatestIn(T, MinBetween(T, e, T.line[k])) # {}
<1> DEFINE s == T.line
           y == s[k]
           M == MinPlaces(T, p, k)
           B == MinBetween(T, e, y)
<1>1. /\ s \in Seq(Event) /\ Len(s) \in Nat /\ p \in Nat /\ k \in 1..Len(s)
      /\ \A j \in 1..Len(s) : s[j] \in Event /\ s[j] \in ToSet(s)
      /\ \A z : z \in ToSet(s) <=> \E j \in 1..Len(s) : s[j] = z
  <2>1. s \in Seq(Event)
    BY Fields DEF Good
  <2>2. p \in 1..Len(s) /\ k \in p..Len(s)
    OBVIOUS
  <2> HIDE DEF s
  <2>3. Len(s) \in Nat /\ p \in Nat /\ k \in 1..Len(s)
    BY <2>1, <2>2
  <2> QED
    BY <2>1, <2>3, SeqFacts
<1>2. e \notin MinEvent
  BY EventAssumption DEF Fixed
<1>3. \A j \in p..k : j \in 1..Len(s)
  BY <1>1
<1>4. ASSUME NEW j \in 1..Len(s) PROVE j \in M <=> s[j] \in B
  <2>1. /\ j \in Nat /\ p \in Nat /\ k \in Nat
        /\ p < j <=> Before(T, e, s[j])
        /\ j < k <=> Before(T, s[j], y)
        /\ j = k <=> s[j] = y
        /\ p = j <=> s[j] = e
    BY <1>1, OrderOfPlaces
  <2>2. j \in M <=> j \in p..k /\ s[j] \in MinEvent
    BY DEF MinPlaces
  <2>3. s[j] \in B <=> s[j] \in MinEvent /\ Before(T, e, s[j]) /\ (s[j] = y \/ Before(T, s[j], y))
    BY <1>1 DEF MinBetween
  <2>4. s[j] \in MinEvent => j # p
    BY <1>2
  <2> HIDE DEF M, B, y, s
  <2>5. j \in p..k <=> p <= j /\ j <= k
    BY <1>1, <2>1
  <2> QED
    BY <1>1, <2>1, <2>2, <2>3, <2>4, <2>5
<1>5. M \subseteq 1..Len(s) /\ \A z \in B : \E j \in 1..Len(s) : s[j] = z
  BY <1>1, <1>3 DEF MinPlaces, MinBetween
<1>6. CASE M = {}
  <2>1. B = {}
    BY <1>4, <1>5, <1>6
  <2> QED
    BY <1>6, <2>1 DEF LeastMin, LeastAt
<1>7. CASE M # {}
  <2> DEFINE i == Max(M)
  <2>1. i \in M /\ \A j \in M : j <= i
    BY <1>1, <1>5, <1>7, GreatestOf
  <2> HIDE DEF i, M, B, y
  <2>2. s[i] \in B /\ i \in 1..Len(s)
    BY <1>4, <1>5, <2>1
  <2>3. \A r \in B : r = s[i] \/ Before(T, r, s[i])
    <3> SUFFICES ASSUME NEW r \in B PROVE r = s[i] \/ Before(T, r, s[i])
      OBVIOUS
    <3>1. PICK j \in 1..Len(s) : s[j] = r
      BY <1>5
    <3>2. j \in M /\ j <= i
      BY <1>4, <2>1, <3>1
    <3>3. /\ j \in Nat /\ i \in Nat
          /\ j < i <=> Before(T, s[j], s[i])
          /\ j = i <=> s[j] = s[i]
      BY <2>2, OrderOfPlaces
    <3> QED
      BY <3>1, <3>2, <3>3
  <2>4. \A z \in LatestIn(T, B) : z = s[i]
    <3> SUFFICES ASSUME NEW z \in LatestIn(T, B), z # s[i] PROVE FALSE
      OBVIOUS
    <3>1. z \in B /\ Before(T, s[i], z) /\ Before(T, z, s[i])
      BY <2>2, <2>3 DEF LatestIn
    <3>2. z \in Event /\ s[i] \in Event /\ T.dt \in [Event -> Int] /\ T.qty \in [Event -> Int]
      BY <1>1, <1>5, <2>2, <3>1, LineTypes
    <3> QED
      BY <3>1, <3>2, Ordering
  <2>5. s[i] \in LatestIn(T, B)
    BY <2>2, <2>3 DEF LatestIn
  <2>6. (CHOOSE m : m \in LatestIn(T, B)) = s[i]
    BY <2>4, <2>5
  <2>7. LeastMin(T, e, p, k) = T.val[s[i]]
    BY <1>7 DEF LeastMin, M, i
  <2>8. LeastAt(T, e, y) = T.val[s[i]]
    BY <2>2, <2>6 DEF LeastAt, B
  <2> QED
    BY <2>5, <2>7, <2>8 DEF y, B
<1> QED
  BY <1>6, <1>7

LEMMA LeastKept ==
  ASSUME NEW T, Good(T), NEW U, Good(U), SameFixed(T, U), NEW e \in Change, U.dt[e] = T.dt[e], NEW y,
         MinBetween(T, e, y) # {} => LatestIn(T, MinBetween(T, e, y)) # {},
         MinBetween(U, e, y) = MinBetween(T, e, y),
         \A m, r \in MinEvent : Before(U, m, r) <=> Before(T, m, r)
  PROVE  LeastAt(U, e, y) = LeastAt(T, e, y)
<1> DEFINE M == MinBetween(T, e, y)
<1>1. M \subseteq MinEvent
  BY DEF MinBetween
<1>2. LatestIn(U, M) = LatestIn(T, M)
  <2>1. \A m : m \in LatestIn(U, M) <=> m \in LatestIn(T, M)
    BY <1>1 DEF LatestIn
  <2> QED
    BY <2>1
<1>3. BoundAt(U, 3, U.dt[e], FALSE) = BoundAt(T, 3, T.dt[e], FALSE)
  <2> DEFINE d == T.dt[e]
  <2>1. d \in Int /\ d - 1 \in Int /\ 3 \in 2..4
    BY LineTypes DEF Event
  <2> HIDE DEF d
  <2>2. BoundAt(T, 3, d, FALSE) = BoundAt(T, 3, d - 1, TRUE)
    BY <2>1, BoundBefore
  <2>3. BoundAt(U, 3, d, FALSE) = BoundAt(U, 3, d - 1, TRUE)
    BY <2>1, BoundBefore
  <2>4. BoundAt(U, 3, d - 1, TRUE) = BoundAt(T, 3, d - 1, TRUE)
    BY <2>1, BoundKept
  <2> QED
    BY <2>2, <2>3, <2>4 DEF d
<1>4. \A m \in MinEvent : U.val[m] = T.val[m]
  BY DEF SameFixed, Fixed
<1>5. CASE M = {}
  BY <1>3, <1>5 DEF LeastAt
<1>6. CASE M # {}
  <2> DEFINE c == CHOOSE m : m \in LatestIn(T, M)
  <2>1. LeastAt(U, e, y) = U.val[c] /\ LeastAt(T, e, y) = T.val[c]
    BY <1>2, <1>6 DEF LeastAt
  <2>2. c \in LatestIn(T, M)
    BY <1>6
  <2>3. c \in MinEvent
    BY <1>1, <2>2 DEF LatestIn
  <2> QED
    BY <1>4, <2>1, <2>3
<1> QED
  BY <1>5, <1>6

(* getExcess() of an event, in any timeline and without places.            *)
Excess(T, e) ==
  LET p == Place(T.line, e)
  IN  Min({T.oh[T.line[k]] - LeastMin(T, e, p, k) : k \in p..Len(T.line)})

LEMMA ExcessOf ==
  ASSUME NEW T, Good(T), NEW e \in Change, e \in ToSet(T.line)
  PROVE  /\ Excess(T, e) \in Int
         /\ \A y \in ToSet(T.line) : y = e \/ Before(T, e, y) =>
              /\ LeastAt(T, e, y) \in Int /\ Excess(T, e) <= T.oh[y] - LeastAt(T, e, y)
              /\ MinBetween(T, e, y) # {} => LatestIn(T, MinBetween(T, e, y)) # {}
         /\ \E y \in ToSet(T.line) : (y = e \/ Before(T, e, y)) /\ Excess(T, e) = T.oh[y] - LeastAt(T, e, y)
<1> DEFINE s == T.line
           p == Place(s, e)
           n == Len(s)
           g == [k \in p..n |-> T.oh[s[k]] - LeastMin(T, e, p, k)]
<1>1. /\ s \in Seq(Event) /\ n \in Nat /\ Distinct(s) /\ T.oh \in [Event -> Int]
      /\ \A i \in 1..n : s[i] \in Event /\ s[i] \in ToSet(s)
      /\ \A y : y \in ToSet(s) <=> \E j \in 1..n : s[j] = y
  BY Fields, SeqFacts, OrderIsDistinct DEF Good, Amounts
<1>2. p \in 1..n /\ s[p] = e /\ e \in Event
  BY <1>1, PlaceIn DEF Event
<1>3. Excess(T, e) = Min({T.oh[s[k]] - LeastMin(T, e, p, k) : k \in p..n})
  BY DEF Excess
<1>4. ASSUME NEW k \in p..n
      PROVE  /\ LeastMin(T, e, p, k) \in Int /\ LeastMin(T, e, p, k) = LeastAt(T, e, s[k])
             /\ MinBetween(T, e, s[k]) # {} => LatestIn(T, MinBetween(T, e, s[k])) # {}
  <2>1. p \in 1..Len(T.line) /\ T.line[p] = e /\ k \in p..Len(T.line)
    BY <1>2
  <2> HIDE DEF p, n, g
  <2>2. LeastMin(T, e, p, k) \in Int
    BY <1>2, <2>1, LeastMinType
  <2> QED
    BY <2>1, <2>2, LeastIs
<1>5. \A y \in ToSet(s) : y = e \/ Before(T, e, y) <=> \E k \in p..n : s[k] = y
  <2> SUFFICES ASSUME NEW y \in ToSet(s) PROVE y = e \/ Before(T, e, y) <=> \E k \in p..n : s[k] = y
    OBVIOUS
  <2>1. PICK j \in 1..n : s[j] = y
    BY <1>1
  <2>2. /\ p \in Nat /\ j \in Nat
        /\ p < j <=> Before(T, s[p], s[j])
        /\ p = j <=> s[p] = s[j]
    BY <1>2, OrderOfPlaces
  <2>3. \A k \in 1..n : s[k] = y => k = j
    BY <1>1, <2>1 DEF Distinct
  <2> HIDE DEF s, p, n
  <2>4. \A k \in p..n : k \in 1..n /\ p <= k
    BY <1>1, <1>2
  <2>5. p <= j => j \in p..n
    BY <1>1, <2>1, <2>2
  <2> QED
    BY <1>2, <2>1, <2>2, <2>3, <2>4, <2>5
<1> HIDE DEF p, n, s
<1>6. \A k \in p..n : k \in 1..n /\ T.oh[s[k]] \in Int
  <2>1. \A k \in p..n : k \in 1..n
    BY <1>1, <1>2
  <2> QED
    BY <1>1, <2>1
<1>7. \A k \in p..n : g[k] \in Int /\ g[k] = T.oh[s[k]] - LeastMin(T, e, p, k)
  <2>1. ASSUME NEW k \in p..n PROVE T.oh[s[k]] - LeastMin(T, e, p, k) \in Int
    BY <1>4, <1>6
  <2> QED
    BY <2>1
<1>8. Excess(T, e) = Min({g[k] : k \in p..n})
  BY <1>3, <1>7
<1> HIDE DEF g
<1>9. Excess(T, e) \in Int /\ (\E k \in p..n : Excess(T, e) = g[k]) /\ \A k \in p..n : Excess(T, e) <= g[k]
  <2>1. n \in Nat /\ p \in 1..n /\ \A k \in p..n : g[k] \in Int
    BY <1>1, <1>2, <1>7
  <2> DEFINE least == Min({g[k] : k \in p..n})
  <2>2. least \in Int /\ (\E k \in p..n : least = g[k]) /\ \A k \in p..n : least <= g[k]
    BY <2>1, LeastOf
  <2> HIDE DEF least
  <2>3. Excess(T, e) = least
    BY <1>8 DEF least
  <2> QED
    BY <2>2, <2>3
<1>10. \A k \in p..n : g[k] = T.oh[s[k]] - LeastAt(T, e, s[k]) /\ s[k] \in ToSet(s)
  BY <1>1, <1>4, <1>6, <1>7
<1>11. ASSUME NEW y \in ToSet(s), y = e \/ Before(T, e, y)
       PROVE  /\ LeastAt(T, e, y) \in Int /\ Excess(T, e) <= T.oh[y] - LeastAt(T, e, y)
              /\ MinBetween(T, e, y) # {} => LatestIn(T, MinBetween(T, e, y)) # {}
  <2>1. PICK k \in p..n : s[k] = y
    BY <1>5, <1>11
  <2> QED
    BY <1>4, <1>9, <1>10, <2>1
<1>12. \E y \in ToSet(s) : (y = e \/ Before(T, e, y)) /\ Excess(T, e) = T.oh[y] - LeastAt(T, e, y)
  <2>1. PICK k \in p..n : Excess(T, e) = g[k]
    BY <1>9
  <2>2. s[k] \in ToSet(s) /\ (s[k] = e \/ Before(T, e, s[k]))
    BY <1>5, <1>10
  <2> QED
    BY <1>10, <2>1, <2>2
<1> QED
  BY <1>9, <1>11, <1>12 DEF s

(* What getExcess() counted before the change was no less than now ...     *)
LEMMA ItemFalls ==
  ASSUME NEW T, NEW U, NEW x, Shrunk(T, U, x), NEW e \in Change, e \in ToSet(T.line), Before(T, e, x),
         NEW y \in ToSet(T.line), y # x, y = e \/ Before(T, e, y)
  PROVE  /\ e # x /\ e \in ToSet(U.line) /\ Excess(U, e) \in Int /\ LeastAt(T, e, y) \in Int /\ T.oh[y] \in Int
         /\ Excess(U, e) <= T.oh[y] - LeastAt(T, e, y)
<1>1. /\ Good(T) /\ Good(U) /\ x \in Change /\ SameFixed(T, U) /\ SameBut(T.dt, U.dt, x)
      /\ \A z : z # x => (z \in ToSet(U.line) <=> z \in ToSet(T.line))
  BY DEF Shrunk
<1>2. e \in Event /\ x \in Event /\ y \in Event /\ T.dt \in [Event -> Int] /\ T.qty \in [Event -> Int]
  BY <1>1, LineTypes DEF Event
<1>3. e # x
  BY <1>2, Ordering
<1>4. e \in ToSet(U.line) /\ y \in ToSet(U.line) /\ U.dt[e] = T.dt[e]
  BY <1>1, <1>2, <1>3 DEF SameBut
<1>5. y = e \/ Before(U, e, y)
  BY <1>2, <1>3, OrderKept
<1>6. \A m \in MinEvent : m # x /\ m \in Event
  BY <1>1, EventAssumption DEF Fixed, Event
<1>7. \A m, r \in MinEvent : Before(U, m, r) <=> Before(T, m, r)
  BY <1>6, OrderKept
<1>8. MinBetween(U, e, y) = MinBetween(T, e, y)
  <2>1. \A m \in MinEvent : m \in MinBetween(U, e, y) <=> m \in MinBetween(T, e, y)
    <3> SUFFICES ASSUME NEW m \in MinEvent PROVE m \in MinBetween(U, e, y) <=> m \in MinBetween(T, e, y)
      OBVIOUS
    <3>1. (Before(U, e, m) <=> Before(T, e, m)) /\ (Before(U, m, y) <=> Before(T, m, y))
      BY <1>2, <1>3, <1>6, OrderKept
    <3> QED
      BY <1>1, <1>6, <3>1 DEF MinBetween
  <2> QED
    BY <2>1 DEF MinBetween
<1>9. /\ LeastAt(T, e, y) \in Int
      /\ MinBetween(T, e, y) # {} => LatestIn(T, MinBetween(T, e, y)) # {}
  BY <1>1, ExcessOf
<1>10. LeastAt(U, e, y) = LeastAt(T, e, y)
  BY <1>1, <1>4, <1>7, <1>8, <1>9, LeastKept
<1>11. Excess(U, e) \in Int /\ Excess(U, e) <= U.oh[y] - LeastAt(U, e, y)
  BY <1>1, <1>4, <1>5, ExcessOf
<1>12. U.oh[y] <= T.oh[y] /\ U.oh[y] \in Int /\ T.oh[y] \in Int
  BY <1>4, OnhandFalls
<1> QED
  BY <1>3, <1>4, <1>9, <1>10, <1>11, <1>12

(* ... also in the place of x, for which the event before it stands.       *)
LEMMA ExcessFalls ==
  ASSUME NEW T, NEW U, NEW x, Shrunk(T, U, x), NEW e \in Change, e \in ToSet(T.line), Before(T, e, x)
  PROVE  /\ e # x /\ e \in ToSet(U.line)
         /\ Excess(T, e) \in Int /\ Excess(U, e) \in Int /\ Excess(U, e) <= Excess(T, e)
<1> DEFINE s == T.line
<1>1. /\ Good(T) /\ ~SetSeen(T) /\ x \in Change /\ x \in ToSet(s) /\ T.qty[x] > 0 /\ T.qty[x] \in Int
      /\ s \in Seq(Event) /\ Len(s) \in Nat
      /\ \A i \in 1..Len(s) : s[i] \in Event /\ s[i] \in ToSet(s)
      /\ \A y : y \in ToSet(s) <=> \E j \in 1..Len(s) : s[j] = y
      /\ AddsUp(SetEvent, s, T.qty, T.val, T.oh)
  <2>1. Good(T) /\ ~SetSeen(T) /\ x \in Change /\ x \in ToSet(s) /\ T.qty[x] > 0 /\ x \in Event
    BY DEF Shrunk, Event
  <2>2. s \in Seq(Event) /\ AddsUp(SetEvent, s, T.qty, T.val, T.oh)
    BY <2>1, Fields DEF Good, Totals
  <2>3. T.qty[x] \in Int
    BY <2>1, LineTypes
  <2> QED
    BY <2>1, <2>2, <2>3, SeqFacts
<1>2. PICK y \in ToSet(s) : (y = e \/ Before(T, e, y)) /\ Excess(T, e) = T.oh[y] - LeastAt(T, e, y)
  BY <1>1, ExcessOf
<1>3. CASE y # x
  <2>1. /\ e # x /\ e \in ToSet(U.line) /\ Excess(U, e) \in Int /\ LeastAt(T, e, y) \in Int /\ T.oh[y] \in Int
        /\ Excess(U, e) <= T.oh[y] - LeastAt(T, e, y)
    BY <1>2, <1>3, ItemFalls
  <2> QED
    BY <1>2, <2>1
<1>4. CASE y = x
  <2>1. PICK j \in 1..Len(s) : s[j] = x
    BY <1>1
  <2>2. PICK i \in 1..Len(s) : s[i] = e
    BY <1>1
  <2>3. i < j /\ i \in Nat /\ j \in Nat
    BY <1>1, <2>1, <2>2, OrderOfPlaces
  <2>4. j - 1 \in 1..Len(s) /\ j # 1
    BY <1>1, <2>1, <2>2, <2>3
  <2> DEFINE z == s[j-1]
  <2>5. z \in ToSet(s) /\ z \in Event
    BY <1>1, <2>4
  <2>6. z # x /\ (z = e \/ Before(T, e, z))
    <3>1. /\ i < j - 1 <=> Before(T, s[i], s[j-1])
          /\ i = j - 1 <=> s[i] = s[j-1]
      BY <1>1, <2>4, OrderOfPlaces
    <3>2. j = j - 1 <=> s[j] = s[j-1]
      BY <1>1, <2>1, <2>4, OrderOfPlaces
    <3> QED
      BY <2>1, <2>2, <2>3, <3>1, <3>2
  <2>7. T.oh[x] = T.qty[x] + T.oh[z]
    <3>1. x \notin SetEvent
      BY <1>1, EventAssumption DEF Fixed
    <3>2. T.oh[s[j]] = T.qty[s[j]] + Prior(T.oh, s, j)
      BY <1>1, <2>1, <3>1 DEF AddsUp
    <3> QED
      BY <2>1, <2>4, <3>2 DEF Prior
  <2>8. MinBetween(T, e, z) = MinBetween(T, e, x)
    <3>1. \A m \in MinEvent : m \in ToSet(s) => ((m = z \/ Before(T, m, z)) <=> (m = x \/ Before(T, m, x)))
      <4> SUFFICES ASSUME NEW m \in MinEvent, m \in ToSet(s)
                   PROVE  (m = z \/ Before(T, m, z)) <=> (m = x \/ Before(T, m, x))
        OBVIOUS
      <4>1. m # x
        BY <1>1, EventAssumption DEF Fixed
      <4>2. PICK k \in 1..Len(s) : s[k] = m
        BY <1>1
      <4>3. /\ k \in Nat
            /\ k < j <=> Before(T, s[k], s[j])
            /\ k = j <=> s[k] = s[j]
        BY <1>1, OrderOfPlaces
      <4>4. /\ k < j - 1 <=> Before(T, s[k], s[j-1])
            /\ k = j - 1 <=> s[k] = s[j-1]
        BY <1>1, <2>4, OrderOfPlaces
      <4> HIDE DEF s
      <4>5. k # j
        BY <2>1, <4>1, <4>2
      <4>6. k < j <=> k < j - 1 \/ k = j - 1
        BY <2>3, <4>3
      <4> QED
        BY <2>1, <4>1, <4>2, <4>3, <4>4, <4>5, <4>6
    <3>2. \A m : m \in MinBetween(T, e, z) <=> m \in MinBetween(T, e, x)
      BY <3>1 DEF MinBetween
    <3> QED
      BY <3>2
  <2>9. LeastAt(T, e, z) = LeastAt(T, e, x)
    BY <2>8 DEF LeastAt
  <2> HIDE DEF z
  <2>10. /\ e # x /\ e \in ToSet(U.line) /\ Excess(U, e) \in Int /\ LeastAt(T, e, z) \in Int /\ T.oh[z] \in Int
         /\ Excess(U, e) <= T.oh[z] - LeastAt(T, e, z)
    BY <2>5, <2>6, ItemFalls
  <2> DEFINE h == T.oh[z]
             l == LeastAt(T, e, z)
             q == T.qty[x]
  <2>11. Excess(T, e) = T.oh[x] - LeastAt(T, e, x)
    BY <1>2, <1>4
  <2>12. Excess(T, e) = (q + h) - l
    BY <2>7, <2>9, <2>11
  <2>13. q \in Int /\ q > 0 /\ h \in Int /\ l \in Int
    BY <1>1, <2>10
  <2> HIDE DEF h, l, q
  <2>14. Excess(T, e) \in Int /\ h - l <= Excess(T, e)
    BY <2>12, <2>13
  <2> QED
    BY <2>10, <2>13, <2>14 DEF h, l
<1> QED
  BY <1>3, <1>4

(* The event that became smaller, if it kept its place, has as much less   *)
(* excess.                                                                 *)
LEMMA ExcessShrinks ==
  ASSUME NEW T, NEW U, NEW x, Shrunk(T, U, x), x \in ToSet(U.line),
         \A z \in ToSet(T.line) : Before(T, x, z) => Before(U, x, z)
  PROVE  /\ Excess(T, x) \in Int /\ Excess(U, x) \in Int
         /\ Excess(U, x) <= Excess(T, x) - T.qty[x] + U.qty[x]
<1>1. /\ Good(T) /\ Good(U) /\ ~SetSeen(T) /\ ~SetSeen(U) /\ x \in Change /\ x \in ToSet(T.line) /\ x \in Event
      /\ SameFixed(T, U) /\ SameBut(T.dt, U.dt, x) /\ SameBut(T.qty, U.qty, x)
      /\ \A z : z \in ToSet(U.line) <=> z \in ToSet(T.line)
      /\ U.dt[x] = T.dt[x]
  BY DEF Shrunk, Event
<1>2. /\ T.dt \in [Event -> Int] /\ T.qty \in [Event -> Int] /\ U.dt \in [Event -> Int] /\ U.qty \in [Event -> Int]
      /\ \A z \in ToSet(T.line) : z \in Event
  BY <1>1, LineTypes
<1>3. ASSUME NEW z \in ToSet(T.line), z # x
      PROVE  (Before(U, x, z) <=> Before(T, x, z)) /\ (Before(U, z, x) <=> Before(T, z, x))
  <2>1. z \in Event
    BY <1>2
  <2>2. Before(U, x, z) <=> Before(T, x, z)
    BY <1>3, <2>1, OrderKept
  <2>3. /\ Before(U, x, z) \/ Before(U, z, x)
        /\ ~(Before(U, x, z) /\ Before(U, z, x))
        /\ Before(T, x, z) \/ Before(T, z, x)
        /\ ~(Before(T, x, z) /\ Before(T, z, x))
    BY <1>1, <1>2, <1>3, <2>1, Ordering
  <2> QED
    BY <2>2, <2>3
<1>4. U.oh[x] = T.oh[x] - T.qty[x] + U.qty[x] /\ U.oh[x] \in Int /\ T.oh[x] \in Int
  <2> DEFINE A == Behind(T, x)
             B == Behind(U, x)
  <2>1. /\ T.oh[x] = Total(T.qty, A) /\ T.oh[x] \in Int
        /\ IsFiniteSet(A) /\ \A z \in A : z \in Event /\ T.qty[z] \in Int
    BY <1>1, OnhandOf
  <2>2. /\ U.oh[x] = Total(U.qty, B) /\ U.oh[x] \in Int
        /\ IsFiniteSet(B) /\ \A z \in B : z \in Event /\ U.qty[z] \in Int
    BY <1>1, OnhandOf
  <2>3. x \in A /\ x \in B
    BY <1>1 DEF Behind
  <2>4. \A z : z # x => (z \in A <=> z \in B)
    BY <1>1, <1>3 DEF Behind
  <2> HIDE DEF A, B
  <2>5. A \ {x} = B \ {x}
    BY <2>4
  <2>6. \A z \in A : z # x => U.qty[z] = T.qty[z]
    BY <1>1, <2>1 DEF SameBut
  <2>7. Total(U.qty, B) = Total(T.qty, A) + (IF x \in B THEN U.qty[x] ELSE 0) - (IF x \in A THEN T.qty[x] ELSE 0)
    <3>1. AlikeBut(T.qty, A, U.qty, B, x)
      BY <2>1, <2>2, <2>5, <2>6 DEF AlikeBut
    <3> QED
      BY <3>1, TotalBut
  <2>8. T.qty[x] \in Int /\ U.qty[x] \in Int
    BY <1>1, <1>2
  <2> QED
    BY <2>1, <2>2, <2>3, <2>7, <2>8
<1>5. PICK y \in ToSet(T.line) : (y = x \/ Before(T, x, y)) /\ Excess(T, x) = T.oh[y] - LeastAt(T, x, y)
  BY <1>1, ExcessOf
<1>6. y = x \/ Before(U, x, y)
  BY <1>5
<1>7. /\ Excess(T, x) \in Int /\ LeastAt(T, x, y) \in Int
      /\ MinBetween(T, x, y) # {} => LatestIn(T, MinBetween(T, x, y)) # {}
  BY <1>1, <1>5, ExcessOf
<1>8. Excess(U, x) \in Int /\ Excess(U, x) <= U.oh[y] - LeastAt(U, x, y)
  BY <1>1, <1>6, ExcessOf
<1>9. U.oh[y] = T.oh[y] - T.qty[x] + U.qty[x] /\ T.oh[y] \in Int /\ U.oh[y] \in Int
  <2>1. CASE y = x
    BY <1>4, <2>1
  <2>2. CASE y # x
    BY <1>1, <1>6, <2>2, OnhandFalls
  <2> QED
    BY <2>1, <2>2
<1>10. \A m \in MinEvent : m # x /\ m \in Event
  BY <1>1, EventAssumption DEF Fixed, Event
<1>11. \A m, r \in MinEvent : Before(U, m, r) <=> Before(T, m, r)
  BY <1>10, OrderKept
<1>12. MinBetween(U, x, y) = MinBetween(T, x, y)
  <2>1. \A m \in MinEvent : m \in MinBetween(U, x, y) <=> m \in MinBetween(T, x, y)
    <3> SUFFICES ASSUME NEW m \in MinEvent, m \in ToSet(T.line)
                 PROVE  m \in MinBetween(U, x, y) <=> m \in MinBetween(T, x, y)
      BY <1>1 DEF MinBetween
    <3>1. Before(U, x, m) <=> Before(T, x, m)
      BY <1>3, <1>10
    <3>2. Before(U, m, y) <=> Before(T, m, y)
      <4>1. CASE y = x
        BY <1>3, <1>10, <4>1
      <4>2. CASE y # x
        BY <1>2, <1>10, <4>2, OrderKept
      <4> QED
        BY <4>1, <4>2
    <3> QED
      BY <1>1, <3>1, <3>2 DEF MinBetween
  <2> QED
    BY <2>1 DEF MinBetween
<1>13. LeastAt(U, x, y) = LeastAt(T, x, y)
  BY <1>1, <1>7, <1>11, <1>12, LeastKept
<1>14. T.qty[x] \in Int /\ U.qty[x] \in Int
  BY <1>1, <1>2
<1> QED
  BY <1>5, <1>7, <1>8, <1>9, <1>13, <1>14

(* The walk: what it has passed, and when a flowplan is done with.         *)
PassedIn(T, i, e) == i = End \/ Before(T, e, i)

DoneIn(T, k, o, e) ==
  T.qty[e] > 0 /\ e \in Change \ k /\ Excess(T, e) > 0 =>
    Excess(T, e) < T.qty[e] /\ NewSize(o[e], T.qty[e], Excess(T, e)) = T.qty[e]

LEMMA EndIsNoEvent ==
  ASSUME IsFiniteSet(Event), NEW e \in Event
  PROVE  End \notin Event
<1> DEFINE n == Cardinality(Event)
<1>1. PICK f : n \in Nat /\ f \in Bijection(1..n, Event)
  <2>1. n \in Nat /\ ExistsBijection(1..n, Event)
    BY FS_CardinalityType
  <2> QED
    BY <2>1 DEF ExistsBijection
<1>2. n \in Nat /\ f \in [1..n -> Event] /\ \A x \in Event : \E k \in 1..n : f[k] = x
  BY <1>1 DEF Bijection, Surjection, Injection
<1> HIDE DEF n
<1>3. 1 \in 1..n /\ \A k \in 1..n : f[k] \in Int
  <2>1. \A k \in 1..n : f[k] \in Int
    BY <1>2, EventAssumption
  <2>2. 1 \in 1..n
    BY <1>2
  <2> QED
    BY <2>1, <2>2
<1> DEFINE least == Min({f[k] : k \in 1..n})
<1>4. least \in Int /\ (\E k \in 1..n : least = f[k]) /\ \A k \in 1..n : least <= f[k]
  <2>1. n \in Nat /\ 1 \in 1..n /\ \A k \in 1..n : f[k] \in Int
    BY <1>2, <1>3
  <2> QED
    BY <2>1, LeastOf
<1>5. {f[k] : k \in 1..n} = Event
  BY <1>2
<1>6. End = least - 1
  BY <1>5 DEF End
<1> HIDE DEF least
<1>7. \A x \in Event : least <= x /\ x \in Int
  BY <1>2, <1>3, <1>4
<1> QED
  BY <1>4, <1>6, <1>7

LEMMA NextPassed ==
  ASSUME NEW T, Good(T), NEW x \in ToSet(T.line), End \notin Event
  PROVE  LET n == NextOf(T.line, x)
         IN  /\ n = End \/ (n \in ToSet(T.line) /\ n # x)
             /\ \A z \in ToSet(T.line) : z # x => (PassedIn(T, n, z) <=> Before(T, z, x))
             /\ \A z \in ToSet(T.line) : Before(T, x, z) => n # End /\ (z = n \/ Before(T, n, z))
<1> DEFINE s == T.line
           p == Place(s, x)
           n == NextOf(s, x)
<1>1. /\ s \in Seq(Event) /\ Len(s) \in Nat /\ Distinct(s)
      /\ \A i \in 1..Len(s) : s[i] \in Event /\ s[i] \in ToSet(s)
      /\ \A y : y \in ToSet(s) <=> \E j \in 1..Len(s) : s[j] = y
  BY Fields, SeqFacts, OrderIsDistinct DEF Good
<1>2. p \in 1..Len(s) /\ s[p] = x
  BY <1>1, PlaceIn
<1>3. n = IF p = Len(s) THEN End ELSE s[p+1]
  BY DEF NextOf
<1> HIDE DEF p, n
<1>4. ASSUME NEW z \in ToSet(s)
      PROVE  \E j \in 1..Len(s) : /\ s[j] = z /\ j \in Nat
                                  /\ j < p <=> Before(T, z, x)
                                  /\ p < j <=> Before(T, x, z)
                                  /\ j = p <=> z = x
  <2>1. PICK j \in 1..Len(s) : s[j] = z
    BY <1>1
  <2>2. /\ j \in Nat
        /\ j < p <=> Before(T, s[j], s[p])
        /\ j = p <=> s[j] = s[p]
    BY <1>2, OrderOfPlaces
  <2>3. p < j <=> Before(T, s[p], s[j])
    BY <1>2, OrderOfPlaces
  <2> QED
    BY <1>2, <2>1, <2>2, <2>3
<1>5. CASE p = Len(s)
  <2>1. n = End
    BY <1>3, <1>5
  <2>2. ASSUME NEW z \in ToSet(s)
        PROVE  ~Before(T, x, z) /\ (z # x => Before(T, z, x))
    <3>1. PICK j \in 1..Len(s) : /\ j \in Nat
                                 /\ j < p <=> Before(T, z, x)
                                 /\ p < j <=> Before(T, x, z)
                                 /\ j = p <=> z = x
      BY <1>4
    <3>2. j <= p
      BY <1>5
    <3> QED
      BY <1>1, <1>2, <3>1, <3>2
  <2>3. \A z \in ToSet(s) : PassedIn(T, n, z)
    BY <2>1 DEF PassedIn
  <2>4. \A z \in ToSet(s) : z # x => (PassedIn(T, n, z) <=> Before(T, z, x))
    BY <2>2, <2>3
  <2>5. \A z \in ToSet(s) : Before(T, x, z) => n # End /\ (z = n \/ Before(T, n, z))
    BY <2>2
  <2>6. n = End \/ (n \in ToSet(s) /\ n # x)
    BY <2>1
  <2> QED
    BY <2>4, <2>5, <2>6 DEF n, s
<1>6. CASE p # Len(s)
  <2>1. p + 1 \in 1..Len(s) /\ n = s[p+1] /\ p \in Nat
    BY <1>1, <1>2, <1>3, <1>6
  <2>2. n \in ToSet(s) /\ n \in Event
    BY <1>1, <2>1
  <2>3. n # End
    BY <2>2
  <2>4. n # x
    <3>1. p = p + 1 <=> s[p] = s[p+1]
      BY <1>2, <2>1, OrderOfPlaces
    <3> QED
      BY <1>2, <2>1, <3>1
  <2>5. ASSUME NEW z \in ToSet(s), z # x
        PROVE  /\ Before(T, z, n) <=> Before(T, z, x)
               /\ Before(T, x, z) => z = n \/ Before(T, n, z)
    <3>1. PICK j \in 1..Len(s) : /\ s[j] = z /\ j \in Nat
                                 /\ j < p <=> Before(T, z, x)
                                 /\ p < j <=> Before(T, x, z)
                                 /\ j = p <=> z = x
      BY <1>4
    <3>2. j < p + 1 <=> Before(T, s[j], s[p+1])
      BY <2>1, <3>1, OrderOfPlaces
    <3>3. /\ p + 1 < j <=> Before(T, s[p+1], s[j])
          /\ p + 1 = j <=> s[p+1] = s[j]
      BY <2>1, <3>1, OrderOfPlaces
    <3>4. j # p
      BY <2>5, <3>1
    <3>5. (j < p + 1 <=> j < p) /\ (p < j => p + 1 = j \/ p + 1 < j)
      BY <2>1, <3>1, <3>4
    <3> HIDE DEF s
    <3> QED
      BY <2>1, <3>1, <3>2, <3>3, <3>5
  <2>6. ASSUME NEW z \in ToSet(s), Before(T, x, z) PROVE z # x
    <3>1. PICK j \in 1..Len(s) : /\ j \in Nat
                                 /\ p < j <=> Before(T, x, z)
                                 /\ j = p <=> z = x
      BY <1>4
    <3> QED
      BY <2>1, <2>6, <3>1
  <2> QED
    BY <2>2, <2>3, <2>4, <2>5, <2>6 DEF PassedIn, n, s
<1> QED
  BY <1>5, <1>6

(* What the walk has passed stays done with, when x is removed or smaller. *)
LEMMA DoneKept ==
  ASSUME NEW T, NEW U, NEW x, Shrunk(T, U, x), NEW k, NEW o, NEW e \in Change, e \in ToSet(T.line), Before(T, e, x),
         Usual(o[e]), DoneIn(T, k, o, e)
  PROVE  DoneIn(U, k, o, e)
<1>1. e # x /\ Excess(T, e) \in Int /\ Excess(U, e) \in Int /\ Excess(U, e) <= Excess(T, e)
  BY ExcessFalls
<1>2. U.qty[e] = T.qty[e] /\ T.qty[e] \in Int
  <2>1. SameBut(T.qty, U.qty, x) /\ e \in Event /\ Good(T)
    BY DEF Shrunk, Event
  <2>2. T.qty[e] \in Int
    BY <2>1, LineTypes
  <2> QED
    BY <1>1, <2>1, <2>2 DEF SameBut
<1>3. SUFFICES ASSUME T.qty[e] > 0, e \in Change \ k, Excess(U, e) > 0
               PROVE  Excess(U, e) < T.qty[e] /\ NewSize(o[e], T.qty[e], Excess(U, e)) = T.qty[e]
  BY <1>2 DEF DoneIn
<1>4. Excess(T, e) > 0
  BY <1>1, <1>3
<1>5. Excess(T, e) < T.qty[e] /\ NewSize(o[e], T.qty[e], Excess(T, e)) = T.qty[e]
  BY <1>3, <1>4 DEF DoneIn
<1>7. NewSize(o[e], T.qty[e], Excess(U, e)) = T.qty[e]
  BY <1>1, <1>2, <1>3, <1>5, NewSizeStays
<1> QED
  BY <1>1, <1>2, <1>5, <1>7

(* A flowplan that has become smaller and kept its place is done with.     *)
LEMMA DoneOnce ==
  ASSUME NEW T, NEW U, NEW x, Shrunk(T, U, x), x \in ToSet(U.line), NEW k, NEW o, Usual(o[x]),
         \A z \in ToSet(T.line) : Before(T, x, z) => Before(U, x, z),
         Excess(T, x) > 0, Excess(T, x) < T.qty[x],
         NEW m \in o[x].min..o[x].max, T.qty[x] = m * o[x].made,
         NEW r \in o[x].min..o[x].max, r <= Lots(o[x], T.qty[x] - Excess(T, x), o[x].made),
         U.qty[x] = r * o[x].made
  PROVE  DoneIn(U, k, o, x)
<1>1. /\ Excess(T, x) \in Int /\ Excess(U, x) \in Int
      /\ Excess(U, x) <= Excess(T, x) - T.qty[x] + U.qty[x]
  BY ExcessShrinks
<1>2. ASSUME Excess(U, x) > 0
      PROVE  Excess(U, x) < U.qty[x] /\ NewSize(o[x], U.qty[x], Excess(U, x)) = U.qty[x]
  <2> DEFINE p == o[x]
             q == T.qty[x]
             g == Excess(T, x)
             y == Excess(U, x)
             s == U.qty[x]
  <2>1. /\ g \in Int /\ 0 < g /\ g < q /\ y \in Int /\ 0 < y /\ y <= g - q + s
        /\ Usual(p) /\ m \in p.min..p.max /\ r \in p.min..p.max
        /\ q = m * p.made /\ s = r * p.made /\ r <= Lots(p, q - g, p.made)
    BY <1>1, <1>2
  <2> HIDE DEF p, q, g, y, s
  <2>2. y < s /\ NewSize(p, s, y) = s
    BY <2>1, NewSizeRest
  <2> QED
    BY <2>2 DEF y, s, p
<1> QED
  BY <1>2 DEF DoneIn

-----------------------------------------------------------------------------
(* The account of the walk: it still expects to remove what is over the    *)
(* minimum at the end, or more, and what it has passed is done with.       *)
OverMin(T, d) == Level(T, d) - BoundAt(T, 3, d, TRUE)

LowYield == \A e \in Change : operation[e].made <= operation[e].lot

AccountInv ==
  sweeping /\ Sound /\ LowYield =>
    /\ OverMin(tl, MaxDate) \in Int /\ OverMin(tl, MaxDate) <= excess
    /\ \A e \in plans : PassedIn(tl, fiter, e) => DoneIn(tl, locked, operation, e)

LEMMA OverMinFalls ==
  ASSUME NEW T, NEW U, NEW x, Shrunk(T, U, x), NEW newqty \in Int, NEW d \in Int, T.dt[x] <= d,
         \/ newqty = 0 /\ \A y : y \in ToSet(U.line) <=> y \in ToSet(T.line) /\ y # x
         \/ newqty = U.qty[x] /\ U.dt[x] = T.dt[x] /\ \A y : y \in ToSet(U.line) <=> y \in ToSet(T.line)
  PROVE  /\ OverMin(U, d) \in Int /\ OverMin(T, d) \in Int
         /\ OverMin(U, d) = OverMin(T, d) - (T.qty[x] - newqty)
<1> DEFINE L == Level(T, d)
           K == Level(U, d)
           b == BoundAt(T, 3, d, TRUE)
<1>1. /\ Good(T) /\ Good(U) /\ ~SetSeen(T) /\ ~SetSeen(U) /\ x \in Change /\ x \in ToSet(T.line)
      /\ SameFixed(T, U) /\ SameBut(T.dt, U.dt, x) /\ SameBut(T.qty, U.qty, x) /\ 3 \in 2..4
  BY DEF Shrunk
<1>2. BoundAt(U, 3, d, TRUE) = b /\ b \in Int
  BY <1>1, BoundKept, BoundAtType
<1>3. L \in Int /\ T.qty[x] \in Int /\ K = L - T.qty[x] + newqty
  BY <1>1, LevelChanges
<1> HIDE DEF K, L, b
<1>4. OverMin(U, d) = K - b /\ OverMin(T, d) = L - b
  BY <1>2 DEF OverMin, K, L, b
<1> QED
  BY <1>2, <1>3, <1>4

LEMMA ExcessIsLeft ==
  ASSUME PlanInv, owner = "buffer", Sound, NEW e \in Change, e \in ToSet(tl.line), tl.qty[e] > 0,
         NEW d \in Date, tl.dt[e] <= d
  PROVE  Excess(tl, e) \in Int /\ Excess(tl, e) <= OverMin(tl, d)
<1> DEFINE p == Place(tl.line, e)
           i == Max(PlacesBy(tl, d))
           L == Level(tl, d)
           b == BoundAt(tl, 3, d, TRUE)
           x == GetExcess(e)
<1>1. Good(tl) /\ d \in Int
  BY DEF PlanInv, Date
<1>2. Excess(tl, e) = x
  BY DEF Excess, GetExcess, LeastMin, MinPlaces
<1>3. LatestFirst(tl, tl.chain[3])
  BY MinimaOrdered
<1>4. PlacesBy(tl, d) # {} /\ i \in p..Len(tl.line) /\ LeastMin(tl, e, p, i) = b
  BY <1>1, <1>3, MinimumSeen
<1>5. L = tl.oh[tl.line[i]]
  BY <1>4 DEF Level
<1>6. x \in Int /\ \A k \in p..Len(tl.line) : x <= tl.oh[tl.line[k]] - LeastMin(tl, e, p, k)
  BY <1>1, ExcessIs
<1>7. OverMin(tl, d) = L - b
  BY DEF OverMin
<1> HIDE DEF i, p, L, b, x
<1>8. x <= tl.oh[tl.line[i]] - LeastMin(tl, e, p, i)
  BY <1>4, <1>6
<1> QED
  BY <1>2, <1>4, <1>5, <1>6, <1>7, <1>8

(* What Begin expects to remove: MinOf of the last event is the minimum    *)
(* that is valid at the end.                                               *)
LEMMA ExpectedIsLeft ==
  ASSUME PlanInv, owner = "buffer", Sound, tl.line # <<>>
  PROVE  tl.oh[LastEvent] - MinOf(LastEvent) = OverMin(tl, MaxDate)
<1> DEFINE s == tl.line
           z == s[Len(s)]
           d == MaxDate
<1>1. /\ Good(tl) /\ tl \in Timelines /\ s \in Seq(Event) /\ Len(s) \in Nat /\ d \in Date /\ d \in Int
      /\ \A i \in 1..Len(s) : s[i] \in Event /\ s[i] \in ToSet(s)
      /\ \A y : y \in ToSet(s) <=> \E j \in 1..Len(s) : s[j] = y
      /\ tl.dt \in [Event -> Date] /\ DOMAIN s = 1..Len(s)
  <2>1. Good(tl) /\ tl \in Timelines
    BY DEF PlanInv, Good
  <2>2. s \in Seq(Event) /\ tl.dt \in [Event -> Date]
    BY <2>1, Fields
  <2>3. d \in Date /\ d \in Int
    BY PlanAssumption DEF Date
  <2> QED
    BY <2>1, <2>2, <2>3, SeqFacts
<1>2. Len(s) \in 1..Len(s) /\ LastEvent = z
  <2>1. Len(s) # 0
    BY <1>1
  <2> QED
    BY <1>1, <2>1 DEF LastEvent, Last
<1>3. \A y \in ToSet(s) : y \in Event /\ tl.dt[y] <= d /\ tl.dt[y] <= tl.dt[z] /\ tl.dt[y] \in Int
  <2> SUFFICES ASSUME NEW y \in ToSet(s)
               PROVE  y \in Event /\ tl.dt[y] <= d /\ tl.dt[y] <= tl.dt[z] /\ tl.dt[y] \in Int
    OBVIOUS
  <2>1. PICK j \in 1..Len(s) : s[j] = y
    BY <1>1
  <2>2. y \in Event /\ z \in Event
    BY <1>1, <1>2, <2>1
  <2>3. tl.dt[y] \in Date /\ tl.dt[z] \in Date
    BY <1>1, <2>2
  <2>4. tl.dt[y] \in Int /\ tl.dt[z] \in Int /\ tl.dt[y] <= d
    BY <2>3, PlanAssumption DEF Date
  <2>5. /\ j \in Nat /\ Len(s) \in Nat
        /\ j < Len(s) <=> Before(tl, s[j], s[Len(s)])
        /\ j = Len(s) <=> s[j] = s[Len(s)]
    BY <1>1, <1>2, OrderOfPlaces
  <2>6. Before(tl, y, z) \/ y = z
    BY <2>1, <2>5
  <2> HIDE DEF s, z, d
  <2>7. tl.dt[y] <= tl.dt[z]
    BY <2>4, <2>6 DEF Before
  <2> QED
    BY <2>2, <2>4, <2>7
<1>4. z \in ToSet(s) /\ z \in Event /\ tl.dt[z] \in Int /\ 3 \in 2..4
  <2>1. z \in ToSet(s)
    BY <1>1, <1>2
  <2> HIDE DEF z, s
  <2> QED
    BY <1>3, <2>1
<1>5. Level(tl, d) = tl.oh[z]
  <2>1. PlacesBy(tl, d) # {}
    BY <1>1, <1>2, <1>3 DEF PlacesBy
  <2> DEFINE i == Max(PlacesBy(tl, d))
  <2>2. i \in 1..Len(s) /\ \A k \in 1..Len(s) : tl.dt[s[k]] <= d <=> k <= i
    BY <1>1, <2>1, LastPlaceBy
  <2>3. i = Len(s)
    <3> HIDE DEF i
    <3>1. Len(s) <= i
      BY <1>2, <1>3, <1>4, <2>2
    <3> QED
      BY <1>1, <2>2, <3>1
  <2>4. Level(tl, d) = tl.oh[s[i]]
    BY <2>1 DEF Level
  <2> QED
    BY <2>3, <2>4
<1>6. MinOf(z) = BoundAt(tl, 3, d, TRUE)
  <2>1. CASE z \notin MinEvent
    <3>1. MinOf(z) = BoundAt(tl, 3, tl.dt[z], TRUE)
      BY <2>1 DEF MinOf
    <3>2. \A x \in ToSet(tl.line) : Type(x) = 3 => (tl.dt[x] <= tl.dt[z] <=> tl.dt[x] <= d)
      BY <1>3
    <3>3. BoundAt(tl, 3, tl.dt[z], TRUE) = BoundAt(tl, 3, d, TRUE)
      <4> DEFINE a == tl.dt[z]
      <4>1. a \in Int /\ \A x \in ToSet(tl.line) : Type(x) = 3 => (tl.dt[x] <= a <=> tl.dt[x] <= d)
        BY <1>4, <3>2
      <4> HIDE DEF a, d
      <4> QED
        BY <1>1, <1>4, <4>1, SameSearch DEF a
    <3> QED
      BY <3>1, <3>3
  <2>2. CASE z \in MinEvent
    <3> DEFINE h == tl.chain[3]
    <3>1. MinOf(z) = tl.val[z]
      BY <2>2 DEF MinOf
    <3>2. /\ h \in Seq(Event) /\ Len(h) \in Nat
          /\ \A x \in Event : x \in ToSet(h) <=> x \in ToSet(s) /\ Type(x) = 3
      BY <1>1, <1>4, NoneFirst
    <3>3. Type(z) = 3
      BY <2>2, EventAssumption DEF Type, Fixed
    <3>4. PICK j \in 1..Len(h) : h[j] = z
      BY <1>4, <3>2, <3>3, SeqFacts
    <3>5. \A k \in 1..Len(h) : h[k] \in ToSet(s)
      BY <3>2, SeqFacts
    <3>6. LatestFirst(tl, h)
      BY MinimaOrdered
    <3>7. \/ (\A k \in 1..Len(h) : ~(tl.dt[h[k]] <= d)) /\ BoundAt(tl, 3, d, TRUE) = 0
          \/ \E k \in 1..Len(h) : /\ tl.dt[h[k]] <= d /\ BoundAt(tl, 3, d, TRUE) = tl.val[h[k]]
                                  /\ \A r \in 1..Len(h) : tl.dt[h[r]] <= d => k <= r
      <4>1. Good(tl) /\ 3 \in 2..4 /\ d \in Int
        BY <1>1
      <4> HIDE DEF d, s, z
      <4> QED
        BY <4>1, BoundFound
    <3> HIDE DEF h, d, s, z
    <3>8. PICK k \in 1..Len(h) : /\ tl.dt[h[k]] <= d /\ BoundAt(tl, 3, d, TRUE) = tl.val[h[k]]
                                 /\ \A r \in 1..Len(h) : tl.dt[h[r]] <= d => k <= r
      BY <1>3, <3>4, <3>5, <3>7
    <3>9. k <= j
      BY <1>3, <1>4, <3>4, <3>8
    <3>10. ~(k < j)
      BY <1>3, <1>4, <3>4, <3>5, <3>6 DEF LatestFirst
    <3>11. k = j
      BY <3>9, <3>10
    <3> QED
      BY <3>1, <3>4, <3>8, <3>11
  <2> QED
    BY <2>1, <2>2
<1> QED
  BY <1>2, <1>5, <1>6 DEF OverMin

(* One step of the account: x, where the walk stands, is removed.          *)
LEMMA RemovalKeepsAccount ==
  ASSUME End \notin Event, NEW T, NEW U, NEW x, Shrunk(T, U, x), NEW P, P \subseteq Change, P \subseteq ToSet(T.line),
         NEW k, NEW o, NEW e \in P, e # x, Usual(o[e]),
         \A z \in P : Before(T, z, x) => DoneIn(T, k, o, z),
         PassedIn(U, NextOf(T.line, x), e)
  PROVE  DoneIn(U, k, o, e)
<1> DEFINE n == NextOf(T.line, x)
<1>1. /\ Good(T) /\ x \in ToSet(T.line) /\ e \in Change /\ e \in ToSet(T.line) /\ e \in Event
  BY DEF Shrunk, Event
<1>2. /\ n = End \/ (n \in ToSet(T.line) /\ n # x)
      /\ \A z \in ToSet(T.line) : z # x => (PassedIn(T, n, z) <=> Before(T, z, x))
  BY <1>1, NextPassed
<1> HIDE DEF n
<1>3. PassedIn(U, n, e)
  BY DEF n
<1>4. PassedIn(T, n, e)
  <2>1. CASE n = End
    BY <2>1 DEF PassedIn
  <2>2. CASE n # End
    <3>1. n \in Event /\ n # x
      BY <1>1, <1>2, <2>2, LineTypes
    <3>2. Before(U, e, n)
      BY <1>3, <2>2 DEF PassedIn
    <3>3. Before(T, e, n)
      BY <1>1, <3>1, <3>2, OrderKept
    <3> QED
      BY <3>3 DEF PassedIn
  <2> QED
    BY <2>1, <2>2
<1>5. Before(T, e, x)
  BY <1>1, <1>2, <1>4
<1>6. DoneIn(T, k, o, e)
  BY <1>5
<1> QED
  BY <1>1, <1>5, <1>6, DoneKept

LEMMA GuardsAre ==
  ASSUME NEW e \in Change
  PROVE  /\ GetExcess(e) = Excess(tl, e)
         /\ Smaller(e) = NewSize(operation[e], tl.qty[e], Excess(tl, e))
         /\ Candidate(e) <=> tl.qty[e] > 0 /\ e \in Change \ locked /\ Excess(tl, e) > 0
<1>1. GetExcess(e) = Excess(tl, e)
  BY DEF Excess, GetExcess, LeastMin, MinPlaces
<1> QED
  BY <1>1 DEF Smaller, NewSize, Candidate

LEMMA SweepKeepsAccount ==
  ASSUME SweepInv, AccountInv, IsFiniteSet(Event), SweepNext
  PROVE  AccountInv'
<1> DEFINE x == fiter
           n == NextOf(tl.line, x)
<1>1. /\ PlanInv /\ Good(tl) /\ OwnerLine(owner, tl) /\ PlansInLine /\ plans \subseteq Change
      /\ sweeping => owner = "buffer"
      /\ fiter = End \/ fiter \in ToSet(tl.line)
      /\ sweeping => operation \in Operations
  BY DEF SweepInv, PlanInv, PlanTypes
<1>2. \A e \in Event : End \notin Event
  BY EndIsNoEvent
<1>3. plans \subseteq ToSet(tl.line)
  BY <1>1 DEF PlansInLine
<1>4. sweeping => \A e \in Change : Usual(operation[e])
  BY <1>1, OperationAssumption DEF Usual
<1>8. CASE Begin
  <2>1. /\ owner = "buffer" /\ tl.line # <<>> /\ fiter' = tl.line[1] /\ tl' = tl /\ plans' = plans /\ stale' = stale
        /\ excess' = tl.oh[LastEvent] - MinOf(LastEvent)
    BY <1>8 DEF Begin, vars, user
  <2>2. SUFFICES ASSUME Sound PROVE AccountInv'
    BY <2>1 DEF AccountInv, Sound
  <2>3. OverMin(tl', MaxDate) \in Int /\ OverMin(tl', MaxDate) <= excess'
    <3>1. excess' = OverMin(tl', MaxDate)
      BY <1>1, <2>1, <2>2, ExpectedIsLeft
    <3>2. excess' \in Int
      BY <1>8, BeginKeepsInv DEF SweepInv
    <3> QED
      BY <3>1, <3>2
  <2>4. ASSUME NEW e \in plans, PassedIn(tl, tl.line[1], e) PROVE FALSE
    <3>1. e \in ToSet(tl.line) /\ e \in Event
      BY <1>1, <1>3 DEF Event
    <3>2. tl.line \in Seq(Event) /\ Len(tl.line) \in Nat
      BY <1>1, Fields DEF Good
    <3>3. PICK j \in 1..Len(tl.line) : tl.line[j] = e
      BY <3>1, <3>2, SeqFacts
    <3>4. 1 \in 1..Len(tl.line) /\ ~(j < 1)
      BY <3>2, <3>3
    <3>5. /\ j < 1 <=> Before(tl, tl.line[j], tl.line[1])
          /\ tl.line[1] \in Event
      BY <1>1, <3>3, <3>4, OrderOfPlaces
    <3>6. tl.line[1] # End
      BY <1>2, <3>5
    <3> QED
      BY <2>4, <3>3, <3>4, <3>5, <3>6 DEF PassedIn
  <2> QED
    BY <2>1, <2>3, <2>4 DEF AccountInv
<1>5. CASE Return
  BY <1>5 DEF Return, AccountInv
<1>6. CASE PlanChanges
  BY <1>6 DEF PlanChanges, sweep, AccountInv
<1>7. CASE Skip \/ DeleteExcess \/ ResizeExcess
  <2>1. /\ sweeping /\ x # End /\ sweeping' = sweeping /\ locked' = locked /\ stale' = stale /\ fiter' = n
        /\ operation' = operation
    BY <1>7 DEF Skip, DeleteExcess, ResizeExcess, Continues, vars, user
  <2>2. owner = "buffer" /\ x \in ToSet(tl.line) /\ ~SetSeen(tl) /\ x \in Event
    <3>1. x \in ToSet(tl.line)
      BY <1>1, <2>1
    <3> QED
      BY <1>1, <2>1, <3>1, LineTypes DEF OwnerLine
  <2>3. End \notin Event
    BY <1>2, <2>2
  <2>4. /\ n = End \/ (n \in ToSet(tl.line) /\ n # x)
        /\ \A z \in ToSet(tl.line) : z # x => (PassedIn(tl, n, z) <=> Before(tl, z, x))
        /\ \A z \in ToSet(tl.line) : Before(tl, x, z) => n # End /\ (z = n \/ Before(tl, n, z))
    BY <1>1, <2>2, <2>3, NextPassed
  <2>5. SUFFICES ASSUME Sound, LowYield PROVE AccountInv'
    BY <2>1 DEF AccountInv, Sound, LowYield
  <2>6. /\ OverMin(tl, MaxDate) \in Int /\ OverMin(tl, MaxDate) <= excess /\ excess \in Int
        /\ \A e \in plans : Before(tl, e, x) => DoneIn(tl, locked, operation, e)
    BY <2>1, <2>5 DEF AccountInv, PassedIn, SweepInv
  <2>7. CASE Skip
    <3>1. tl' = tl /\ plans' = plans /\ excess' = excess
      BY <2>7 DEF Skip, vars
    <3>2. x \in plans => DoneIn(tl, locked, operation, x)
      <4> SUFFICES ASSUME x \in plans PROVE DoneIn(tl, locked, operation, x)
        OBVIOUS
      <4>1. ~Candidate(x) \/ (GetExcess(x) < tl.qty[x] /\ Smaller(x) = tl.qty[x])
        BY <2>7 DEF Skip
      <4>2. x \in Change
        BY <1>1
      <4> HIDE DEF x
      <4> QED
        BY <4>1, <4>2, GuardsAre DEF DoneIn
    <3>3. ASSUME NEW e \in plans, PassedIn(tl, n, e) PROVE DoneIn(tl, locked, operation, e)
      BY <1>3, <2>4, <2>6, <3>2, <3>3
    <3> HIDE DEF x, n
    <3> QED
      BY <2>1, <2>6, <3>1, <3>3 DEF AccountInv
  <2>8. CASE DeleteExcess \/ ResizeExcess
    <3>1. /\ x \in Change /\ tl.qty[x] > 0 /\ Candidate(x)
      BY <2>8 DEF DeleteExcess, ResizeExcess, Candidate
    <3>2. /\ tl.qty[x] \in Int /\ tl.dt[x] \in Date /\ tl.dt[x] <= MaxDate /\ MaxDate \in Int
      <4>1. tl.qty \in [Event -> Int] /\ tl.dt \in [Event -> Date]
        BY <1>1, Fields DEF Good
      <4>2. tl.qty[x] \in Int /\ tl.dt[x] \in Date
        BY <2>2, <4>1
      <4> QED
        BY <4>2, PlanAssumption DEF Date
    <3> DEFINE g == Excess(tl, x)
    <3>3. GetExcess(x) = g /\ g > 0 /\ g \in Int
      <4> HIDE DEF x
      <4> QED
        BY <1>1, <2>2, <3>1, GuardsAre, ExcessOf
    <3>4. CASE DeleteExcess
      <4>1. tl' = Erase(tl, x) /\ plans' = plans \ {x} /\ excess' = excess - tl.qty[x]
        BY <3>4 DEF DeleteExcess
      <4> HIDE DEF x, n
      <4>2. /\ Good(tl') /\ OwnerLine(owner, tl') /\ SameFixed(tl, tl')
            /\ \A y : y \in ToSet(tl'.line) <=> y \in ToSet(tl.line) /\ y # x
            /\ SameBut(tl.dt, tl'.dt, x) /\ SameBut(tl.qty, tl'.qty, x)
        BY <1>1, <2>2, <3>1, <4>1, DeleteGood
      <4>3. ~SetSeen(tl')
        BY <2>2, <4>2 DEF OwnerLine
      <4>4. Shrunk(tl, tl', x)
        BY <1>1, <2>2, <3>1, <4>2, <4>3 DEF Shrunk
      <4>5. /\ OverMin(tl', MaxDate) \in Int
            /\ OverMin(tl', MaxDate) = OverMin(tl, MaxDate) - (tl.qty[x] - 0)
        <5>1. 0 \in Int
          OBVIOUS
        <5> QED
          BY <3>2, <4>2, <4>4, <5>1, OverMinFalls
      <4>6. OverMin(tl', MaxDate) <= excess'
        BY <2>6, <3>2, <4>1, <4>5
      <4>7. ASSUME NEW e \in plans', PassedIn(tl', n, e) PROVE DoneIn(tl', locked, operation, e)
        <5>1. e \in plans /\ e # x /\ Usual(operation[e])
          BY <1>1, <1>4, <2>1, <4>1
        <5> QED
          BY <1>1, <1>3, <2>3, <2>6, <4>4, <4>7, <5>1, RemovalKeepsAccount DEF n
      <4> QED
        BY <2>1, <4>5, <4>6, <4>7 DEF AccountInv
    <3>5. CASE ResizeExcess
      <4> DEFINE q == Resized(x)
                 s == Smaller(x)
                 a == tl.dt[x]
                 o == operation[x]
                 r == Lots(o, s, o.lot)
      <4>1. /\ tl' = Update(tl, x, q, a) /\ plans' = plans /\ excess' = excess - (tl.qty[x] - s)
            /\ g < tl.qty[x]
        BY <3>3, <3>5 DEF ResizeExcess
      <4>2. /\ q \in Int /\ s \in Int /\ s <= tl.qty[x] /\ q <= s /\ Usual(o)
            /\ \E m \in o.min..o.max : tl.qty[x] = m * o.made
            /\ r \in o.min..o.max /\ q = r * o.made /\ r <= Lots(o, tl.qty[x] - g, o.made)
        <5>1. x \in plans
          BY <1>1, <2>2, <3>1 DEF PlansInLine
        <5>2. o.made <= o.lot
          BY <2>5, <3>1 DEF LowYield
        <5>3. /\ q \in Int /\ s \in Int /\ s <= tl.qty[x] /\ Usual(o)
              /\ \E m \in o.min..o.max : tl.qty[x] = m * o.made
              /\ r \in o.min..o.max /\ q = r * o.made
              /\ o.made <= o.lot => r <= Lots(o, tl.qty[x] - GetExcess(x), o.made) /\ q <= s
          <6> HIDE DEF x
          <6> QED
            BY <2>1, <3>1, <3>3, <5>1, SmallerIs
        <5>4. g = GetExcess(x)
          BY <3>3
        <5>5. r <= Lots(o, tl.qty[x] - g, o.made) /\ q <= s
          <6> HIDE DEF q, s, r, o, x, g
          <6> QED
            BY <5>2, <5>3, <5>4
        <5> HIDE DEF q, s, r, o, x, g
        <5> QED
          BY <5>3, <5>5
      <4>3. (owner # "buffer" => q <= 0) /\ a \in Date
        BY <2>2, <3>2
      <4> HIDE DEF x, q, a, n, g, s, o, r
      <4>13. q \in Int
        BY <4>2
      <4>4. /\ Good(tl') /\ OwnerLine(owner, tl') /\ SameFixed(tl, tl')
            /\ \A y : y \in ToSet(tl'.line) <=> y \in ToSet(tl.line)
            /\ SameBut(tl.dt, tl'.dt, x) /\ SameBut(tl.qty, tl'.qty, x) /\ tl'.dt[x] = a /\ tl'.qty[x] = q
        BY <1>1, <2>2, <3>1, <4>1, <4>3, <4>13, MoveGood
      <4>5. ~SetSeen(tl') /\ a = tl.dt[x]
        BY <2>2, <4>4 DEF OwnerLine, a
      <4>6. q <= tl.qty[x]
        BY <3>2, <4>2
      <4>7. Shrunk(tl, tl', x)
        BY <1>1, <2>2, <3>1, <4>4, <4>5, <4>6 DEF Shrunk
      <4>8. /\ OverMin(tl', MaxDate) \in Int
            /\ OverMin(tl', MaxDate) = OverMin(tl, MaxDate) - (tl.qty[x] - q)
        BY <3>2, <4>4, <4>5, <4>7, <4>13, OverMinFalls
      <4>9. OverMin(tl', MaxDate) <= excess'
        BY <2>6, <3>2, <4>1, <4>2, <4>8
      <4>11. ASSUME PassedIn(tl', n, x) PROVE DoneIn(tl', locked, operation, x)
        <5>1. ASSUME NEW z \in ToSet(tl.line), Before(tl, x, z) PROVE Before(tl', x, z)
          <6>1. n # End /\ (z = n \/ Before(tl, n, z))
            BY <2>4, <5>1
          <6>2. Before(tl', x, n)
            BY <4>11, <6>1 DEF PassedIn
          <6>3. n \in Event /\ z \in Event /\ n # x
            BY <1>1, <2>4, <6>1, LineTypes
          <6>4. z # x
            <7>1. tl.dt \in [Event -> Int] /\ tl.qty \in [Event -> Int]
              BY <1>1, LineTypes
            <7> QED
              BY <2>2, <5>1, <7>1, Ordering
          <6>5. z = n \/ Before(tl', n, z)
            BY <4>7, <6>1, <6>3, <6>4, OrderKept
          <6>6. tl'.dt \in [Event -> Int] /\ tl'.qty \in [Event -> Int]
            BY <4>4, LineTypes
          <6> QED
            BY <2>2, <6>2, <6>3, <6>5, <6>6, Ordering
        <5>2. x \in ToSet(tl'.line)
          BY <2>2, <4>4
        <5>3. PICK m \in o.min..o.max : tl.qty[x] = m * o.made
          BY <4>2
        <5>4. /\ Excess(tl, x) > 0 /\ Excess(tl, x) < tl.qty[x] /\ Usual(operation[x])
              /\ m \in operation[x].min..operation[x].max /\ tl.qty[x] = m * operation[x].made
              /\ r \in operation[x].min..operation[x].max /\ tl'.qty[x] = r * operation[x].made
              /\ r <= Lots(operation[x], tl.qty[x] - Excess(tl, x), operation[x].made)
          BY <3>3, <4>1, <4>2, <4>4, <5>3 DEF g, o
        <5> QED
          BY <4>7, <5>1, <5>2, <5>4, DoneOnce
      <4>12. ASSUME NEW e \in plans, PassedIn(tl', n, e) PROVE DoneIn(tl', locked, operation, e)
        <5>1. CASE e = x
          BY <4>11, <4>12, <5>1
        <5>2. CASE e # x
          <6>1. Usual(operation[e])
            BY <1>1, <1>4, <2>1
          <6> QED
            BY <1>1, <1>3, <2>3, <2>6, <4>7, <4>12, <5>2, <6>1, RemovalKeepsAccount DEF n
        <5> QED
          BY <5>1, <5>2
      <4> QED
        BY <2>1, <4>1, <4>8, <4>9, <4>12 DEF AccountInv
    <3> QED
      BY <2>8, <3>4, <3>5
  <2> QED
    BY <1>7, <2>7, <2>8
<1> QED
  BY <1>5, <1>6, <1>7, <1>8 DEF SweepNext

LEMMA AccountIsSettled ==
  ASSUME SweepInv, AccountInv, IsFiniteSet(Event)
  PROVE  NothingLeft
<1> SUFFICES ASSUME sweeping, ~Continues, Sound, LowYield, NEW e \in plans, Candidate(e)
             PROVE  GetExcess(e) < tl.qty[e] /\ Smaller(e) = tl.qty[e]
  BY DEF NothingLeft, LowYield
<1>1. /\ PlanInv /\ Good(tl) /\ owner = "buffer" /\ e \in Change /\ e \in ToSet(tl.line)
      /\ OverMin(tl, MaxDate) \in Int /\ OverMin(tl, MaxDate) <= excess /\ excess \in Int
      /\ PassedIn(tl, fiter, e) => DoneIn(tl, locked, operation, e)
  BY DEF SweepInv, PlanInv, PlanTypes, PlansInLine, AccountInv
<1>2. tl.qty[e] > 0 /\ e \in Change \ locked /\ Excess(tl, e) > 0
  BY <1>1, GuardsAre
<1>3. MaxDate \in Date /\ tl.dt[e] <= MaxDate
  <2>1. tl.dt[e] \in Date
    BY <1>1, Fields DEF Good, Event
  <2> QED
    BY <2>1, PlanAssumption DEF Date
<1>4. Excess(tl, e) \in Int /\ Excess(tl, e) <= excess
  BY <1>1, <1>2, <1>3, ExcessIsLeft
<1>5. fiter = End
  BY <1>1, <1>2, <1>4 DEF Continues
<1>6. DoneIn(tl, locked, operation, e)
  BY <1>1, <1>5 DEF PassedIn
<1> QED
  BY <1>1, <1>2, <1>6, GuardsAre DEF DoneIn

-----------------------------------------------------------------------------
(* The types of the timeline, its plan and the walk that removes excess:   *)
(* in particular the iterator always stands at an event of the timeline.   *)
THEOREM SweepTypeCorrect ==
  ASSUME BucketsFirst = TRUE, OpenEnd = FALSE
  PROVE  SweepSpec => []SweepTypeOK
<1> QED
  BY SweepInvHolds, InvGivesTypes, PTL

(* Every onhand is the last value that was set and what changed it since,  *)
(* every cumulative quantity what was produced until then, whatever        *)
(* insert(), erase() and update() came before.                             *)
THEOREM SumsCorrect ==
  ASSUME BucketsFirst = TRUE, OpenEnd = FALSE
  PROVE  SweepSpec => []OnhandIsSum
<1>1. SweepInv => PlanInv
  BY DEF SweepInv
<1> QED
  BY <1>1, SweepInvHolds, InvGivesSums, PTL

(* getMin() and getMax() give the minimum and the maximum that were asked  *)
(* for, as a value or a calendar, unless older events had been left.       *)
THEOREM BoundsCorrect ==
  ASSUME BucketsFirst = TRUE, OpenEnd = FALSE
  PROVE  SweepSpec => []BoundsFollowCalendar
<1>1. SweepInv => PlanInv
  BY DEF SweepInv
<1> QED
  BY <1>1, SweepInvHolds, InvGivesBounds, PTL

(* The removal of excess creates no shortage and makes none worse, when    *)
(* each unit of an operation produces a unit or more.                      *)
THEOREM StockCorrect ==
  ASSUME BucketsFirst = TRUE, OpenEnd = FALSE
  PROVE  SweepSpec => []NoNewShortage
<1>1. SweepInit => NoNewShortage
  BY DEF SweepInit, NoNewShortage
<1>2. SweepInv /\ NoNewShortage /\ [SweepNext]_sweepVars => NoNewShortage'
  <2> SUFFICES ASSUME SweepInv, NoNewShortage, [SweepNext]_sweepVars PROVE NoNewShortage'
    OBVIOUS
  <2>1. CASE SweepNext
    BY <2>1, SweepKeepsStock
  <2>2. CASE UNCHANGED sweepVars
    <3>1. tl' = tl /\ stale' = stale /\ sweeping' = sweeping /\ before' = before /\ operation' = operation
      BY <2>2 DEF sweepVars, vars, sweep
    <3>2. Stock' = Stock
      BY <3>1 DEF Stock
    <3> QED
      BY <3>1, <3>2 DEF NoNewShortage, Sound
  <2> QED
    BY <2>1, <2>2
<1> QED
  BY <1>1, <1>2, SweepInvHolds, PTL DEF SweepSpec

(* The walk over a timeline that it changes forgets nothing: when it ends, *)
(* at the end or because it has removed what it expected to, no            *)
(* operationplan that could be deleted or be smaller is left, when each    *)
(* unit of an operation produces a unit or less.                           *)
THEOREM NothingLeftCorrect ==
  ASSUME BucketsFirst = TRUE, OpenEnd = FALSE, IsFiniteSet(Event)
  PROVE  SweepSpec => []NothingLeft
<1>1. SweepInit => AccountInv
  BY DEF SweepInit, AccountInv
<1>2. SweepInv /\ AccountInv /\ [SweepNext]_sweepVars => AccountInv'
  <2> SUFFICES ASSUME SweepInv, AccountInv, [SweepNext]_sweepVars PROVE AccountInv'
    OBVIOUS
  <2>1. CASE SweepNext
    BY <2>1, SweepKeepsAccount
  <2>2. CASE UNCHANGED sweepVars
    <3>1. /\ tl' = tl /\ stale' = stale /\ plans' = plans /\ sweeping' = sweeping /\ fiter' = fiter
          /\ locked' = locked /\ excess' = excess /\ operation' = operation
      BY <2>2 DEF sweepVars, vars, sweep
    <3> QED
      BY <3>1 DEF AccountInv, Sound, LowYield
  <2> QED
    BY <2>1, <2>2
<1>3. SweepInv /\ AccountInv => NothingLeft
  BY AccountIsSettled
<1> QED
  BY <1>1, <1>2, <1>3, SweepInvHolds, PTL DEF SweepSpec

================================================================================

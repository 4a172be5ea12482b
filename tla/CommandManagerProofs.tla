-------------------------- MODULE CommandManagerProofs --------------------------
(***************************************************************************)
(* Proofs about the journal of module CommandManager, for any number of    *)
(* operationplans, bookmarks and commands, with and without consolidation  *)
(* and deletion of drafts: TypeOK, Chained and RevertIsExact are           *)
(* invariants.  All three follow from the inductive invariant JournalInv.  *)
(***************************************************************************)
EXTENDS CommandManager, SequenceTheorems, TLAPS

(* Facts about the ends of the list of bookmarks. *)

LEMMA MaxOfInterval ==
  ASSUME NEW n \in Nat
  PROVE  Max(0..n) = n
<1>1. n \in 0..n /\ \A y \in 0..n : n >= y
  OBVIOUS
<1>2. \A x \in 0..n : (\A y \in 0..n : x >= y) => x = n
  BY SMT
<1> QED BY <1>1, <1>2, SMT DEF Max

LEMMA LastOfChain ==
  ASSUME NEW n \in Bookmark, live = First..n, BoundAssumption
  PROVE  lastBookmark = n
BY MaxOfInterval, SMT DEF Bookmark, First, lastBookmark, BoundAssumption

LEMMA PreviousOfLast ==
  ASSUME NEW n \in Bookmark \ {First}, live = First..n, BoundAssumption
  PROVE  Previous(n) = n - 1
<1>1. n - 1 \in Nat /\ {a \in live : a < n} = 0..(n - 1)
  BY SMT DEF Bookmark, First, BoundAssumption
<1>2. Previous(n) = Max(0..(n - 1))
  BY <1>1 DEF Previous
<1> QED BY <1>1, <1>2, MaxOfInterval

LEMMA MinOfInterval ==
  ASSUME NEW m \in Int, NEW n \in Int, m <= n
  PROVE  Min(m..n) = m
<1>1. m \in m..n /\ \A y \in m..n : m <= y
  OBVIOUS
<1>2. \A x \in m..n : (\A y \in m..n : x <= y) => x = m
  BY <1>1, SMT
<1> QED BY <1>1, <1>2, SMT DEF Min

(* Facts about the lists of commands and snapshots. *)

LEMMA PopType ==
  ASSUME NEW T, NEW s \in Seq(T), s # <<>>
  PROVE  /\ SubSeq(s, 1, Len(s) - 1) \in Seq(T)
         /\ Len(SubSeq(s, 1, Len(s) - 1)) = Len(s) - 1
         /\ \A i \in 1..(Len(s) - 1) : SubSeq(s, 1, Len(s) - 1)[i] = s[i]
         /\ Len(s) \in Nat \ {0}
<1>1. Len(s) \in Nat \ {0}
  BY EmptySeq
<1>2. \A i \in 1..(Len(s) - 1) : s[i] \in T
  BY <1>1, ElementOfSeq
<1> DEFINE n == Len(s) - 1
<1>3. /\ SubSeq(s, 1, n) \in Seq(T)
      /\ Len(SubSeq(s, 1, n)) = IF 1 <= n THEN n - 1 + 1 ELSE 0
      /\ \A i \in 1 .. n - 1 + 1 : SubSeq(s, 1, n)[i] = s[1 + i - 1]
  BY <1>1, <1>2, SubSeqProperties
<1>4. /\ Len(SubSeq(s, 1, n)) = n
      /\ \A i \in 1..n : SubSeq(s, 1, n)[i] = s[i]
  <2>1. n \in Nat /\ n - 1 + 1 = n
    BY <1>1
  <2>2. \A i \in 1..n : 1 + i - 1 = i
    BY <2>1
  <2> QED BY <1>3, <2>1, <2>2
<1> QED BY <1>1, <1>3, <1>4

LEMMA TailType ==
  ASSUME NEW T, NEW s \in Seq(T), s # <<>>
  PROVE  /\ Tail(s) \in Seq(T)
         /\ Len(Tail(s)) = Len(s) - 1
         /\ \A i \in 1..(Len(s) - 1) : Tail(s)[i] = s[i + 1]
         /\ Head(s) = s[1] /\ Head(s) \in T
         /\ Len(s) \in Nat \ {0}
<1>1. Len(s) \in Nat \ {0}
  BY EmptySeq
<1> QED BY <1>1, HeadTailProperties, SMT

LEMMA AppendType ==
  ASSUME NEW T, NEW s \in Seq(T), NEW e \in T
  PROVE  /\ Append(s, e) \in Seq(T)
         /\ Len(Append(s, e)) = Len(s) + 1
         /\ \A i \in 1..Len(s) : Append(s, e)[i] = s[i]
         /\ Append(s, e)[Len(s) + 1] = e
         /\ Len(s) \in Nat
BY SMT

-----------------------------------------------------------------------------
(* The initial states. *)

LEMMA BookmarkFacts ==
  /\ MaxBookmarks \in Nat
  /\ First = 0 /\ First \in Bookmark /\ Bookmark = 0..MaxBookmarks
BY BoundAssumption, SMT DEF BoundAssumption, Bookmark, First

LEMMA InitJournal == Init => JournalInv
<1> SUFFICES ASSUME Init PROVE JournalInv
  OBVIOUS
<1> USE BookmarkFacts DEF Init
<1>0. /\ live = 0..0
      /\ lastBookmark = 0
      /\ View \in Plan
      /\ Snapshot \in SnapshotSet
  <2>1. live = 0..0
    BY SMT
  <2>2. Max(0..0) = 0
    BY MaxOfInterval
  <2> QED BY <2>1, <2>2, SMT DEF lastBookmark, View, Plan, Snapshot, SnapshotSet
<1>1. TypeOK
  <2>1. commands \in [Bookmark -> Seq(Command)]
    BY EmptySeq
  <2>2. trail \in [Bookmark -> Seq(SnapshotSet)]
    <3>1. <<Snapshot>> \in Seq(SnapshotSet) /\ <<>> \in Seq(SnapshotSet)
      BY <1>0, SMT
    <3> QED BY <3>1
  <2> QED BY <2>1, <2>2, SMT DEF TypeOK, Plan
<1>2. Structure
  <2>1. Chain
    BY <1>0, SMT DEF Chain, IsChildOf
  <2> QED BY <1>0, <2>1, SMT DEF Structure
<1>3. \A b \in live : DOMAIN commands[b] = {} /\ Len(commands[b]) = 0
  BY SMT
<1>4. Objects
  BY <1>3, SMT DEF Objects, Plan
<1>5. Snapshots /\ Deletions
  <2>1. \A b \in live : Len(trail[b]) = 1 /\ trail[b][1] = Snapshot
    BY SMT
  <2> QED BY <1>0, <1>3, <2>1, SMT DEF Snapshots, Deletions, Last, Snapshot
<1> QED BY <1>1, <1>2, <1>4, <1>5 DEF JournalInv

-----------------------------------------------------------------------------
(* Steps that only move the manager from one loop to another. *)

LEMMA KeepsData ==
  ASSUME UNCHANGED <<plan, live, commands, trail>>
  PROVE  (Objects => Objects') /\ (Snapshots => Snapshots') /\ (Deletions => Deletions')
<1>1. View' = View /\ lastBookmark' = lastBookmark
  BY DEF View, lastBookmark, plan
<1>2. \A c, v, w : Reverts(c, v, w) => Reverts(c, v, w)'
  BY DEF Reverts, plan
<1>3. Objects => Objects'
  BY DEF Objects, plan, IsCommand, Precedes
<1>4. Snapshots => Snapshots'
  BY <1>1, <1>2 DEF Snapshots, Last, plan
<1>5. Deletions => Deletions'
  BY DEF Deletions, plan, IsCommand
<1> QED BY <1>3, <1>4, <1>5

LEMMA KeepsChain ==
  ASSUME UNCHANGED <<live, parent>>
  PROVE  Chain => Chain'
BY DEF Chain, IsChildOf

LEMMA LastIsLive ==
  ASSUME JournalInv, pc # "commit"
  PROVE  lastBookmark \in live /\ live = First..lastBookmark /\ lastBookmark \in Bookmark
<1>1. PICK n \in Bookmark : live = First..n
  BY DEF JournalInv, Structure, Chain
<1>2. lastBookmark = n
  BY <1>1, LastOfChain, BoundAssumption
<1> QED BY <1>1, <1>2, BookmarkFacts, SMT

LEMMA RollbackBookmarkStep ==
  ASSUME JournalInv, NEW b \in live, RollbackBookmark(b)
  PROVE  JournalInv'
<1>1. lastBookmark \in live /\ lastBookmark' = lastBookmark
  BY LastIsLive DEF RollbackBookmark, list, lastBookmark
<1>2. TypeOK'
  BY <1>1, SMT DEF JournalInv, TypeOK, RollbackBookmark, plan, list
<1>3. Structure'
  BY <1>1, KeepsChain DEF JournalInv, Structure, RollbackBookmark, list
<1> QED BY <1>2, <1>3, KeepsData DEF JournalInv, RollbackBookmark, list

LEMMA RollbackBookmarkDoneStep ==
  ASSUME JournalInv, RollbackBookmarkDone
  PROVE  JournalInv'
<1>1. TypeOK'
  BY SMT DEF JournalInv, TypeOK, RollbackBookmarkDone, Stop, plan, list
<1>2. lastBookmark' = lastBookmark
  BY DEF RollbackBookmarkDone, list, lastBookmark
<1>3. Structure'
  BY <1>2, KeepsChain DEF JournalInv, Structure, RollbackBookmarkDone, Stop, list
<1> QED BY <1>1, <1>3, KeepsData DEF JournalInv, RollbackBookmarkDone, Stop, list

LEMMA RollbackStep ==
  ASSUME JournalInv, Rollback
  PROVE  JournalInv'
<1>1. lastBookmark \in live /\ lastBookmark' = lastBookmark
  BY LastIsLive DEF Rollback, list, lastBookmark
<1>2. TypeOK'
  BY <1>1, SMT DEF JournalInv, TypeOK, Rollback, plan, list
<1>3. Structure'
  BY <1>1, KeepsChain DEF JournalInv, Structure, Rollback, list
<1> QED BY <1>2, <1>3, KeepsData DEF JournalInv, Rollback, list

LEMMA CommitStep ==
  ASSUME JournalInv, Commit
  PROVE  JournalInv'
<1>1. TypeOK'
  BY SMT DEF JournalInv, TypeOK, Commit, plan, list
<1>2. live = {First} \cup First..lastBookmark /\ lastBookmark \in Bookmark /\ First <= lastBookmark
  BY LastIsLive, BookmarkFacts, SMT DEF Commit
<1>3. Structure'
  BY <1>2 DEF JournalInv, Structure, Commit, list
<1> QED BY <1>1, <1>3, KeepsData DEF JournalInv, Commit, list

-----------------------------------------------------------------------------
(* A decision: Log() appends one command and one snapshot. *)

LEMMA TypeFacts ==
  ASSUME TypeOK
  PROVE  /\ \A b \in Bookmark : /\ commands[b] \in Seq(Command)
                              /\ Len(commands[b]) \in Nat
                              /\ DOMAIN commands[b] = 1..Len(commands[b])
                              /\ \A i \in DOMAIN commands[b] : commands[b][i] \in Command
         /\ \A b \in Bookmark : /\ trail[b] \in Seq(SnapshotSet)
                              /\ Len(trail[b]) \in Nat
         /\ live \subseteq Bookmark
<1>1. \A b \in Bookmark : commands[b] \in Seq(Command) /\ trail[b] \in Seq(SnapshotSet)
  BY DEF TypeOK
<1> QED BY <1>1, LenProperties, ElementOfSeq DEF TypeOK

LEMMA LogFacts ==
  ASSUME JournalInv, NEW kind \in {"create", "delete", "move"}, NEW x \in OperationPlan,
         NEW q \in {0} \cup Quantity, Log(kind, x, q), Snapshot' \in SnapshotSet
  PROVE  LET n == Len(commands[current])
             c == [kind |-> kind, opplan |-> x, originalqty |-> q]
         IN  /\ current \in live /\ current = lastBookmark /\ lastBookmark' = lastBookmark
             /\ pc = "idle" /\ pc' = "idle" /\ live' = live
             /\ commands' \in [Bookmark -> Seq(Command)]
             /\ trail' \in [Bookmark -> Seq(SnapshotSet)]
             /\ \A b \in live \ {current} : commands'[b] = commands[b] /\ trail'[b] = trail[b]
             /\ Len(commands'[current]) = n + 1
             /\ \A i \in 1..n : commands'[current][i] = commands[current][i]
             /\ commands'[current][n + 1] = c
             /\ Len(trail'[current]) = n + 2
             /\ \A i \in 1..(n + 1) : trail'[current][i] = trail[current][i]
             /\ trail'[current][n + 2] = Snapshot'
             /\ Structure'
<1> DEFINE c == [kind |-> kind, opplan |-> x, originalqty |-> q]
           n == Len(commands[current])
<1>1. pc = "idle" /\ pc' = "idle" /\ live' = live /\ lastBookmark' = lastBookmark
  BY DEF Log, list, lastBookmark
<1>2. current \in live /\ current = lastBookmark /\ current \in Bookmark
  BY <1>1, LastIsLive DEF JournalInv, Structure
<1>3. /\ commands' = [commands EXCEPT ![current] = Append(commands[current], c)]
      /\ trail' = [trail EXCEPT ![current] = Append(trail[current], Snapshot')]
  BY DEF Log
<1>4. c \in Command
  BY DEF Command
<1>5. /\ Append(commands[current], c) \in Seq(Command)
      /\ Len(Append(commands[current], c)) = n + 1
      /\ \A i \in 1..n : Append(commands[current], c)[i] = commands[current][i]
      /\ Append(commands[current], c)[n + 1] = c
  BY <1>2, <1>4, TypeFacts, AppendType DEF JournalInv
<1>6. Len(trail[current]) = n + 1
  BY <1>1, <1>2 DEF JournalInv, Snapshots
<1>7. /\ Append(trail[current], Snapshot') \in Seq(SnapshotSet)
      /\ Len(Append(trail[current], Snapshot')) = n + 2
      /\ \A i \in 1..(n + 1) : Append(trail[current], Snapshot')[i] = trail[current][i]
      /\ Append(trail[current], Snapshot')[n + 2] = Snapshot'
  <2>1. trail[current] \in Seq(SnapshotSet) /\ n \in Nat /\ n + 1 + 1 = n + 2
    BY <1>2, TypeFacts, SMT DEF JournalInv
  <2> QED BY <1>6, <2>1, AppendType
<1>8. /\ commands \in [Bookmark -> Seq(Command)]
      /\ trail \in [Bookmark -> Seq(SnapshotSet)]
  BY DEF JournalInv, TypeOK
<1>9. /\ commands' \in [Bookmark -> Seq(Command)]
      /\ trail' \in [Bookmark -> Seq(SnapshotSet)]
      /\ commands'[current] = Append(commands[current], c)
      /\ trail'[current] = Append(trail[current], Snapshot')
      /\ \A b \in live \ {current} : commands'[b] = commands[b] /\ trail'[b] = trail[b]
  <2>1. live \subseteq Bookmark
    BY TypeFacts DEF JournalInv
  <2> HIDE DEF c, n
  <2> QED BY <1>2, <1>3, <1>5, <1>7, <1>8, <2>1
<1>10. Structure'
  BY <1>1, <1>2, KeepsChain DEF JournalInv, Structure, Log, list
<1> HIDE DEF c, n
<1>11. QED BY <1>1, <1>2, <1>5, <1>7, <1>9, <1>10 DEF c, n

LEMMA LogSnapshots ==
  ASSUME JournalInv, NEW kind \in {"create", "delete", "move"}, NEW x \in OperationPlan,
         NEW q \in {0} \cup Quantity, Log(kind, x, q), Snapshot' \in SnapshotSet,
         \A y \in OperationPlan \ {x} : View[y] = View'[y],
         kind = "create" => View[x] = 0 /\ View'[x] # 0,
         kind = "move" => View[x] = q /\ q # 0 /\ View'[x] # 0,
         kind = "delete" => View[x] = quantity'[x] /\ View'[x] = 0,
         \A y \in OperationPlan \ flowloads : y \in allocated => quantity'[y] = quantity[y]
  PROVE  Snapshots'
<1> DEFINE c == [kind |-> kind, opplan |-> x, originalqty |-> q]
           n == Len(commands[current])
<1>1. /\ current \in live /\ current = lastBookmark /\ lastBookmark' = lastBookmark
      /\ live' = live /\ pc = "idle"
      /\ \A b \in live \ {current} : commands'[b] = commands[b] /\ trail'[b] = trail[b]
      /\ Len(commands'[current]) = n + 1
      /\ \A i \in 1..n : commands'[current][i] = commands[current][i]
      /\ commands'[current][n + 1] = c
      /\ Len(trail'[current]) = n + 2
      /\ \A i \in 1..(n + 1) : trail'[current][i] = trail[current][i]
      /\ trail'[current][n + 2] = Snapshot'
      /\ commands' \in [Bookmark -> Seq(Command)]
  BY LogFacts
<1>2. Snapshots /\ Deletions
  BY <1>1 DEF JournalInv
<1>3. /\ live \subseteq Bookmark /\ n \in Nat
      /\ \A b \in live : DOMAIN commands[b] = 1..Len(commands[b])
      /\ \A b \in live : \A i \in DOMAIN commands[b] : commands[b][i] \in Command
      /\ DOMAIN commands'[current] = 1..(n + 1)
  <2>1. /\ live \subseteq Bookmark /\ n \in Nat
        /\ \A b \in live : DOMAIN commands[b] = 1..Len(commands[b])
        /\ \A b \in live : \A i \in DOMAIN commands[b] : commands[b][i] \in Command
    BY <1>1, TypeFacts DEF JournalInv
  <2>2. DOMAIN commands'[current] = 1..Len(commands'[current])
    BY <1>1, <2>1, LenProperties
  <2> QED BY <1>1, <2>1, <2>2
<1> HIDE DEF c, n
<1>4. \A b \in live' : Len(trail'[b]) = Len(commands'[b]) + 1
  <2>1. Len(trail'[current]) = Len(commands'[current]) + 1
    BY <1>1, <1>3, SMT
  <2>2. \A b \in live \ {current} : Len(trail'[b]) = Len(commands'[b]) + 1
    BY <1>1, <1>2 DEF Snapshots
  <2> QED BY <1>1, <2>1, <2>2
<1>5. \A b \in live : trail'[b][1] = trail[b][1]
  BY <1>1, <1>3, SMT
<1>6. \A b \in live \ {current} : Last(b)' = Last(b)
  BY <1>1 DEF Last
<1>7. Last(current) = View /\ trail[current][n + 1].view = View /\ Last(current)' = View'
  <2>1. Len(trail[current]) = n + 1
    BY <1>1, <1>2 DEF Snapshots, n
  <2>2. Last(lastBookmark) = View
    BY <1>2 DEF Snapshots
  <2>3. trail'[current][Len(trail'[current])].view = View'
    BY <1>1 DEF Snapshot
  <2>4. Last(current)' = trail'[current'][Len(trail'[current'])].view /\ current' = current
    BY DEF Last, Log, list
  <2> QED BY <1>1, <2>1, <2>2, <2>3, <2>4 DEF Last
<1>8. \A b \in live' \ {First} : Last(b - 1)' = trail'[b][1].view
  <2>1. \A b \in live \ {First} : b - 1 \in live \ {current}
    <3>1. pc # "commit"
      BY <1>1
    <3>2. live = First..lastBookmark /\ lastBookmark \in Bookmark
      BY <3>1, LastIsLive
    <3>3. current = lastBookmark
      BY <1>1
    <3> HIDE DEF lastBookmark
    <3> QED BY <3>2, <3>3, BookmarkFacts, SMT
  <2>2. \A b \in live \ {First} : Last(b - 1) = trail[b][1].view
    BY <1>2 DEF Snapshots
  <2> QED BY <1>1, <1>5, <1>6, <2>1, <2>2
<1>9. View' = Last(lastBookmark)'
  BY <1>1, <1>7 DEF Last, Log, list
<1>10. (\A b \in live : \A i \in DOMAIN commands[b] :
          Reverts(commands[b][i], trail[b][i].view, trail[b][i + 1].view))'
  <2>1. SUFFICES ASSUME NEW b \in live, NEW i \in DOMAIN commands'[b]
                 PROVE  Reverts(commands[b][i], trail[b][i].view, trail[b][i + 1].view)'
    BY <1>1
  <2>2. CASE i \in DOMAIN commands[b]
    <3>1. /\ commands'[b][i] = commands[b][i]
          /\ trail'[b][i] = trail[b][i] /\ trail'[b][i + 1] = trail[b][i + 1]
      <4>1. CASE b # current
        BY <1>1, <4>1
      <4>2. CASE b = current
        <5>1. i \in 1..n /\ i \in 1..(n + 1) /\ i + 1 \in 1..(n + 1)
          BY <1>3, <2>2, <4>2, SMT DEF n
        <5> QED BY <1>1, <4>2, <5>1
      <4> QED BY <4>1, <4>2
    <3>2. Reverts(commands[b][i], trail[b][i].view, trail[b][i + 1].view)
      BY <1>2, <2>2 DEF Snapshots
    <3>3. ASSUME commands[b][i].kind = "delete"
          PROVE  quantity'[commands[b][i].opplan] = quantity[commands[b][i].opplan]
      <4>1. commands[b][i].opplan \in OperationPlan
        BY <1>3, <2>2 DEF Command
      <4>2. commands[b][i].opplan \in allocated \ flowloads
        BY <1>2, <2>2, <3>3, <4>1 DEF Deletions, IsCommand
      <4> QED BY <4>1, <4>2
    <3> QED BY <3>1, <3>2, <3>3 DEF Reverts
  <2>3. CASE i \notin DOMAIN commands[b]
    <3>1. b = current /\ i = n + 1
      BY <1>1, <1>3, <2>3, SMT DEF n
    <3>2. /\ commands'[b][i] = c
          /\ trail'[b][i].view = View /\ trail'[b][i + 1].view = View'
      <4>1. n + 1 \in 1..(n + 1) /\ n + 1 + 1 = n + 2
        BY <1>3, SMT
      <4> QED BY <1>1, <1>7, <3>1, <4>1 DEF Snapshot
    <3> QED BY <3>2 DEF Reverts, c
  <2> QED BY <2>2, <2>3
<1> QED BY <1>4, <1>8, <1>9, <1>10 DEF Snapshots

LEMMA LogPositions ==
  ASSUME JournalInv, NEW kind \in {"create", "delete", "move"}, NEW x \in OperationPlan,
         NEW q \in {0} \cup Quantity, Log(kind, x, q), Snapshot' \in SnapshotSet
  PROVE  /\ live' = live /\ pc = "idle" /\ pc' = "idle"
         /\ \A b \in live : \A i \in DOMAIN commands'[b] :
              \/ i \in DOMAIN commands[b] /\ commands'[b][i] = commands[b][i]
              \/ /\ b = current /\ i = Len(commands[current]) + 1
                 /\ commands'[b][i].kind = kind /\ commands'[b][i].opplan = x
         /\ \A b \in live : \A i \in DOMAIN commands[b] :
              Precedes(b, i, current, Len(commands[current]) + 1)
<1> DEFINE n == Len(commands[current])
<1>1. /\ current \in live /\ current = lastBookmark /\ live' = live
      /\ pc = "idle" /\ pc' = "idle"
      /\ \A b \in live \ {current} : commands'[b] = commands[b]
      /\ Len(commands'[current]) = n + 1
      /\ \A i \in 1..n : commands'[current][i] = commands[current][i]
      /\ commands'[current][n + 1] = [kind |-> kind, opplan |-> x, originalqty |-> q]
      /\ commands' \in [Bookmark -> Seq(Command)]
  BY LogFacts
<1>2. /\ live \subseteq Bookmark /\ n \in Nat
      /\ \A b \in live : DOMAIN commands[b] = 1..Len(commands[b])
  BY <1>1, TypeFacts DEF JournalInv
<1>3. DOMAIN commands'[current] = 1..(n + 1)
  BY <1>1, <1>2, LenProperties
<1>4. \A i \in 1..(n + 1) : i \in 1..n \/ i = n + 1
  BY <1>2, SMT
<1>5. \A b \in live : \A i \in DOMAIN commands[b] : Precedes(b, i, current, n + 1)
  <2>1. \A b \in live : b < current \/ b = current
    BY <1>1, LastIsLive, BookmarkFacts, SMT
  <2>2. \A i \in DOMAIN commands[current] : i < n + 1
    BY <1>1, <1>2, SMT
  <2> QED BY <2>1, <2>2 DEF Precedes
<1>6. \A b \in live : \A i \in DOMAIN commands'[b] :
        \/ i \in DOMAIN commands[b] /\ commands'[b][i] = commands[b][i]
        \/ /\ b = current /\ i = n + 1
           /\ commands'[b][i].kind = kind /\ commands'[b][i].opplan = x
  <2>1. DOMAIN commands[current] = 1..n
    BY <1>1, <1>2
  <2>2. SUFFICES ASSUME NEW b \in live, NEW i \in DOMAIN commands'[b]
                 PROVE  \/ i \in DOMAIN commands[b] /\ commands'[b][i] = commands[b][i]
                        \/ /\ b = current /\ i = n + 1
                           /\ commands'[b][i].kind = kind /\ commands'[b][i].opplan = x
    OBVIOUS
  <2>3. CASE b # current
    BY <1>1, <2>3
  <2>4. CASE b = current
    <3>1. i \in 1..n \/ i = n + 1
      BY <1>3, <1>4, <2>4
    <3>2. /\ commands'[current][n + 1].kind = kind
          /\ commands'[current][n + 1].opplan = x
      BY <1>1
    <3> QED BY <1>1, <2>1, <2>4, <3>1, <3>2
  <2> QED BY <2>3, <2>4
<1> QED BY <1>1, <1>5, <1>6

LEMMA LogType ==
  ASSUME JournalInv, NEW kind \in {"create", "delete", "move"}, NEW x \in OperationPlan,
         NEW q \in {0} \cup Quantity, Log(kind, x, q), Snapshot' \in SnapshotSet,
         quantity' \in Plan,
         {allocated', flowloads', listed', identified', delivery'} \subseteq SUBSET OperationPlan
  PROVE  TypeOK'
<1>1. /\ commands' \in [Bookmark -> Seq(Command)]
      /\ trail' \in [Bookmark -> Seq(SnapshotSet)]
  BY LogFacts
<1> QED BY <1>1 DEF JournalInv, TypeOK, Log, list

LEMMA CreateStep ==
  ASSUME JournalInv, NEW x \in OperationPlan, NEW q \in Quantity, NEW d \in BOOLEAN,
         CreateOperationPlan(x, q, d)
  PROVE  JournalInv'
<1>0. Quantity \subseteq Nat \ {0} /\ quantity \in Plan
  BY SizeAssumption, SMT DEF SizeAssumption, Quantity, JournalInv, TypeOK
<1>1. /\ allocated' = allocated \cup {x} /\ flowloads' = flowloads \cup {x}
      /\ listed' = listed /\ identified' = identified /\ delivery' \subseteq delivery \cup {x}
      /\ quantity' = [quantity EXCEPT ![x] = q] /\ x \notin allocated
      /\ Log("create", x, 0)
  BY DEF CreateOperationPlan
<1>2. /\ {allocated', flowloads', listed', identified', delivery'} \subseteq SUBSET OperationPlan
      /\ quantity' \in Plan
  BY <1>0, <1>1 DEF JournalInv, TypeOK, Plan
<1>3. Snapshot' \in SnapshotSet
  BY <1>2 DEF Snapshot, SnapshotSet, View, Plan
<1>4. TypeOK' /\ Structure'
  BY <1>1, <1>2, <1>3, LogType, LogFacts
<1>5. x \notin flowloads /\ x \notin listed
  BY <1>1 DEF JournalInv, Objects
<1>6. /\ live' = live /\ pc = "idle" /\ pc' = "idle"
      /\ \A b \in live : \A i \in DOMAIN commands'[b] :
           \/ i \in DOMAIN commands[b] /\ commands'[b][i] = commands[b][i]
           \/ /\ b = current /\ i = Len(commands[current]) + 1
              /\ commands'[b][i].kind = "create" /\ commands'[b][i].opplan = x
      /\ \A b \in live : \A i \in DOMAIN commands[b] :
           Precedes(b, i, current, Len(commands[current]) + 1)
  BY <1>1, <1>3, LogPositions
<1>7. Objects /\ Snapshots /\ Deletions
  BY <1>6 DEF JournalInv
<1>8. Objects'
  <2>1. \A y \in OperationPlan : y \in allocated' <=> quantity'[y] # 0
    BY <1>0, <1>1, <1>7 DEF Objects, Plan
  <2>2. flowloads' \cup listed' \subseteq allocated'
    BY <1>1, <1>7 DEF Objects
  <2>3. ASSUME NEW y \in OperationPlan, NEW a \in live, NEW i \in DOMAIN commands'[a],
               IsCommand(a, i, "create", y)'
        PROVE  /\ y \in allocated'
               /\ \A b \in live : \A j \in DOMAIN commands'[b] :
                    /\ IsCommand(b, j, "create", y)' => b = a /\ j = i
                    /\ IsCommand(b, j, "delete", y)' => Precedes(a, i, b, j)
    <3>1. CASE i \in DOMAIN commands[a] /\ commands'[a][i] = commands[a][i]
      <4>1. IsCommand(a, i, "create", y) /\ y \in allocated /\ y # x
        BY <1>1, <1>7, <2>3, <3>1 DEF Objects, IsCommand
      <4> QED BY <1>1, <1>6, <1>7, <3>1, <4>1 DEF Objects, IsCommand
    <3>2. CASE a = current /\ i = Len(commands[current]) + 1 /\ commands'[a][i].opplan = x
      <4>1. y = x
        BY <2>3, <3>2 DEF IsCommand
      <4>2. \A b \in live : \A j \in DOMAIN commands[b] :
              ~IsCommand(b, j, "create", x) /\ ~IsCommand(b, j, "delete", x)
        BY <1>1, <1>7 DEF Objects, Deletions
      <4> QED BY <1>1, <1>6, <3>2, <4>1, <4>2 DEF IsCommand
    <3> QED BY <1>6, <3>1, <3>2
  <2> QED BY <1>6, <2>1, <2>2, <2>3 DEF Objects, Precedes
<1>9. Snapshots'
  <2>1. /\ \A y \in OperationPlan \ {x} : View[y] = View'[y]
        /\ View[x] = 0 /\ View'[x] # 0
    BY <1>0, <1>1, <1>5, <1>7 DEF View, Plan
  <2> QED BY <1>0, <1>1, <1>3, <1>7, <2>1, LogSnapshots DEF Plan
<1>10. Deletions'
  BY <1>1, <1>6, <1>7 DEF Deletions, IsCommand
<1> QED BY <1>4, <1>8, <1>9, <1>10 DEF JournalInv

LEMMA DeleteStep ==
  ASSUME JournalInv, NEW x \in OperationPlan, DeleteOperationPlan(x)
  PROVE  JournalInv'
<1>0. Quantity \subseteq Nat \ {0} /\ quantity \in Plan /\ 0 \in {0} \cup Quantity
  BY SizeAssumption, SMT DEF SizeAssumption, Quantity, JournalInv, TypeOK
<1>1. /\ allocated' = allocated /\ flowloads' = flowloads \ {x}
      /\ listed' = listed \ {x} /\ identified' = identified /\ delivery' = delivery \ {x}
      /\ quantity' = quantity /\ x \in flowloads
      /\ Log("delete", x, 0)
  BY DEF DeleteOperationPlan
<1>2. /\ {allocated', flowloads', listed', identified', delivery'} \subseteq SUBSET OperationPlan
      /\ quantity' \in Plan
  BY <1>0, <1>1 DEF JournalInv, TypeOK
<1>3. Snapshot' \in SnapshotSet
  BY <1>2 DEF Snapshot, SnapshotSet, View, Plan
<1>4. TypeOK' /\ Structure'
  BY <1>0, <1>1, <1>2, <1>3, LogType, LogFacts
<1>6. /\ live' = live /\ pc = "idle" /\ pc' = "idle"
      /\ \A b \in live : \A i \in DOMAIN commands'[b] :
           \/ i \in DOMAIN commands[b] /\ commands'[b][i] = commands[b][i]
           \/ /\ b = current /\ i = Len(commands[current]) + 1
              /\ commands'[b][i].kind = "delete" /\ commands'[b][i].opplan = x
      /\ \A b \in live : \A i \in DOMAIN commands[b] :
           Precedes(b, i, current, Len(commands[current]) + 1)
  BY <1>0, <1>1, <1>3, LogPositions
<1>7. Objects /\ Snapshots /\ Deletions
  BY <1>6 DEF JournalInv
<1>5. x \in allocated /\ \A b \in live : \A j \in DOMAIN commands[b] : ~IsCommand(b, j, "delete", x)
  BY <1>1, <1>7 DEF Objects, Deletions
<1>8. Objects'
  <2>1. ASSUME NEW y \in OperationPlan, NEW a \in live, NEW i \in DOMAIN commands'[a],
               IsCommand(a, i, "create", y)'
        PROVE  /\ y \in allocated'
               /\ \A b \in live : \A j \in DOMAIN commands'[b] :
                    /\ IsCommand(b, j, "create", y)' => b = a /\ j = i
                    /\ IsCommand(b, j, "delete", y)' => Precedes(a, i, b, j)
    <3>1. /\ i \in DOMAIN commands[a] /\ commands'[a][i] = commands[a][i]
          /\ IsCommand(a, i, "create", y)
      BY <1>6, <2>1 DEF IsCommand
    <3> QED BY <1>1, <1>6, <1>7, <3>1 DEF Objects, IsCommand
  <2> QED BY <1>1, <1>6, <1>7, <2>1 DEF Objects, Precedes
<1>9. Snapshots'
  <2>1. /\ \A y \in OperationPlan \ {x} : View[y] = View'[y]
        /\ View[x] = quantity'[x] /\ View'[x] = 0
    BY <1>1 DEF View
  <2> QED BY <1>0, <1>1, <1>3, <2>1, LogSnapshots
<1>10. Deletions'
  BY <1>1, <1>5, <1>6, <1>7 DEF Deletions, IsCommand
<1> QED BY <1>4, <1>8, <1>9, <1>10 DEF JournalInv

LEMMA MoveStep ==
  ASSUME JournalInv, NEW x \in OperationPlan, NEW q \in Quantity, MoveOperationPlan(x, q)
  PROVE  JournalInv'
<1>0. Quantity \subseteq Nat \ {0} /\ quantity \in Plan /\ quantity[x] \in {0} \cup Quantity
  BY SizeAssumption, SMT DEF SizeAssumption, Quantity, JournalInv, TypeOK, Plan
<1>1. /\ allocated' = allocated /\ flowloads' = flowloads
      /\ listed' = listed /\ identified' = identified /\ delivery' = delivery
      /\ quantity' = [quantity EXCEPT ![x] = q] /\ x \in flowloads
      /\ Log("move", x, quantity[x])
  BY DEF MoveOperationPlan
<1>2. /\ {allocated', flowloads', listed', identified', delivery'} \subseteq SUBSET OperationPlan
      /\ quantity' \in Plan
  BY <1>0, <1>1 DEF JournalInv, TypeOK, Plan
<1>3. Snapshot' \in SnapshotSet
  BY <1>2 DEF Snapshot, SnapshotSet, View, Plan
<1>4. TypeOK' /\ Structure'
  BY <1>0, <1>1, <1>2, <1>3, LogType, LogFacts
<1>6. /\ live' = live /\ pc = "idle" /\ pc' = "idle"
      /\ \A b \in live : \A i \in DOMAIN commands'[b] :
           \/ i \in DOMAIN commands[b] /\ commands'[b][i] = commands[b][i]
           \/ commands'[b][i].kind = "move"
  BY <1>0, <1>1, <1>3, LogPositions
<1>7. Objects /\ Snapshots /\ Deletions
  BY <1>6 DEF JournalInv
<1>5. \A b \in live : \A i \in DOMAIN commands'[b], y \in OperationPlan, kind \in {"create", "delete"} :
        IsCommand(b, i, kind, y)' => i \in DOMAIN commands[b] /\ IsCommand(b, i, kind, y)
  BY <1>6 DEF IsCommand
<1>8. Objects'
  <2>1. \A y \in OperationPlan : y \in allocated' <=> quantity'[y] # 0
    BY <1>0, <1>1, <1>7 DEF Objects, Plan
  <2>2. ASSUME NEW y \in OperationPlan, NEW a \in live, NEW i \in DOMAIN commands'[a],
               IsCommand(a, i, "create", y)'
        PROVE  /\ y \in allocated'
               /\ \A b \in live : \A j \in DOMAIN commands'[b] :
                    /\ IsCommand(b, j, "create", y)' => b = a /\ j = i
                    /\ IsCommand(b, j, "delete", y)' => Precedes(a, i, b, j)
    BY <1>1, <1>5, <1>7, <2>2 DEF Objects
  <2> QED BY <1>1, <1>6, <1>7, <2>1, <2>2 DEF Objects, Precedes
<1>9. Snapshots'
  <2>1. /\ \A y \in OperationPlan \ {x} : View[y] = View'[y]
        /\ View[x] = quantity[x] /\ quantity[x] # 0 /\ View'[x] # 0
    BY <1>0, <1>1, <1>7 DEF View, Plan, Objects
  <2> QED BY <1>0, <1>1, <1>3, <2>1, LogSnapshots DEF Plan
<1>10. Deletions'
  BY <1>1, <1>5, <1>6, <1>7 DEF Deletions
<1> QED BY <1>4, <1>8, <1>9, <1>10 DEF JournalInv

LEMMA SnapshotType ==
  ASSUME TypeOK
  PROVE  Snapshot \in SnapshotSet
BY DEF TypeOK, Snapshot, SnapshotSet, View, Plan

LEMMA SetBookmarkStep ==
  ASSUME JournalInv, SetBookmark
  PROVE  JournalInv'
<1> DEFINE n == lastBookmark + 1
<1>1. /\ pc = "idle" /\ pc' = "idle" /\ lastBookmark < MaxBookmarks
      /\ live' = live \cup {n}
      /\ parent' = [parent EXCEPT ![n] = current]
      /\ active' = active \cup {n}
      /\ commands' = [commands EXCEPT ![n] = <<>>]
      /\ trail' = [trail EXCEPT ![n] = <<Snapshot>>]
      /\ current' = n
      /\ UNCHANGED <<plan, pc, cursor, target>>
  BY DEF SetBookmark
<1>2. /\ lastBookmark \in Bookmark /\ live = First..lastBookmark /\ current = lastBookmark
      /\ TypeOK /\ Structure /\ Chain /\ Objects /\ Snapshots /\ Deletions
  BY <1>1, LastIsLive DEF JournalInv, Structure
<1>3. /\ n \in Bookmark \ {First} /\ n \notin live /\ live' = First..n
      /\ n - 1 = lastBookmark /\ lastBookmark \in live
      /\ \A b \in live : b < n /\ b \in Bookmark /\ b <= lastBookmark /\ b # n
      /\ \A a \in live', b \in live : a <= b => a \in live
  BY <1>1, <1>2, BookmarkFacts, SMT
<1> HIDE DEF n
<1>4. lastBookmark' = n
  <2>1. lastBookmark' = Max(live')
    BY DEF lastBookmark
  <2> QED BY <1>3, <2>1, MaxOfInterval, BookmarkFacts, SMT
<1>5. View' = View
  BY <1>1 DEF View, plan
<1>6. TypeOK'
  <2>1. <<Snapshot>> \in Seq(SnapshotSet) /\ <<>> \in Seq(Command)
    BY <1>2, SnapshotType
  <2> QED BY <1>1, <1>2, <1>3, <2>1 DEF TypeOK, plan
<1>7. Structure'
  <2>1. /\ parent \in [Bookmark -> Bookmark] /\ active = Bookmark
        /\ \A b \in live \ {First} : parent[b] = b - 1
    BY <1>2 DEF TypeOK, Structure
  <2>2. \A b \in live' \ {First} : parent'[b] = b - 1
    BY <1>1, <1>2, <1>3, <2>1
  <2>3. Chain'
    <3>1. ASSUME NEW b \in live', NEW a \in live', a <= b, NEW S \in SUBSET live',
                 b \in S, \A p \in S \ {First} : parent'[p] \in S
          PROVE  a \in S
      <4>1. \A p \in (S \cap live) \ {First} : parent[p] \in S \cap live
        <5>1. \A p \in live \ {First} : parent[p] = p - 1 /\ p - 1 \in live
          BY <1>2, <2>1, BookmarkFacts, SMT
        <5>2. \A p \in live \ {First} : parent'[p] = parent[p]
          BY <1>1, <1>3, <2>1
        <5> QED BY <3>1, <5>1, <5>2
      <4>2. CASE b \in live
        <5>1. a \in live
          BY <1>3, <3>1, <4>2
        <5>2. IsChildOf(b, a)
          BY <1>2, <3>1, <4>2, <5>1 DEF Chain
        <5> QED BY <3>1, <4>1, <4>2, <5>2 DEF IsChildOf
      <4>3. CASE b = n
        <5>1. current \in S \cap live
          BY <1>1, <1>2, <1>3, <2>1, <3>1, <4>3
        <5>2. CASE a \in live
          <6>1. IsChildOf(current, a)
            BY <1>2, <1>3, <5>2 DEF Chain
          <6> QED BY <4>1, <5>1, <6>1 DEF IsChildOf
        <5> QED BY <1>1, <3>1, <4>3, <5>2
      <4> QED BY <1>1, <3>1, <4>2, <4>3
    <3> QED BY <1>3, <3>1 DEF Chain, IsChildOf
  <2>4. active' = Bookmark
    BY <1>1, <1>3, <2>1
  <2> QED BY <1>1, <1>4, <2>2, <2>3, <2>4 DEF Structure
<1>8. /\ commands'[n] = <<>> /\ trail'[n] = <<Snapshot>>
      /\ \A b \in live : commands'[b] = commands[b] /\ trail'[b] = trail[b]
  <2> QED BY <1>1, <1>2, <1>3 DEF TypeOK
<1>9. \A b \in live' : \A i \in DOMAIN commands'[b] :
        b \in live /\ i \in DOMAIN commands[b] /\ commands'[b] = commands[b]
  BY <1>1, <1>8
<1>10. Objects' /\ Deletions'
  BY <1>1, <1>2, <1>9 DEF Objects, Deletions, IsCommand, Precedes, plan
<1>11. Snapshots'
  <2>1. \A b \in live' : Len(trail'[b]) = Len(commands'[b]) + 1
    <3>1. Len(trail'[n]) = Len(commands'[n]) + 1
      BY <1>8
    <3>2. \A b \in live : Len(trail'[b]) = Len(commands'[b]) + 1
      BY <1>2, <1>8 DEF Snapshots
    <3>3. \A b \in live' : b \in live \/ b = n
      BY <1>1
    <3> QED BY <3>1, <3>2, <3>3
  <2>2. trail'[n][Len(trail'[n])].view = View /\ trail'[n][1].view = View
    BY <1>8 DEF Snapshot
  <2>3. \A b \in live : Last(b)' = Last(b) /\ trail'[b][1] = trail[b][1]
    BY <1>8 DEF Last
  <2>4. \A b \in live' \ {First} : Last(b - 1)' = trail'[b][1].view
    <3>1. \A b \in live \ {First} : b - 1 \in live
      BY <1>2, BookmarkFacts, SMT
    <3>2. ASSUME NEW b \in live \ {First}
          PROVE  Last(b - 1)' = trail'[b][1].view
      BY <1>2, <2>3, <3>1 DEF Snapshots
    <3>3. ASSUME NEW b \in live', b = n
          PROVE  Last(b - 1)' = trail'[b][1].view
      <4>1. b - 1 \in live /\ Last(b - 1) = View
        BY <1>2, <1>3, <3>3 DEF Snapshots
      <4> QED BY <2>2, <2>3, <3>3, <4>1
    <3> QED BY <1>1, <3>2, <3>3
  <2>5. (\A b \in live : \A i \in DOMAIN commands[b] :
          Reverts(commands[b][i], trail[b][i].view, trail[b][i + 1].view))'
    <3>1. SUFFICES ASSUME NEW b \in live', NEW i \in DOMAIN commands'[b]
                   PROVE  Reverts(commands[b][i], trail[b][i].view, trail[b][i + 1].view)'
      OBVIOUS
    <3>2. /\ b \in live /\ commands'[b] = commands[b] /\ trail'[b] = trail[b]
          /\ Reverts(commands[b][i], trail[b][i].view, trail[b][i + 1].view)
          /\ quantity' = quantity
      BY <1>1, <1>2, <1>8, <1>9 DEF Snapshots, plan
    <3> QED BY <3>2 DEF Reverts
  <2>6. View' = Last(lastBookmark)'
    BY <1>4, <1>5, <2>2 DEF Last
  <2> QED BY <2>1, <2>4, <2>5, <2>6 DEF Snapshots
<1> QED BY <1>6, <1>7, <1>10, <1>11 DEF JournalInv

-----------------------------------------------------------------------------
(* A loop of rollback() reverts the last command of the last bookmark. *)

LEMMA DestroyLastStep ==
  ASSUME JournalInv, pc \in {"rollbackBookmark", "rollback"}, DestroyLast
  PROVE  JournalInv'
<1> DEFINE n == Len(commands[cursor])
           c == commands[cursor][n]
           x == c.opplan
<1>1. /\ commands[cursor] # <<>> /\ Revert(c)
      /\ commands' = [commands EXCEPT ![cursor] = SubSeq(commands[cursor], 1, n - 1)]
      /\ trail' = [trail EXCEPT ![cursor] = SubSeq(trail[cursor], 1, Len(trail[cursor]) - 1)]
      /\ UNCHANGED <<list, pc, cursor, target>>
  BY DEF DestroyLast
<1>2. /\ lastBookmark \in Bookmark /\ live = First..lastBookmark /\ cursor = lastBookmark
      /\ cursor \in live /\ lastBookmark' = lastBookmark
      /\ TypeOK /\ Structure /\ Objects /\ Snapshots /\ Deletions
  BY <1>1, LastIsLive DEF JournalInv, Structure, list, lastBookmark
<1>3. /\ commands \in [Bookmark -> Seq(Command)] /\ trail \in [Bookmark -> Seq(SnapshotSet)]
      /\ cursor \in Bookmark /\ live \subseteq Bookmark
  BY <1>2, TypeFacts DEF TypeOK
<1>4. /\ commands[cursor] \in Seq(Command) /\ trail[cursor] \in Seq(SnapshotSet)
      /\ n \in Nat \ {0} /\ Len(trail[cursor]) = n + 1
  <2>1. Len(commands[cursor]) \in Nat \ {0}
    BY <1>1, <1>3, PopType
  <2> QED BY <1>2, <1>3, <2>1 DEF Snapshots
<1>5. /\ commands'[cursor] \in Seq(Command)
      /\ Len(commands'[cursor]) = n - 1
      /\ \A i \in 1..(n - 1) : commands'[cursor][i] = commands[cursor][i]
      /\ DOMAIN commands'[cursor] = 1..(n - 1)
      /\ \A b \in live \ {cursor} : commands'[b] = commands[b]
      /\ commands' \in [Bookmark -> Seq(Command)]
  <2>1. /\ SubSeq(commands[cursor], 1, n - 1) \in Seq(Command)
        /\ Len(SubSeq(commands[cursor], 1, n - 1)) = n - 1
        /\ \A i \in 1..(n - 1) : SubSeq(commands[cursor], 1, n - 1)[i] = commands[cursor][i]
    BY <1>1, <1>4, PopType
  <2> HIDE DEF n, c
  <2>2. commands'[cursor] = SubSeq(commands[cursor], 1, n - 1)
    BY <1>1, <1>3
  <2>3. DOMAIN commands'[cursor] = 1..(n - 1)
    BY <2>1, <2>2, LenProperties
  <2> QED BY <1>1, <1>3, <2>1, <2>2, <2>3
<1>6. /\ trail'[cursor] \in Seq(SnapshotSet)
      /\ Len(trail'[cursor]) = n
      /\ \A i \in 1..n : trail'[cursor][i] = trail[cursor][i]
      /\ \A b \in live \ {cursor} : trail'[b] = trail[b]
      /\ trail' \in [Bookmark -> Seq(SnapshotSet)]
  <2> DEFINE s == trail[cursor]
  <2>1. s # <<>> /\ Len(s) - 1 = n
    BY <1>4, EmptySeq, SMT
  <2>2. /\ SubSeq(s, 1, Len(s) - 1) \in Seq(SnapshotSet)
        /\ Len(SubSeq(s, 1, Len(s) - 1)) = Len(s) - 1
        /\ \A i \in 1..(Len(s) - 1) : SubSeq(s, 1, Len(s) - 1)[i] = s[i]
    BY <1>4, <2>1, PopType
  <2>3. trail'[cursor] = SubSeq(s, 1, Len(s) - 1)
    BY <1>1, <1>3
  <2> HIDE DEF n, c
  <2> QED BY <1>1, <1>3, <2>1, <2>2, <2>3
<1>7. /\ n \in DOMAIN commands[cursor] /\ c \in Command /\ x \in OperationPlan
      /\ \A b \in live : \A i \in DOMAIN commands[b] : commands[b][i] \in Command
      /\ \A b \in live : DOMAIN commands[b] = 1..Len(commands[b])
  <2>1. n \in 1..n /\ DOMAIN commands[cursor] = 1..n
    BY <1>3, <1>4, TypeFacts, <1>2
  <2> QED BY <1>2, <1>3, <2>1, TypeFacts DEF Command
<1> HIDE DEF n
<1>8. \A b \in live : \A i \in DOMAIN commands'[b] :
        /\ i \in DOMAIN commands[b] /\ commands'[b][i] = commands[b][i]
        /\ trail'[b][i] = trail[b][i] /\ trail'[b][i + 1] = trail[b][i + 1]
        /\ ~(b = cursor /\ i = n)
  <2>1. \A i \in 1..(n - 1) : i \in 1..n /\ i + 1 \in 1..n /\ i # n
    BY <1>4
  <2>2. DOMAIN commands[cursor] = 1..n
    BY <1>2, <1>7 DEF n
  <2> QED BY <1>5, <1>6, <2>1, <2>2
<1>9. \A b \in live : \A i \in DOMAIN commands[b] :
        (b = cursor /\ i = n) \/ i \in DOMAIN commands'[b]
  <2>1. DOMAIN commands[cursor] = 1..n
    BY <1>2, <1>7 DEF n
  <2>2. \A i \in 1..n : i = n \/ i \in 1..(n - 1)
    BY <1>4
  <2> QED BY <1>5, <2>1, <2>2
<1>10. live' = live /\ cursor' = cursor /\ current' = current /\ pc' = pc
  BY <1>1 DEF list
(* What the destructor does to the operationplan. *)
<1>11. /\ \A y \in OperationPlan \ {x} :
            /\ y \in allocated' <=> y \in allocated
            /\ y \in flowloads' <=> y \in flowloads
            /\ y \in listed' <=> y \in listed
            /\ quantity'[y] = quantity[y]
       /\ c.kind = "create" =>
            /\ x \notin allocated' /\ x \notin flowloads' /\ x \notin listed' /\ quantity'[x] = 0
       /\ c.kind = "delete" =>
            /\ x \in allocated' /\ x \in flowloads' /\ quantity'[x] = quantity[x] /\ x \in allocated
       /\ c.kind = "move" =>
            /\ allocated' = allocated /\ flowloads' = flowloads /\ listed' = listed
            /\ quantity'[x] = c.originalqty
       /\ {allocated', flowloads', listed', identified', delivery'} \subseteq SUBSET OperationPlan
       /\ quantity' \in Plan
  <2>1. quantity \in Plan /\ {allocated, flowloads, listed, identified, delivery} \subseteq SUBSET OperationPlan
    BY <1>2 DEF TypeOK
  <2>2. c.kind = "delete" => x \in allocated
    BY <1>2, <1>7 DEF Deletions, IsCommand
  <2>3. c.kind \in {"create", "delete", "move"} /\ c.originalqty \in {0} \cup Quantity
    BY <1>7 DEF Command
  <2> HIDE DEF c, x
  <2>4. CASE c.kind = "create" /\ Free(x)
    BY <1>7, <2>1, <2>4 DEF Free, Plan
  <2>5. CASE c.kind = "delete" /\ Reinstate(x)
    BY <1>7, <2>1, <2>2, <2>5 DEF Reinstate, Plan
  <2>6. CASE /\ c.kind = "move"
             /\ quantity' = [quantity EXCEPT ![x] = c.originalqty]
             /\ UNCHANGED <<allocated, flowloads, listed, identified, delivery>>
    BY <1>7, <2>1, <2>3, <2>6 DEF Plan
  <2> QED BY <1>1, <2>4, <2>5, <2>6 DEF Revert, x
<1>12. TypeOK'
  BY <1>1, <1>2, <1>5, <1>6, <1>11 DEF TypeOK, list
<1>13. Structure'
  BY <1>1, <1>2, KeepsChain DEF Structure, list
<1>14. Reverts(c, trail[cursor][n].view, View)
  <2>1. View = trail[cursor][n + 1].view
    BY <1>2, <1>4 DEF Snapshots, Last
  <2> QED BY <1>2, <1>7, <2>1 DEF Snapshots
<1>15. /\ c.kind = "create" => IsCommand(cursor, n, "create", x)
       /\ c.kind = "delete" => IsCommand(cursor, n, "delete", x)
       /\ c.kind \in {"create", "delete", "move"}
  BY <1>7 DEF IsCommand, Command
(* What is pending still is the only one of its operationplan. *)
<1>16. ASSUME c.kind \in {"create", "delete"}, NEW b \in live, NEW i \in DOMAIN commands'[b]
       PROVE  ~IsCommand(b, i, "delete", x)
  <2>1. ~Precedes(cursor, n, b, i)
    <3>1. b \in Int /\ cursor \in Int /\ ~(cursor < b)
      BY <1>2, BookmarkFacts, SMT
    <3>2. b = cursor => ~(n < i)
      BY <1>4, <1>5, <1>16, SMT
    <3> QED BY <3>1, <3>2 DEF Precedes
  <2> QED BY <1>2, <1>7, <1>8, <1>15, <1>16, <2>1 DEF Objects, Deletions
<1>17. ASSUME c.kind = "create", NEW b \in live, NEW i \in DOMAIN commands'[b]
       PROVE  ~IsCommand(b, i, "create", x)
  BY <1>2, <1>7, <1>8, <1>15, <1>17 DEF Objects
<1> HIDE DEF c, x
<1>18. \A b \in live : \A i \in DOMAIN commands'[b], y \in OperationPlan, kind \in {"create", "delete"} :
         IsCommand(b, i, kind, y)' <=> IsCommand(b, i, kind, y)
  BY <1>8 DEF IsCommand
<1>19. Objects'
  <2>1. /\ \A y \in OperationPlan : y \in allocated => quantity[y] # 0
        /\ \A y \in OperationPlan : quantity[y] # 0 => y \in allocated
        /\ flowloads \cup listed \subseteq allocated
    BY <1>2 DEF Objects
  <2>2. /\ \A y \in OperationPlan : y \in allocated' <=> quantity'[y] # 0
        /\ flowloads' \cup listed' \subseteq allocated'
    <3>1. c.kind = "move" => c.originalqty # 0 /\ x \in allocated
      <4>1. c.kind = "move" => c.originalqty # 0 /\ View[x] # 0
        BY <1>14 DEF Reverts, x
      <4> QED BY <1>7, <2>1, <4>1 DEF View
    <3> QED BY <1>7, <1>11, <1>15, <2>1, <3>1
  <2>3. ASSUME NEW y \in OperationPlan, NEW a \in live, NEW i \in DOMAIN commands'[a],
               IsCommand(a, i, "create", y)
        PROVE  /\ y \in allocated'
               /\ \A b \in live : \A j \in DOMAIN commands'[b] :
                    /\ IsCommand(b, j, "create", y) => b = a /\ j = i
                    /\ IsCommand(b, j, "delete", y) => Precedes(a, i, b, j)
    <3>1. y \in allocated /\ i \in DOMAIN commands[a]
      BY <1>2, <1>8, <2>3 DEF Objects
    <3>2. y = x => c.kind # "create"
      BY <1>17, <2>3
    <3>3. y \in allocated'
      BY <1>7, <1>11, <1>15, <3>1, <3>2
    <3> QED BY <1>2, <1>8, <2>3, <3>1, <3>3 DEF Objects
  <2> QED BY <1>10, <1>18, <2>2, <2>3 DEF Objects, Precedes
<1>20. Deletions'
  <2>1. ASSUME NEW y \in OperationPlan, NEW a \in live, NEW i \in DOMAIN commands'[a],
               IsCommand(a, i, "delete", y)
        PROVE  /\ y \in allocated' \ flowloads'
               /\ \A b \in live : \A j \in DOMAIN commands'[b] :
                    IsCommand(b, j, "delete", y) => b = a /\ j = i
    <3>1. y \in allocated \ flowloads /\ i \in DOMAIN commands[a]
      BY <1>2, <1>8, <2>1 DEF Deletions
    <3>2. y = x => c.kind \notin {"create", "delete"}
      BY <1>16, <2>1
    <3>3. y \in allocated' \ flowloads'
      BY <1>7, <1>11, <1>15, <3>1, <3>2
    <3> QED BY <1>2, <1>8, <2>1, <3>1, <3>3 DEF Deletions
  <2> QED BY <1>10, <1>18, <2>1 DEF Deletions
<1>21. Snapshots'
  <2>1. \A b \in live : Len(trail'[b]) = Len(commands'[b]) + 1
    <3>1. Len(trail'[cursor]) = Len(commands'[cursor]) + 1
      BY <1>4, <1>5, <1>6
    <3> QED BY <1>2, <1>5, <1>6, <3>1 DEF Snapshots
  <2>2. \A b \in live : trail'[b][1] = trail[b][1]
    <3>1. 1 \in 1..n
      BY <1>4
    <3> QED BY <1>6, <3>1
  <2>3. \A b \in live \ {First} : Last(b - 1)' = trail'[b][1].view
    <3>1. \A b \in live \ {First} : b - 1 \in live \ {cursor}
      BY <1>2, BookmarkFacts, SMT
    <3>2. \A b \in live \ {cursor} : Last(b)' = Last(b)
      BY <1>6 DEF Last
    <3>3. \A b \in live \ {First} : Last(b - 1) = trail[b][1].view
      BY <1>2 DEF Snapshots
    <3> QED BY <2>2, <3>1, <3>2, <3>3
  <2>4. View' = Last(lastBookmark)'
    <3>1. n \in 1..n /\ lastBookmark' = cursor
      BY <1>2, <1>4
    <3>2. Last(lastBookmark)' = trail[cursor][n].view
      BY <1>6, <3>1 DEF Last
    <3>3. trail[cursor][n] \in SnapshotSet
      BY <1>4, <3>1, ElementOfSeq, SMT
    <3>4. trail[cursor][n].view \in Plan /\ View' \in [OperationPlan -> {0} \cup Quantity]
      <4>1. View' \in [OperationPlan -> {0} \cup Quantity]
        BY <1>11 DEF View, Plan
      <4> QED BY <3>3, <4>1 DEF SnapshotSet
    <3>5. \A y \in OperationPlan : View'[y] = trail[cursor][n].view[y]
      <4>1. \A y \in OperationPlan \ {x} : View'[y] = View[y]
        BY <1>11 DEF View
      <4>2. \A y \in OperationPlan \ {x} : View[y] = trail[cursor][n].view[y]
        BY <1>14 DEF Reverts, x
      <4>3. View'[x] = trail[cursor][n].view[x]
        <5>1. CASE c.kind = "create"
          BY <1>7, <1>11, <1>14, <5>1 DEF Reverts, View, x
        <5>2. CASE c.kind = "delete"
          BY <1>7, <1>11, <1>14, <5>2 DEF Reverts, View, x
        <5>3. CASE c.kind = "move"
          <6>1. View[x] # 0
            BY <1>14, <5>3 DEF Reverts, x
          <6>2. x \in flowloads
            BY <1>7, <6>1 DEF View
          <6> QED BY <1>7, <1>11, <1>14, <5>3, <6>2 DEF Reverts, View, x
        <5> QED BY <1>15, <5>1, <5>2, <5>3
      <4> QED BY <4>1, <4>2, <4>3
    <3> QED BY <3>2, <3>4, <3>5 DEF Plan
  <2>5. ASSUME NEW b \in live, NEW i \in DOMAIN commands'[b]
        PROVE  Reverts(commands[b][i], trail[b][i].view, trail[b][i + 1].view)'
    <3>1. /\ i \in DOMAIN commands[b]
          /\ Reverts(commands[b][i], trail[b][i].view, trail[b][i + 1].view)
          /\ commands[b][i].opplan \in OperationPlan
      BY <1>2, <1>7, <1>8, <2>5 DEF Snapshots, Command
    <3>2. commands[b][i].kind = "delete" =>
            quantity'[commands[b][i].opplan] = quantity[commands[b][i].opplan]
      <4>1. ASSUME commands[b][i].kind = "delete", commands[b][i].opplan = x
            PROVE  quantity'[x] = quantity[x]
        <5>1. IsCommand(b, i, "delete", x) /\ x \notin flowloads
          BY <1>2, <1>7, <3>1, <4>1 DEF IsCommand, Deletions
        <5>2. c.kind # "move"
          <6>1. c.kind = "move" => View[x] # 0
            BY <1>14 DEF Reverts, x
          <6> QED BY <1>7, <5>1, <6>1 DEF View
        <5> QED BY <1>15, <1>16, <2>5, <5>1, <5>2
      <4> QED BY <1>11, <3>1, <4>1
    <3> QED BY <1>8, <2>5, <3>1, <3>2 DEF Reverts
  <2> QED BY <1>10, <2>1, <2>3, <2>4, <2>5 DEF Snapshots
<1> QED BY <1>1, <1>12, <1>13, <1>19, <1>20, <1>21 DEF JournalInv

LEMMA RevertCommandStep ==
  ASSUME JournalInv, RevertCommand
  PROVE  JournalInv'
BY DestroyLastStep DEF RevertCommand

LEMMA RollbackCommandStep ==
  ASSUME JournalInv, RollbackCommand
  PROVE  JournalInv'
BY DestroyLastStep DEF RollbackCommand

(* A loop of rollback() goes on to the previous bookmark, and ends. *)

LEMMA ShrinkStep ==
  ASSUME JournalInv, pc \in {"rollbackBookmark", "rollback"}, cursor # First,
         commands[cursor] = <<>>, Remove(cursor), cursor' = Previous(cursor),
         trail' = [trail EXCEPT ![cursor] = <<>>], current' \in Bookmark,
         UNCHANGED <<plan, commands, pc, target>>
  PROVE  /\ TypeOK' /\ Objects' /\ Snapshots' /\ Deletions'
         /\ live' = live \ {cursor} /\ cursor' = lastBookmark'
         /\ active' = Bookmark /\ Chain'
         /\ \A b \in live' \ {First} : parent'[b] = b - 1
<1>1. /\ lastBookmark \in Bookmark /\ live = First..lastBookmark /\ cursor = lastBookmark
      /\ TypeOK /\ Structure /\ Chain /\ Objects /\ Snapshots /\ Deletions
  BY LastIsLive DEF JournalInv, Structure
<1>2. /\ live' = live \ {cursor} /\ parent' = [parent EXCEPT ![cursor] = First] /\ active' = active
      /\ \A b \in Bookmark \ {cursor} : parent'[b] = parent[b]
  BY <1>1 DEF Remove, TypeOK
<1>3. /\ cursor \in Bookmark \ {First} /\ cursor - 1 \in Bookmark
      /\ live' = First..(cursor - 1) /\ cursor - 1 \in live'
      /\ \A b \in live' : b \in live /\ b # cursor
      /\ \A b \in live' \ {First} : b - 1 \in live'
  BY <1>1, <1>2, BookmarkFacts, SMT
<1>4. cursor' = cursor - 1 /\ lastBookmark' = cursor - 1
  <2>1. Previous(cursor) = cursor - 1
    BY <1>1, <1>3, PreviousOfLast, BoundAssumption
  <2>2. lastBookmark' = Max(live')
    BY DEF lastBookmark
  <2>3. cursor - 1 \in Nat /\ live' = 0..(cursor - 1)
    BY <1>3, BookmarkFacts, SMT
  <2> QED BY <2>1, <2>2, <2>3, MaxOfInterval
<1>5. TypeOK'
  <2>1. <<>> \in Seq(SnapshotSet)
    OBVIOUS
  <2>2. First \in live'
    BY <1>1, <1>2 DEF TypeOK
  <2>3. cursor' \in live'
    BY <1>3, <1>4
  <2> QED BY <1>1, <1>2, <2>1, <2>2, <2>3, BookmarkFacts DEF TypeOK, plan
<1>6. active' = Bookmark /\ \A b \in live' \ {First} : parent'[b] = b - 1
  BY <1>1, <1>2, <1>3 DEF Structure, TypeOK
<1>7. Chain'
  <2>1. ASSUME NEW b \in live', NEW a \in live', a <= b, NEW S \in SUBSET live',
               b \in S, \A p \in S \ {First} : parent'[p] \in S
        PROVE  a \in S
    <3>1. IsChildOf(b, a)
      BY <1>1, <1>3, <2>1 DEF Chain
    <3>2. S \in SUBSET live /\ \A p \in S \ {First} : parent[p] \in S
      BY <1>1, <1>2, <1>3, <2>1 DEF TypeOK
    <3> QED BY <2>1, <3>1, <3>2 DEF IsChildOf
  <2> QED BY <1>3, <2>1 DEF Chain, IsChildOf
<1>8. /\ \A b \in live' : commands'[b] = commands[b] /\ trail'[b] = trail[b]
      /\ UNCHANGED <<allocated, flowloads, listed, quantity>>
  BY <1>1, <1>2, <1>3 DEF TypeOK, plan
<1>9. Objects' /\ Deletions'
  BY <1>1, <1>3, <1>8 DEF Objects, Deletions, IsCommand, Precedes
<1>10. Snapshots'
  <2>1. View = Last(cursor - 1)
    <3>1. Len(trail[cursor]) = 1
      <4>1. Len(trail[cursor]) = Len(commands[cursor]) + 1
        BY <1>1 DEF Snapshots, TypeOK
      <4>2. Len(commands[cursor]) = 0
        OBVIOUS
      <4> QED BY <4>1, <4>2
    <3> QED BY <1>1, <1>3, <3>1 DEF Snapshots, Last, TypeOK
  <2>2. View' = Last(lastBookmark)'
    BY <1>3, <1>4, <1>8, <2>1 DEF View, Last
  <2>3. \A b \in live' \ {First} : Last(b - 1)' = trail'[b][1].view
    BY <1>1, <1>3, <1>8 DEF Snapshots, Last
  <2>4. ASSUME NEW b \in live', NEW i \in DOMAIN commands'[b]
        PROVE  Reverts(commands[b][i], trail[b][i].view, trail[b][i + 1].view)'
    <3>1. Reverts(commands[b][i], trail[b][i].view, trail[b][i + 1].view)
      BY <1>1, <1>3, <1>8 DEF Snapshots
    <3> QED BY <1>8, <3>1 DEF Reverts
  <2>5. \A b \in live' : Len(trail'[b]) = Len(commands'[b]) + 1
    BY <1>1, <1>3, <1>8 DEF Snapshots
  <2> QED BY <2>2, <2>3, <2>4, <2>5 DEF Snapshots
<1> QED BY <1>2, <1>4, <1>5, <1>6, <1>7, <1>9, <1>10

LEMMA RemoveBookmarkStep ==
  ASSUME JournalInv, RemoveBookmark
  PROVE  JournalInv'
<1>1. /\ pc = "rollbackBookmark" /\ cursor # target /\ commands[cursor] = <<>>
      /\ Remove(cursor) /\ cursor' = Previous(cursor)
      /\ current' = (IF current = cursor THEN target ELSE current)
      /\ trail' = [trail EXCEPT ![cursor] = <<>>]
      /\ UNCHANGED <<plan, commands, pc, target>>
  BY DEF RemoveBookmark
<1>2. /\ target \in live \ {First} /\ current \in {cursor, target} /\ cursor = lastBookmark
      /\ cursor \in live
  BY <1>1 DEF JournalInv, Structure, TypeOK
<1>3. cursor # First
  BY <1>1, <1>2, LastIsLive, BookmarkFacts, SMT
<1>4. current' = target
  BY <1>1, <1>2
<1>5. /\ TypeOK' /\ Objects' /\ Snapshots' /\ Deletions'
      /\ live' = live \ {cursor} /\ cursor' = lastBookmark'
      /\ active' = Bookmark /\ Chain'
      /\ \A b \in live' \ {First} : parent'[b] = b - 1
  <2>1. current' \in Bookmark
    BY <1>4 DEF JournalInv, TypeOK
  <2> QED BY <1>1, <1>3, <2>1, ShrinkStep
<1>6. Structure'
  BY <1>1, <1>2, <1>4, <1>5 DEF Structure
<1> QED BY <1>5, <1>6 DEF JournalInv

LEMMA RollbackNextStep ==
  ASSUME JournalInv, RollbackNext
  PROVE  JournalInv'
<1>1. /\ pc = "rollback" /\ cursor # First /\ commands[cursor] = <<>>
      /\ Remove(cursor) /\ cursor' = Previous(cursor)
      /\ trail' = [trail EXCEPT ![cursor] = <<>>]
      /\ UNCHANGED <<plan, current, commands, pc, target>>
  BY DEF RollbackNext
<1>2. /\ TypeOK' /\ Objects' /\ Snapshots' /\ Deletions'
      /\ live' = live \ {cursor} /\ cursor' = lastBookmark'
      /\ active' = Bookmark /\ Chain'
      /\ \A b \in live' \ {First} : parent'[b] = b - 1
  <2>1. current' \in Bookmark
    BY <1>1 DEF JournalInv, TypeOK
  <2> QED BY <1>1, <2>1, ShrinkStep
<1>3. Structure'
  BY <1>1, <1>2 DEF Structure
<1> QED BY <1>2, <1>3 DEF JournalInv

LEMMA RollbackDoneStep ==
  ASSUME JournalInv, RollbackDone
  PROVE  JournalInv'
<1>1. /\ pc = "rollback" /\ cursor = First /\ current' = First /\ Stop
      /\ UNCHANGED <<plan, live, parent, active, commands, trail>>
  BY DEF RollbackDone
<1>2. /\ TypeOK /\ Structure /\ lastBookmark = First /\ lastBookmark' = lastBookmark
  BY <1>1 DEF JournalInv, Structure, lastBookmark
<1>3. TypeOK'
  BY <1>1, <1>2, BookmarkFacts DEF TypeOK, Stop, plan
<1>4. Structure'
  BY <1>1, <1>2, KeepsChain DEF Structure, Stop
<1> QED BY <1>1, <1>3, <1>4, KeepsData DEF JournalInv

-----------------------------------------------------------------------------
(* The loop of commit() works from the front: the command it settles is    *)
(* the first of the whole journal.                                         *)

LEMMA CommitCommandStep ==
  ASSUME JournalInv, CommitCommand
  PROVE  JournalInv'
<1> DEFINE c == Head(commands[cursor])
           x == c.opplan
           Old(b, i) == IF b = cursor THEN i + 1 ELSE i
<1>1. /\ pc = "commit" /\ commands[cursor] # <<>> /\ Settle(c)
      /\ commands' = [commands EXCEPT ![cursor] = Tail(commands[cursor])]
      /\ UNCHANGED <<list, pc, cursor, target, trail>>
  BY DEF CommitCommand
<1>2. /\ TypeOK /\ Structure /\ Objects /\ cursor \in live /\ cursor \in Bookmark
      /\ live \subseteq Bookmark
      /\ commands \in [Bookmark -> Seq(Command)]
  BY TypeFacts DEF JournalInv, TypeOK
<1>3. /\ \A b \in live : /\ Len(commands[b]) \in Nat
                         /\ DOMAIN commands[b] = 1..Len(commands[b])
                         /\ \A i \in DOMAIN commands[b] : commands[b][i] \in Command
  BY <1>2, TypeFacts
<1>4. /\ commands'[cursor] \in Seq(Command)
      /\ DOMAIN commands'[cursor] = 1..(Len(commands[cursor]) - 1)
      /\ \A i \in 1..(Len(commands[cursor]) - 1) : commands'[cursor][i] = commands[cursor][i + 1]
      /\ \A b \in live \ {cursor} : commands'[b] = commands[b]
      /\ commands' \in [Bookmark -> Seq(Command)]
      /\ c = commands[cursor][1] /\ c \in Command
      /\ Len(commands[cursor]) \in Nat \ {0}
  <2>1. /\ Tail(commands[cursor]) \in Seq(Command)
        /\ Len(Tail(commands[cursor])) = Len(commands[cursor]) - 1
        /\ \A i \in 1..(Len(commands[cursor]) - 1) : Tail(commands[cursor])[i] = commands[cursor][i + 1]
        /\ c = commands[cursor][1] /\ c \in Command
        /\ Len(commands[cursor]) \in Nat \ {0}
    BY <1>1, <1>2, TailType
  <2> HIDE DEF c
  <2>2. commands'[cursor] = Tail(commands[cursor])
    BY <1>1, <1>2
  <2>3. DOMAIN commands'[cursor] = 1..(Len(commands[cursor]) - 1)
    BY <2>1, <2>2, LenProperties
  <2> QED BY <1>1, <1>2, <2>1, <2>2, <2>3
<1>5. /\ x \in OperationPlan /\ c.kind \in {"create", "delete", "move"}
      /\ 1 \in DOMAIN commands[cursor] /\ IsCommand(cursor, 1, c.kind, x)
  BY <1>2, <1>3, <1>4 DEF Command, IsCommand
<1> HIDE DEF c, x
<1>6. \A b \in live : \A i \in DOMAIN commands'[b] :
        /\ Old(b, i) \in DOMAIN commands[b]
        /\ commands'[b][i] = commands[b][Old(b, i)]
        /\ b = cursor => Old(b, i) # 1
  <2>1. \A i \in 1..(Len(commands[cursor]) - 1) : i + 1 \in 1..Len(commands[cursor]) /\ i + 1 # 1
    BY <1>4
  <2> QED BY <1>2, <1>3, <1>4, <2>1
<1>7. \A a, b \in live : \A i \in DOMAIN commands'[a] : \A j \in DOMAIN commands'[b] :
        /\ Precedes(a, Old(a, i), b, Old(b, j)) => Precedes(a, i, b, j)
        /\ a = b /\ Old(a, i) = Old(b, j) => i = j
  <2>1. \A b \in live : DOMAIN commands'[b] \subseteq Int
    BY <1>3, <1>4
  <2> QED BY <2>1, SMT DEF Precedes
<1>8. \A b \in live : \A i \in DOMAIN commands[b] : ~Precedes(b, i, cursor, 1)
  <2>1. /\ cursor # First => commands[First] = <<>>
        /\ \E n \in Bookmark : live = {First} \cup cursor..n
    BY <1>1, <1>2 DEF Structure
  <2>2. \A b \in live : ~(b < cursor) \/ (b = First /\ cursor # First)
    BY <1>2, <2>1, BookmarkFacts, SMT
  <2>3. \A b \in live : b < cursor => DOMAIN commands[b] = {}
    BY <1>2, <1>3, <2>1, <2>2
  <2>4. \A i \in DOMAIN commands[cursor] : ~(i < 1)
    BY <1>2, <1>3
  <2> QED BY <1>2, <2>3, <2>4 DEF Precedes
<1>9. live' = live /\ cursor' = cursor /\ pc' = "commit"
  BY <1>1 DEF list
<1>10. Quantity \subseteq Nat \ {0} /\ Quantity = 1..SizeMaximum /\ SizeMaximum \in Nat \ {0}
       /\ quantity \in Plan
  BY <1>2, SizeAssumption, SMT DEF SizeAssumption, Quantity, TypeOK
(* What becomes of the operationplans. *)
<1>11. /\ {allocated', flowloads', listed', identified', delivery'} \subseteq SUBSET OperationPlan
       /\ quantity' \in Plan
       /\ flowloads' \cup listed' \subseteq allocated'
       /\ \A y \in OperationPlan : y \in allocated' <=> quantity'[y] # 0
       /\ \A y \in OperationPlan \ {x} : y \in allocated => y \in allocated'
       /\ c.kind = "move" => allocated' = allocated
  <2>1. /\ {allocated, flowloads, listed, identified, delivery} \subseteq SUBSET OperationPlan
        /\ flowloads \cup listed \subseteq allocated
        /\ \A y \in OperationPlan : y \in allocated <=> quantity[y] # 0
    BY <1>2 DEF TypeOK, Objects
  <2>2. c.kind = "create" => x \in allocated
    BY <1>2, <1>5 DEF Objects
  <2>3. CASE c.kind = "create" /\ Activate(x)
    BY <1>5, <1>10, <2>1, <2>2, <2>3 DEF Activate
  <2>4. CASE c.kind = "create" /\ \E y \in OperationPlan : MergeInto(x, y)
    <3>0. PICK y \in OperationPlan : MergeInto(x, y)
      BY <2>4
    <3>1. /\ y # x /\ y \in listed
          /\ quantity[x] + quantity[y] < SizeMaximum
          /\ quantity' = [quantity EXCEPT ![y] = quantity[y] + quantity[x], ![x] = 0]
          /\ allocated' = allocated \ {x}
          /\ flowloads' = flowloads \ {x}
          /\ listed' = listed \ {x}
          /\ identified' = identified \ {x}
          /\ delivery' = delivery \ {x}
      BY <3>0 DEF MergeInto
    <3>2. y \in allocated /\ quantity[y] \in Quantity /\ quantity[x] \in Quantity
      BY <1>5, <1>10, <2>1, <2>2, <2>4, <3>1 DEF Plan
    <3>3. quantity[y] + quantity[x] \in Quantity /\ quantity[y] + quantity[x] # 0
      BY <1>10, <3>1, <3>2, SMT
    <3>4. quantity' \in Plan
      BY <1>10, <3>1, <3>3 DEF Plan
    <3>5. \A z \in OperationPlan : z \in allocated' <=> quantity'[z] # 0
      <4>1. quantity'[y] # 0 /\ quantity'[x] = 0 /\ \A z \in OperationPlan \ {x, y} : quantity'[z] = quantity[z]
        BY <1>5, <1>10, <3>1, <3>3 DEF Plan
      <4> QED BY <2>1, <3>1, <3>2, <4>1
    <3> QED BY <2>1, <2>4, <3>1, <3>4, <3>5
  <2>5. CASE c.kind = "delete" /\ Free(x)
    <3>1. /\ quantity' \in Plan /\ quantity'[x] = 0
          /\ \A z \in OperationPlan \ {x} : quantity'[z] = quantity[z]
      BY <1>5, <1>10, <2>5 DEF Free, Plan
    <3> QED BY <2>1, <2>5, <3>1 DEF Free
  <2>6. CASE c.kind = "move" /\ UNCHANGED plan
    BY <1>10, <2>1, <2>6 DEF plan
  <2> QED BY <1>1, <2>3, <2>4, <2>5, <2>6 DEF Settle, x
<1>12. TypeOK'
  BY <1>1, <1>2, <1>4, <1>11 DEF TypeOK, list
<1>13. Structure'
  BY <1>1, <1>2, <1>4 DEF Structure, list, TypeOK
<1>14. \A b \in live : \A i \in DOMAIN commands'[b], y \in OperationPlan, kind \in {"create", "delete"} :
         IsCommand(b, i, kind, y)' <=> IsCommand(b, Old(b, i), kind, y)
  BY <1>6 DEF IsCommand
<1>15. ASSUME NEW b \in live, NEW i \in DOMAIN commands'[b], IsCommand(b, Old(b, i), "create", x)
       PROVE  c.kind = "move"
  <2>1. c.kind # "delete"
    BY <1>2, <1>5, <1>6, <1>8, <1>15 DEF Objects
  <2>2. c.kind # "create"
    BY <1>2, <1>5, <1>6, <1>15 DEF Objects
  <2> QED BY <1>5, <2>1, <2>2
<1>16. Objects'
  <2>1. ASSUME NEW y \in OperationPlan, NEW a \in live, NEW i \in DOMAIN commands'[a],
               IsCommand(a, Old(a, i), "create", y)
        PROVE  /\ y \in allocated'
               /\ \A b \in live : \A j \in DOMAIN commands'[b] :
                    /\ IsCommand(b, Old(b, j), "create", y) => b = a /\ j = i
                    /\ IsCommand(b, Old(b, j), "delete", y) => Precedes(a, i, b, j)
    <3>1. y \in allocated
      BY <1>2, <1>6, <2>1 DEF Objects
    <3>2. y \in allocated'
      BY <1>11, <1>15, <2>1, <3>1
    <3> HIDE DEF Old
    <3> QED BY <1>2, <1>6, <1>7, <2>1, <3>2 DEF Objects
  <2> HIDE DEF Old
  <2> QED BY <1>9, <1>11, <1>14, <2>1 DEF Objects, Precedes
<1> QED BY <1>9, <1>12, <1>13, <1>16 DEF JournalInv

LEMMA CommitNextStep ==
  ASSUME JournalInv, CommitNext
  PROVE  JournalInv'
<1>1. /\ pc = "commit" /\ pc' = "commit" /\ commands[cursor] = <<>> /\ Following(cursor) # {}
      /\ cursor' = Min(Following(cursor))
      /\ UNCHANGED <<plan, current, commands, pc, target, trail>>
  BY DEF CommitNext
<1>2. /\ TypeOK /\ Structure /\ Objects
  BY DEF JournalInv
<1>3. PICK n \in Bookmark : cursor <= n /\ live = {First} \cup cursor..n
  BY <1>1, <1>2 DEF Structure
<1>4. /\ cursor \in live /\ cursor \in Bookmark /\ cursor \in Int /\ n \in Int
  <2>1. cursor \in live /\ cursor \in Bookmark
    BY <1>2, TypeFacts DEF TypeOK
  <2>2. \A b \in Bookmark : b \in Int
    BY BookmarkFacts, SMT
  <2> QED BY <2>1, <2>2
<1>5. Following(cursor) = (cursor + 1)..n
  BY <1>3, <1>4, BookmarkFacts, SMT DEF Following
<1>6. cursor + 1 <= n /\ cursor' = cursor + 1
  <2>1. cursor + 1 <= n
    BY <1>1, <1>4, <1>5, SMT
  <2> QED BY <1>1, <1>4, <1>5, <2>1, MinOfInterval, SMT
<1>7. /\ live' = {First} \cup (cursor + 1)..n
      /\ live' \subseteq live /\ First \in live' /\ active' = active
      /\ parent' \in [Bookmark -> Bookmark]
      /\ \A b \in live' \ {First} : parent'[b] = parent[b]
  <2>1. CASE cursor = First /\ UNCHANGED <<live, parent, active>>
    <3>1. {First} \cup cursor..n = {First} \cup (cursor + 1)..n
      BY <1>4, <2>1, SMT
    <3> QED BY <1>2, <1>3, <2>1, <3>1 DEF TypeOK
  <2>2. CASE cursor # First /\ Remove(cursor)
    <3>1. live' = {First} \cup (cursor + 1)..n
      BY <1>3, <1>4, <2>2, BookmarkFacts, SMT DEF Remove
    <3>2. \A b \in live' : b \in Bookmark /\ b # cursor
      BY <1>2, <2>2, TypeFacts DEF Remove
    <3> QED BY <1>2, <2>2, <3>1, <3>2, BookmarkFacts DEF Remove, TypeOK
  <2> QED BY <2>1, <2>2 DEF CommitNext
<1>8. TypeOK'
  <2>1. cursor' \in live'
    BY <1>4, <1>6, <1>7, SMT
  <2> QED BY <1>1, <1>2, <1>7, <2>1 DEF TypeOK, plan
<1>9. Structure'
  <2>1. commands'[First] = <<>>
    BY <1>1, <1>2 DEF Structure
  <2> QED BY <1>1, <1>2, <1>3, <1>6, <1>7, <2>1 DEF Structure
<1>10. Objects'
  BY <1>1, <1>2, <1>7 DEF Objects, IsCommand, Precedes, plan
<1> QED BY <1>1, <1>8, <1>9, <1>10 DEF JournalInv

LEMMA CommitDoneStep ==
  ASSUME JournalInv, CommitDone
  PROVE  JournalInv'
<1>1. /\ pc = "commit" /\ commands[cursor] = <<>> /\ live' = {First} /\ current' = First
      /\ pc' = "idle" /\ cursor' = First /\ target' = First
      /\ parent' = [parent EXCEPT ![cursor] = First]
      /\ trail' = [b \in Bookmark |-> IF b = First THEN <<Snapshot>> ELSE <<>>]
      /\ UNCHANGED <<plan, active, commands>>
  BY DEF CommitDone, Stop
<1>2. TypeOK /\ Structure /\ Objects /\ commands[First] = <<>>
  BY <1>1 DEF JournalInv, Structure
<1>3. TypeOK'
  <2>1. <<Snapshot>> \in Seq(SnapshotSet) /\ <<>> \in Seq(SnapshotSet)
    BY <1>2, SnapshotType
  <2>2. trail' \in [Bookmark -> Seq(SnapshotSet)]
    BY <1>1, <2>1
  <2> QED BY <1>1, <1>2, <2>2, BookmarkFacts DEF TypeOK, plan
<1>4. lastBookmark' = First /\ View' = View
  <2>1. live' = 0..0
    BY <1>1, BookmarkFacts, SMT
  <2>2. lastBookmark' = Max(live')
    BY DEF lastBookmark
  <2> QED BY <1>1, <2>1, <2>2, MaxOfInterval, BookmarkFacts DEF View, plan
<1>5. Structure'
  <2>1. Chain'
    <3>1. live' = First..First
      BY <1>1, BookmarkFacts, SMT
    <3> QED BY <1>1, <3>1, BookmarkFacts DEF Chain, IsChildOf
  <2> QED BY <1>1, <1>2, <1>4, <2>1 DEF Structure
<1>6. \A b \in live' : commands'[b] = <<>> /\ DOMAIN commands'[b] = {} /\ trail'[b] = <<Snapshot>>
  BY <1>1, <1>2, BookmarkFacts, SMT
<1>7. Objects' /\ Deletions'
  BY <1>1, <1>2, <1>6 DEF Objects, Deletions, plan
<1>8. Snapshots'
  <2>1. \A b \in live' : Len(trail'[b]) = Len(commands'[b]) + 1
    <3>1. Len(<<Snapshot>>) = Len(<<>>) + 1
      OBVIOUS
    <3> QED BY <1>6, <3>1, Zenon
  <2>2. View' = Last(lastBookmark)'
    BY <1>1, <1>4, <1>6 DEF Last, Snapshot
  <2> QED BY <1>1, <1>6, <2>1, <2>2 DEF Snapshots
<1> QED BY <1>3, <1>5, <1>7, <1>8 DEF JournalInv

-----------------------------------------------------------------------------
(* JournalInv is inductive: it holds initially, and every action, whatever *)
(* the constants, leads from a state in which it holds to another one.     *)
LEMMA NextJournal == JournalInv /\ [Next]_vars => JournalInv'
<1> SUFFICES ASSUME JournalInv, [Next]_vars PROVE JournalInv'
  OBVIOUS
<1>1. ASSUME Decide PROVE JournalInv'
  BY <1>1, CreateStep, DeleteStep, MoveStep DEF Decide
<1>2. ASSUME NEW b \in live, RollbackBookmark(b) PROVE JournalInv'
  BY <1>2, RollbackBookmarkStep
<1>3. CASE UNCHANGED vars
  <2>1. UNCHANGED <<plan, live, parent, active, current, commands, pc, cursor, target, trail>>
    BY <1>3 DEF vars, list
  <2>2. lastBookmark' = lastBookmark
    BY <2>1 DEF lastBookmark
  <2>3. TypeOK'
    BY <2>1 DEF JournalInv, TypeOK, plan
  <2>4. Structure'
    BY <2>1, <2>2, KeepsChain DEF JournalInv, Structure
  <2> QED BY <2>1, <2>3, <2>4, KeepsData DEF JournalInv
<1> QED
  BY <1>1, <1>2, <1>3, SetBookmarkStep, RevertCommandStep, RemoveBookmarkStep,
     RollbackBookmarkDoneStep, RollbackStep, RollbackCommandStep,
     RollbackNextStep, RollbackDoneStep, CommitStep, CommitCommandStep,
     CommitNextStep, CommitDoneStep
  DEF Next

(* JournalInv holds in every reachable state of the journal.               *)
THEOREM JournalCorrect == Spec => []JournalInv
BY InitJournal, NextJournal, PTL DEF Spec

(* Every variable of the journal keeps its type: the bookmarks named by    *)
(* the parent pointers, by currentBookmark and by the loops exist.         *)
THEOREM TypeCorrect == Spec => []TypeOK
<1>1. JournalInv => TypeOK
  BY DEF JournalInv
<1> QED BY <1>1, JournalCorrect, PTL

(* As long as undoBookmark() is not used, the bookmarks form a chain whose *)
(* last one receives the commands, for any depth of nesting.               *)
THEOREM ChainedCorrect == Spec => []Chained
<1>1. JournalInv => Chained
  <2>1. SUFFICES ASSUME JournalInv PROVE Chained
    OBVIOUS
  <2>2. pc # "commit" => live = First..lastBookmark
    BY <2>1, LastIsLive
  <2> QED BY <2>1, <2>2 DEF JournalInv, Structure, Chain, Chained
<1> QED BY <1>1, JournalCorrect, PTL

(* After any number of decisions, bookmarks, rollbacks and commits the     *)
(* plan is the one of the last decision that was not reverted.             *)
THEOREM RevertIsExactCorrect == Spec => []RevertIsExact
<1>1. JournalInv => RevertIsExact
  BY DEF JournalInv, Structure, Snapshots, RevertIsExact, Last
<1> QED BY <1>1, JournalCorrect, PTL
=============================================================================

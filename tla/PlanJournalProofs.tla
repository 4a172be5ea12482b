---------------------------- MODULE PlanJournalProofs ----------------------------
(***************************************************************************)
(* Proofs that the journal of module CommandManager implements the plan    *)
(* with nested savepoints of module PlanJournal, that an empty journal     *)
(* leaves nothing pending, and that without consolidation a deleted        *)
(* operationplan keeps its memory until its command is settled.  They rest *)
(* on PendingInv, which is proved inductive with JournalInv.               *)
(***************************************************************************)
EXTENDS CommandManagerProofs

-----------------------------------------------------------------------------
(* What the steps do to the sets of operationplans with pending commands.  *)

(* A step that changes no command of the journal changes no pending one.   *)
LEMMA SamePending ==
  ASSUME \A b \in live \cap live' : commands'[b] = commands[b],
         \A b \in live \ live' : DOMAIN commands[b] = {},
         \A b \in live' \ live : DOMAIN commands'[b] = {}
  PROVE  /\ \A k : Pending(k)' = Pending(k)
         /\ DeletedOnce => DeletedOnce'
<1>1. \A b \in live : \A i \in DOMAIN commands[b] : b \in live' /\ i \in DOMAIN commands'[b]
  OBVIOUS
<1>2. \A b \in live' : \A i \in DOMAIN commands'[b] :
        /\ b \in live /\ i \in DOMAIN commands[b]
        /\ commands'[b][i] = commands[b][i]
  OBVIOUS
<1>3. \A k : Pending(k)' = Pending(k)
  BY <1>1, <1>2 DEF Pending, IsCommand
<1>4. DeletedOnce => DeletedOnce'
  BY <1>2 DEF DeletedOnce, IsCommand
<1> QED BY <1>3, <1>4

LEMMA KeepsPending ==
  ASSUME UNCHANGED plan,
         \A b \in live \cap live' : commands'[b] = commands[b],
         \A b \in live \ live' : DOMAIN commands[b] = {},
         \A b \in live' \ live : DOMAIN commands'[b] = {}
  PROVE  /\ Leftovers => Leftovers'
         /\ DeletedOnce => DeletedOnce'
         /\ DeletedExist => DeletedExist'
<1>1. /\ \A k : Pending(k)' = Pending(k)
      /\ DeletedOnce => DeletedOnce'
  BY SamePending
<1> HIDE DEF Pending
<1> QED BY <1>1 DEF Leftovers, DeletedExist, plan

(* Log() makes one more command pending. *)
LEMMA LogPending ==
  ASSUME JournalInv, NEW kind \in {"create", "delete", "move"}, NEW x \in OperationPlan,
         NEW q \in {0} \cup Quantity, Log(kind, x, q), Snapshot' \in SnapshotSet
  PROVE  \A k : Pending(k)' = IF k = kind THEN Pending(k) \cup {x} ELSE Pending(k)
<1> DEFINE n == Len(commands[current])
<1>1. /\ current \in live /\ live' = live
      /\ \A b \in live \ {current} : commands'[b] = commands[b]
      /\ Len(commands'[current]) = n + 1
      /\ \A i \in 1..n : commands'[current][i] = commands[current][i]
      /\ commands'[current][n + 1] = [kind |-> kind, opplan |-> x, originalqty |-> q]
      /\ commands' \in [Bookmark -> Seq(Command)]
  BY LogFacts
<1>2. /\ live \subseteq Bookmark /\ n \in Nat
      /\ DOMAIN commands[current] = 1..n
  BY <1>1, TypeFacts DEF JournalInv
<1>3. DOMAIN commands'[current] = 1..(n + 1)
  BY <1>1, <1>2, LenProperties
<1>4. n + 1 \in 1..(n + 1) /\ \A i \in 1..n : i \in 1..(n + 1)
  BY <1>2
<1>5. \A b \in live : \A i \in DOMAIN commands'[b] :
        \/ i \in DOMAIN commands[b] /\ commands'[b][i] = commands[b][i]
        \/ commands'[b][i].kind = kind /\ commands'[b][i].opplan = x
  <2>1. \A b \in live : \A i \in DOMAIN commands'[b] :
          \/ i \in DOMAIN commands[b] /\ commands'[b][i] = commands[b][i]
          \/ /\ b = current /\ i = Len(commands[current]) + 1
             /\ commands'[b][i].kind = kind /\ commands'[b][i].opplan = x
    BY LogPositions
  <2> QED BY <2>1, Zenon
<1>6. \A b \in live : \A i \in DOMAIN commands[b] :
        i \in DOMAIN commands'[b] /\ commands'[b][i] = commands[b][i]
  BY <1>1, <1>2, <1>3, <1>4
<1>7. /\ n + 1 \in DOMAIN commands'[current]
      /\ commands'[current][n + 1].kind = kind /\ commands'[current][n + 1].opplan = x
  BY <1>1, <1>3, <1>4
<1> HIDE DEF n
<1> QED BY <1>1, <1>5, <1>6, <1>7 DEF Pending, IsCommand

(* The loops of rollback() make one command less pending, ... *)
LEMMA DestroyPending ==
  ASSUME JournalInv, pc \in {"rollbackBookmark", "rollback"}, DestroyLast
  PROVE  LET c == commands[cursor][Len(commands[cursor])]
         IN  /\ Revert(c) /\ c \in Command
             /\ \A k : Pending(k)' \subseteq Pending(k)
             /\ \A k : \A y \in Pending(k) : y \in Pending(k)' \/ (c.kind = k /\ y = c.opplan)
             /\ c.kind \in {"create", "delete"} => c.opplan \in allocated
<1> DEFINE n == Len(commands[cursor])
           c == commands[cursor][n]
<1>1. /\ commands[cursor] # <<>> /\ Revert(c)
      /\ commands' = [commands EXCEPT ![cursor] = SubSeq(commands[cursor], 1, n - 1)]
      /\ live' = live
  BY DEF DestroyLast, list
<1>2. /\ commands \in [Bookmark -> Seq(Command)] /\ cursor \in live /\ live \subseteq Bookmark
      /\ Objects /\ Deletions
  BY TypeFacts DEF JournalInv, TypeOK
<1>3. /\ SubSeq(commands[cursor], 1, n - 1) \in Seq(Command)
      /\ Len(SubSeq(commands[cursor], 1, n - 1)) = n - 1
      /\ \A i \in 1..(n - 1) : SubSeq(commands[cursor], 1, n - 1)[i] = commands[cursor][i]
      /\ n \in Nat \ {0}
  BY <1>1, <1>2, PopType
<1>4. /\ DOMAIN commands[cursor] = 1..n
      /\ \A i \in DOMAIN commands[cursor] : commands[cursor][i] \in Command
  BY <1>2, TypeFacts DEF JournalInv
<1> HIDE DEF n
<1>5. /\ commands'[cursor] = SubSeq(commands[cursor], 1, n - 1)
      /\ \A b \in live \ {cursor} : commands'[b] = commands[b]
  BY <1>1, <1>2
<1>6. DOMAIN commands'[cursor] = 1..(n - 1)
  BY <1>3, <1>5, LenProperties
<1>7. n \in 1..n /\ \A i \in 1..n : i = n \/ i \in 1..(n - 1)
  BY <1>3
<1>8. \A i \in 1..(n - 1) : i \in 1..n
  BY <1>3
<1>9. c \in Command /\ n \in DOMAIN commands[cursor]
  BY <1>4, <1>7
<1>10. \A b \in live : \A i \in DOMAIN commands'[b] :
         i \in DOMAIN commands[b] /\ commands'[b][i] = commands[b][i]
  BY <1>3, <1>4, <1>5, <1>6, <1>8
<1>11. \A b \in live : \A i \in DOMAIN commands[b] :
         \/ i \in DOMAIN commands'[b] /\ commands'[b][i] = commands[b][i]
         \/ commands[b][i] = c
  BY <1>3, <1>4, <1>5, <1>6, <1>7
<1>12. c.opplan \in OperationPlan
  BY <1>9 DEF Command
<1>13. c.kind \in {"create", "delete"} => c.opplan \in allocated
  BY <1>2, <1>9, <1>12, Zenon DEF Objects, Deletions, IsCommand
<1> HIDE DEF c
<1>14. ASSUME NEW k, NEW y \in Pending(k)' PROVE y \in Pending(k)
  <2>1. PICK b \in live : \E i \in DOMAIN commands'[b] : IsCommand(b, i, k, y)'
    BY <1>1, <1>14 DEF Pending
  <2>2. PICK i \in DOMAIN commands'[b] : IsCommand(b, i, k, y)'
    BY <2>1
  <2>3. i \in DOMAIN commands[b] /\ IsCommand(b, i, k, y)
    BY <1>10, <2>2 DEF IsCommand
  <2> QED BY <1>14, <2>3 DEF Pending
<1>15. ASSUME NEW k, NEW y \in Pending(k)
       PROVE  y \in Pending(k)' \/ (c.kind = k /\ y = c.opplan)
  <2>1. PICK b \in live : \E i \in DOMAIN commands[b] : IsCommand(b, i, k, y)
    BY <1>15 DEF Pending
  <2>2. PICK i \in DOMAIN commands[b] : IsCommand(b, i, k, y)
    BY <2>1
  <2>3. y \in OperationPlan /\ b \in live'
    BY <1>1, <1>15 DEF Pending
  <2>4. CASE i \in DOMAIN commands'[b] /\ commands'[b][i] = commands[b][i]
    BY <2>2, <2>3, <2>4 DEF Pending, IsCommand
  <2>5. CASE commands[b][i] = c
    BY <2>2, <2>5 DEF IsCommand
  <2> QED BY <1>11, <2>2, <2>4, <2>5
<1> QED BY <1>1, <1>9, <1>13, <1>14, <1>15 DEF n, c

(* ... and so does the loop of commit(). *)
LEMMA CommitPending ==
  ASSUME JournalInv, CommitCommand
  PROVE  LET c == Head(commands[cursor])
         IN  /\ Settle(c) /\ c \in Command /\ c.opplan \in OperationPlan
             /\ \A k : Pending(k)' \subseteq Pending(k)
             /\ \A k : \A y \in Pending(k) : y \in Pending(k)' \/ (c.kind = k /\ y = c.opplan)
             /\ c.opplan \in Pending(c.kind)
             /\ DeletedOnce => DeletedOnce'
             /\ DeletedOnce /\ c.kind = "delete" => c.opplan \notin Pending("delete")'
             /\ c.kind = "create" => c.opplan \notin Pending("create")'
<1> DEFINE n == Len(commands[cursor])
           c == Head(commands[cursor])
           Old(b, i) == IF b = cursor THEN i + 1 ELSE i
<1>1. /\ commands[cursor] # <<>> /\ Settle(c)
      /\ commands' = [commands EXCEPT ![cursor] = Tail(commands[cursor])]
      /\ live' = live
  BY DEF CommitCommand, list
<1>2. /\ commands \in [Bookmark -> Seq(Command)] /\ cursor \in live /\ live \subseteq Bookmark
      /\ Objects
  BY TypeFacts DEF JournalInv, TypeOK
<1>3. /\ Tail(commands[cursor]) \in Seq(Command)
      /\ Len(Tail(commands[cursor])) = n - 1
      /\ \A i \in 1..(n - 1) : Tail(commands[cursor])[i] = commands[cursor][i + 1]
      /\ c = commands[cursor][1] /\ c \in Command
      /\ n \in Nat \ {0}
  BY <1>1, <1>2, TailType
<1>4. DOMAIN commands[cursor] = 1..n
  BY <1>2, TypeFacts DEF JournalInv
<1> HIDE DEF n, c
<1>5. /\ commands'[cursor] = Tail(commands[cursor])
      /\ \A b \in live \ {cursor} : commands'[b] = commands[b]
  BY <1>1, <1>2
<1>6. DOMAIN commands'[cursor] = 1..(n - 1)
  BY <1>3, <1>5, LenProperties
<1>7. /\ 1 \in 1..n
      /\ \A i \in 1..(n - 1) : i + 1 \in 1..n /\ i + 1 # 1
      /\ \A i \in 1..n : i = 1 \/ (i - 1 \in 1..(n - 1) /\ i - 1 + 1 = i)
  BY <1>3
<1>8. \A b \in live : \A i \in DOMAIN commands'[b] :
        /\ Old(b, i) \in DOMAIN commands[b]
        /\ commands'[b][i] = commands[b][Old(b, i)]
        /\ b = cursor => Old(b, i) # 1
  BY <1>3, <1>4, <1>5, <1>6, <1>7
<1>9. \A b \in live : \A i \in DOMAIN commands[b] :
        \/ \E j \in DOMAIN commands'[b] : commands'[b][j] = commands[b][i]
        \/ commands[b][i] = c
  <2>1. \A i \in 1..n : i = 1 \/ (i - 1 \in 1..(n - 1) /\ commands'[cursor][i - 1] = commands[cursor][i])
    BY <1>3, <1>5, <1>7
  <2> QED BY <1>3, <1>4, <1>5, <1>6, <2>1
<1>10. \A b \in live : \A i, j \in DOMAIN commands'[b] : Old(b, i) = Old(b, j) => i = j
  <2>1. \A b \in live : DOMAIN commands[b] = 1..Len(commands[b]) /\ Len(commands[b]) \in Nat
    BY <1>2, TypeFacts DEF JournalInv
  <2>2. \A b \in live \ {cursor} : DOMAIN commands'[b] = 1..Len(commands[b])
    BY <1>5, <2>1
  <2>3. \A b \in live : DOMAIN commands'[b] \subseteq Int
    BY <1>3, <1>6, <2>1, <2>2
  <2> QED BY <2>3, SMT
<1> HIDE DEF Old
<1>11. /\ c \in Command /\ c.opplan \in OperationPlan
       /\ 1 \in DOMAIN commands[cursor] /\ IsCommand(cursor, 1, c.kind, c.opplan)
  BY <1>3, <1>4, <1>7 DEF Command, IsCommand
<1>12. c.opplan \in Pending(c.kind)
  BY <1>2, <1>11 DEF Pending
<1>13. \A k : Pending(k)' \subseteq Pending(k)
  BY <1>1, <1>8 DEF Pending, IsCommand
<1>14. ASSUME NEW k, NEW y \in Pending(k)
       PROVE  y \in Pending(k)' \/ (c.kind = k /\ y = c.opplan)
  <2>1. PICK b \in live : \E i \in DOMAIN commands[b] : IsCommand(b, i, k, y)
    BY <1>14 DEF Pending
  <2>2. PICK i \in DOMAIN commands[b] : IsCommand(b, i, k, y)
    BY <2>1
  <2>3. y \in OperationPlan /\ b \in live'
    BY <1>1, <1>14 DEF Pending
  <2>4. CASE \E j \in DOMAIN commands'[b] : commands'[b][j] = commands[b][i]
    BY <2>2, <2>3, <2>4 DEF Pending, IsCommand
  <2>5. CASE commands[b][i] = c
    BY <2>2, <2>5 DEF IsCommand
  <2> QED BY <1>9, <2>2, <2>4, <2>5
<1>15. DeletedOnce => DeletedOnce'
  BY <1>1, <1>8, <1>10 DEF DeletedOnce, IsCommand
<1>16. ASSUME DeletedOnce, c.kind = "delete", c.opplan \in Pending("delete")' PROVE FALSE
  BY <1>1, <1>2, <1>8, <1>11, <1>16 DEF DeletedOnce, IsCommand, Pending
<1>17. ASSUME c.kind = "create", c.opplan \in Pending("create")' PROVE FALSE
  BY <1>1, <1>2, <1>8, <1>11, <1>17 DEF Objects, IsCommand, Pending
<1> QED BY <1>1, <1>11, <1>12, <1>13, <1>14, <1>15, <1>16, <1>17 DEF c

-----------------------------------------------------------------------------
(* PendingInv is inductive.  What JournalInv says of pending commands: *)

LEMMA PendingFacts ==
  JournalInv => /\ Pending("create") \subseteq allocated
                /\ pc # "commit" => Pending("delete") \subseteq allocated \ flowloads /\ DeletedOnce
<1> SUFFICES ASSUME JournalInv
             PROVE  /\ Pending("create") \subseteq allocated
                    /\ pc # "commit" => Pending("delete") \subseteq allocated \ flowloads /\ DeletedOnce
  OBVIOUS
<1>1. Objects /\ (pc # "commit" => Deletions)
  BY DEF JournalInv
<1>2. Pending("create") \subseteq allocated
  BY <1>1 DEF Pending, Objects
<1>3. ASSUME pc # "commit" PROVE Pending("delete") \subseteq allocated \ flowloads
  BY <1>1, <1>3 DEF Pending, Deletions
<1>4. ASSUME pc # "commit" PROVE DeletedOnce
  BY <1>1, <1>4 DEF DeletedOnce, Deletions
<1> QED BY <1>2, <1>3, <1>4

LEMMA PendingFactsPrime ==
  JournalInv' =>
    (/\ Pending("create") \subseteq allocated
     /\ pc # "commit" => Pending("delete") \subseteq allocated \ flowloads /\ DeletedOnce)'
BY PendingFacts, PTL

LEMMA SnapshotTypePrime == JournalInv' => Snapshot' \in SnapshotSet
BY DEF JournalInv, TypeOK, Snapshot, SnapshotSet, View, Plan

LEMMA InitPending == Init => PendingInv
<1> SUFFICES ASSUME Init PROVE PendingInv
  OBVIOUS
<1>1. JournalInv
  BY InitJournal
<1>2. \A k : Pending(k) = {}
  BY BookmarkFacts DEF Init, Pending
<1>3. Leftovers /\ DeletedExist
  BY <1>2 DEF Init, Leftovers, DeletedExist
<1>4. DeletedOnce /\ pc # "commit"
  BY <1>1, PendingFacts DEF Init
<1> QED BY <1>1, <1>3, <1>4 DEF PendingInv

LEMMA CreatePending ==
  ASSUME PendingInv, NEW x \in OperationPlan, NEW q \in Quantity, NEW d \in BOOLEAN,
         CreateOperationPlan(x, q, d)
  PROVE  PendingInv'
<1>1. JournalInv /\ JournalInv' /\ Snapshot' \in SnapshotSet
  BY CreateStep, SnapshotTypePrime DEF PendingInv
<1>2. /\ allocated' = allocated \cup {x} /\ flowloads' = flowloads \cup {x}
      /\ listed' = listed /\ identified' = identified /\ x \notin allocated
      /\ Log("create", x, 0) /\ pc = "idle" /\ pc' = "idle"
  BY DEF CreateOperationPlan, Log
<1>3. \A k : Pending(k)' = IF k = "create" THEN Pending(k) \cup {x} ELSE Pending(k)
  BY <1>1, <1>2, LogPending
<1>4. Pending("create")' = Pending("create") \cup {x} /\ Pending("delete")' = Pending("delete")
  BY <1>3
<1>5. Pending("delete") \subseteq allocated /\ Pending("delete")' \subseteq allocated' /\ DeletedOnce'
  BY <1>1, <1>2, PendingFacts, PendingFactsPrime
<1>6. Leftovers'
  BY <1>2, <1>4 DEF PendingInv, Leftovers
<1>7. ~Consolidate => DeletedExist'
  BY <1>2, <1>4, <1>5 DEF PendingInv, DeletedExist
<1> QED BY <1>1, <1>2, <1>5, <1>6, <1>7 DEF PendingInv

LEMMA DeletePending ==
  ASSUME PendingInv, NEW x \in OperationPlan, DeleteOperationPlan(x)
  PROVE  PendingInv'
<1>1. JournalInv /\ JournalInv' /\ Snapshot' \in SnapshotSet
  BY DeleteStep, SnapshotTypePrime DEF PendingInv
<1>2. /\ allocated' = allocated /\ flowloads' = flowloads \ {x}
      /\ listed' = listed \ {x} /\ identified' = identified
      /\ Log("delete", x, 0) /\ pc = "idle" /\ pc' = "idle"
  BY DEF DeleteOperationPlan, Log
<1>3. \A k : Pending(k)' = IF k = "delete" THEN Pending(k) \cup {x} ELSE Pending(k)
  BY <1>1, <1>2, LogPending
<1>4. Pending("create")' = Pending("create") /\ Pending("delete")' = Pending("delete") \cup {x}
  BY <1>3
<1>5. Pending("delete")' \subseteq allocated' /\ DeletedOnce'
  BY <1>1, <1>2, PendingFactsPrime
<1>6. Leftovers'
  BY <1>2, <1>4 DEF PendingInv, Leftovers
<1>7. ~Consolidate => DeletedExist'
  BY <1>2, <1>4, <1>5 DEF PendingInv, DeletedExist, Leftovers
<1> QED BY <1>1, <1>2, <1>5, <1>6, <1>7 DEF PendingInv

LEMMA MovePending ==
  ASSUME PendingInv, NEW x \in OperationPlan, NEW q \in Quantity, MoveOperationPlan(x, q)
  PROVE  PendingInv'
<1>1. JournalInv /\ JournalInv' /\ Snapshot' \in SnapshotSet
  BY MoveStep, SnapshotTypePrime DEF PendingInv
<1>2. /\ UNCHANGED <<allocated, flowloads, listed, identified>>
      /\ Log("move", x, quantity[x]) /\ pc = "idle" /\ pc' = "idle"
      /\ quantity[x] \in {0} \cup Quantity
  BY <1>1 DEF MoveOperationPlan, Log, JournalInv, TypeOK, Plan
<1>3. \A k : Pending(k)' = IF k = "move" THEN Pending(k) \cup {x} ELSE Pending(k)
  BY <1>1, <1>2, LogPending
<1>4. Pending("create")' = Pending("create") /\ Pending("delete")' = Pending("delete")
  BY <1>3
<1>5. Pending("delete")' \subseteq allocated' /\ DeletedOnce'
  BY <1>1, <1>2, PendingFactsPrime
<1>6. Leftovers'
  BY <1>2, <1>4 DEF PendingInv, Leftovers
<1>7. ~Consolidate => DeletedExist'
  BY <1>2, <1>4, <1>5 DEF PendingInv, DeletedExist
<1> QED BY <1>1, <1>2, <1>5, <1>6, <1>7 DEF PendingInv

LEMMA DestroyLastPending ==
  ASSUME PendingInv, pc \in {"rollbackBookmark", "rollback"}, DestroyLast
  PROVE  PendingInv'
<1> DEFINE c == commands[cursor][Len(commands[cursor])]
           x == c.opplan
<1>1. JournalInv /\ JournalInv' /\ pc' = pc
  BY DestroyLastStep DEF PendingInv, DestroyLast
<1>2. /\ Revert(c)
      /\ \A k : Pending(k)' \subseteq Pending(k)
      /\ \A k : \A y \in Pending(k) : y \in Pending(k)' \/ (c.kind = k /\ y = x)
  BY <1>1, DestroyPending
<1>3. /\ Pending("create")' \subseteq Pending("create")
      /\ \A y \in Pending("create") : y \in Pending("create")' \/ (c.kind = "create" /\ y = x)
      /\ \A y \in Pending("delete") : y \in Pending("delete")' \/ (c.kind = "delete" /\ y = x)
      /\ Pending("delete")' \subseteq Pending("delete")
  BY <1>2
<1>4. \/ c.kind = "create" /\ Free(x)
      \/ c.kind = "delete" /\ Reinstate(x)
      \/ c.kind = "move" /\ UNCHANGED <<allocated, flowloads, listed, identified>>
  BY <1>2 DEF Revert
<1> HIDE DEF c, x
<1>5. Leftovers'
  <2>1. CASE c.kind = "create" /\ Free(x)
    BY <1>3, <2>1 DEF PendingInv, Leftovers, Free
  <2>2. CASE c.kind = "delete" /\ Reinstate(x)
    BY <1>3, <2>2 DEF PendingInv, Leftovers, Reinstate
  <2>3. CASE c.kind = "move" /\ UNCHANGED <<allocated, flowloads, listed, identified>>
    BY <1>3, <2>3 DEF PendingInv, Leftovers
  <2> QED BY <1>4, <2>1, <2>2, <2>3
<1>6. Pending("delete")' \subseteq allocated' /\ DeletedOnce'
  BY <1>1, PendingFactsPrime
<1>7. ~Consolidate => DeletedExist'
  BY <1>3, <1>6 DEF PendingInv, DeletedExist
<1> QED BY <1>1, <1>5, <1>6, <1>7 DEF PendingInv

(* A step that leaves the plan and the commands alone. *)
LEMMA KeepsPendingInv ==
  ASSUME PendingInv, JournalInv', pc' # "commit", UNCHANGED plan,
         \A b \in live \cap live' : commands'[b] = commands[b],
         \A b \in live \ live' : DOMAIN commands[b] = {},
         \A b \in live' \ live : DOMAIN commands'[b] = {}
  PROVE  PendingInv'
<1>1. /\ Leftovers => Leftovers'
      /\ DeletedOnce => DeletedOnce'
      /\ DeletedExist => DeletedExist'
  BY KeepsPending
<1> QED BY <1>1 DEF PendingInv

LEMMA SetBookmarkPending ==
  ASSUME PendingInv, SetBookmark
  PROVE  PendingInv'
<1> DEFINE n == lastBookmark + 1
<1>1. /\ pc = "idle" /\ pc' = "idle" /\ lastBookmark < MaxBookmarks /\ UNCHANGED plan
      /\ live' = live \cup {n} /\ commands' = [commands EXCEPT ![n] = <<>>]
  BY DEF SetBookmark
<1>2. JournalInv /\ JournalInv'
  BY SetBookmarkStep DEF PendingInv
<1>3. live = First..lastBookmark /\ lastBookmark \in Bookmark
  BY <1>1, <1>2, LastIsLive
<1>4. n \notin live /\ n \in Bookmark /\ live \subseteq Bookmark
  BY <1>1, <1>3, BookmarkFacts, SMT
<1>5. commands \in [Bookmark -> Seq(Command)]
  BY <1>2 DEF JournalInv, TypeOK
<1> HIDE DEF n
<1>6. commands'[n] = <<>> /\ \A b \in live : commands'[b] = commands[b]
  BY <1>1, <1>4, <1>5
<1>7. \A b \in live' \ live : DOMAIN commands'[b] = {}
  BY <1>1, <1>6
<1> QED BY <1>1, <1>2, <1>6, <1>7, KeepsPendingInv

LEMMA RollbackLoopPending ==
  ASSUME PendingInv,
         \/ \E b \in live : RollbackBookmark(b)
         \/ RemoveBookmark \/ RollbackBookmarkDone \/ Rollback \/ RollbackNext \/ RollbackDone
  PROVE  PendingInv'
<1>1. JournalInv /\ JournalInv'
  BY RollbackBookmarkStep, RemoveBookmarkStep, RollbackBookmarkDoneStep, RollbackStep,
     RollbackNextStep, RollbackDoneStep DEF PendingInv
<1>2. /\ UNCHANGED <<plan, commands>> /\ pc' # "commit"
      /\ live' = live \/ (live' = live \ {cursor} /\ commands[cursor] = <<>>)
  BY DEF RollbackBookmark, RemoveBookmark, RollbackBookmarkDone, Rollback, RollbackNext,
         RollbackDone, Stop, Remove, list
<1>3. \A b \in live \ live' : DOMAIN commands[b] = {}
  BY <1>2
<1> QED BY <1>1, <1>2, <1>3, KeepsPendingInv

(* The settlement starts with the plan of the last decision, ... *)
LEMMA CommitPendingInv ==
  ASSUME PendingInv, Commit
  PROVE  PendingInv'
<1>1. /\ pc = "idle" /\ UNCHANGED <<plan, commands, trail, live, current>>
      /\ JournalInv /\ JournalInv'
  BY CommitStep DEF PendingInv, Commit, list
<1>2. /\ Leftovers' /\ DeletedOnce' /\ (~Consolidate => DeletedExist')
      /\ \A k : Pending(k)' = Pending(k)
  BY <1>1, KeepsPending, SamePending DEF PendingInv
<1>3. View = trail[current][Len(trail[current])].view /\ View \in Plan
  <2>1. View = trail[current][Len(trail[current])].view
    BY <1>1 DEF JournalInv, Structure, Snapshots, Last
  <2>2. View \in Plan
    BY <1>1 DEF JournalInv, TypeOK, View, Plan
  <2> QED BY <2>1, <2>2
<1>4. \A x \in Pending("delete") : View[x] = 0
  <2>1. \A x \in Pending("delete") : x \in OperationPlan
    BY DEF Pending
  <2>2. Pending("delete") \subseteq allocated \ flowloads
    BY <1>1, PendingFacts
  <2> QED BY <2>1, <2>2 DEF View
<1>5. View' = View
  BY <1>1 DEF View, plan
<1>6. Settling'
  BY <1>1, <1>2, <1>3, <1>4, <1>5 DEF Settling
<1> QED BY <1>1, <1>2, <1>6 DEF PendingInv

LEMMA CommitNextPending ==
  ASSUME PendingInv, CommitNext
  PROVE  PendingInv'
<1>1. /\ pc = "commit" /\ UNCHANGED <<plan, commands, trail, current>>
      /\ live' = live \/ (live' = live \ {cursor} /\ commands[cursor] = <<>>)
      /\ JournalInv'
  BY CommitNextStep DEF PendingInv, CommitNext, Remove
<1>2. \A b \in live \ live' : DOMAIN commands[b] = {}
  BY <1>1
<1>3. /\ Leftovers' /\ DeletedOnce' /\ (~Consolidate => DeletedExist')
      /\ \A k : Pending(k)' = Pending(k)
  BY <1>1, <1>2, KeepsPending, SamePending DEF PendingInv
<1>4. View' = View
  BY <1>1 DEF View, plan
<1>5. Settling'
  BY <1>1, <1>3, <1>4 DEF Settling, PendingInv
<1> QED BY <1>1, <1>3, <1>5 DEF PendingInv

LEMMA CommitDonePending ==
  ASSUME PendingInv, CommitDone
  PROVE  PendingInv'
<1>1. /\ pc' = "idle" /\ live' = {First} /\ UNCHANGED <<plan, commands>> /\ commands[cursor] = <<>>
      /\ JournalInv /\ JournalInv' /\ pc = "commit" /\ Following(cursor) = {}
  BY CommitDoneStep DEF PendingInv, CommitDone, Stop
<1>2. /\ cursor # First => commands[First] = <<>>
      /\ \E n \in Bookmark : cursor <= n /\ live = {First} \cup cursor..n
      /\ cursor \in Bookmark /\ First \in live
  BY <1>1, TypeFacts DEF JournalInv, Structure, TypeOK
<1>3. \A b \in live : b = First \/ b = cursor
  <2>1. \A b \in live : ~(b > cursor)
    BY <1>1 DEF Following
  <2>2. \A b \in live : b = First \/ (b \in Int /\ b >= cursor)
    BY <1>2, BookmarkFacts, SMT
  <2>3. cursor \in Int
    BY <1>2, BookmarkFacts, SMT
  <2> QED BY <2>1, <2>2, <2>3
<1>4. \A b \in live : DOMAIN commands[b] = {}
  BY <1>1, <1>2, <1>3
<1> QED BY <1>1, <1>2, <1>4, KeepsPendingInv

(* ... and each command leaves the plan as it was, moves a quantity, or    *)
(* drops an operationplan that was deleted before.                         *)
LEMMA CommitCommandPending ==
  ASSUME PendingInv, CommitCommand
  PROVE  PendingInv'
<1> DEFINE c == Head(commands[cursor])
           x == c.opplan
           start == trail[current][Len(trail[current])].view
<1>1. /\ pc = "commit" /\ pc' = "commit" /\ UNCHANGED <<trail, current>>
      /\ JournalInv /\ JournalInv'
  BY CommitCommandStep DEF PendingInv, CommitCommand, list
<1>2. /\ Settle(c) /\ c \in Command /\ x \in OperationPlan
      /\ \A k : Pending(k)' \subseteq Pending(k)
      /\ \A k : \A y \in Pending(k) : y \in Pending(k)' \/ (c.kind = k /\ y = x)
      /\ x \in Pending(c.kind)
      /\ DeletedOnce => DeletedOnce'
      /\ DeletedOnce /\ c.kind = "delete" => x \notin Pending("delete")'
      /\ c.kind = "create" => x \notin Pending("create")'
  BY <1>1, CommitPending
<1>3. /\ Pending("create")' \subseteq Pending("create")
      /\ Pending("delete")' \subseteq Pending("delete")
      /\ \A y \in Pending("create") : y \in Pending("create")' \/ (c.kind = "create" /\ y = x)
      /\ \A y \in Pending("delete") : y \in Pending("delete")' \/ (c.kind = "delete" /\ y = x)
  BY <1>2
<1>4. /\ Leftovers /\ DeletedOnce /\ (~Consolidate => DeletedExist)
      /\ start \in Plan
      /\ \A y \in Pending("delete") : start[y] = 0
      /\ \A y \in OperationPlan \ Pending("delete") :
           View[y] = start[y] \/ (Consolidate /\ (View[y] = 0 \/ View[y] > start[y]))
  BY <1>1 DEF PendingInv, Settling
<1>5. /\ Pending("create") \subseteq allocated
      /\ listed \subseteq allocated
      /\ quantity \in Plan /\ \A y \in allocated : y \in OperationPlan /\ quantity[y] # 0
  BY <1>1, PendingFacts DEF JournalInv, Objects, TypeOK
<1>6. \/ c.kind = "create" /\ Activate(x)
      \/ c.kind = "create" /\ \E y \in OperationPlan : MergeInto(x, y)
      \/ c.kind = "delete" /\ Free(x)
      \/ c.kind = "move" /\ UNCHANGED plan
  BY <1>2 DEF Settle
<1>7. \A v \in Plan : \A y \in OperationPlan : v[y] \in Nat
  BY SizeAssumption, SMT DEF SizeAssumption, Plan, Quantity
<1>8. start' = start
  BY <1>1
<1> HIDE DEF c, x, start
<1> DEFINE Kept(y) == View'[y] = start[y] \/ (Consolidate /\ (View'[y] = 0 \/ View'[y] > start[y]))
<1>9. /\ Leftovers'
      /\ ~Consolidate => DeletedExist'
      /\ \A y \in OperationPlan \ Pending("delete")' : Kept(y)
  <2>1. CASE c.kind = "create" /\ Activate(x)
    <3>1. /\ identified' = identified \cup {x} /\ listed' = listed \cup {x}
          /\ flowloads' = flowloads \cup {x} /\ allocated' = allocated /\ quantity' = quantity
          /\ x \in allocated /\ x \notin Pending("create")'
          /\ Pending("delete")' = Pending("delete")
      BY <1>2, <1>3, <1>5, <2>1 DEF Activate
    <3>2. Leftovers'
      BY <1>3, <1>4, <3>1 DEF Leftovers
    <3>3. ~Consolidate => DeletedExist'
      BY <1>3, <1>4, <3>1 DEF DeletedExist
    <3>4. \A y \in OperationPlan \ Pending("delete") : View'[y] = View[y]
      BY <1>4, <3>1 DEF View, Leftovers
    <3> QED BY <1>4, <3>1, <3>2, <3>3, <3>4
  <2>2. CASE c.kind = "create" /\ \E y \in OperationPlan : MergeInto(x, y)
    <3>1. PICK y \in OperationPlan : MergeInto(x, y)
      BY <2>2
    <3>2. /\ Consolidate /\ y # x /\ y \in listed
          /\ quantity' = [quantity EXCEPT ![y] = quantity[y] + quantity[x], ![x] = 0]
          /\ allocated' = allocated \ {x} /\ flowloads' = flowloads \ {x}
          /\ listed' = listed \ {x} /\ identified' = identified \ {x}
          /\ x \in allocated /\ x \notin Pending("create")' /\ x \in Pending("create")
          /\ Pending("delete")' = Pending("delete")
      BY <1>2, <1>3, <1>5, <2>2, <3>1 DEF MergeInto
    <3>3. Leftovers'
      BY <1>3, <1>4, <3>2 DEF Leftovers
    <3>4. ~Consolidate => DeletedExist'
      BY <1>3, <1>4, <3>2 DEF DeletedExist
    <3>5. View'[x] = 0
      BY <1>2, <3>2 DEF View
    <3>6. \A z \in OperationPlan \ {x, y} : View'[z] = View[z]
      BY <1>5, <3>2 DEF View, Plan
    <3>7. y \notin Pending("delete") => Kept(y)
      <4>1. SUFFICES ASSUME y \notin Pending("delete") PROVE View'[y] > start[y]
        BY <3>2
      <4>2. y \in flowloads /\ y \in allocated
        BY <1>4, <1>5, <3>2, <4>1 DEF Leftovers
      <4>3. /\ View[y] = quantity[y] /\ View'[y] = quantity[y] + quantity[x]
            /\ quantity[y] # 0 /\ quantity[x] # 0
        BY <1>2, <1>5, <3>2, <4>2 DEF View, Plan
      <4>4. quantity[y] \in Nat /\ quantity[x] \in Nat /\ start[y] \in Nat
        BY <1>2, <1>4, <1>5, <1>7
      <4>5. View[y] = start[y] \/ View[y] = 0 \/ View[y] > start[y]
        BY <1>4, <4>1
      <4> QED BY <4>3, <4>4, <4>5, SMT
    <3> QED BY <1>4, <3>2, <3>3, <3>4, <3>5, <3>6, <3>7
  <2>3. CASE c.kind = "delete" /\ Free(x)
    <3>1. /\ quantity' = [quantity EXCEPT ![x] = 0]
          /\ allocated' = allocated \ {x} /\ flowloads' = flowloads \ {x}
          /\ listed' = listed \ {x} /\ identified' = identified \ {x}
          /\ x \in Pending("delete") /\ x \notin Pending("delete")'
          /\ Pending("create")' = Pending("create")
      BY <1>2, <1>3, <1>4, <2>3 DEF Free
    <3>2. Leftovers'
      BY <1>3, <1>4, <3>1 DEF Leftovers
    <3>3. ~Consolidate => DeletedExist'
      BY <1>3, <1>4, <3>1 DEF DeletedExist
    <3>4. View'[x] = start[x]
      BY <1>2, <1>4, <3>1 DEF View
    <3>5. \A z \in OperationPlan \ {x} : View'[z] = View[z]
      BY <1>5, <3>1 DEF View, Plan
    <3> QED BY <1>3, <1>4, <3>2, <3>3, <3>4, <3>5
  <2>4. CASE c.kind = "move" /\ UNCHANGED plan
    <3>1. /\ UNCHANGED <<allocated, flowloads, listed, identified, delivery, quantity>>
          /\ Pending("create")' = Pending("create") /\ Pending("delete")' = Pending("delete")
      BY <1>3, <2>4 DEF plan
    <3>2. View' = View
      BY <3>1 DEF View
    <3> QED BY <1>4, <3>1, <3>2 DEF Leftovers, DeletedExist
  <2> QED BY <1>6, <2>1, <2>2, <2>3, <2>4
<1>10. \A y \in Pending("delete")' : start[y] = 0
  BY <1>3, <1>4
<1>11. Settling'
  BY <1>4, <1>8, <1>9, <1>10 DEF Settling, start
<1> QED BY <1>1, <1>2, <1>4, <1>9, <1>11 DEF PendingInv

LEMMA NextPending == PendingInv /\ [Next]_vars => PendingInv'
<1> SUFFICES ASSUME PendingInv, [Next]_vars PROVE PendingInv'
  OBVIOUS
<1>1. ASSUME Decide PROVE PendingInv'
  BY <1>1, CreatePending, DeletePending, MovePending DEF Decide
<1>2. ASSUME RevertCommand \/ RollbackCommand PROVE PendingInv'
  BY <1>2, DestroyLastPending DEF RevertCommand, RollbackCommand
<1>3. CASE UNCHANGED vars
  <2>1. /\ UNCHANGED <<plan, live, commands, pc, trail, current>> /\ JournalInv'
    BY <1>3, NextJournal DEF vars, list, PendingInv
  <2>2. /\ Leftovers' /\ DeletedOnce' /\ (~Consolidate => DeletedExist')
        /\ \A k : Pending(k)' = Pending(k)
    BY <2>1, KeepsPending, SamePending DEF PendingInv
  <2>3. View' = View
    BY <2>1 DEF View, plan
  <2>4. Settling => Settling'
    BY <2>1, <2>2, <2>3 DEF Settling
  <2> QED BY <2>1, <2>2, <2>4 DEF PendingInv
<1> QED
  BY <1>1, <1>2, <1>3, SetBookmarkPending, RollbackLoopPending, CommitPendingInv,
     CommitCommandPending, CommitNextPending, CommitDonePending
  DEF Next

(* PendingInv holds in every reachable state of the journal: what is only  *)
(* in part in the plan is accounted for by a command, and a commit that is *)
(* under way has changed nothing but by consolidation.                     *)
THEOREM PendingCorrect == Spec => []PendingInv
BY InitPending, NextPending, PTL DEF Spec

(* "Until the command is committed we don't deallocate the memory for the  *)
(* operationplan": where activation merges no operationplans, no delete    *)
(* command in the journal refers to an operationplan that is gone, though  *)
(* the solver deletes drafts of the same journal too.  (Where it does, the *)
(* run journal_drafts shows how one comes to.)                             *)
THEOREM DeletedStaysAllocatedCorrect ==
  ASSUME Consolidate = FALSE
  PROVE  Spec => []DeletedStaysAllocated
<1>1. PendingInv => DeletedStaysAllocated
  <2>1. SUFFICES ASSUME PendingInv, NEW b \in live, NEW i \in DOMAIN commands[b],
                        commands[b][i].kind = "delete"
                 PROVE  commands[b][i].opplan \in allocated
    BY DEF DeletedStaysAllocated
  <2>2. commands[b][i] \in Command
    <3>1. TypeOK
      BY <2>1 DEF PendingInv, JournalInv
    <3> QED BY <2>1, <3>1, TypeFacts
  <2>3. commands[b][i].opplan \in OperationPlan
    BY <2>2 DEF Command
  <2>4. commands[b][i].opplan \in Pending("delete")
    BY <2>1, <2>3 DEF Pending, IsCommand
  <2>5. DeletedExist
    BY <2>1, Zenon DEF PendingInv
  <2> QED BY <2>4, <2>5 DEF DeletedExist
<1> QED BY <1>1, PendingCorrect, PTL

(* When the journal is empty again, after a commit or after everything was *)
(* rolled back, no draft is left without identifier, no operationplan      *)
(* without its flowplans and none outside the list of its operation.       *)
THEOREM NothingPendingCorrect == Spec => []NothingPending
<1>1. PendingInv => NothingPending
  <2>1. SUFFICES ASSUME PendingInv, pc = "idle", current = First, commands[First] = <<>>
                 PROVE  flowloads = allocated /\ listed = allocated /\ identified = allocated
    BY DEF NothingPending
  <2>2. live = First..lastBookmark /\ current = lastBookmark
    BY <2>1, LastIsLive DEF PendingInv, JournalInv, Structure
  <2>3. live = {First}
    BY <2>1, <2>2, BookmarkFacts, SMT
  <2>4. \A k : Pending(k) = {}
    BY <2>1, <2>3 DEF Pending
  <2>5. flowloads \cup listed \subseteq allocated
    BY <2>1 DEF PendingInv, JournalInv, Objects
  <2> QED BY <2>1, <2>4, <2>5 DEF PendingInv, Leftovers
<1> QED BY <1>1, PendingCorrect, PTL

-----------------------------------------------------------------------------
(* The refinement.  The values of the mapping in each loop, ...            *)

LEMMA MapIdle ==
  pc = "idle" => /\ JournalPlan = View
                 /\ JournalSaved = [k \in 1..(current + 1) |-> trail[k - 1][1].view]
BY DEF JournalPlan, JournalSaved, SavedTrail

LEMMA MapCommit ==
  pc = "commit" => /\ JournalPlan = trail[current][Len(trail[current])].view
                   /\ JournalSaved = [k \in 1..(current + 1) |-> trail[k - 1][1].view]
BY DEF JournalPlan, JournalSaved, SavedTrail

LEMMA MapRollbackBookmark ==
  pc = "rollbackBookmark" => /\ JournalPlan = trail[target][1].view
                             /\ JournalSaved = [k \in 1..(target + 1) |-> trail[k - 1][1].view]
BY DEF JournalPlan, JournalSaved, SavedTrail

LEMMA MapRollback ==
  pc = "rollback" => /\ JournalPlan = trail[First][1].view
                     /\ JournalSaved = [k \in 1..1 |-> trail[k - 1][1].view]
BY DEF JournalPlan, JournalSaved, SavedTrail

LEMMA MapPrime ==
  /\ pc' = "idle" => /\ JournalPlan' = View'
                     /\ JournalSaved' = [k \in 1..(current' + 1) |-> trail'[k - 1][1].view]
  /\ pc' = "commit" => /\ JournalPlan' = trail'[current'][Len(trail'[current'])].view
                       /\ JournalSaved' = [k \in 1..(current' + 1) |-> trail'[k - 1][1].view]
  /\ pc' = "rollbackBookmark" =>
       /\ JournalPlan' = trail'[target'][1].view
       /\ JournalSaved' = [k \in 1..(target' + 1) |-> trail'[k - 1][1].view]
  /\ pc' = "rollback" => /\ JournalPlan' = trail'[First][1].view
                         /\ JournalSaved' = [k \in 1..1 |-> trail'[k - 1][1].view]
BY DEF JournalPlan, JournalSaved, SavedTrail

(* ... which depends on the first snapshot of each bookmark up to the      *)
(* current one.                                                            *)
LEMMA SameSaved ==
  ASSUME NEW n \in Nat, \A b \in 0..n : trail'[b][1] = trail[b][1]
  PROVE  [k \in 1..(n + 1) |-> trail'[k - 1][1].view] = [k \in 1..(n + 1) |-> trail[k - 1][1].view]
<1>1. \A k \in 1..(n + 1) : k - 1 \in 0..n
  OBVIOUS
<1> QED BY <1>1

LEMMA SavedAt ==
  ASSUME NEW t, NEW n \in Nat, NEW b \in 0..n
  PROVE  [k \in 1..(n + 1) |-> t[k - 1][1].view][b + 1] = t[b][1].view
<1>1. b + 1 \in 1..(n + 1)
  OBVIOUS
<1>2. PICK j \in 1..(n + 1) : j = b + 1 /\ j - 1 = b
  BY <1>1
<1>3. [k \in 1..(n + 1) |-> t[k - 1][1].view][j] = t[j - 1][1].view
  OBVIOUS
<1>4. t[j - 1][1].view = t[b][1].view
  BY <1>2, Zenon
<1> QED BY <1>2, <1>3, <1>4, Zenon

LEMMA SingleSaved ==
  ASSUME NEW t, NEW v, t[0][1].view = v
  PROVE  [k \in 1..1 |-> t[k - 1][1].view] = <<v>>
<1>1. \A k \in 1..1 : k - 1 = 0
  OBVIOUS
<1>2. [k \in 1..1 |-> t[k - 1][1].view] = [k \in 1..1 |-> v]
  BY <1>1
<1>3. [k \in 1..1 |-> v] = <<v>>
  OBVIOUS
<1> QED BY <1>2, <1>3

LEMMA AppendFunction ==
  ASSUME NEW T, NEW n \in Nat, NEW s \in [1..n -> T], NEW r \in [1..(n + 1) -> T], NEW e \in T,
         r[n + 1] = e, \A k \in 1..n : r[k] = s[k]
  PROVE  r = Append(s, e)
<1>1. s \in Seq(T) /\ r \in Seq(T) /\ Len(s) = n /\ Len(r) = n + 1
  BY SMT
<1>2. /\ Append(s, e) \in Seq(T) /\ Len(Append(s, e)) = n + 1
      /\ \A k \in 1..n : Append(s, e)[k] = s[k]
      /\ Append(s, e)[n + 1] = e
  BY <1>1, AppendProperties
<1>3. \A k \in 1..(n + 1) : k \in 1..n \/ k = n + 1
  OBVIOUS
<1> QED BY <1>1, <1>2, <1>3, SeqEqual

LEMMA PrefixFunction ==
  ASSUME NEW T, NEW n \in Nat, NEW m \in 1..n, NEW s \in [1..n -> T], NEW r \in [1..m -> T],
         \A k \in 1..m : r[k] = s[k]
  PROVE  SubSeq(s, 1, m) = r /\ Len(s) = n
<1>1. s \in Seq(T) /\ r \in Seq(T) /\ Len(s) = n /\ Len(r) = m
  BY SMT
<1>2. \A k \in 1..m : s[k] \in T
  BY <1>1
<1>3. /\ SubSeq(s, 1, m) \in Seq(T)
      /\ Len(SubSeq(s, 1, m)) = IF 1 <= m THEN m - 1 + 1 ELSE 0
      /\ \A k \in 1..(m - 1 + 1) : SubSeq(s, 1, m)[k] = s[1 + k - 1]
  BY <1>2, SubSeqProperties
<1>4. Len(SubSeq(s, 1, m)) = m /\ \A k \in 1..m : SubSeq(s, 1, m)[k] = s[k]
  <2>1. 1 <= m /\ m - 1 + 1 = m /\ \A k \in 1..m : 1 + k - 1 = k
    OBVIOUS
  <2> QED BY <1>3, <2>1
<1> QED BY <1>1, <1>3, <1>4, SeqEqual

LEMMA ViewType ==
  ASSUME TypeOK
  PROVE  View \in Journal!Plan
<1>1. {0} \cup Quantity = 0..SizeMaximum
  BY SizeAssumption, SMT DEF SizeAssumption, Quantity
<1>2. View \in [OperationPlan -> 0..SizeMaximum]
  BY <1>1 DEF TypeOK, Plan, View
<1> QED BY <1>2 DEF Journal!Plan

LEMMA ViewTypePrime ==
  ASSUME TypeOK'
  PROVE  /\ \A x \in OperationPlan : View'[x] \in 0..SizeMaximum
         /\ View' \in Journal!Plan
<1>1. {0} \cup Quantity = 0..SizeMaximum
  BY SizeAssumption, SMT DEF SizeAssumption, Quantity
<1>2. View' \in [OperationPlan -> 0..SizeMaximum]
  BY <1>1 DEF TypeOK, Plan, View
<1> QED BY <1>2 DEF Journal!Plan

LEMMA InitRefines == Init => Journal!Init
<1> SUFFICES ASSUME Init PROVE Journal!Init
  OBVIOUS
<1>1. JournalInv /\ pc = "idle" /\ current = 0
  BY InitJournal, BookmarkFacts DEF Init
<1>2. View \in Journal!Plan
  BY <1>1, ViewType DEF JournalInv
<1>3. trail[0] = <<Snapshot>>
  BY BookmarkFacts DEF Init
<1>4. trail[0][1].view = View
  BY <1>3 DEF Snapshot
<1>5. JournalPlan = View /\ JournalSaved = [k \in 1..1 |-> trail[k - 1][1].view]
  <2>1. JournalPlan = View /\ JournalSaved = [k \in 1..(current + 1) |-> trail[k - 1][1].view]
    BY <1>1, MapIdle
  <2> QED BY <1>1, <2>1
<1>6. JournalSaved = <<View>>
  BY <1>4, <1>5, SingleSaved
<1> QED BY <1>2, <1>5, <1>6 DEF Journal!Init

(* A decision changes the plan at one operationplan. *)

LEMMA LogRefines ==
  ASSUME JournalInv, JournalInv', NEW kind \in {"create", "delete", "move"},
         NEW x \in OperationPlan, NEW q \in {0} \cup Quantity, Log(kind, x, q),
         \A y \in OperationPlan \ {x} : View'[y] = View[y]
  PROVE  Journal!Change
<1>1. Snapshot' \in SnapshotSet
  BY SnapshotTypePrime
<1>2. /\ current \in live /\ pc = "idle" /\ pc' = "idle" /\ current' = current
      /\ \A b \in live \ {current} : trail'[b] = trail[b]
      /\ \A i \in 1..(Len(commands[current]) + 1) : trail'[current][i] = trail[current][i]
  <2>1. current' = current
    BY DEF Log, list
  <2> QED BY <1>1, <2>1, LogFacts
<1>3. Len(commands[current]) \in Nat /\ current \in Nat /\ live = 0..current
  <2>1. live = First..lastBookmark /\ current = lastBookmark /\ current \in Bookmark
    BY <1>2, LastIsLive DEF JournalInv, Structure
  <2>2. Len(commands[current]) \in Nat
    BY <2>1, TypeFacts DEF JournalInv
  <2> QED BY <2>1, <2>2, BookmarkFacts, SMT
<1>4. \A b \in 0..current : trail'[b][1] = trail[b][1]
  <2>1. 1 \in 1..(Len(commands[current]) + 1)
    BY <1>3
  <2> QED BY <1>2, <1>3, <2>1
<1>5. JournalSaved' = JournalSaved
  BY <1>2, <1>3, <1>4, MapIdle, MapPrime, SameSaved
<1>6. View' = [View EXCEPT ![x] = View'[x]]
  BY DEF View
<1>7. View'[x] \in 0..SizeMaximum
  BY ViewTypePrime DEF JournalInv
<1> QED BY <1>2, <1>5, <1>6, <1>7, MapIdle, MapPrime DEF Journal!Change

LEMMA DecideRefines ==
  ASSUME JournalInv, JournalInv', Decide
  PROVE  Journal!Change
<1>1. ASSUME NEW x \in OperationPlan, NEW q \in Quantity, NEW d \in BOOLEAN,
             CreateOperationPlan(x, q, d)
      PROVE  Journal!Change
  <2>1. \A y \in OperationPlan \ {x} : View'[y] = View[y]
    BY <1>1 DEF CreateOperationPlan, View, JournalInv, TypeOK, Plan
  <2>2. Log("create", x, 0)
    BY <1>1 DEF CreateOperationPlan
  <2> QED BY <2>1, <2>2, LogRefines
<1>2. ASSUME NEW x \in OperationPlan, DeleteOperationPlan(x)
      PROVE  Journal!Change
  <2>1. \A y \in OperationPlan \ {x} : View'[y] = View[y]
    BY <1>2 DEF DeleteOperationPlan, View
  <2>2. Log("delete", x, 0)
    BY <1>2 DEF DeleteOperationPlan
  <2> QED BY <2>1, <2>2, LogRefines
<1>3. ASSUME NEW x \in OperationPlan, NEW q \in Quantity, MoveOperationPlan(x, q)
      PROVE  Journal!Change
  <2>1. \A y \in OperationPlan \ {x} : View'[y] = View[y]
    BY <1>3 DEF MoveOperationPlan, View, JournalInv, TypeOK, Plan
  <2>2. Log("move", x, quantity[x]) /\ quantity[x] \in {0} \cup Quantity
    BY <1>3 DEF MoveOperationPlan, JournalInv, TypeOK, Plan
  <2> QED BY <2>1, <2>2, LogRefines
<1> QED BY <1>1, <1>2, <1>3 DEF Decide

(* setBookmark() sets a savepoint. *)
LEMMA SetBookmarkRefines ==
  ASSUME JournalInv, JournalInv', SetBookmark
  PROVE  Journal!SetSavepoint
<1> DEFINE n == lastBookmark + 1
<1>1. /\ pc = "idle" /\ pc' = "idle" /\ lastBookmark < MaxBookmarks /\ UNCHANGED plan
      /\ trail' = [trail EXCEPT ![n] = <<Snapshot>>] /\ current' = n
  BY DEF SetBookmark
<1>2. /\ live = 0..current /\ current = lastBookmark /\ current \in Nat
      /\ n = current + 1 /\ n \in Bookmark /\ 0..current \subseteq Bookmark /\ n \notin 0..current
  <2>1. live = First..lastBookmark /\ lastBookmark \in Bookmark /\ current = lastBookmark
    BY <1>1, LastIsLive DEF JournalInv, Structure
  <2> QED BY <1>1, <2>1, BookmarkFacts, SMT
<1>3. trail \in [Bookmark -> Seq(SnapshotSet)]
  BY DEF JournalInv, TypeOK
<1> HIDE DEF n
<1>4. trail'[n] = <<Snapshot>> /\ \A b \in 0..current : trail'[b] = trail[b]
  BY <1>1, <1>2, <1>3
<1>5. trail'[n][1].view = View
  BY <1>4 DEF Snapshot
<1> DEFINE before == [k \in 1..(current + 1) |-> trail[k - 1][1].view]
           after == [k \in 1..(n + 1) |-> trail'[k - 1][1].view]
<1>6. JournalPlan = View /\ JournalSaved = before /\ JournalSaved' = after /\ JournalPlan' = View'
  BY <1>1, MapIdle, MapPrime
<1>7. View' = View
  BY <1>1 DEF View, plan
<1>8. after = Append(before, View)
  <2>1. before = [k \in 1..n |-> trail[k - 1][1].view] /\ n \in Nat /\ n - 1 = current
    BY <1>2
  <2>2. \A k \in 1..n : before[k] = trail[k - 1][1].view
    BY <2>1
  <2>3. ASSUME NEW k \in 1..n
        PROVE  after[k] = before[k]
    <3>1. k - 1 \in 0..current /\ k \in 1..(n + 1)
      BY <1>2, <2>1
    <3> QED BY <1>4, <2>2, <3>1
  <2>4. after[n + 1] = View
    BY <1>5, <2>1, SavedAt
  <2> DEFINE T == {after[k] : k \in 1..(n + 1)}
  <2>5. \A k \in 1..n : k \in 1..(n + 1)
    BY <2>1
  <2>6. after \in [1..(n + 1) -> T] /\ View \in T
    <3>1. n + 1 \in 1..(n + 1)
      BY <2>1
    <3> QED BY <2>4, <3>1
  <2>7. before \in [1..n -> T]
    <3>1. \A k \in 1..n : before[k] \in T
      BY <2>3, <2>5
    <3> HIDE DEF after, T
    <3> QED BY <2>1, <3>1
  <2> HIDE DEF before, after, T
  <2> QED BY <2>1, <2>3, <2>4, <2>6, <2>7, AppendFunction
<1> QED BY <1>6, <1>7, <1>8 DEF Journal!SetSavepoint

(* The start of a rollback returns to the savepoint. *)
LEMMA RollbackBookmarkRefines ==
  ASSUME JournalInv, NEW b \in live, RollbackBookmark(b)
  PROVE  \E k \in 2..Len(JournalSaved) : Journal!RollbackTo(k)
<1>1. /\ pc = "idle" /\ pc' = "rollbackBookmark" /\ b # First /\ target' = b
      /\ trail' = trail
  BY DEF RollbackBookmark
<1>2. current \in Nat /\ b \in 1..current
  <2>1. live = First..lastBookmark /\ lastBookmark \in Bookmark /\ current = lastBookmark
    BY <1>1, LastIsLive DEF JournalInv, Structure
  <2> QED BY <1>1, <2>1, BookmarkFacts, SMT
<1> DEFINE before == [k \in 1..(current + 1) |-> trail[k - 1][1].view]
           after == [k \in 1..(b + 1) |-> trail[k - 1][1].view]
           T == {trail[k - 1][1].view : k \in 1..(current + 1)}
<1>3. /\ JournalPlan' = trail[b][1].view /\ JournalSaved = before /\ JournalSaved' = after
  BY <1>1, MapIdle, MapPrime
<1>4. b + 1 \in 2..(current + 1) /\ b + 1 - 1 = b /\ b + 1 \in 1..(current + 1) /\ current + 1 \in Nat
  BY <1>2
<1>5. before[b + 1] = trail[b][1].view
  BY <1>2, SavedAt
<1>6. before \in [1..(current + 1) -> T]
  OBVIOUS
<1>7. \A k \in 1..(b + 1) : k \in 1..(current + 1) /\ after[k] = before[k]
  <2>1. \A k \in 1..(b + 1) : k \in 1..(current + 1)
    BY <1>2
  <2> QED BY <2>1
<1>8. after \in [1..(b + 1) -> T]
  <2>1. \A k \in 1..(b + 1) : after[k] \in T
    BY <1>7
  <2> HIDE DEF T
  <2> QED BY <2>1
<1> HIDE DEF before, after, T
<1>9. SubSeq(before, 1, b + 1) = after /\ Len(before) = current + 1
  BY <1>4, <1>6, <1>7, <1>8, PrefixFunction
<1> QED BY <1>3, <1>4, <1>5, <1>9 DEF Journal!RollbackTo

(* The loop destroys the commands after the savepoint, but no first        *)
(* snapshot of a bookmark that stays; at its end nothing after the         *)
(* savepoint is left.                                                      *)
LEMMA LoopSnapshots ==
  ASSUME JournalInv, pc \in {"rollbackBookmark", "rollback"}
  PROVE  /\ cursor = lastBookmark /\ live = 0..cursor /\ cursor \in Nat
         /\ \A b \in 0..cursor : b \in live /\ b \in Bookmark
         /\ Len(trail[cursor]) = Len(commands[cursor]) + 1
         /\ trail[cursor] \in Seq(SnapshotSet) /\ Len(commands[cursor]) \in Nat
         /\ trail \in [Bookmark -> Seq(SnapshotSet)]
<1>1. cursor = lastBookmark /\ live = First..lastBookmark /\ lastBookmark \in Bookmark
  BY LastIsLive DEF JournalInv, Structure
<1>2. cursor \in live /\ live = 0..cursor /\ cursor \in Nat /\ live \subseteq Bookmark
  BY <1>1, BookmarkFacts, SMT
<1>3. Snapshots /\ TypeOK
  BY DEF JournalInv
<1> QED BY <1>1, <1>2, <1>3, TypeFacts DEF Snapshots, TypeOK

LEMMA DestroyLastRefines ==
  ASSUME JournalInv, pc \in {"rollbackBookmark", "rollback"}, DestroyLast
  PROVE  /\ \A b \in 0..cursor : trail'[b][1] = trail[b][1]
         /\ UNCHANGED <<pc, target, cursor>>
<1> DEFINE s == trail[cursor]
<1>1. /\ trail' = [trail EXCEPT ![cursor] = SubSeq(trail[cursor], 1, Len(trail[cursor]) - 1)]
      /\ commands[cursor] # <<>> /\ UNCHANGED <<pc, target, cursor>>
  BY DEF DestroyLast
<1>2. /\ cursor \in Nat /\ \A b \in 0..cursor : b \in Bookmark
      /\ Len(s) = Len(commands[cursor]) + 1 /\ s \in Seq(SnapshotSet)
      /\ Len(commands[cursor]) \in Nat /\ trail \in [Bookmark -> Seq(SnapshotSet)]
      /\ commands[cursor] \in Seq(Command) /\ cursor \in Bookmark
  BY LoopSnapshots, TypeFacts DEF JournalInv, TypeOK
<1>3. Len(commands[cursor]) > 0
  <2>1. Len(commands[cursor]) # 0
    BY <1>1, <1>2, EmptySeq
  <2> QED BY <1>2, <2>1
<1>4. s # <<>> /\ 1 \in 1..(Len(s) - 1)
  <2>1. Len(s) > 0 /\ 1 \in 1..(Len(s) - 1)
    BY <1>2, <1>3
  <2> QED BY <2>1, EmptySeq, SMT
<1>5. SubSeq(s, 1, Len(s) - 1)[1] = s[1]
  BY <1>2, <1>4, PopType
<1> HIDE DEF s
<1>6. trail'[cursor] = SubSeq(s, 1, Len(s) - 1) /\ \A b \in Bookmark \ {cursor} : trail'[b] = trail[b]
  BY <1>1, <1>2 DEF s
<1> QED BY <1>1, <1>2, <1>5, <1>6 DEF s

LEMMA RevertCommandRefines ==
  ASSUME JournalInv, RevertCommand
  PROVE  UNCHANGED <<JournalPlan, JournalSaved>>
<1>1. pc = "rollbackBookmark" /\ DestroyLast
  BY DEF RevertCommand
<1>2. /\ \A b \in 0..cursor : trail'[b][1] = trail[b][1]
      /\ pc' = pc /\ target' = target
  BY <1>1, DestroyLastRefines
<1>3. target \in live /\ live = 0..cursor /\ cursor \in Nat
  BY <1>1, LoopSnapshots DEF JournalInv, Structure
<1>4. target \in Nat /\ target \in 0..cursor /\ \A b \in 0..target : b \in 0..cursor
  BY <1>3
<1>5. \A b \in 0..target : trail'[b][1] = trail[b][1]
  BY <1>2, <1>4
<1>6. JournalPlan' = JournalPlan
  BY <1>1, <1>2, <1>4, MapRollbackBookmark, MapPrime
<1>7. JournalSaved' = JournalSaved
  BY <1>1, <1>2, <1>4, <1>5, MapRollbackBookmark, MapPrime, SameSaved
<1> QED BY <1>6, <1>7

LEMMA RemoveBookmarkRefines ==
  ASSUME JournalInv, RemoveBookmark
  PROVE  UNCHANGED <<JournalPlan, JournalSaved>>
<1>1. /\ pc = "rollbackBookmark" /\ pc' = pc /\ target' = target /\ cursor # target
      /\ trail' = [trail EXCEPT ![cursor] = <<>>]
  BY DEF RemoveBookmark
<1>2. target \in live /\ live = 0..cursor /\ cursor \in Nat
  BY <1>1, LoopSnapshots DEF JournalInv, Structure
<1>3. target \in Nat /\ target \in 0..target /\ \A b \in 0..target : b # cursor /\ b \in 0..cursor
  BY <1>1, <1>2
<1>4. \A b \in 0..target : trail'[b][1] = trail[b][1]
  BY <1>1, <1>3, LoopSnapshots
<1>5. JournalPlan' = JournalPlan
  BY <1>1, <1>3, <1>4, MapRollbackBookmark, MapPrime
<1>6. JournalSaved' = JournalSaved
  BY <1>1, <1>3, <1>4, MapRollbackBookmark, MapPrime, SameSaved
<1> QED BY <1>5, <1>6

LEMMA RollbackBookmarkDoneRefines ==
  ASSUME JournalInv, RollbackBookmarkDone
  PROVE  UNCHANGED <<JournalPlan, JournalSaved>>
<1>1. /\ pc = "rollbackBookmark" /\ pc' = "idle" /\ cursor = target /\ commands[cursor] = <<>>
      /\ UNCHANGED <<plan, current, trail>>
  BY DEF RollbackBookmarkDone, Stop, list
<1>2. current = target /\ View = Last(lastBookmark)
  BY <1>1 DEF JournalInv, Structure, Snapshots
<1>3. lastBookmark = target /\ Len(trail[target]) = 1
  <2>1. Len(commands[cursor]) = 0
    BY <1>1, EmptySeq
  <2> QED BY <1>1, <2>1, LoopSnapshots
<1>4. View = trail[target][1].view /\ View' = View
  BY <1>1, <1>2, <1>3 DEF Last, View, plan
<1> QED BY <1>1, <1>2, <1>4, MapRollbackBookmark, MapPrime

(* The same for the rollback of everything. *)

LEMMA RollbackRefines ==
  ASSUME JournalInv, Rollback
  PROVE  Journal!Rollback
<1>1. pc = "idle" /\ pc' = "rollback" /\ trail' = trail
  BY DEF Rollback
<1>2. current \in Nat
  BY BookmarkFacts, SMT DEF JournalInv, TypeOK
<1>3. /\ JournalSaved = [k \in 1..(current + 1) |-> trail[k - 1][1].view]
      /\ JournalPlan' = trail[0][1].view
      /\ JournalSaved' = [k \in 1..1 |-> trail[k - 1][1].view]
  BY <1>1, MapIdle, MapPrime, BookmarkFacts
<1>4. JournalSaved[1] = trail[0][1].view
  <2>1. 1 \in 1..(current + 1) /\ 1 - 1 = 0
    BY <1>2
  <2>2. JournalSaved[1] = trail[1 - 1][1].view
    BY <1>3, <2>1, Zenon
  <2> QED BY <2>1, <2>2, Zenon
<1>5. JournalSaved' = <<trail[0][1].view>>
  BY <1>3, SingleSaved
<1> QED BY <1>3, <1>4, <1>5 DEF Journal!Rollback

LEMMA RollbackLoopRefines ==
  ASSUME JournalInv, RollbackCommand \/ RollbackNext \/ RollbackDone
  PROVE  UNCHANGED <<JournalPlan, JournalSaved>>
<1>1. pc = "rollback" /\ cursor \in Nat /\ \A b \in 0..cursor : b \in Bookmark
  BY LoopSnapshots DEF RollbackCommand, RollbackNext, RollbackDone
<1>2. trail \in [Bookmark -> Seq(SnapshotSet)] /\ 0 \in 0..0 /\ 0 \in Nat /\ 0 + 1 = 1
  BY <1>1, LoopSnapshots
<1>3. ASSUME pc' = "rollback", trail'[0][1] = trail[0][1]
      PROVE  UNCHANGED <<JournalPlan, JournalSaved>>
  <2>1. \A b \in 0..0 : trail'[b][1] = trail[b][1]
    BY <1>3
  <2>2. [k \in 1..(0 + 1) |-> trail'[k - 1][1].view] = [k \in 1..(0 + 1) |-> trail[k - 1][1].view]
    BY <1>2, <2>1, SameSaved
  <2>3. [k \in 1..1 |-> trail'[k - 1][1].view] = [k \in 1..1 |-> trail[k - 1][1].view]
    BY <1>2, <2>2
  <2> QED BY <1>1, <1>3, <2>3, MapRollback, MapPrime, BookmarkFacts
<1>4. CASE RollbackCommand
  <2>1. 0 \in 0..cursor /\ DestroyLast
    BY <1>1, <1>4 DEF RollbackCommand
  <2> QED BY <1>1, <1>3, <2>1, DestroyLastRefines
<1>5. CASE RollbackNext
  <2>1. /\ pc' = "rollback" /\ cursor # 0 /\ trail' = [trail EXCEPT ![cursor] = <<>>]
    BY <1>1, <1>5, BookmarkFacts DEF RollbackNext
  <2>2. trail'[0] = trail[0]
    BY <1>2, <2>1, BookmarkFacts
  <2> QED BY <1>3, <2>1, <2>2
<1>6. CASE RollbackDone
  <2>1. /\ pc' = "idle" /\ cursor = 0 /\ current' = 0 /\ commands[0] = <<>>
        /\ UNCHANGED <<plan, trail>>
    BY <1>6, BookmarkFacts DEF RollbackDone, Stop
  <2>2. lastBookmark = 0 /\ Len(trail[0]) = 1
    <3>1. Len(commands[0]) = 0
      BY <2>1, EmptySeq
    <3> QED BY <1>1, <2>1, <3>1, LoopSnapshots
  <2>3. View = trail[0][1].view /\ View' = View
    BY <1>1, <2>1, <2>2 DEF JournalInv, Snapshots, Last, View, plan
  <2>4. JournalSaved' = [k \in 1..1 |-> trail[k - 1][1].view]
    BY <1>2, <2>1, MapPrime
  <2> QED BY <1>1, <2>1, <2>3, <2>4, MapRollback, MapPrime, BookmarkFacts
<1> QED BY <1>4, <1>5, <1>6

(* A commit counts when it ends. *)

LEMMA CommitStartRefines ==
  ASSUME JournalInv, Commit
  PROVE  UNCHANGED <<JournalPlan, JournalSaved>>
<1>1. pc = "idle" /\ pc' = "commit" /\ UNCHANGED <<trail, current>>
  BY DEF Commit, list
<1>2. View = trail[current][Len(trail[current])].view
  BY <1>1 DEF JournalInv, Structure, Snapshots, Last
<1> QED BY <1>1, <1>2, MapIdle, MapPrime

LEMMA CommitLoopRefines ==
  ASSUME CommitCommand \/ CommitNext
  PROVE  UNCHANGED <<JournalPlan, JournalSaved>>
<1>1. pc = "commit" /\ pc' = "commit" /\ UNCHANGED <<trail, current>>
  BY DEF CommitCommand, CommitNext, list
<1> QED BY <1>1, MapCommit, MapPrime

LEMMA CommitDoneRefines ==
  ASSUME PendingInv, PendingInv', CommitDone
  PROVE  Journal!Commit
<1>1. /\ pc = "commit" /\ pc' = "idle" /\ current' = 0 /\ UNCHANGED plan
      /\ trail' = [b \in Bookmark |-> IF b = First THEN <<Snapshot>> ELSE <<>>]
      /\ live' = {First} /\ commands' = commands
  BY BookmarkFacts DEF CommitDone, Stop
<1>2. View' = View
  BY <1>1 DEF View, plan
<1>3. trail'[0][1].view = View
  <2>1. trail'[0] = <<Snapshot>>
    BY <1>1, BookmarkFacts
  <2> QED BY <2>1 DEF Snapshot
<1>4. JournalSaved' = <<View>>
  <2>1. JournalSaved' = [k \in 1..(0 + 1) |-> trail'[k - 1][1].view] /\ 0 + 1 = 1
    BY <1>1, MapPrime
  <2>2. JournalSaved' = [k \in 1..1 |-> trail'[k - 1][1].view]
    BY <2>1, Zenon
  <2> QED BY <1>3, <2>2, SingleSaved
<1>5. /\ Settling /\ View \in Journal!Plan
  BY <1>1, ViewType DEF PendingInv, JournalInv
<1>6. Pending("delete") = {}
  <2>1. Pending("delete") \subseteq Pending("delete")' \cup {}
    <3>1. /\ cursor # First => commands[First] = <<>>
          /\ \E n \in Bookmark : cursor <= n /\ live = {First} \cup cursor..n
          /\ cursor \in Bookmark /\ First \in live
      BY <1>1, TypeFacts DEF PendingInv, JournalInv, Structure, TypeOK
    <3>2. commands[cursor] = <<>> /\ Following(cursor) = {}
      BY DEF CommitDone
    <3>3. \A b \in live : ~(b > cursor)
      BY <3>2 DEF Following
    <3>4. \A b \in live : b = First \/ (b \in Int /\ b >= cursor)
      BY <3>1, BookmarkFacts, SMT
    <3>5. cursor \in Int
      BY <3>1, BookmarkFacts, SMT
    <3>6. \A b \in live : b = First \/ b = cursor
      BY <3>3, <3>4, <3>5
    <3>7. \A b \in live : DOMAIN commands[b] = {}
      BY <3>1, <3>2, <3>6
    <3> QED BY <3>7 DEF Pending
  <2>2. commands'[First] = <<>>
    BY <1>1 DEF PendingInv, JournalInv, Structure, CommitDone
  <2>3. Pending("delete")' = {}
    BY <1>1, <2>2 DEF Pending
  <2> QED BY <2>1, <2>3
<1>7. JournalPlan = trail[current][Len(trail[current])].view
  BY <1>1, MapCommit
<1>8. View \in Journal!Settled(JournalPlan)
  BY <1>5, <1>6, <1>7 DEF Settling, Journal!Settled
<1>9. JournalPlan' = View
  BY <1>1, <1>2, MapPrime
<1> QED BY <1>4, <1>8, <1>9 DEF Journal!Commit

LEMMA NextRefines ==
  PendingInv /\ PendingInv' /\ [Next]_vars => [Journal!Next]_(Journal!vars)
<1> SUFFICES ASSUME PendingInv, PendingInv', [Next]_vars
             PROVE  Journal!Next \/ UNCHANGED <<JournalPlan, JournalSaved>>
  BY DEF Journal!vars
<1>1. JournalInv /\ JournalInv'
  BY DEF PendingInv
<1>2. CASE UNCHANGED vars
  BY <1>2 DEF vars, plan, list, JournalPlan, JournalSaved, SavedTrail, View
<1>3. ASSUME NEW b \in live, RollbackBookmark(b) PROVE Journal!Next
  BY <1>1, <1>3, RollbackBookmarkRefines DEF Journal!Next
<1>4. CASE Decide
  BY <1>1, <1>4, DecideRefines DEF Journal!Next
<1>5. CASE SetBookmark
  BY <1>1, <1>5, SetBookmarkRefines DEF Journal!Next
<1>6. CASE Rollback
  BY <1>1, <1>6, RollbackRefines DEF Journal!Next
<1>7. CASE CommitDone
  BY <1>7, CommitDoneRefines DEF Journal!Next
<1> QED
  BY <1>1, <1>2, <1>3, <1>4, <1>5, <1>6, <1>7, RevertCommandRefines, RemoveBookmarkRefines,
     RollbackBookmarkDoneRefines, RollbackLoopRefines, CommitStartRefines, CommitLoopRefines
  DEF Next

(* The journal implements a plan with nested savepoints: whatever the      *)
(* solver decides, however its searches are nested and whichever of them   *)
(* is given up, a rollback returns to the plan of the savepoint and keeps  *)
(* the outer ones, and a commit changes the plan only by consolidating.    *)
THEOREM JournalImplementsPlanJournal == Spec => ImplementsJournal
<1>1. Init => Journal!Init
  BY InitRefines
<1>2. PendingInv /\ PendingInv' /\ [Next]_vars => [Journal!Next]_(Journal!vars)
  BY NextRefines
<1>3. Spec => []PendingInv
  BY PendingCorrect
<1> QED BY <1>1, <1>2, <1>3, PTL DEF Spec, ImplementsJournal, Journal!Spec
================================================================================

----------------------------- MODULE CommandManager -----------------------------
(***************************************************************************)
(* The journal in which a solver keeps its decisions: class CommandManager *)
(* and its Bookmarks (include/frepple/utils.h, src/utils/actions.cpp) with *)
(* the three commands that create, delete and move an operationplan        *)
(* (include/frepple/model.h, src/model/actions.cpp).  A command changes    *)
(* the plan when it is constructed, makes the change permanent in commit() *)
(* and reverts it in its destructor.                                       *)
(*                                                                         *)
(* Bookmarks are numbered so that the order of the numbers is the order of *)
(* the list: a new one is appended, so it gets the number after the last;  *)
(* a number (an address) is used again once its bookmark is gone.  The     *)
(* loops of commit() and rollback() take one step per command.  The        *)
(* operations undoBookmark() and redoBookmark(), which nothing in the      *)
(* repository calls, are left out: without them every bookmark is active,  *)
(* and Chained shows that every bookmark a rollback meets descends from    *)
(* its argument.                                                           *)
(*                                                                         *)
(* Of an operationplan the model keeps whether its memory is allocated,    *)
(* whether its flowplans and loadplans exist, whether it is in the list of *)
(* its operation, whether it has an identifier, whether it is registered   *)
(* as delivery of its demand, and a quantity that stands for all that a    *)
(* move changes.  All operationplans belong to one operation and, when     *)
(* they are deliveries, to one demand.                                     *)
(***************************************************************************)
EXTENDS Integers, Sequences, FiniteSetsExt

CONSTANTS
  OperationPlan,   (* identities (addresses) of the operationplans         *)
  SizeMaximum,     (* the operation's size_maximum                         *)
  Consolidate,     (* the operation is of fixed time and loads no resource *)
                   (* of type default: activation may merge operationplans *)
  MaxBookmarks,    (* bound: bookmarks besides the default one             *)
  MaxCommands      (* bound: commands in the journal                       *)

ASSUME SizeAssumption == SizeMaximum \in Nat \ {0}
ASSUME SwitchAssumption == Consolidate \in BOOLEAN
ASSUME BoundAssumption == {MaxBookmarks, MaxCommands} \subseteq Nat

First == 0                               \* firstBookmark
Bookmark == First..MaxBookmarks
Quantity == 1..SizeMaximum
Plan == [OperationPlan -> {0} \cup Quantity]
Command == [kind : {"create", "delete", "move"}, opplan : OperationPlan,
            originalqty : {0} \cup Quantity]

SnapshotSet == [view : Plan, delivery : SUBSET OperationPlan]

VARIABLES
  allocated,       (* operationplans whose object exists                   *)
  flowloads,       (* those with their flowplans and loadplans             *)
  listed,          (* those in the list of their operation                 *)
  identified,      (* those with an identifier: activated ones             *)
  delivery,        (* those linked with the demand they deliver            *)
  quantity,        (* their quantity                                       *)
  live,            (* the bookmarks in the list                            *)
  parent,          (* the parent pointer of each bookmark                  *)
  active,          (* bookmarks whose commands are not undone              *)
  commands,        (* the command list of each bookmark                    *)
  current,         (* currentBookmark                                      *)
  pc,              (* the loop the manager is in                           *)
  cursor,          (* the bookmark this loop is at                         *)
  target,          (* the argument of the loop                             *)
  trail            (* history: a snapshot of the plan when each bookmark  *)
                   (* was set, and after each of its commands              *)

plan == <<allocated, flowloads, listed, identified, delivery, quantity>>
list == <<live, parent, active, current>>
vars == <<plan, list, commands, pc, cursor, target, trail>>

lastBookmark == Max(live)
Previous(b) == Max({a \in live : a < b})
Following(b) == {a \in live : a > b}

(* Bookmark::isChildOf(): following the parent pointers from i leads to b, *)
(* so b is in every set that holds i and the parents of its members.       *)
IsChildOf(i, b) ==
  \A S \in SUBSET live :
    i \in S /\ (\A p \in S \ {First} : parent[p] \in S) => b \in S

(* What the plan consists of for the rest of the model: an operationplan   *)
(* counts with its flowplans and loadplans.                                *)
View == [x \in OperationPlan |-> IF x \in flowloads THEN quantity[x] ELSE 0]

Snapshot == [view |-> View, delivery |-> delivery]

Init ==
  /\ allocated \in SUBSET OperationPlan
  /\ flowloads = allocated
  /\ listed = allocated
  /\ identified = allocated
  /\ delivery \in SUBSET allocated
  /\ quantity \in Plan
  /\ \A x \in OperationPlan : quantity[x] = 0 <=> x \notin allocated
  /\ live = {First}
  /\ parent = [b \in Bookmark |-> First]
  /\ active = Bookmark
  /\ commands = [b \in Bookmark |-> <<>>]
  /\ current = First
  /\ pc = "idle"
  /\ cursor = First
  /\ target = First
  /\ trail = [b \in Bookmark |-> IF b = First THEN <<Snapshot>> ELSE <<>>]

-----------------------------------------------------------------------------
(* The solver takes a decision: it constructs a command and add()s it to   *)
(* the current bookmark.                                                   *)

Log(kind, x, original) ==
  /\ pc = "idle"
  /\ MapThenSumSet(LAMBDA b : Len(commands[b]), Bookmark) < MaxCommands
  /\ commands' = [commands EXCEPT ![current] =
                    Append(@, [kind |-> kind, opplan |-> x, originalqty |-> original])]
  /\ trail' = [trail EXCEPT ![current] = Append(@, Snapshot')]
  /\ UNCHANGED <<list, pc, cursor, target>>

CreateOperationPlan(x, q, isDelivery) ==
  /\ x \notin allocated
  /\ allocated' = allocated \cup {x}
  /\ flowloads' = flowloads \cup {x}
  /\ delivery' = IF isDelivery THEN delivery \cup {x} ELSE delivery
  /\ quantity' = [quantity EXCEPT ![x] = q]
  /\ UNCHANGED <<listed, identified>>
  /\ Log("create", x, 0)

(* Redo() of the new command takes the operationplan out of the plan; its  *)
(* memory stays.  The solver finds it through a flowplan or a delivery; it *)
(* may be a draft that was created in the same journal.                    *)
DeleteOperationPlan(x) ==
  /\ x \in flowloads
  /\ flowloads' = flowloads \ {x}
  /\ listed' = listed \ {x}
  /\ delivery' = delivery \ {x}
  /\ UNCHANGED <<allocated, identified, quantity>>
  /\ Log("delete", x, 0)

MoveOperationPlan(x, q) ==
  /\ x \in flowloads
  /\ quantity' = [quantity EXCEPT ![x] = q]
  /\ UNCHANGED <<allocated, flowloads, listed, identified, delivery>>
  /\ Log("move", x, quantity[x])

SetBookmark ==
  /\ pc = "idle"
  /\ lastBookmark < MaxBookmarks
  /\ LET n == lastBookmark + 1
     IN  /\ live' = live \cup {n}
         /\ parent' = [parent EXCEPT ![n] = current]
         /\ active' = active \cup {n}
         /\ commands' = [commands EXCEPT ![n] = <<>>]
         /\ trail' = [trail EXCEPT ![n] = <<Snapshot>>]
         /\ current' = n
  /\ UNCHANGED <<plan, pc, cursor, target>>

-----------------------------------------------------------------------------
(* What the commands do to an operationplan when they are destroyed before *)
(* they are committed, ...                                                 *)

Free(x) ==
  /\ allocated' = allocated \ {x}
  /\ flowloads' = flowloads \ {x}
  /\ listed' = listed \ {x}
  /\ identified' = identified \ {x}
  /\ delivery' = delivery \ {x}
  /\ quantity' = [quantity EXCEPT ![x] = 0]

(* Variant: the operationplan is not put back in the list of its operation. *)
ReinstateUnlisted(x) ==
  /\ flowloads' = flowloads \cup {x}
  /\ UNCHANGED <<allocated, listed, identified, delivery, quantity>>

(* CommandDeleteOperationPlan::undo().  The operationplan is registered    *)
(* with its demand only if it still points to it.                          *)
Reinstate(x) ==
  /\ flowloads' = flowloads \cup {x}
  /\ listed' = listed \cup {x}
  /\ UNCHANGED <<allocated, identified, delivery, quantity>>

Revert(c) ==
  \/ c.kind = "create" /\ Free(c.opplan)
  \/ c.kind = "delete" /\ Reinstate(c.opplan)
  \/ /\ c.kind = "move"
     /\ quantity' = [quantity EXCEPT ![c.opplan] = c.originalqty]
     /\ UNCHANGED <<allocated, flowloads, listed, identified, delivery>>

(* ... and when they are committed.  OperationPlan::activate() gives a new *)
(* operationplan its identifier, or merges it into an active one.          *)
Activate(x) ==
  /\ identified' = identified \cup {x}
  /\ listed' = listed \cup {x}
  /\ flowloads' = flowloads \cup {x}
  /\ UNCHANGED <<allocated, delivery, quantity>>

(* Variant: size_maximum is not looked at.                                 *)
MergeIntoUnbounded(x, y) ==
  /\ Consolidate
  /\ y # x /\ y \in listed \cap identified
  /\ y \in delivery <=> x \in delivery
  /\ quantity' = [quantity EXCEPT ![y] = @ + quantity[x], ![x] = 0]
  /\ allocated' = allocated \ {x}
  /\ flowloads' = flowloads \ {x}
  /\ listed' = listed \ {x}
  /\ identified' = identified \ {x}
  /\ delivery' = delivery \ {x}

(* Variant: the new operationplan is dropped, its quantity too.            *)
MergeIntoLost(x, y) ==
  /\ Consolidate
  /\ y # x /\ y \in listed \cap identified
  /\ y \in delivery <=> x \in delivery
  /\ quantity[x] + quantity[y] < SizeMaximum
  /\ Free(x)

MergeInto(x, y) ==
  /\ Consolidate
  /\ y # x /\ y \in listed \cap identified
  /\ y \in delivery <=> x \in delivery
  /\ quantity[x] + quantity[y] < SizeMaximum
  /\ quantity' = [quantity EXCEPT ![y] = @ + quantity[x], ![x] = 0]
  /\ allocated' = allocated \ {x}
  /\ flowloads' = flowloads \ {x}
  /\ listed' = listed \ {x}
  /\ identified' = identified \ {x}
  /\ delivery' = delivery \ {x}

(* Once a draft with a pending deletion was merged, the deletion frees its *)
(* memory a second time.  What comes of that is undefined; here the second *)
(* time changes nothing.                                                   *)
Settle(c) ==
  \/ c.kind = "create" /\ Activate(c.opplan)
  \/ c.kind = "create" /\ \E y \in OperationPlan : MergeInto(c.opplan, y)
  \/ c.kind = "delete" /\ Free(c.opplan)
  \/ c.kind = "move" /\ UNCHANGED plan

-----------------------------------------------------------------------------
(* One step of a loop: the last command of the bookmark at the cursor is   *)
(* destroyed, or its first one committed.                                  *)

(* Variant: the commands are reverted in the order in which they were made. *)
DestroyFirst ==
  /\ commands[cursor] # <<>>
  /\ Revert(Head(commands[cursor]))
  /\ commands' = [commands EXCEPT ![cursor] = Tail(@)]
  /\ trail' = [trail EXCEPT ![cursor] = SubSeq(@, 1, Len(@) - 1)]
  /\ UNCHANGED <<list, pc, cursor, target>>

DestroyLast ==
  /\ commands[cursor] # <<>>
  /\ Revert(commands[cursor][Len(commands[cursor])])
  /\ commands' = [commands EXCEPT ![cursor] = SubSeq(@, 1, Len(@) - 1)]
  /\ trail' = [trail EXCEPT ![cursor] = SubSeq(@, 1, Len(@) - 1)]
  /\ UNCHANGED <<list, pc, cursor, target>>

Stop == pc' = "idle" /\ cursor' = First /\ target' = First

Remove(b) ==
  /\ live' = live \ {b}
  /\ parent' = [parent EXCEPT ![b] = First]
  /\ UNCHANGED active

(* CommandManager::rollback(b): the bookmarks after b that descend from it *)
(* are emptied and removed from the last to the first; b itself is emptied *)
(* and stays.                                                              *)
RollbackBookmark(b) ==
  /\ pc = "idle"
  /\ b \in live \ {First}
  /\ pc' = "rollbackBookmark"
  /\ target' = b
  /\ cursor' = lastBookmark
  /\ UNCHANGED <<plan, list, commands, trail>>

RevertCommand ==
  /\ pc = "rollbackBookmark"
  /\ IsChildOf(cursor, target)
  /\ DestroyLast

(* Variant: currentBookmark may be left at a bookmark that is gone.        *)
RemoveBookmarkKeepsCurrent ==
  /\ pc = "rollbackBookmark"
  /\ cursor # target
  /\ IsChildOf(cursor, target)
  /\ commands[cursor] = <<>>
  /\ Remove(cursor)
  /\ cursor' = Previous(cursor)
  /\ trail' = [trail EXCEPT ![cursor] = <<>>]
  /\ UNCHANGED <<plan, current, commands, pc, target>>

RemoveBookmark ==
  /\ pc = "rollbackBookmark"
  /\ cursor # target
  /\ IsChildOf(cursor, target)
  /\ commands[cursor] = <<>>
  /\ Remove(cursor)
  /\ current' = IF current = cursor THEN target ELSE current
  /\ cursor' = Previous(cursor)
  /\ trail' = [trail EXCEPT ![cursor] = <<>>]
  /\ UNCHANGED <<plan, commands, pc, target>>

(* Variant: only the later bookmarks are emptied.                          *)
RollbackBookmarkDoneEarly ==
  /\ pc = "rollbackBookmark"
  /\ cursor = target
  /\ Stop
  /\ UNCHANGED <<plan, list, commands, trail>>

RollbackBookmarkDone ==
  /\ pc = "rollbackBookmark"
  /\ cursor = target
  /\ commands[cursor] = <<>>
  /\ Stop
  /\ UNCHANGED <<plan, list, commands, trail>>

(* CommandManager::rollback(): everything, from the last bookmark to the   *)
(* first, which stays.                                                     *)
Rollback ==
  /\ pc = "idle"
  /\ pc' = "rollback"
  /\ cursor' = lastBookmark
  /\ UNCHANGED <<plan, list, commands, target, trail>>

RollbackCommand == pc = "rollback" /\ DestroyLast

RollbackNext ==
  /\ pc = "rollback"
  /\ commands[cursor] = <<>>
  /\ cursor # First
  /\ Remove(cursor)
  /\ cursor' = Previous(cursor)
  /\ trail' = [trail EXCEPT ![cursor] = <<>>]
  /\ UNCHANGED <<plan, current, commands, pc, target>>

RollbackDone ==
  /\ pc = "rollback"
  /\ commands[cursor] = <<>>
  /\ cursor = First
  /\ current' = First
  /\ Stop
  /\ UNCHANGED <<plan, live, parent, active, commands, trail>>

(* CommandManager::commit(): the commands of the active bookmarks, from    *)
(* the first to the last; the list then holds the default bookmark alone.  *)
Commit ==
  /\ pc = "idle"
  /\ pc' = "commit"
  /\ cursor' = First
  /\ UNCHANGED <<plan, list, commands, target, trail>>

CommitCommand ==
  /\ pc = "commit"
  /\ cursor \in active
  /\ commands[cursor] # <<>>
  /\ Settle(Head(commands[cursor]))
  /\ commands' = [commands EXCEPT ![cursor] = Tail(@)]
  /\ UNCHANGED <<list, pc, cursor, target, trail>>

CommitNext ==
  /\ pc = "commit"
  /\ commands[cursor] = <<>>
  /\ Following(cursor) # {}
  /\ IF cursor = First THEN UNCHANGED <<live, parent, active>> ELSE Remove(cursor)
  /\ cursor' = Min(Following(cursor))
  /\ UNCHANGED <<plan, current, commands, pc, target, trail>>

CommitDone ==
  /\ pc = "commit"
  /\ commands[cursor] = <<>>
  /\ Following(cursor) = {}
  /\ live' = {First}
  /\ parent' = [parent EXCEPT ![cursor] = First]
  /\ current' = First
  /\ trail' = [b \in Bookmark |-> IF b = First THEN <<Snapshot>> ELSE <<>>]
  /\ Stop
  /\ UNCHANGED <<plan, active, commands>>

-----------------------------------------------------------------------------
Decide == \E x \in OperationPlan :
  \/ \E q \in Quantity, isDelivery \in BOOLEAN : CreateOperationPlan(x, q, isDelivery)
  \/ DeleteOperationPlan(x)
  \/ \E q \in Quantity : MoveOperationPlan(x, q)

Next ==
  \/ Decide \/ SetBookmark
  \/ (\E b \in live : RollbackBookmark(b))
  \/ RevertCommand \/ RemoveBookmark \/ RollbackBookmarkDone
  \/ Rollback \/ RollbackCommand \/ RollbackNext \/ RollbackDone
  \/ Commit \/ CommitCommand \/ CommitNext \/ CommitDone

Spec == Init /\ [][Next]_vars

-----------------------------------------------------------------------------
TypeOK ==
  /\ {allocated, flowloads, listed, identified, delivery} \subseteq SUBSET OperationPlan
  /\ quantity \in Plan
  /\ live \in SUBSET Bookmark /\ First \in live
  /\ parent \in [Bookmark -> Bookmark]
  /\ active \in SUBSET Bookmark
  /\ commands \in [Bookmark -> Seq(Command)]
  /\ current \in Bookmark
  /\ pc \in {"idle", "rollbackBookmark", "rollback", "commit"}
  /\ cursor \in live /\ target \in Bookmark
  /\ trail \in [Bookmark -> Seq(SnapshotSet)]

(* As long as nobody uses undoBookmark() the bookmarks form a chain, whose *)
(* last one receives the commands: rollback(b) then really undoes all that *)
(* was decided after b was set, and a nested search of the solver cannot   *)
(* log a decision under a bookmark its caller does not undo.               *)
Chained ==
  /\ pc # "commit" => live = First..lastBookmark
  /\ \A b \in live \ {First} : parent[b] = b - 1
  /\ pc = "idle" => current = lastBookmark
  /\ pc # "commit" => \A a, b \in live : a <= b => IsChildOf(b, a)

(* Between two operations the plan is the one of the last decision that    *)
(* was not reverted: rollback(b) has restored what it was when b was set,  *)
(* the quantities that moves overwrote included.                           *)
RevertIsExact ==
  pc = "idle" => View = trail[current][Len(trail[current])].view

(* "rollback(): Reverts the change permanently" - the deliveries of the    *)
(* demand too.                                                             *)
RevertRestoresDelivery ==
  pc = "idle" => delivery = trail[current][Len(trail[current])].delivery

(* "Until the command is committed we don't deallocate the memory for the  *)
(* operationplan": no command that is still to be committed or reverted    *)
(* refers to an object that is gone.  This is so where activation merges   *)
(* no operationplans; where it does, a draft that was deleted may be       *)
(* merged, and is freed before its delete command is committed.            *)
DeletedStaysAllocated ==
  \A b \in live : \A i \in DOMAIN commands[b] :
    commands[b][i].kind = "delete" => commands[b][i].opplan \in allocated

(* An empty journal leaves no trace: no draft without an identifier, no    *)
(* object without flowplans, none outside the list of its operation.       *)
NothingPending ==
  pc = "idle" /\ current = First /\ commands[First] = <<>> =>
    /\ flowloads = allocated
    /\ listed = allocated
    /\ identified = allocated

(* commit() neither adds to the plan nor takes from it: consolidating      *)
(* operationplans moves a quantity, and what was deleted stays deleted;    *)
(* but for a draft that was deleted, whose quantity consolidation may      *)
(* bring back.                                                             *)
Total(v) == FoldSet(LAMBDA x, sum : sum + v[x], 0, OperationPlan)

Decided == trail[current][Len(trail[current])].view

DraftDeleted ==
  \E x \in OperationPlan :
    /\ trail[First][1].view[x] = 0 /\ Decided[x] = 0
    /\ \E b \in First..current : \E i \in DOMAIN trail[b] : trail[b][i].view[x] # 0

CommitKeepsTotal ==
  [][pc = "commit" /\ pc' = "idle" /\ ~(Consolidate /\ DraftDeleted) =>
       Total(View) = Total(Decided)]_vars

(* The inductive invariant behind TypeOK, Chained and RevertIsExact.  The  *)
(* bookmarks in the list are consecutive, and the loops are at an end of   *)
(* it; ...                                                                 *)
Chain ==
  /\ \E n \in Bookmark : live = First..n
  /\ \A a, b \in live : a <= b => IsChildOf(b, a)

Structure ==
  /\ active = Bookmark
  /\ \A b \in live \ {First} : parent[b] = b - 1
  /\ pc # "commit" => Chain
  /\ pc = "idle" => current = lastBookmark
  /\ pc = "rollbackBookmark" =>
       cursor = lastBookmark /\ target \in live \ {First} /\ current \in {cursor, target}
  /\ pc = "rollback" => cursor = lastBookmark
  /\ pc = "commit" =>
       /\ \E n \in Bookmark : cursor <= n /\ live = {First} \cup cursor..n
       /\ cursor # First => commands[First] = <<>>

(* ... an operationplan whose creation is pending has one create command,  *)
(* which precedes its delete commands, and its object exists; ...          *)
IsCommand(b, i, kind, x) == commands[b][i].kind = kind /\ commands[b][i].opplan = x

Precedes(a, i, b, j) == a < b \/ (a = b /\ i < j)

Objects ==
  /\ flowloads \cup listed \subseteq allocated
  /\ \A x \in OperationPlan : x \in allocated <=> quantity[x] # 0
  /\ \A x \in OperationPlan, a \in live : \A i \in DOMAIN commands[a] :
       IsCommand(a, i, "create", x) =>
         /\ x \in allocated
         /\ \A b \in live : \A j \in DOMAIN commands[b] :
              /\ IsCommand(b, j, "create", x) => b = a /\ j = i
              /\ IsCommand(b, j, "delete", x) => Precedes(a, i, b, j)

(* ... and, unless a commit is under way, each snapshot differs from the   *)
(* one before it by what the command between them reverts, the last one    *)
(* shows the plan, and a pending deletion is the only one of its           *)
(* operationplan, whose object exists.                                     *)
Last(b) == trail[b][Len(trail[b])].view

Reverts(c, v, w) ==
  /\ \A y \in OperationPlan \ {c.opplan} : v[y] = w[y]
  /\ c.kind = "create" => v[c.opplan] = 0 /\ w[c.opplan] # 0
  /\ c.kind = "move" => v[c.opplan] = c.originalqty /\ c.originalqty # 0 /\ w[c.opplan] # 0
  /\ c.kind = "delete" => v[c.opplan] = quantity[c.opplan] /\ w[c.opplan] = 0

Snapshots ==
  /\ \A b \in live : Len(trail[b]) = Len(commands[b]) + 1
  /\ \A b \in live \ {First} : Last(b - 1) = trail[b][1].view
  /\ View = Last(lastBookmark)
  /\ \A b \in live : \A i \in DOMAIN commands[b] :
       Reverts(commands[b][i], trail[b][i].view, trail[b][i + 1].view)

Deletions ==
  \A x \in OperationPlan, a \in live : \A i \in DOMAIN commands[a] :
    IsCommand(a, i, "delete", x) =>
      /\ x \in allocated \ flowloads
      /\ \A b \in live : \A j \in DOMAIN commands[b] :
           IsCommand(b, j, "delete", x) => b = a /\ j = i

JournalInv ==
  /\ TypeOK
  /\ Structure
  /\ Objects
  /\ pc # "commit" => Snapshots /\ Deletions

(* The inductive invariant behind NothingPending, DeletedStaysAllocated    *)
(* and ImplementsJournal.  An operationplan that is in part in the plan    *)
(* (without flowplans, without an identifier, outside the list of its      *)
(* operation) has a command in the journal that accounts for it, a draft   *)
(* has no identifier, ...                                                  *)
Pending(kind) ==
  {x \in OperationPlan : \E b \in live : \E i \in DOMAIN commands[b] : IsCommand(b, i, kind, x)}

Leftovers ==
  /\ identified \subseteq allocated
  /\ allocated \ flowloads \subseteq Pending("delete")
  /\ allocated \ identified \subseteq Pending("create")
  /\ allocated \ listed \subseteq Pending("create") \cup Pending("delete")
  /\ Pending("create") \cap identified = {}

(* ... an operationplan is deleted once, and exists until its deletion is  *)
(* settled, unless it was merged, ...                                      *)
DeletedOnce ==
  \A x \in OperationPlan, a, b \in live :
    \A i \in DOMAIN commands[a], j \in DOMAIN commands[b] :
      IsCommand(a, i, "delete", x) /\ IsCommand(b, j, "delete", x) => b = a /\ j = i

DeletedExist == Pending("delete") \subseteq allocated

(* ... and while a commit is under way the plan differs from the one at    *)
(* its start only by what consolidation has moved, apart from the          *)
(* operationplans whose deletion is still pending.                         *)
Settling ==
  LET start == trail[current][Len(trail[current])].view
  IN  /\ start \in Plan
      /\ \A x \in Pending("delete") : start[x] = 0
      /\ \A x \in OperationPlan \ Pending("delete") :
           View[x] = start[x] \/ (Consolidate /\ (View[x] = 0 \/ View[x] > start[x]))

PendingInv ==
  /\ JournalInv
  /\ Leftovers
  /\ DeletedOnce
  /\ ~Consolidate => DeletedExist
  /\ pc = "commit" => Settling

(* The journal is what the solver expects of it: a loop counts as done     *)
(* when a rollback starts and when a commit ends.                          *)
SavedTrail(n) == [k \in 1..n |-> trail[k - 1][1].view]

JournalPlan ==
  CASE pc = "rollbackBookmark" -> trail[target][1].view
    [] pc = "rollback" -> trail[First][1].view
    [] pc = "commit" -> trail[current][Len(trail[current])].view
    [] OTHER -> View

JournalSaved ==
  CASE pc = "rollbackBookmark" -> SavedTrail(target + 1)
    [] pc = "rollback" -> SavedTrail(1)
    [] OTHER -> SavedTrail(current + 1)

Journal == INSTANCE PlanJournal WITH plan <- JournalPlan, saved <- JournalSaved

ImplementsJournal == Journal!Spec
=============================================================================

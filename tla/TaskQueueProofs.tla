---------------------------- MODULE TaskQueueProofs ----------------------------
(***************************************************************************)
(* Proofs about the queue of tasks, for any number of tasks, cancellations *)
(* and deaths of workers and for tasks of any kinds.                       *)
(*                                                                         *)
(* The inductive invariant is CopiesInv.  For each action A there are two  *)
(* lemmas: AType, that it keeps the types (a worker that has a task in     *)
(* hand writes a row of a task, so the parts about the copies are needed   *)
(* there too), and AStep, that it keeps the invariant, one step for each   *)
(* of its parts.                                                           *)
(***************************************************************************)
EXTENDS TaskQueue, TLAPS

-----------------------------------------------------------------------------
(* The types: the rows and copies that the actions make, then each action. *)

LEMMA RowTypes ==
  /\ NoRow \in Row
  /\ [NoRow EXCEPT !.status = "Waiting"] \in Row
  /\ \A r \in Row :
       /\ Running(r) \in Row /\ Ended(r, "Done") \in Row /\ Ended(r, "Failed") \in Row
       /\ [r EXCEPT !.status = "%"] \in Row /\ [r EXCEPT !.status = "Canceled"] \in Row
  /\ [status |-> "Done", started |-> TRUE, finished |-> TRUE] \in Row
  /\ [status |-> "Failed", started |-> TRUE, finished |-> TRUE] \in Row
BY DEF Row, NoRow, Status, Running, Ended

LEMMA CancellationTypes ==
  /\ \A r \in Row : [stage |-> "kill", copy |-> r] \in Cancellation
                    /\ [stage |-> "save", copy |-> r] \in Cancellation
                    /\ [stage |-> "over", copy |-> r] \in Cancellation
  /\ \A c \in Cancellation : c.copy \in Row /\ [c EXCEPT !.stage = "save"] \in Cancellation
BY DEF Cancellation

LEMMA SubmitType ==
  ASSUME TypeOK, CommandCopies, EngineCopies, NEW t \in Task, Submit(t)
  PROVE  TypeOK'
<1>1. stamp' \in BOOLEAN
  BY Zenon DEF Submit, TypeOK
<1>2. /\ kind' \in Kinds
      /\ pc' \in [Worker -> AliveAt \cup {"none", "check", "gone"}]
      /\ job' \in [Worker -> Task \cup {NoTask}]
      /\ copy' \in [Worker -> Row]
      /\ engineCopy' \in [Worker -> Row]
      /\ engine' \in [Worker -> {"none", "starting"} \cup Planning \cup Exited]
      /\ logged' \in Worker \cup {NoWorker}
      /\ cancel' \in [Task -> Cancellation]
      /\ completed' \subseteq Task
      /\ crashed' \subseteq Worker
  BY SMT DEF Submit, process, planning, TypeOK
<1>3. row' \in [Task -> Row]
  BY RowTypes, SMT DEF Submit, Save, TypeOK
<1>4. launching' \subseteq Task
  BY SMT DEF Submit, TypeOK
<1> QED BY <1>1, <1>2, <1>3, <1>4 DEF TypeOK

LEMMA LaunchType ==
  ASSUME TypeOK, CommandCopies, EngineCopies, NEW t \in Task, Launch(t)
  PROVE  TypeOK'
<1>1. stamp' \in BOOLEAN
  BY Zenon DEF Launch, TypeOK
<1>2. /\ row' \in [Task -> Row]
      /\ kind' \in Kinds
      /\ job' \in [Worker -> Task \cup {NoTask}]
      /\ copy' \in [Worker -> Row]
      /\ engineCopy' \in [Worker -> Row]
      /\ engine' \in [Worker -> {"none", "starting"} \cup Planning \cup Exited]
      /\ logged' \in Worker \cup {NoWorker}
      /\ cancel' \in [Task -> Cancellation]
      /\ completed' \subseteq Task
      /\ crashed' \subseteq Worker
  BY SMT DEF Launch, queue, planning, TypeOK
<1>3. pc' \in [Worker -> AliveAt \cup {"none", "check", "gone"}]
  BY SMT DEF Launch, Goto, TypeOK
<1>4. launching' \subseteq Task
  BY SMT DEF Launch, TypeOK
<1> QED BY <1>1, <1>2, <1>3, <1>4 DEF TypeOK

LEMMA CancelReadType ==
  ASSUME TypeOK, CommandCopies, EngineCopies, NEW t \in Task, CancelRead(t)
  PROVE  TypeOK'
<1>1. stamp' \in BOOLEAN
  BY Zenon DEF CancelRead, TypeOK
<1>2. /\ row' \in [Task -> Row]
      /\ kind' \in Kinds
      /\ launching' \subseteq Task
      /\ pc' \in [Worker -> AliveAt \cup {"none", "check", "gone"}]
      /\ job' \in [Worker -> Task \cup {NoTask}]
      /\ copy' \in [Worker -> Row]
      /\ engineCopy' \in [Worker -> Row]
      /\ engine' \in [Worker -> {"none", "starting"} \cup Planning \cup Exited]
      /\ logged' \in Worker \cup {NoWorker}
      /\ completed' \subseteq Task
      /\ crashed' \subseteq Worker
  BY SMT DEF CancelRead, queue, process, planning, TypeOK
<1>3. row[t] \in Row
  BY SMT DEF TypeOK
<1>4. [stage |-> "kill", copy |-> row[t]] \in Cancellation /\ [stage |-> "save",
   copy |-> row[t]] \in Cancellation
  BY <1>3, CancellationTypes, Zenon
<1>5. cancel' \in [Task -> Cancellation]
  BY <1>4, SMT DEF CancelRead, TypeOK
<1> QED BY <1>1, <1>2, <1>5 DEF TypeOK

LEMMA CancelKillType ==
  ASSUME TypeOK, CommandCopies, EngineCopies, NEW t \in Task, CancelKill(t)
  PROVE  TypeOK'
<1>1. stamp' \in BOOLEAN
  BY Zenon DEF CancelKill, TypeOK
<1>2. /\ row' \in [Task -> Row]
      /\ kind' \in Kinds
      /\ launching' \subseteq Task
      /\ pc' \in [Worker -> AliveAt \cup {"none", "check", "gone"}]
      /\ job' \in [Worker -> Task \cup {NoTask}]
      /\ copy' \in [Worker -> Row]
      /\ logged' \in Worker \cup {NoWorker}
      /\ completed' \subseteq Task
      /\ crashed' \subseteq Worker
  BY SMT DEF CancelKill, queue, process, TypeOK
<1>3. cancel[t] \in Cancellation
  BY SMT DEF TypeOK
<1>4. [cancel[t] EXCEPT !.stage = "save"] \in Cancellation /\ Over \in Cancellation
  BY <1>3, CancellationTypes, RowTypes, Zenon DEF Over
<1>5. cancel' \in [Task -> Cancellation]
  BY <1>4, SMT DEF CancelKill, TypeOK
<1>6. engine' \in [Worker -> {"none", "starting"} \cup Planning \cup Exited]
  BY SMT DEF CancelKill, TypeOK, Planning, Exited
<1>7. engineCopy' \in [Worker -> Row]
  BY RowTypes, SMT DEF CancelKill, TypeOK
<1> QED BY <1>1, <1>2, <1>5, <1>6, <1>7 DEF TypeOK

LEMMA CancelSaveType ==
  ASSUME TypeOK, CommandCopies, EngineCopies, NEW t \in Task, CancelSave(t)
  PROVE  TypeOK'
<1>1. stamp' \in BOOLEAN
  BY Zenon DEF CancelSave, TypeOK
<1>2. /\ kind' \in Kinds
      /\ launching' \subseteq Task
      /\ pc' \in [Worker -> AliveAt \cup {"none", "check", "gone"}]
      /\ job' \in [Worker -> Task \cup {NoTask}]
      /\ copy' \in [Worker -> Row]
      /\ engineCopy' \in [Worker -> Row]
      /\ engine' \in [Worker -> {"none", "starting"} \cup Planning \cup Exited]
      /\ logged' \in Worker \cup {NoWorker}
      /\ completed' \subseteq Task
      /\ crashed' \subseteq Worker
  BY SMT DEF CancelSave, process, planning, TypeOK
<1>3. cancel[t] \in Cancellation
  BY SMT DEF TypeOK
<1>4. [cancel[t].copy EXCEPT !.status = "Canceled"] \in Row /\ Over \in Cancellation
  BY <1>3, CancellationTypes, RowTypes, Zenon DEF Over
<1>5. row' \in [Task -> Row]
  BY <1>4, SMT DEF CancelSave, Save, TypeOK
<1>6. cancel' \in [Task -> Cancellation]
  BY <1>4, SMT DEF CancelSave, TypeOK
<1> QED BY <1>1, <1>2, <1>5, <1>6 DEF TypeOK

LEMMA BeatType ==
  ASSUME TypeOK, CommandCopies, EngineCopies, NEW w \in Worker, Beat(w)
  PROVE  TypeOK'
<1>1. stamp' \in BOOLEAN
  BY Zenon DEF Beat
<1>2. /\ row' \in [Task -> Row]
      /\ kind' \in Kinds
      /\ launching' \subseteq Task
      /\ pc' \in [Worker -> AliveAt \cup {"none", "check", "gone"}]
      /\ job' \in [Worker -> Task \cup {NoTask}]
      /\ copy' \in [Worker -> Row]
      /\ engineCopy' \in [Worker -> Row]
      /\ engine' \in [Worker -> {"none", "starting"} \cup Planning \cup Exited]
      /\ logged' \in Worker \cup {NoWorker}
      /\ cancel' \in [Task -> Cancellation]
      /\ completed' \subseteq Task
      /\ crashed' \subseteq Worker
  BY SMT DEF Beat, queue, process, planning, TypeOK
<1> QED BY <1>1, <1>2 DEF TypeOK

LEMMA EnterType ==
  ASSUME TypeOK, CommandCopies, EngineCopies, NEW w \in Worker, Enter(w)
  PROVE  TypeOK'
<1>1. stamp' \in BOOLEAN
  BY Zenon DEF Enter, TypeOK
<1>2. /\ row' \in [Task -> Row]
      /\ kind' \in Kinds
      /\ launching' \subseteq Task
      /\ job' \in [Worker -> Task \cup {NoTask}]
      /\ copy' \in [Worker -> Row]
      /\ engineCopy' \in [Worker -> Row]
      /\ engine' \in [Worker -> {"none", "starting"} \cup Planning \cup Exited]
      /\ logged' \in Worker \cup {NoWorker}
      /\ cancel' \in [Task -> Cancellation]
      /\ completed' \subseteq Task
      /\ crashed' \subseteq Worker
  BY SMT DEF Enter, queue, planning, TypeOK
<1>3. pc' \in [Worker -> AliveAt \cup {"none", "check", "gone"}]
  BY SMT DEF Enter, Goto, TypeOK, AliveAt
<1> QED BY <1>1, <1>2, <1>3 DEF TypeOK

LEMMA PickType ==
  ASSUME TypeOK, CommandCopies, EngineCopies, NEW w \in Worker, Pick(w)
  PROVE  TypeOK'
<1>1. stamp' \in BOOLEAN
  BY Zenon DEF Pick, TypeOK
<1>2. /\ row' \in [Task -> Row]
      /\ kind' \in Kinds
      /\ launching' \subseteq Task
      /\ copy' \in [Worker -> Row]
      /\ engineCopy' \in [Worker -> Row]
      /\ engine' \in [Worker -> {"none", "starting"} \cup Planning \cup Exited]
      /\ logged' \in Worker \cup {NoWorker}
      /\ cancel' \in [Task -> Cancellation]
      /\ completed' \subseteq Task
      /\ crashed' \subseteq Worker
  BY SMT DEF Pick, queue, planning, TypeOK
<1>3. pc' \in [Worker -> AliveAt \cup {"none", "check", "gone"}]
  BY SMT DEF Pick, Goto, TypeOK, AliveAt
<1>4. job' \in [Worker -> Task \cup {NoTask}]
  BY SMT DEF Pick, Waiting, TypeOK
<1> QED BY <1>1, <1>2, <1>3, <1>4 DEF TypeOK

LEMMA RereadType ==
  ASSUME TypeOK, CommandCopies, EngineCopies, NEW w \in Worker, Reread(w)
  PROVE  TypeOK'
<1>1. stamp' \in BOOLEAN
  BY Zenon DEF Reread, TypeOK
<1>2. /\ row' \in [Task -> Row]
      /\ kind' \in Kinds
      /\ launching' \subseteq Task
      /\ job' \in [Worker -> Task \cup {NoTask}]
      /\ engineCopy' \in [Worker -> Row]
      /\ engine' \in [Worker -> {"none", "starting"} \cup Planning \cup Exited]
      /\ logged' \in Worker \cup {NoWorker}
      /\ cancel' \in [Task -> Cancellation]
      /\ completed' \subseteq Task
      /\ crashed' \subseteq Worker
  BY SMT DEF Reread, queue, planning, TypeOK
<1>3. job[w] \in Task
  BY Zenon DEF Reread, CommandCopies, AliveAt
<1>4. pc' \in [Worker -> AliveAt \cup {"none", "check", "gone"}]
  BY SMT DEF Reread, Goto, TypeOK, AliveAt
<1>5. copy' \in [Worker -> Row]
  BY <1>3, SMT DEF Reread, TypeOK
<1> QED BY <1>1, <1>2, <1>4, <1>5 DEF TypeOK

LEMMA CloseType ==
  ASSUME TypeOK, CommandCopies, EngineCopies, NEW w \in Worker, Close(w)
  PROVE  TypeOK'
<1>1. stamp' \in BOOLEAN
  BY Zenon DEF Close, TypeOK
<1>2. /\ kind' \in Kinds
      /\ launching' \subseteq Task
      /\ engineCopy' \in [Worker -> Row]
      /\ engine' \in [Worker -> {"none", "starting"} \cup Planning \cup Exited]
      /\ logged' \in Worker \cup {NoWorker}
      /\ cancel' \in [Task -> Cancellation]
      /\ completed' \subseteq Task
      /\ crashed' \subseteq Worker
  BY SMT DEF Close, planning, TypeOK
<1>3. Closed(copy[w]) \in Row
  BY RowTypes, Zenon DEF Closed
<1>4. row' \in [Task -> Row]
  BY <1>3, SMT DEF Close, Save, TypeOK
<1>5. pc' \in [Worker -> AliveAt \cup {"none", "check", "gone"}]
  BY SMT DEF Close, LetGo, Goto, TypeOK, AliveAt
<1>6. job' \in [Worker -> Task \cup {NoTask}]
  BY SMT DEF Close, LetGo, TypeOK
<1>7. copy' \in [Worker -> Row]
  BY RowTypes, SMT DEF Close, LetGo, TypeOK
<1> QED BY <1>1, <1>2, <1>4, <1>5, <1>6, <1>7 DEF TypeOK

LEMMA FailType ==
  ASSUME TypeOK, CommandCopies, EngineCopies, NEW w \in Worker, Fail(w)
  PROVE  TypeOK'
<1>1. stamp' \in BOOLEAN
  BY Zenon DEF Fail, TypeOK
<1>2. /\ kind' \in Kinds
      /\ launching' \subseteq Task
      /\ engineCopy' \in [Worker -> Row]
      /\ engine' \in [Worker -> {"none", "starting"} \cup Planning \cup Exited]
      /\ logged' \in Worker \cup {NoWorker}
      /\ cancel' \in [Task -> Cancellation]
      /\ completed' \subseteq Task
      /\ crashed' \subseteq Worker
  BY SMT DEF Fail, planning, TypeOK
<1>3. job[w] \in Task
  BY Zenon DEF Fail, CommandCopies, AliveAt
<1>4. row' \in [Task -> Row]
  BY <1>3, RowTypes, SMT DEF Fail, Save, TypeOK
<1>5. pc' \in [Worker -> AliveAt \cup {"none", "check", "gone"}]
  BY SMT DEF Fail, LetGo, Goto, TypeOK, AliveAt
<1>6. job' \in [Worker -> Task \cup {NoTask}]
  BY SMT DEF Fail, LetGo, TypeOK
<1>7. copy' \in [Worker -> Row]
  BY RowTypes, SMT DEF Fail, LetGo, TypeOK
<1> QED BY <1>1, <1>2, <1>4, <1>5, <1>6, <1>7 DEF TypeOK

LEMMA ReadType ==
  ASSUME TypeOK, CommandCopies, EngineCopies, NEW w \in Worker, Read(w)
  PROVE  TypeOK'
<1>1. stamp' \in BOOLEAN
  BY Zenon DEF Read, TypeOK
<1>2. /\ row' \in [Task -> Row]
      /\ kind' \in Kinds
      /\ launching' \subseteq Task
      /\ job' \in [Worker -> Task \cup {NoTask}]
      /\ engineCopy' \in [Worker -> Row]
      /\ engine' \in [Worker -> {"none", "starting"} \cup Planning \cup Exited]
      /\ logged' \in Worker \cup {NoWorker}
      /\ cancel' \in [Task -> Cancellation]
      /\ completed' \subseteq Task
      /\ crashed' \subseteq Worker
  BY SMT DEF Read, queue, planning, TypeOK
<1>3. job[w] \in Task
  BY Zenon DEF Read, CommandCopies, AliveAt
<1>4. pc' \in [Worker -> AliveAt \cup {"none", "check", "gone"}]
  BY SMT DEF Read, Goto, TypeOK, AliveAt
<1>5. copy' \in [Worker -> Row]
  BY <1>3, SMT DEF Read, TypeOK
<1> QED BY <1>1, <1>2, <1>4, <1>5 DEF TypeOK

LEMMA RejectType ==
  ASSUME TypeOK, CommandCopies, EngineCopies, NEW w \in Worker, Reject(w)
  PROVE  TypeOK'
<1>1. stamp' \in BOOLEAN
  BY Zenon DEF Reject, TypeOK
<1>2. /\ kind' \in Kinds
      /\ launching' \subseteq Task
      /\ job' \in [Worker -> Task \cup {NoTask}]
      /\ copy' \in [Worker -> Row]
      /\ engineCopy' \in [Worker -> Row]
      /\ engine' \in [Worker -> {"none", "starting"} \cup Planning \cup Exited]
      /\ logged' \in Worker \cup {NoWorker}
      /\ cancel' \in [Task -> Cancellation]
      /\ completed' \subseteq Task
      /\ crashed' \subseteq Worker
  BY SMT DEF Reject, planning, TypeOK
<1>3. job[w] \in Task
  BY Zenon DEF Reject, CommandCopies, AliveAt
<1>4. copy[w] \in Row
  BY SMT DEF TypeOK
<1>5. Ended(copy[w], "Failed") \in Row
  BY <1>4, RowTypes, Zenon
<1>6. pc' \in [Worker -> AliveAt \cup {"none", "check", "gone"}]
  BY SMT DEF Reject, Goto, TypeOK, AliveAt
<1>7. row' \in [Task -> Row]
  BY <1>3, <1>5, SMT DEF Reject, Save, TypeOK
<1> QED BY <1>1, <1>2, <1>6, <1>7 DEF TypeOK

LEMMA StartType ==
  ASSUME TypeOK, CommandCopies, EngineCopies, NEW w \in Worker, Start(w)
  PROVE  TypeOK'
<1>1. stamp' \in BOOLEAN
  BY Zenon DEF Start, TypeOK
<1>2. /\ kind' \in Kinds
      /\ launching' \subseteq Task
      /\ job' \in [Worker -> Task \cup {NoTask}]
      /\ engineCopy' \in [Worker -> Row]
      /\ logged' \in Worker \cup {NoWorker}
      /\ cancel' \in [Task -> Cancellation]
      /\ completed' \subseteq Task
      /\ crashed' \subseteq Worker
  BY SMT DEF Start, TypeOK
<1>3. job[w] \in Task
  BY Zenon DEF Start, CommandCopies, AliveAt
<1>4. copy[w] \in Row
  BY SMT DEF TypeOK
<1>5. Running(copy[w]) \in Row
  BY <1>4, RowTypes, Zenon
<1>6. pc' \in [Worker -> AliveAt \cup {"none", "check", "gone"}]
  BY SMT DEF Start, Goto, TypeOK, AliveAt
<1>7. row' \in [Task -> Row]
  BY <1>3, <1>5, SMT DEF Start, Save, TypeOK
<1>8. copy' \in [Worker -> Row]
  BY <1>5, SMT DEF Start, TypeOK
<1>9. engine' \in [Worker -> {"none", "starting"} \cup Planning \cup Exited]
  BY SMT DEF Start, TypeOK
<1> QED BY <1>1, <1>2, <1>6, <1>7, <1>8, <1>9 DEF TypeOK

LEMMA ProgressType ==
  ASSUME TypeOK, CommandCopies, EngineCopies, NEW w \in Worker, Progress(w)
  PROVE  TypeOK'
<1>1. stamp' \in BOOLEAN
  BY Zenon DEF Progress, TypeOK
<1>2. /\ kind' \in Kinds
      /\ launching' \subseteq Task
      /\ pc' \in [Worker -> AliveAt \cup {"none", "check", "gone"}]
      /\ job' \in [Worker -> Task \cup {NoTask}]
      /\ copy' \in [Worker -> Row]
      /\ engineCopy' \in [Worker -> Row]
      /\ engine' \in [Worker -> {"none", "starting"} \cup Planning \cup Exited]
      /\ logged' \in Worker \cup {NoWorker}
      /\ cancel' \in [Task -> Cancellation]
      /\ completed' \subseteq Task
      /\ crashed' \subseteq Worker
  BY SMT DEF Progress, process, planning, TypeOK
<1>3. job[w] \in Task
  BY Zenon DEF Progress, CommandCopies, AliveAt
<1>4. row' \in [Task -> Row]
  BY <1>3, SMT DEF Progress, Save, TypeOK
<1> QED BY <1>1, <1>2, <1>4 DEF TypeOK

LEMMA CommandEndsType ==
  ASSUME TypeOK, CommandCopies, EngineCopies, NEW w \in Worker, CommandEnds(w)
  PROVE  TypeOK'
<1>1. stamp' \in BOOLEAN
  BY Zenon DEF CommandEnds, TypeOK
<1>2. /\ row' \in [Task -> Row]
      /\ kind' \in Kinds
      /\ launching' \subseteq Task
      /\ job' \in [Worker -> Task \cup {NoTask}]
      /\ engineCopy' \in [Worker -> Row]
      /\ engine' \in [Worker -> {"none", "starting"} \cup Planning \cup Exited]
      /\ logged' \in Worker \cup {NoWorker}
      /\ cancel' \in [Task -> Cancellation]
      /\ crashed' \subseteq Worker
  BY SMT DEF CommandEnds, queue, planning, TypeOK
<1>3. job[w] \in Task
  BY Zenon DEF CommandEnds, CommandCopies, AliveAt
<1>4. copy[w] \in Row
  BY SMT DEF TypeOK
<1>5. Ended(copy[w], "Done") \in Row /\ Ended(copy[w], "Failed") \in Row
  BY <1>4, RowTypes, Zenon
<1>6. pc' \in [Worker -> AliveAt \cup {"none", "check", "gone"}]
  BY SMT DEF CommandEnds, Goto, TypeOK, AliveAt
<1>7. copy' \in [Worker -> Row]
  BY <1>5, SMT DEF CommandEnds, TypeOK
<1>8. completed' \subseteq Task
  BY <1>3, SMT DEF CommandEnds, TypeOK
<1> QED BY <1>1, <1>2, <1>6, <1>7, <1>8 DEF TypeOK

LEMMA DatasetEndsType ==
  ASSUME TypeOK, CommandCopies, EngineCopies, NEW w \in Worker, DatasetEnds(w)
  PROVE  TypeOK'
<1>1. stamp' \in BOOLEAN
  BY Zenon DEF DatasetEnds, TypeOK
<1>2. /\ row' \in [Task -> Row]
      /\ kind' \in Kinds
      /\ launching' \subseteq Task
      /\ job' \in [Worker -> Task \cup {NoTask}]
      /\ copy' \in [Worker -> Row]
      /\ engineCopy' \in [Worker -> Row]
      /\ engine' \in [Worker -> {"none", "starting"} \cup Planning \cup Exited]
      /\ logged' \in Worker \cup {NoWorker}
      /\ cancel' \in [Task -> Cancellation]
      /\ crashed' \subseteq Worker
  BY SMT DEF DatasetEnds, queue, planning, TypeOK
<1>3. job[w] \in Task
  BY Zenon DEF DatasetEnds, CommandCopies, AliveAt
<1>4. pc' \in [Worker -> AliveAt \cup {"none", "check", "gone"}]
  BY SMT DEF DatasetEnds, Goto, TypeOK, AliveAt
<1>5. completed' \subseteq Task
  BY <1>3, SMT DEF DatasetEnds, TypeOK
<1> QED BY <1>1, <1>2, <1>4, <1>5 DEF TypeOK

LEMMA EngineReturnsType ==
  ASSUME TypeOK, CommandCopies, EngineCopies, NEW w \in Worker, EngineReturns(w)
  PROVE  TypeOK'
<1>1. stamp' \in BOOLEAN
  BY Zenon DEF EngineReturns, TypeOK
<1>2. /\ row' \in [Task -> Row]
      /\ kind' \in Kinds
      /\ launching' \subseteq Task
      /\ job' \in [Worker -> Task \cup {NoTask}]
      /\ engineCopy' \in [Worker -> Row]
      /\ cancel' \in [Task -> Cancellation]
      /\ completed' \subseteq Task
      /\ crashed' \subseteq Worker
  BY SMT DEF EngineReturns, queue, TypeOK
<1>3. copy[w] \in Row
  BY SMT DEF TypeOK
<1>4. Ended(copy[w], IF engine[w] \in {"ended", "stopped"} THEN "Done" ELSE "Failed") \in Row
  BY <1>3, RowTypes, Zenon
<1>5. pc' \in [Worker -> AliveAt \cup {"none", "check", "gone"}]
  BY SMT DEF EngineReturns, Goto, TypeOK, AliveAt
<1>6. copy' \in [Worker -> Row]
  BY <1>4, SMT DEF EngineReturns, TypeOK
<1>7. engine' \in [Worker -> {"none", "starting"} \cup Planning \cup Exited]
  BY SMT DEF EngineReturns, Reap, TypeOK
<1>8. logged' \in Worker \cup {NoWorker}
  BY SMT DEF EngineReturns, Reap, TypeOK
<1> QED BY <1>1, <1>2, <1>5, <1>6, <1>7, <1>8 DEF TypeOK

LEMMA SaveResultType ==
  ASSUME TypeOK, CommandCopies, EngineCopies, NEW w \in Worker, SaveResult(w)
  PROVE  TypeOK'
<1>1. stamp' \in BOOLEAN
  BY Zenon DEF SaveResult, TypeOK
<1>2. /\ kind' \in Kinds
      /\ launching' \subseteq Task
      /\ job' \in [Worker -> Task \cup {NoTask}]
      /\ copy' \in [Worker -> Row]
      /\ engineCopy' \in [Worker -> Row]
      /\ engine' \in [Worker -> {"none", "starting"} \cup Planning \cup Exited]
      /\ logged' \in Worker \cup {NoWorker}
      /\ cancel' \in [Task -> Cancellation]
      /\ completed' \subseteq Task
      /\ crashed' \subseteq Worker
  BY SMT DEF SaveResult, planning, TypeOK
<1>3. job[w] \in Task
  BY Zenon DEF SaveResult, CommandCopies, AliveAt
<1>4. pc' \in [Worker -> AliveAt \cup {"none", "check", "gone"}]
  BY SMT DEF SaveResult, Goto, TypeOK, AliveAt
<1>5. row' \in [Task -> Row]
  BY <1>3, SMT DEF SaveResult, Save, TypeOK
<1> QED BY <1>1, <1>2, <1>4, <1>5 DEF TypeOK

LEMMA EngineWelcomeType ==
  ASSUME TypeOK, CommandCopies, EngineCopies, NEW w \in Worker, EngineWelcome(w)
  PROVE  TypeOK'
<1>1. stamp' \in BOOLEAN
  BY Zenon DEF EngineWelcome, TypeOK
<1>2. /\ row' \in [Task -> Row]
      /\ kind' \in Kinds
      /\ launching' \subseteq Task
      /\ pc' \in [Worker -> AliveAt \cup {"none", "check", "gone"}]
      /\ job' \in [Worker -> Task \cup {NoTask}]
      /\ copy' \in [Worker -> Row]
      /\ engineCopy' \in [Worker -> Row]
      /\ cancel' \in [Task -> Cancellation]
      /\ completed' \subseteq Task
      /\ crashed' \subseteq Worker
  BY SMT DEF EngineWelcome, queue, process, TypeOK
<1>3. engine' \in [Worker -> {"none", "starting"} \cup Planning \cup Exited]
  BY SMT DEF EngineWelcome, TypeOK, Planning
<1>4. logged' \in Worker \cup {NoWorker}
  BY SMT DEF EngineWelcome
<1> QED BY <1>1, <1>2, <1>3, <1>4 DEF TypeOK

LEMMA ReadProgressType ==
  ASSUME TypeOK, CommandCopies, EngineCopies, NEW w \in Worker, ReadProgress(w)
  PROVE  TypeOK'
<1>1. stamp' \in BOOLEAN
  BY Zenon DEF ReadProgress, TypeOK
<1>2. /\ row' \in [Task -> Row]
      /\ kind' \in Kinds
      /\ launching' \subseteq Task
      /\ pc' \in [Worker -> AliveAt \cup {"none", "check", "gone"}]
      /\ job' \in [Worker -> Task \cup {NoTask}]
      /\ copy' \in [Worker -> Row]
      /\ engine' \in [Worker -> {"none", "starting"} \cup Planning \cup Exited]
      /\ logged' \in Worker \cup {NoWorker}
      /\ cancel' \in [Task -> Cancellation]
      /\ completed' \subseteq Task
      /\ crashed' \subseteq Worker
  BY SMT DEF ReadProgress, queue, process, TypeOK
<1>3. job[w] \in Task
  BY Zenon DEF ReadProgress, EngineCopies
<1>4. row[job[w]] \in Row
  BY <1>3, SMT DEF TypeOK
<1>5. [row[job[w]] EXCEPT !.status = "%"] \in Row
  BY <1>4, RowTypes, Zenon
<1>6. engineCopy' \in [Worker -> Row]
  BY <1>5, SMT DEF ReadProgress, TypeOK
<1> QED BY <1>1, <1>2, <1>6 DEF TypeOK

LEMMA LogProgressType ==
  ASSUME TypeOK, CommandCopies, EngineCopies, NEW w \in Worker, LogProgress(w)
  PROVE  TypeOK'
<1>1. stamp' \in BOOLEAN
  BY Zenon DEF LogProgress, TypeOK
<1>2. /\ kind' \in Kinds
      /\ launching' \subseteq Task
      /\ pc' \in [Worker -> AliveAt \cup {"none", "check", "gone"}]
      /\ job' \in [Worker -> Task \cup {NoTask}]
      /\ copy' \in [Worker -> Row]
      /\ engineCopy' \in [Worker -> Row]
      /\ logged' \in Worker \cup {NoWorker}
      /\ cancel' \in [Task -> Cancellation]
      /\ completed' \subseteq Task
      /\ crashed' \subseteq Worker
  BY SMT DEF LogProgress, process, TypeOK
<1>3. engineCopy[w] \in Row
  BY SMT DEF TypeOK
<1>4. row' \in [Task -> Row]
  <2>1. row' = [row EXCEPT ![job[w]] = engineCopy[w]]
    BY Zenon DEF LogProgress, Save
  <2>2. row \in [Task -> Row]
    BY DEF TypeOK
  <2> QED BY <1>3, <2>1, <2>2, Zenon
<1>5. engine' \in [Worker -> {"none", "starting"} \cup Planning \cup Exited]
  BY SMT DEF LogProgress, TypeOK, Planning
<1> QED BY <1>1, <1>2, <1>4, <1>5 DEF TypeOK

LEMMA EngineEndsType ==
  ASSUME TypeOK, CommandCopies, EngineCopies, NEW w \in Worker, EngineEnds(w)
  PROVE  TypeOK'
<1>1. stamp' \in BOOLEAN
  BY Zenon DEF EngineEnds, TypeOK
<1>2. /\ row' \in [Task -> Row]
      /\ kind' \in Kinds
      /\ launching' \subseteq Task
      /\ pc' \in [Worker -> AliveAt \cup {"none", "check", "gone"}]
      /\ job' \in [Worker -> Task \cup {NoTask}]
      /\ copy' \in [Worker -> Row]
      /\ logged' \in Worker \cup {NoWorker}
      /\ cancel' \in [Task -> Cancellation]
      /\ crashed' \subseteq Worker
  BY SMT DEF EngineEnds, queue, process, TypeOK
<1>3. job[w] \in Task
  BY SMT DEF EngineEnds, Planning, EngineCopies
<1>4. engine' \in [Worker -> {"none", "starting"} \cup Planning \cup Exited]
  BY SMT DEF EngineEnds, TypeOK, Exited
<1>5. completed' \subseteq Task
  BY <1>3, SMT DEF EngineEnds, TypeOK
<1>6. engineCopy' \in [Worker -> Row]
  BY RowTypes, SMT DEF EngineEnds, TypeOK
<1> QED BY <1>1, <1>2, <1>4, <1>5, <1>6 DEF TypeOK

LEMMA CrashType ==
  ASSUME TypeOK, CommandCopies, EngineCopies, NEW w \in Worker, Crash(w)
  PROVE  TypeOK'
<1>1. stamp' \in BOOLEAN
  BY Zenon DEF Crash, TypeOK
<1>2. /\ row' \in [Task -> Row]
      /\ kind' \in Kinds
      /\ launching' \subseteq Task
      /\ job' \in [Worker -> Task \cup {NoTask}]
      /\ engineCopy' \in [Worker -> Row]
      /\ engine' \in [Worker -> {"none", "starting"} \cup Planning \cup Exited]
      /\ logged' \in Worker \cup {NoWorker}
      /\ cancel' \in [Task -> Cancellation]
      /\ completed' \subseteq Task
      /\ crashed' \subseteq Worker
  BY SMT DEF Crash, queue, planning, TypeOK
<1>3. pc' \in [Worker -> AliveAt \cup {"none", "check", "gone"}]
  BY SMT DEF Crash, Goto, TypeOK, AliveAt
<1>4. copy' \in [Worker -> Row]
  BY RowTypes, SMT DEF Crash, TypeOK
<1> QED BY <1>1, <1>2, <1>3, <1>4 DEF TypeOK

LEMMA OrphanEndsType ==
  ASSUME TypeOK, CommandCopies, EngineCopies, NEW w \in Worker, OrphanEnds(w)
  PROVE  TypeOK'
<1>1. stamp' \in BOOLEAN
  BY Zenon DEF OrphanEnds, TypeOK
<1>2. /\ row' \in [Task -> Row]
      /\ kind' \in Kinds
      /\ launching' \subseteq Task
      /\ pc' \in [Worker -> AliveAt \cup {"none", "check", "gone"}]
      /\ job' \in [Worker -> Task \cup {NoTask}]
      /\ copy' \in [Worker -> Row]
      /\ engineCopy' \in [Worker -> Row]
      /\ cancel' \in [Task -> Cancellation]
      /\ completed' \subseteq Task
      /\ crashed' \subseteq Worker
  BY SMT DEF OrphanEnds, queue, process, TypeOK
<1>3. engine' \in [Worker -> {"none", "starting"} \cup Planning \cup Exited]
  BY SMT DEF OrphanEnds, Reap, TypeOK
<1>4. logged' \in Worker \cup {NoWorker}
  BY SMT DEF OrphanEnds, Reap, TypeOK
<1> QED BY <1>1, <1>2, <1>3, <1>4 DEF TypeOK

LEMMA LapseType ==
  ASSUME TypeOK, CommandCopies, EngineCopies, Lapse
  PROVE  TypeOK'
<1>1. stamp' \in BOOLEAN
  BY Zenon DEF Lapse
<1>2. /\ row' \in [Task -> Row]
      /\ kind' \in Kinds
      /\ launching' \subseteq Task
      /\ pc' \in [Worker -> AliveAt \cup {"none", "check", "gone"}]
      /\ job' \in [Worker -> Task \cup {NoTask}]
      /\ copy' \in [Worker -> Row]
      /\ engineCopy' \in [Worker -> Row]
      /\ engine' \in [Worker -> {"none", "starting"} \cup Planning \cup Exited]
      /\ logged' \in Worker \cup {NoWorker}
      /\ cancel' \in [Task -> Cancellation]
      /\ completed' \subseteq Task
      /\ crashed' \subseteq Worker
  BY SMT DEF Lapse, queue, process, planning, TypeOK
<1> QED BY <1>1, <1>2 DEF TypeOK

-----------------------------------------------------------------------------
(* The steps keep the invariant. *)

LEMMA SubmitStep ==
  ASSUME CopiesInv, NEW t \in Task, Submit(t)
  PROVE  CopiesInv'
<1>1. TypeOK'
  BY SubmitType DEF CopiesInv
<1>2. DoneIsComplete'
  BY SMT DEF Submit, Save, CopiesInv, DoneIsComplete, Accepted
<1>3. CommandCopies'
  BY SMT DEF Submit, process, CopiesInv, CommandCopies, Accepted
<1>4. EngineCopies'
  BY SMT DEF Submit, process, planning, CopiesInv, EngineCopies
<1>5. CancelCopies'
  BY SMT DEF Submit, CopiesInv, CancelCopies
<1> QED BY <1>1, <1>2, <1>3, <1>4, <1>5 DEF CopiesInv

LEMMA LaunchStep ==
  ASSUME CopiesInv, NEW t \in Task, Launch(t)
  PROVE  CopiesInv'
<1>1. TypeOK'
  BY LaunchType DEF CopiesInv
<1>2. DoneIsComplete'
  BY SMT DEF Launch, queue, CopiesInv, DoneIsComplete, Accepted
<1>3. CommandCopies'
  BY SMT DEF Launch, queue, Goto, CopiesInv, TypeOK, CommandCopies, Accepted, AliveAt
<1>4. EngineCopies'
  BY SMT DEF Launch, queue, planning, Goto, Unused, CopiesInv, TypeOK, EngineCopies
<1>5. CancelCopies'
  BY SMT DEF Launch, CopiesInv, CancelCopies
<1> QED BY <1>1, <1>2, <1>3, <1>4, <1>5 DEF CopiesInv

LEMMA CancelReadStep ==
  ASSUME CopiesInv, NEW t \in Task, CancelRead(t)
  PROVE  CopiesInv'
<1>1. TypeOK'
  BY CancelReadType DEF CopiesInv
<1>2. DoneIsComplete'
  BY SMT DEF CancelRead, queue, CopiesInv, DoneIsComplete, Accepted
<1>3. CommandCopies'
  BY SMT DEF CancelRead, queue, process, CopiesInv, CommandCopies, Accepted
<1>4. EngineCopies'
  BY SMT DEF CancelRead, queue, process, planning, CopiesInv, EngineCopies
<1>5. CancelCopies'
  BY SMT DEF CancelRead, CopiesInv, TypeOK, CancelCopies, Final
<1> QED BY <1>1, <1>2, <1>3, <1>4, <1>5 DEF CopiesInv

LEMMA CancelKillStep ==
  ASSUME CopiesInv, NEW t \in Task, CancelKill(t)
  PROVE  CopiesInv'
<1>1. TypeOK'
  BY CancelKillType DEF CopiesInv
<1>2. DoneIsComplete'
  BY SMT DEF CancelKill, queue, CopiesInv, DoneIsComplete, Accepted
<1>3. CommandCopies'
  BY SMT DEF CancelKill, queue, process, CopiesInv, CommandCopies, Accepted
<1>4. EngineCopies'
  BY SMT DEF CancelKill, queue, process, CopiesInv, TypeOK, EngineCopies, Planning
<1>5. CancelCopies'
  <2> SUFFICES ASSUME NEW u \in Task, cancel'[u].stage \in {"kill", "save"}
               PROVE  cancel'[u].copy.status \notin Final
    BY DEF CancelCopies
  <2>1. CASE u # t
    BY <2>1, SMT DEF CancelKill, CopiesInv, TypeOK, CancelCopies
  <2>2. CASE u = t
    <3>1. cancel[t] \in Cancellation
      BY SMT DEF CopiesInv, TypeOK
    <3>2. cancel'[t].copy = cancel[t].copy
      BY <2>2, SMT DEF CancelKill, CopiesInv, TypeOK, Cancellation, Over
    <3> QED BY <2>2, <3>2, SMT DEF CancelKill, CopiesInv, CancelCopies
  <2> QED BY <2>1, <2>2
<1> QED BY <1>1, <1>2, <1>3, <1>4, <1>5 DEF CopiesInv

LEMMA CancelSaveStep ==
  ASSUME CopiesInv, NEW t \in Task, CancelSave(t)
  PROVE  CopiesInv'
<1>1. TypeOK'
  BY CancelSaveType DEF CopiesInv
<1>2. DoneIsComplete'
  BY SMT DEF CancelSave, Save, CopiesInv, DoneIsComplete, Accepted
<1>3. CommandCopies'
  BY SMT DEF CancelSave, process, CopiesInv, CommandCopies, Accepted
<1>4. EngineCopies'
  BY SMT DEF CancelSave, process, planning, CopiesInv, EngineCopies
<1>5. CancelCopies'
  BY SMT DEF CancelSave, Over, CopiesInv, CancelCopies
<1> QED BY <1>1, <1>2, <1>3, <1>4, <1>5 DEF CopiesInv

LEMMA BeatStep ==
  ASSUME CopiesInv, NEW w \in Worker, Beat(w)
  PROVE  CopiesInv'
<1>1. TypeOK'
  BY BeatType DEF CopiesInv
<1>2. DoneIsComplete'
  BY SMT DEF Beat, queue, CopiesInv, DoneIsComplete, Accepted
<1>3. CommandCopies'
  BY SMT DEF Beat, queue, process, CopiesInv, CommandCopies, Accepted
<1>4. EngineCopies'
  BY SMT DEF Beat, queue, process, planning, CopiesInv, EngineCopies
<1>5. CancelCopies'
  BY SMT DEF Beat, CopiesInv, CancelCopies
<1> QED BY <1>1, <1>2, <1>3, <1>4, <1>5 DEF CopiesInv

LEMMA EnterStep ==
  ASSUME CopiesInv, NEW w \in Worker, Enter(w)
  PROVE  CopiesInv'
<1>1. TypeOK'
  BY EnterType DEF CopiesInv
<1>2. DoneIsComplete'
  BY SMT DEF Enter, queue, CopiesInv, DoneIsComplete, Accepted
<1>3. CommandCopies'
  BY SMT DEF Enter, queue, Goto, CopiesInv, CommandCopies, Accepted, AliveAt
<1>4. EngineCopies'
  BY SMT DEF Enter, queue, planning, Goto, CopiesInv, EngineCopies
<1>5. CancelCopies'
  BY SMT DEF Enter, CopiesInv, CancelCopies
<1> QED BY <1>1, <1>2, <1>3, <1>4, <1>5 DEF CopiesInv

LEMMA PickStep ==
  ASSUME CopiesInv, NEW w \in Worker, Pick(w)
  PROVE  CopiesInv'
<1>1. TypeOK'
  BY PickType DEF CopiesInv
<1>2. DoneIsComplete'
  BY SMT DEF Pick, queue, CopiesInv, DoneIsComplete, Accepted
<1>3. CommandCopies'
  BY SMT DEF Pick, queue, Goto, Waiting, CopiesInv, TypeOK, CommandCopies, Accepted, AliveAt
<1>4. EngineCopies'
  BY SMT DEF Pick, queue, planning, Goto, CopiesInv, TypeOK, EngineCopies
<1>5. CancelCopies'
  BY SMT DEF Pick, CopiesInv, CancelCopies
<1> QED BY <1>1, <1>2, <1>3, <1>4, <1>5 DEF CopiesInv

LEMMA RereadStep ==
  ASSUME CopiesInv, NEW w \in Worker, Reread(w)
  PROVE  CopiesInv'
<1>1. TypeOK'
  BY RereadType DEF CopiesInv
<1>2. DoneIsComplete'
  BY SMT DEF Reread, queue, CopiesInv, DoneIsComplete, Accepted
<1>3. CommandCopies'
  BY SMT DEF Reread, queue, Goto, CopiesInv, TypeOK, CommandCopies, Accepted
<1>4. EngineCopies'
  BY SMT DEF Reread, queue, planning, Goto, CopiesInv, EngineCopies
<1>5. CancelCopies'
  BY SMT DEF Reread, CopiesInv, CancelCopies
<1> QED BY <1>1, <1>2, <1>3, <1>4, <1>5 DEF CopiesInv

LEMMA CloseStep ==
  ASSUME CopiesInv, NEW w \in Worker, Close(w)
  PROVE  CopiesInv'
<1>1. TypeOK'
  BY CloseType DEF CopiesInv
<1>2. DoneIsComplete'
  <2>1. job[w] \in Task /\ Accepted(job[w]) /\ UNCHANGED <<kind, completed>>
    BY Zenon DEF Close, CopiesInv, CommandCopies, AliveAt
  <2>2. Closed(copy[w]).started /\ Closed(copy[w]).finished
    BY DEF Closed
  <2>3. row' = row \/ row' = [row EXCEPT ![job[w]] = Closed(copy[w])]
    BY Zenon DEF Close, Save
  <2> QED BY <2>1, <2>2, <2>3, SMT DEF CopiesInv, TypeOK, DoneIsComplete, Accepted
<1>3. CommandCopies'
  BY SMT DEF Close, LetGo, Goto, CopiesInv, TypeOK, CommandCopies, Accepted
<1>4. EngineCopies'
  BY SMT DEF Close, planning, LetGo, Goto, CopiesInv, EngineCopies
<1>5. CancelCopies'
  BY SMT DEF Close, CopiesInv, CancelCopies
<1> QED BY <1>1, <1>2, <1>3, <1>4, <1>5 DEF CopiesInv

LEMMA FailStep ==
  ASSUME CopiesInv, NEW w \in Worker, Fail(w)
  PROVE  CopiesInv'
<1>1. TypeOK'
  BY FailType DEF CopiesInv
<1>2. DoneIsComplete'
  BY SMT DEF Fail, Save, CopiesInv, DoneIsComplete, Accepted
<1>3. CommandCopies'
  BY SMT DEF Fail, LetGo, Goto, CopiesInv, TypeOK, CommandCopies, Accepted
<1>4. EngineCopies'
  BY SMT DEF Fail, planning, LetGo, Goto, CopiesInv, EngineCopies
<1>5. CancelCopies'
  BY SMT DEF Fail, CopiesInv, CancelCopies
<1> QED BY <1>1, <1>2, <1>3, <1>4, <1>5 DEF CopiesInv

LEMMA ReadStep ==
  ASSUME CopiesInv, NEW w \in Worker, Read(w)
  PROVE  CopiesInv'
<1>1. TypeOK'
  BY ReadType DEF CopiesInv
<1>2. DoneIsComplete'
  BY SMT DEF Read, queue, CopiesInv, DoneIsComplete, Accepted
<1>3. CommandCopies'
  BY SMT DEF Read, queue, Goto, CopiesInv, TypeOK, CommandCopies, Accepted
<1>4. EngineCopies'
  BY SMT DEF Read, queue, planning, Goto, CopiesInv, EngineCopies
<1>5. CancelCopies'
  BY SMT DEF Read, CopiesInv, CancelCopies
<1> QED BY <1>1, <1>2, <1>3, <1>4, <1>5 DEF CopiesInv

LEMMA RejectStep ==
  ASSUME CopiesInv, NEW w \in Worker, Reject(w)
  PROVE  CopiesInv'
<1>1. TypeOK'
  BY RejectType DEF CopiesInv
<1>2. DoneIsComplete'
  BY SMT DEF Reject, Save, Ended, CopiesInv, DoneIsComplete, Accepted
<1>3. CommandCopies'
  BY SMT DEF Reject, Goto, CopiesInv, CommandCopies, Accepted, AliveAt
<1>4. EngineCopies'
  BY SMT DEF Reject, planning, Goto, CopiesInv, EngineCopies
<1>5. CancelCopies'
  BY SMT DEF Reject, CopiesInv, CancelCopies
<1> QED BY <1>1, <1>2, <1>3, <1>4, <1>5 DEF CopiesInv

LEMMA StartStep ==
  ASSUME CopiesInv, NEW w \in Worker, Start(w)
  PROVE  CopiesInv'
<1>1. TypeOK'
  BY StartType DEF CopiesInv
<1>2. DoneIsComplete'
  BY SMT DEF Start, Save, Running, CopiesInv, TypeOK, DoneIsComplete, Accepted
<1>3. CommandCopies'
  BY SMT DEF Start, Goto, Running, CopiesInv, TypeOK, CommandCopies, Accepted
<1>4. EngineCopies'
  <2>1. job[w] \in Task
    BY Zenon DEF Start, CopiesInv, CommandCopies, AliveAt
  <2> QED BY <2>1, SMT DEF Start, Goto, CopiesInv, TypeOK, EngineCopies
<1>5. CancelCopies'
  BY SMT DEF Start, CopiesInv, CancelCopies
<1> QED BY <1>1, <1>2, <1>3, <1>4, <1>5 DEF CopiesInv

LEMMA ProgressStep ==
  ASSUME CopiesInv, NEW w \in Worker, Progress(w)
  PROVE  CopiesInv'
<1>1. TypeOK'
  BY ProgressType DEF CopiesInv
<1>2. DoneIsComplete'
  BY SMT DEF Progress, Save, CopiesInv, DoneIsComplete, CommandCopies, Accepted
<1>3. CommandCopies'
  BY SMT DEF Progress, process, CopiesInv, CommandCopies, Accepted
<1>4. EngineCopies'
  BY SMT DEF Progress, process, planning, CopiesInv, EngineCopies
<1>5. CancelCopies'
  BY SMT DEF Progress, CopiesInv, CancelCopies
<1> QED BY <1>1, <1>2, <1>3, <1>4, <1>5 DEF CopiesInv

LEMMA CommandEndsStep ==
  ASSUME CopiesInv, NEW w \in Worker, CommandEnds(w)
  PROVE  CopiesInv'
<1>1. TypeOK'
  BY CommandEndsType DEF CopiesInv
<1>2. DoneIsComplete'
  BY SMT DEF CommandEnds, queue, CopiesInv, DoneIsComplete, Accepted
<1>3. CommandCopies'
  <2>1. copy[w] \in Row /\ copy[w].started /\ job[w] \in Task
    BY SMT DEF CommandEnds, CopiesInv, TypeOK, CommandCopies, Accepted
  <2>2. /\ Ended(copy[w], "Done").started /\ Ended(copy[w], "Done").finished
        /\ Ended(copy[w], "Failed").status = "Failed"
    BY <2>1 DEF Ended
  <2>3. pc' = [pc EXCEPT ![w] = "save"] /\ UNCHANGED <<job, kind>>
    BY Zenon DEF CommandEnds, Goto, queue
  <2>4. CASE completed' = completed \cup {job[w]} /\ copy' = [copy EXCEPT ![w] = Ended(copy[w],
     "Done")]
    BY <2>1, <2>2, <2>3, <2>4, SMT DEF CopiesInv, TypeOK, CommandCopies, Accepted
  <2>5. CASE completed' = completed /\ copy' = [copy EXCEPT ![w] = Ended(copy[w], "Failed")]
    BY <2>1, <2>2, <2>3, <2>5, SMT DEF CopiesInv, TypeOK, CommandCopies, Accepted
  <2> QED BY <2>4, <2>5, Zenon DEF CommandEnds
<1>4. EngineCopies'
  BY SMT DEF CommandEnds, queue, planning, Goto, CopiesInv, EngineCopies
<1>5. CancelCopies'
  BY SMT DEF CommandEnds, CopiesInv, CancelCopies
<1> QED BY <1>1, <1>2, <1>3, <1>4, <1>5 DEF CopiesInv

LEMMA DatasetEndsStep ==
  ASSUME CopiesInv, NEW w \in Worker, DatasetEnds(w)
  PROVE  CopiesInv'
<1>1. TypeOK'
  BY DatasetEndsType DEF CopiesInv
<1>2. DoneIsComplete'
  BY SMT DEF DatasetEnds, queue, CopiesInv, DoneIsComplete, Accepted
<1>3. CommandCopies'
  BY SMT DEF DatasetEnds, queue, Goto, CopiesInv, TypeOK, CommandCopies, Accepted
<1>4. EngineCopies'
  BY SMT DEF DatasetEnds, queue, planning, Goto, CopiesInv, TypeOK, EngineCopies
<1>5. CancelCopies'
  BY SMT DEF DatasetEnds, CopiesInv, CancelCopies
<1> QED BY <1>1, <1>2, <1>3, <1>4, <1>5 DEF CopiesInv

LEMMA EngineReturnsStep ==
  ASSUME CopiesInv, NEW w \in Worker, EngineReturns(w)
  PROVE  CopiesInv'
<1>1. TypeOK'
  BY EngineReturnsType DEF CopiesInv
<1>2. DoneIsComplete'
  BY SMT DEF EngineReturns, queue, CopiesInv, DoneIsComplete, Accepted
<1>3. CommandCopies'
  BY SMT DEF EngineReturns, queue, Goto, Ended, CopiesInv, TypeOK, CommandCopies, Accepted, EngineCopies
<1>4. EngineCopies'
  <2>1. engineCopy' = engineCopy /\ engine' = [engine EXCEPT ![w] = "none"]
    BY Zenon DEF EngineReturns, Reap
  <2>2. pc' = [pc EXCEPT ![w] = "save"] /\ UNCHANGED <<job, kind, completed>>
    BY Zenon DEF EngineReturns, Goto, queue
  <2> QED BY <2>1, <2>2, SMT DEF CopiesInv, TypeOK, EngineCopies
<1>5. CancelCopies'
  BY SMT DEF EngineReturns, CopiesInv, CancelCopies
<1> QED BY <1>1, <1>2, <1>3, <1>4, <1>5 DEF CopiesInv

LEMMA SaveResultStep ==
  ASSUME CopiesInv, NEW w \in Worker, SaveResult(w)
  PROVE  CopiesInv'
<1>1. TypeOK'
  BY SaveResultType DEF CopiesInv
<1>2. DoneIsComplete'
  BY SMT DEF SaveResult, Save, CopiesInv, DoneIsComplete, CommandCopies, Accepted
<1>3. CommandCopies'
  BY SMT DEF SaveResult, Goto, CopiesInv, TypeOK, CommandCopies, Accepted, NoRow
<1>4. EngineCopies'
  BY SMT DEF SaveResult, planning, Goto, CopiesInv, EngineCopies
<1>5. CancelCopies'
  BY SMT DEF SaveResult, CopiesInv, CancelCopies
<1> QED BY <1>1, <1>2, <1>3, <1>4, <1>5 DEF CopiesInv

LEMMA EngineWelcomeStep ==
  ASSUME CopiesInv, NEW w \in Worker, EngineWelcome(w)
  PROVE  CopiesInv'
<1>1. TypeOK'
  BY EngineWelcomeType DEF CopiesInv
<1>2. DoneIsComplete'
  BY SMT DEF EngineWelcome, queue, CopiesInv, DoneIsComplete, Accepted
<1>3. CommandCopies'
  BY SMT DEF EngineWelcome, queue, process, CopiesInv, CommandCopies, Accepted
<1>4. EngineCopies'
  BY SMT DEF EngineWelcome, queue, process, CopiesInv, EngineCopies
<1>5. CancelCopies'
  BY SMT DEF EngineWelcome, CopiesInv, CancelCopies
<1> QED BY <1>1, <1>2, <1>3, <1>4, <1>5 DEF CopiesInv

LEMMA ReadProgressStep ==
  ASSUME CopiesInv, NEW w \in Worker, ReadProgress(w)
  PROVE  CopiesInv'
<1>1. TypeOK'
  BY ReadProgressType DEF CopiesInv
<1>2. DoneIsComplete'
  BY SMT DEF ReadProgress, queue, CopiesInv, DoneIsComplete, Accepted
<1>3. CommandCopies'
  BY SMT DEF ReadProgress, queue, process, CopiesInv, CommandCopies, Accepted
<1>4. EngineCopies'
  <2>1. [row[job[w]] EXCEPT !.status = "%"].status = "%"
    <3>1. row[job[w]] \in Row
      BY SMT DEF ReadProgress, CopiesInv, TypeOK, EngineCopies
    <3> QED BY <3>1 DEF Row
  <2>2. engineCopy' = [engineCopy EXCEPT ![w] = [row[job[w]] EXCEPT !.status = "%"]]
    BY Zenon DEF ReadProgress
  <2>3. UNCHANGED <<engine, pc, job, kind, completed>>
    BY Zenon DEF ReadProgress, queue, process
  <2> QED BY <2>1, <2>2, <2>3, SMT DEF CopiesInv, EngineCopies
<1>5. CancelCopies'
  BY SMT DEF ReadProgress, CopiesInv, CancelCopies
<1> QED BY <1>1, <1>2, <1>3, <1>4, <1>5 DEF CopiesInv

LEMMA LogProgressStep ==
  ASSUME CopiesInv, NEW w \in Worker, LogProgress(w)
  PROVE  CopiesInv'
<1>1. TypeOK'
  BY LogProgressType DEF CopiesInv
<1>2. DoneIsComplete'
  BY SMT DEF LogProgress, Save, CopiesInv, DoneIsComplete, EngineCopies, Accepted
<1>3. CommandCopies'
  BY SMT DEF LogProgress, process, CopiesInv, CommandCopies, Accepted
<1>4. EngineCopies'
  BY SMT DEF LogProgress, process, CopiesInv, TypeOK, EngineCopies, Planning
<1>5. CancelCopies'
  BY SMT DEF LogProgress, CopiesInv, CancelCopies
<1> QED BY <1>1, <1>2, <1>3, <1>4, <1>5 DEF CopiesInv

LEMMA EngineEndsStep ==
  ASSUME CopiesInv, NEW w \in Worker, EngineEnds(w)
  PROVE  CopiesInv'
<1>1. TypeOK'
  BY EngineEndsType DEF CopiesInv
<1>2. DoneIsComplete'
  BY SMT DEF EngineEnds, queue, CopiesInv, DoneIsComplete, Accepted
<1>3. CommandCopies'
  BY SMT DEF EngineEnds, queue, process, CopiesInv, CommandCopies, Accepted
<1>4. EngineCopies'
  BY SMT DEF EngineEnds, queue, process, CopiesInv, TypeOK, EngineCopies, Planning
<1>5. CancelCopies'
  BY SMT DEF EngineEnds, CopiesInv, CancelCopies
<1> QED BY <1>1, <1>2, <1>3, <1>4, <1>5 DEF CopiesInv

LEMMA CrashStep ==
  ASSUME CopiesInv, NEW w \in Worker, Crash(w)
  PROVE  CopiesInv'
<1>1. TypeOK'
  BY CrashType DEF CopiesInv
<1>2. DoneIsComplete'
  BY SMT DEF Crash, queue, CopiesInv, DoneIsComplete, Accepted
<1>3. CommandCopies'
  BY SMT DEF Crash, queue, Goto, CopiesInv, TypeOK, CommandCopies, Accepted, AliveAt
<1>4. EngineCopies'
  BY SMT DEF Crash, queue, planning, Goto, CopiesInv, TypeOK, EngineCopies
<1>5. CancelCopies'
  BY SMT DEF Crash, CopiesInv, CancelCopies
<1> QED BY <1>1, <1>2, <1>3, <1>4, <1>5 DEF CopiesInv

LEMMA OrphanEndsStep ==
  ASSUME CopiesInv, NEW w \in Worker, OrphanEnds(w)
  PROVE  CopiesInv'
<1>1. TypeOK'
  BY OrphanEndsType DEF CopiesInv
<1>2. DoneIsComplete'
  BY SMT DEF OrphanEnds, queue, CopiesInv, DoneIsComplete, Accepted
<1>3. CommandCopies'
  BY SMT DEF OrphanEnds, queue, process, CopiesInv, CommandCopies, Accepted
<1>4. EngineCopies'
  <2>1. engineCopy' = engineCopy /\ engine' = [engine EXCEPT ![w] = "none"]
    BY Zenon DEF OrphanEnds, Reap
  <2>2. UNCHANGED <<pc, job, kind, completed>>
    BY Zenon DEF OrphanEnds, queue, process
  <2> QED BY <2>1, <2>2, SMT DEF CopiesInv, TypeOK, EngineCopies
<1>5. CancelCopies'
  BY SMT DEF OrphanEnds, CopiesInv, CancelCopies
<1> QED BY <1>1, <1>2, <1>3, <1>4, <1>5 DEF CopiesInv

LEMMA LapseStep ==
  ASSUME CopiesInv, Lapse
  PROVE  CopiesInv'
<1>1. TypeOK'
  BY LapseType DEF CopiesInv
<1>2. DoneIsComplete'
  BY SMT DEF Lapse, queue, CopiesInv, DoneIsComplete, Accepted
<1>3. CommandCopies'
  BY SMT DEF Lapse, queue, process, CopiesInv, CommandCopies, Accepted
<1>4. EngineCopies'
  BY SMT DEF Lapse, queue, process, planning, CopiesInv, EngineCopies
<1>5. CancelCopies'
  BY SMT DEF Lapse, CopiesInv, CancelCopies
<1> QED BY <1>1, <1>2, <1>3, <1>4, <1>5 DEF CopiesInv

-----------------------------------------------------------------------------
(* The theorems. *)

LEMMA InitCopies == Init => CopiesInv
<1> SUFFICES ASSUME Init PROVE CopiesInv
  OBVIOUS
<1>1. NoRow \in Row /\ [stage |-> "none", copy |-> NoRow] \in Cancellation
  BY RowTypes DEF Cancellation
<1>2. TypeOK
  <2>1. stamp \in BOOLEAN
    BY Zenon DEF Init
  <2>2. kind \in Kinds
    BY Zenon DEF Init
  <2>3. /\ row \in [Task -> Row] /\ launching \subseteq Task
        /\ pc \in [Worker -> AliveAt \cup {"none", "check", "gone"}]
        /\ job \in [Worker -> Task \cup {NoTask}]
        /\ {copy, engineCopy} \subseteq [Worker -> Row]
        /\ engine \in [Worker -> {"none", "starting"} \cup Planning \cup Exited]
        /\ logged \in Worker \cup {NoWorker}
        /\ completed \subseteq Task /\ crashed \subseteq Worker
    BY <1>1, SMT DEF Init
  <2>4. cancel \in [Task -> Cancellation]
    BY <1>1, Zenon DEF Init
  <2> QED BY <2>1, <2>2, <2>3, <2>4 DEF TypeOK
<1>3. DoneIsComplete
  BY SMT DEF Init, DoneIsComplete, Accepted, NoRow
<1>4. CommandCopies
  BY SMT DEF Init, CommandCopies, Accepted, AliveAt
<1>5. EngineCopies
  BY SMT DEF Init, EngineCopies
<1>6. CancelCopies
  BY SMT DEF Init, CancelCopies
<1> QED BY <1>2, <1>3, <1>4, <1>5, <1>6 DEF CopiesInv

LEMMA NextCopies == CopiesInv /\ [Next]_vars => CopiesInv'
<1> SUFFICES ASSUME CopiesInv, [Next]_vars PROVE CopiesInv'
  OBVIOUS
<1>1. ASSUME NEW t \in Task, Submit(t) \/ Request(t) \/ CancelRead(t)
      PROVE  CopiesInv'
  BY <1>1, SubmitStep, LaunchStep, CancelKillStep, CancelSaveStep, CancelReadStep, Zenon DEF Request
<1>2. ASSUME NEW w \in Worker, Beat(w) \/ Engine(w) \/ Crash(w)
      PROVE  CopiesInv'
  BY <1>2, BeatStep, CrashStep, EngineWelcomeStep, ReadProgressStep, LogProgressStep,
     EngineEndsStep, OrphanEndsStep, Zenon DEF Engine
<1>3. ASSUME NEW w \in Worker, Command(w)
      PROVE  CopiesInv'
  BY <1>3, ReadStep, RejectStep, StartStep, ProgressStep, CommandEndsStep, DatasetEndsStep,
     EngineReturnsStep, SaveResultStep, Zenon DEF Command
<1>4. ASSUME NEW w \in Worker, WorkerStep(w)
      PROVE  CopiesInv'
  BY <1>3, <1>4, EnterStep, PickStep, RereadStep, CloseStep, FailStep, Zenon DEF WorkerStep
<1>5. CASE Lapse
  BY <1>5, LapseStep
<1>6. CASE UNCHANGED vars
  BY <1>6, Zenon DEF vars, queue, process, planning, CopiesInv, TypeOK, DoneIsComplete,
     CommandCopies, EngineCopies, CancelCopies, Accepted
<1> QED BY <1>1, <1>2, <1>4, <1>5, <1>6, Zenon DEF Next

(* In every reachable state the values have their types, and every copy of *)
(* a row that a worker, an engine or a request will save is one that may   *)
(* be saved.                                                               *)
THEOREM CopiesCorrect == Spec => []CopiesInv
BY InitCopies, NextCopies, PTL DEF Spec

(* The part of it about the types.                                         *)
THEOREM TypesCorrect == Spec => []TypeOK
<1>1. CopiesInv => TypeOK
  BY DEF CopiesInv
<1> QED BY <1>1, CopiesCorrect, PTL

(* A task that is shown as Done was carried out to its end, unless the     *)
(* worker does not know it or its engine exited with code 2, whatever      *)
(* copies of its row the worker, the engine and the web requests save.     *)
THEOREM DoneIsCompleteCorrect == Spec => []DoneIsComplete
<1>1. CopiesInv => DoneIsComplete
  BY DEF CopiesInv
<1> QED BY <1>1, CopiesCorrect, PTL

LEMMA NextWritesRow ==
  ASSUME CopiesInv, Next, NEW t \in Task, row'[t] # row[t]
  PROVE  \/ row[t].status = "absent"
         \/ InHand(t)
         \/ cancel[t].stage = "save" /\ cancel[t].copy.status \notin Final
<1>0. row \in [Task -> Row]
  BY DEF CopiesInv, TypeOK
<1>1. ASSUME NEW u \in Task, Submit(u)
      PROVE  row[t].status = "absent"
  BY <1>1, SMT DEF Submit, Save
<1>2. ASSUME NEW u \in Task, CancelSave(u)
      PROVE  cancel[t].stage = "save" /\ cancel[t].copy.status \notin Final
  BY <1>2, SMT DEF CancelSave, Save, CopiesInv, CancelCopies
<1>3. ASSUME NEW u \in Task, Launch(u) \/ CancelKill(u) \/ CancelRead(u)
      PROVE  FALSE
  BY <1>3, Zenon DEF Launch, CancelKill, CancelRead, queue
<1>4. ASSUME NEW w \in Worker, NEW r, row' = [row EXCEPT ![job[w]] = r]
      PROVE  job[w] = t
  BY <1>4, SMT
<1>5. ASSUME NEW w \in Worker,
             Close(w) \/ Fail(w) \/ Reject(w) \/ Start(w) \/ Progress(w) \/ SaveResult(w)
      PROVE  InHand(t)
  <2>1. job[w] = t
    BY <1>4, <1>5, Zenon DEF Close, Fail, Reject, Start, Progress, SaveResult, Save
  <2>2. pc[w] \in AliveAt
    BY <1>5, Zenon DEF Close, Fail, Reject, Start, Progress, SaveResult, AliveAt
  <2> QED BY <2>1, <2>2, Zenon DEF InHand
<1>6. ASSUME NEW w \in Worker, LogProgress(w)
      PROVE  InHand(t)
  <2>1. job[w] = t
    BY <1>4, <1>6, Zenon DEF LogProgress, Save
  <2>2. engine[w] \in {"starting"} \cup Planning
    BY <1>6, Zenon DEF LogProgress
  <2> QED BY <2>1, <2>2, Zenon DEF InHand
<1>7. ASSUME NEW w \in Worker,
             Beat(w) \/ Enter(w) \/ Pick(w) \/ Reread(w) \/ Read(w) \/ CommandEnds(w)
             \/ DatasetEnds(w) \/ EngineReturns(w) \/ EngineWelcome(w) \/ ReadProgress(w)
             \/ EngineEnds(w) \/ OrphanEnds(w) \/ Crash(w)
      PROVE  FALSE
  BY <1>7, Zenon DEF Beat, Enter, Pick, Reread, Read, CommandEnds, DatasetEnds, EngineReturns,
     EngineWelcome, ReadProgress, EngineEnds, OrphanEnds, Crash, queue
<1>8. ~Lapse
  BY Zenon DEF Lapse, queue
<1>9. ASSUME NEW w \in Worker, Beat(w) \/ WorkerStep(w) \/ Engine(w) \/ Crash(w)
      PROVE  InHand(t)
  BY <1>5, <1>6, <1>7, <1>9, Zenon DEF WorkerStep, Command, Engine
<1>10. ASSUME NEW u \in Task, Submit(u) \/ Request(u) \/ CancelRead(u)
       PROVE  \/ row[t].status = "absent"
              \/ cancel[t].stage = "save" /\ cancel[t].copy.status \notin Final
  BY <1>1, <1>2, <1>3, <1>10, Zenon DEF Request
<1> QED BY <1>8, <1>9, <1>10, Zenon DEF Next

(* The result of a task that neither a living worker nor an engine has in  *)
(* hand is written over only by a request to cancel it that was accepted   *)
(* before it came to its end.                                              *)
THEOREM ResultStandsCorrect == Spec => ResultStands
<1> DEFINE Stands ==
      \A t \in Task :
        row[t].status \in {"Done", "Failed"} /\ ~InHand(t) =>
          \/ row'[t] = row[t]
          \/ cancel[t].stage = "save" /\ cancel[t].copy.status \notin Final
<1>1. CopiesInv /\ [Next]_vars => [Stands]_vars
  <2> SUFFICES ASSUME CopiesInv, Next PROVE Stands
    BY Zenon
  <2> TAKE t \in Task
  <2> HAVE row[t].status \in {"Done", "Failed"} /\ ~InHand(t)
  <2>1. row[t].status # "absent"
    OBVIOUS
  <2> QED BY <2>1, NextWritesRow, Zenon
<1> QED BY <1>1, CopiesCorrect, PTL DEF Spec, ResultStands
=============================================================================

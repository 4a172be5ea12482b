--------------------------- MODULE ThreadGroupProofs ---------------------------
(***************************************************************************)
(* Proofs about the worker pool, for any number of cores and callables, on *)
(* either platform and with or without refused threads and failed waits:   *)
(* the state is well typed, no callable is executed twice, a normal return *)
(* of execute() means that all of them were, and no worker leaves a Python *)
(* thread state behind.                                                    *)
(***************************************************************************)
EXTENDS ThreadGroup, TLAPS

USE CoresAssumption, CallablesAssumption, PlatformAssumption
USE DEF Callable, Slot, Main, Thread, NoCallable, MainState, WrapperState, setup, Alive

(* Every variable keeps its type through every step of the caller and of   *)
(* the workers.                                                            *)
LEMMA TypeStep == TypeOK /\ [Next]_vars => TypeOK'
<1> SUFFICES ASSUME TypeOK, [Next]_vars PROVE TypeOK'
  OBVIOUS
<1> USE DEF TypeOK
<1>1. CASE Add
  BY <1>1 DEF Add
<1>2. ASSUME NEW b \in 1..Cores, SetMaxParallel(b) PROVE TypeOK'
  BY <1>2 DEF SetMaxParallel
<1>3. CASE ExecuteInline
  BY <1>3 DEF ExecuteInline
<1>4. CASE InlineDone
  BY <1>4 DEF InlineDone
<1>5. CASE ExecuteParallel
  BY <1>5 DEF ExecuteParallel
<1>6. CASE CreateThread
  BY <1>6 DEF CreateThread
<1>7. CASE CreateFails
  BY <1>7 DEF CreateFails
<1>8. CASE AllSlotsTried
  BY <1>8 DEF AllSlotsTried
<1>9. CASE JoinThread
  BY <1>9 DEF JoinThread
<1>10. CASE JoinUninitialised
  BY <1>10 DEF JoinUninitialised
<1>11. CASE JoinDone
  BY <1>11 DEF JoinDone
<1>12. CASE WaitFails
  BY <1>12 DEF WaitFails
<1>13. ASSUME NEW t \in Thread, WrapperInit(t) PROVE TypeOK'
  BY <1>13 DEF WrapperInit
<1>14. ASSUME NEW t \in Thread, SelectNextCallable(t) PROVE TypeOK'
  <2>1. CASE countCallables = 0
    <3>1. /\ pc' = [pc EXCEPT ![t] = "finish"]
          /\ callable' = [callable EXCEPT ![t] = NoCallable]
          /\ UNCHANGED countCallables
          /\ UNCHANGED <<setup, numthreads, main, worker, created, threaded, pythonState, executed>>
      BY <1>14, <2>1 DEF SelectNextCallable
    <3> QED
      BY <3>1
  <2>2. CASE countCallables # 0
    <3>1. /\ pc' = [pc EXCEPT ![t] = "run"]
          /\ callable' = [callable EXCEPT ![t] = countCallables]
          /\ countCallables' = countCallables - 1
          /\ UNCHANGED <<setup, numthreads, main, worker, created, threaded, pythonState, executed>>
      BY <1>14, <2>2 DEF SelectNextCallable
    <3>2. countCallables \in 1..MaxCallables /\ countCallables' \in 0..registered
      BY <2>2, <3>1
    <3> QED
      BY <3>1, <3>2
  <2> QED
    BY <2>1, <2>2
<1>15. ASSUME NEW t \in Thread, RunCallable(t) PROVE TypeOK'
  <2>1. executed' = [c \in Callable |->
                      IF c = callable[t] THEN executed[c] + 1 ELSE executed[c]]
    BY <1>15, Zenon DEF RunCallable
  <2>2. executed' \in [Callable -> Nat]
    BY <2>1
  <2> QED
    BY <1>15, <2>2 DEF RunCallable
<1>16. ASSUME NEW t \in Thread, WrapperFinish(t) PROVE TypeOK'
  BY <1>16 DEF WrapperFinish
<1>17. CASE UNCHANGED vars
  BY <1>17 DEF vars
<1> HIDE DEF TypeOK
<1> QED
  BY <1>1, <1>2, <1>3, <1>4, <1>5, <1>6, <1>7, <1>8, <1>9, <1>10, <1>11, <1>12,
     <1>13, <1>14, <1>15, <1>16, <1>17 DEF Next, Register, Execute, Wrapper

(* The state of the pool is well typed at every moment. *)
THEOREM TypeCorrect == Spec => []TypeOK
<1>1. Init => TypeOK
  BY DEF Init, TypeOK
<1> QED
  BY <1>1, TypeStep, PTL DEF Spec
(* Two running threads that hold the same callable are one thread. *)
LEMMA Exclusive ==
  ASSUME AtMostOnce,
         NEW t \in Thread, pc[t] = "run",
         NEW u \in Thread, pc[u] = "run", callable[u] = callable[t]
  PROVE  u = t
BY DEF AtMostOnce

(* A step that executes nothing and hands out nothing keeps AtMostOnce. *)
LEMMA NothingTaken ==
  ASSUME AtMostOnce, UNCHANGED executed,
         \A t \in Thread : pc'[t] = "run" => pc[t] = "run" /\ callable'[t] = callable[t]
  PROVE  AtMostOnce'
<1>1. \A c \in Callable : executed'[c] <= 1
  BY DEF AtMostOnce
<1>2. ASSUME NEW t \in Thread, pc'[t] = "run"
      PROVE  executed'[callable'[t]] = 0
  BY <1>2 DEF AtMostOnce
<1>3. ASSUME NEW t \in Thread, pc'[t] = "run",
             NEW u \in Thread, pc'[u] = "run", callable'[u] = callable'[t]
      PROVE  u = t
  BY <1>3, Exclusive
<1> QED
  BY <1>1, <1>2, <1>3 DEF AtMostOnce

(* The thread that calls its callable was the only one that held it.       *)
LEMMA RunAccounts ==
  ASSUME TypeOK, Accounting, NEW t \in Thread, RunCallable(t)
  PROVE  Accounting'
<1> DEFINE c0 == callable[t]
<1>1. /\ pc[t] = "run"
      /\ executed' = [executed EXCEPT ![c0] = @ + 1]
      /\ callable' = [callable EXCEPT ![t] = NoCallable]
      /\ pc' = [pc EXCEPT ![t] = "select"]
      /\ UNCHANGED <<registered, countCallables>>
  BY DEF RunCallable
<1>2. /\ AtMostOnce
      /\ registered \in 0..MaxCallables /\ countCallables \in 0..registered
      /\ executed \in [Callable -> Nat]
      /\ pc \in [Thread -> WrapperState] /\ callable \in [Thread -> 0..MaxCallables]
  BY DEF TypeOK, Accounting
<1>3. \A u \in Thread : pc[u] = "run" =>
        /\ callable[u] \in (countCallables + 1)..registered
        /\ callable[u] \in Callable
        /\ executed[callable[u]] = 0
  <2> SUFFICES ASSUME NEW u \in Thread, pc[u] = "run"
               PROVE  /\ callable[u] \in (countCallables + 1)..registered
                      /\ callable[u] \in Callable
                      /\ executed[callable[u]] = 0
    OBVIOUS
  <2>1. callable[u] \in (countCallables + 1)..registered
    BY DEF Accounting
  <2>2. executed[callable[u]] = 0
    BY <1>2 DEF AtMostOnce
  <2> QED
    BY <1>2, <2>1, <2>2
<1>4. c0 \in Callable /\ c0 \in (countCallables + 1)..registered /\ executed[c0] = 0
  BY <1>1, <1>3
<1>5. executed'[c0] = 1 /\ \A c \in Callable : c # c0 => executed'[c] = executed[c]
  BY <1>1, <1>2, <1>4
<1>6. ASSUME NEW u \in Thread, pc'[u] = "run"
      PROVE  u # t /\ pc[u] = "run" /\ callable'[u] = callable[u] /\ callable[u] # c0
  <2>1. u # t /\ pc[u] = "run" /\ callable'[u] = callable[u]
    BY <1>1, <1>2, <1>6
  <2> QED
    BY <1>1, <1>2, <2>1, Exclusive
<1>7. AtMostOnce'
  <2>1. ASSUME NEW c \in Callable PROVE executed'[c] <= 1
    <3>1. executed[c] <= 1
      BY <1>2 DEF AtMostOnce
    <3> QED
      BY <1>5, <3>1
  <2>2. ASSUME NEW u \in Thread, pc'[u] = "run" PROVE executed'[callable'[u]] = 0
    BY <1>3, <1>5, <1>6, <2>2
  <2>3. ASSUME NEW u \in Thread, pc'[u] = "run",
               NEW v \in Thread, pc'[v] = "run", callable'[v] = callable'[u]
        PROVE  v = u
    <3>1. pc[u] = "run" /\ pc[v] = "run" /\ callable[v] = callable[u]
      BY <1>6, <2>3
    <3> QED
      BY <1>2, <3>1, Exclusive
  <2> QED
    BY <2>1, <2>2, <2>3 DEF AtMostOnce
<1>8. ASSUME NEW c \in 1..countCallables' PROVE executed'[c] = 0
  <2>1. c \in Callable /\ c # c0 /\ executed[c] = 0
    BY <1>1, <1>2, <1>4 DEF Accounting
  <2> QED
    BY <1>5, <2>1
<1>9. ASSUME NEW u \in Thread, pc'[u] = "run"
      PROVE  callable'[u] \in (countCallables' + 1)..registered'
  BY <1>1, <1>3, <1>6, <1>9
<1>10. ASSUME NEW c \in (countCallables' + 1)..registered'
       PROVE  executed'[c] = 1 \/ \E u \in Thread : pc'[u] = "run" /\ callable'[u] = c
  <2>1. c \in (countCallables + 1)..registered /\ c \in Callable
    BY <1>1, <1>2
  <2>2. CASE c = c0
    BY <1>5, <2>2
  <2>3. CASE c # c0 /\ executed[c] = 1
    BY <1>5, <2>1, <2>3
  <2>4. ASSUME c # c0, NEW u \in Thread, pc[u] = "run", callable[u] = c
        PROVE  pc'[u] = "run" /\ callable'[u] = c
    <3>1. u # t
      BY <2>4
    <3> QED
      BY <1>1, <1>2, <2>4, <3>1
  <2> QED
    BY <2>1, <2>2, <2>3, <2>4 DEF Accounting
<1>11. ASSUME NEW c \in (registered' + 1)..MaxCallables PROVE executed'[c] = 0
  <2>1. c \in Callable /\ c # c0 /\ executed[c] = 0
    BY <1>1, <1>2, <1>4 DEF Accounting
  <2> QED
    BY <1>5, <2>1
<1> QED
  BY <1>7, <1>8, <1>9, <1>10, <1>11 DEF Accounting

(* Whatever a step does, a callable that left the stack is executed, or in *)
(* the hands of the one thread that took it.                               *)
LEMMA AccountingStep ==
  TypeOK /\ TypeOK' /\ Accounting /\ Phases /\ [Next]_vars => Accounting'
<1> SUFFICES ASSUME TypeOK, TypeOK', Accounting, Phases, [Next]_vars PROVE Accounting'
  OBVIOUS
<1> USE DEF TypeOK, Accounting, AtMostOnce, Phases
<1>1. CASE Add
  BY <1>1 DEF Add
<1>2. ASSUME NEW b \in 1..Cores, SetMaxParallel(b) PROVE Accounting'
  BY <1>2 DEF SetMaxParallel
<1>3. CASE ExecuteInline
  BY <1>3 DEF ExecuteInline
<1>4. CASE InlineDone
  BY <1>4 DEF InlineDone
<1>5. CASE ExecuteParallel
  BY <1>5 DEF ExecuteParallel
<1>6. CASE CreateThread
  BY <1>6 DEF CreateThread
<1>7. CASE CreateFails
  BY <1>7 DEF CreateFails
<1>8. CASE AllSlotsTried
  BY <1>8 DEF AllSlotsTried
<1>9. CASE JoinThread
  BY <1>9 DEF JoinThread
<1>10. CASE JoinUninitialised
  BY <1>10 DEF JoinUninitialised
<1>11. CASE JoinDone
  BY <1>11 DEF JoinDone
<1>12. CASE WaitFails
  BY <1>12 DEF WaitFails
<1>13. ASSUME NEW t \in Thread, WrapperInit(t) PROVE Accounting'
  BY <1>13 DEF WrapperInit
<1>14. ASSUME NEW t \in Thread, SelectNextCallable(t) PROVE Accounting'
  <2>1. CASE countCallables = 0
    <3>1. /\ pc' = [pc EXCEPT ![t] = "finish"]
          /\ callable' = [callable EXCEPT ![t] = NoCallable]
          /\ pc[t] = "select"
          /\ UNCHANGED <<registered, countCallables, executed>>
      BY <1>14, <2>1 DEF SelectNextCallable
    <3>2. \A u \in Thread : u # t => pc'[u] = pc[u] /\ callable'[u] = callable[u]
      BY <3>1
    <3>3. \A u \in Thread : pc'[u] = "run" <=> pc[u] = "run"
      BY <3>1
    <3>4. \A u \in Thread : pc[u] = "run" => callable'[u] = callable[u]
      BY <3>1, <3>2
    <3>5. AtMostOnce'
      BY <3>1, <3>3, <3>4, NothingTaken
    <3>6. ASSUME NEW c \in (countCallables' + 1)..registered'
          PROVE  executed'[c] = 1 \/ \E u \in Thread : pc'[u] = "run" /\ callable'[u] = c
      BY <3>1, <3>3, <3>4
    <3> QED
      BY <3>1, <3>3, <3>4, <3>5, <3>6
  <2>2. CASE countCallables # 0
    <3>1. /\ pc' = [pc EXCEPT ![t] = "run"]
          /\ callable' = [callable EXCEPT ![t] = countCallables]
          /\ countCallables' = countCallables - 1
          /\ pc[t] = "select"
          /\ UNCHANGED <<registered, executed>>
          /\ countCallables \in 1..registered
      BY <1>14, <2>2 DEF SelectNextCallable
    <3>2. \A u \in Thread : pc'[u] = "run" =>
            \/ u = t /\ callable'[u] = countCallables
            \/ u # t /\ pc[u] = "run" /\ callable'[u] = callable[u]
                     /\ callable[u] > countCallables
      BY <3>1
    <3>3. \A c \in 1..countCallables' : executed'[c] = 0
      BY <3>1
    <3>4. \A u \in Thread : pc'[u] = "run" =>
             callable'[u] \in (countCallables' + 1)..registered'
      BY <3>1
    <3>5. ASSUME NEW c \in (countCallables' + 1)..registered'
          PROVE  executed'[c] = 1 \/ \E u \in Thread : pc'[u] = "run" /\ callable'[u] = c
      <4>1. CASE c = countCallables
        BY <3>1, <4>1
      <4>2. CASE c \in (countCallables + 1)..registered
        <5>1. CASE executed[c] = 1
          BY <3>1, <5>1
        <5>2. ASSUME NEW u \in Thread, pc[u] = "run", callable[u] = c
              PROVE  pc'[u] = "run" /\ callable'[u] = c
          BY <3>1, <5>2
        <5> QED
          BY <4>2, <5>1, <5>2
      <4> QED
        BY <3>1, <4>1, <4>2
    <3>6. \A c \in (registered' + 1)..MaxCallables : executed'[c] = 0
      BY <3>1
    <3>7. executed[countCallables] = 0
      BY <3>1
    <3>8. \A c \in Callable : executed'[c] <= 1
      BY <3>1
    <3>9. \A u \in Thread : pc'[u] = "run" => executed'[callable'[u]] = 0
      BY <3>1, <3>2, <3>7
    <3>10. ASSUME NEW u \in Thread, pc'[u] = "run",
                  NEW v \in Thread, pc'[v] = "run", callable'[v] = callable'[u]
           PROVE  v = u
      <4>1. CASE u = t /\ v = t
        BY <4>1
      <4>2. CASE u # t /\ v # t
        <5>1. /\ pc[u] = "run" /\ pc[v] = "run" /\ callable[v] = callable[u]
          BY <3>2, <3>10, <4>2
        <5> QED
          BY <5>1, Exclusive
      <4>3. CASE (u = t /\ v # t) \/ (u # t /\ v = t)
        <5>1. \A w \in Thread : w # t /\ pc'[w] = "run" => callable'[w] # countCallables
          <6> SUFFICES ASSUME NEW w \in Thread, w # t, pc'[w] = "run"
                       PROVE  callable'[w] # countCallables
            OBVIOUS
          <6>1. callable'[w] > countCallables
            BY <3>2
          <6> QED
            BY <6>1
        <5>2. callable'[t] = countCallables
          BY <3>1
        <5> QED
          BY <3>10, <4>3, <5>1, <5>2
      <4> QED
        BY <4>1, <4>2, <4>3
    <3>11. AtMostOnce'
      BY <3>8, <3>9, <3>10
    <3> QED
      BY <3>3, <3>4, <3>5, <3>6, <3>11
  <2> QED
    BY <2>1, <2>2
<1>15. ASSUME NEW t \in Thread, RunCallable(t) PROVE Accounting'
  BY <1>15, RunAccounts
<1>16. ASSUME NEW t \in Thread, WrapperFinish(t) PROVE Accounting'
  BY <1>16 DEF WrapperFinish
<1>17. CASE UNCHANGED vars
  BY <1>17 DEF vars
<1> HIDE DEF TypeOK, Accounting, AtMostOnce, Phases
<1> QED
  BY <1>1, <1>2, <1>3, <1>4, <1>5, <1>6, <1>7, <1>8, <1>9, <1>10, <1>11, <1>12,
     <1>13, <1>14, <1>15, <1>16, <1>17 DEF Next, Register, Execute, Wrapper

(* A step of a running worker leaves the caller where it is.               *)
LEMMA WorkerPhases ==
  ASSUME TypeOK, Phases, NEW t \in Thread, Wrapper(t)
  PROVE  Phases'
<1>1. PICK next \in {"select", "run", "finish", "exit"} :
        /\ pc' = [pc EXCEPT ![t] = next]
        /\ next = "finish" => countCallables' = 0
        /\ next = "exit" => pc[t] = "finish" /\ countCallables' = countCallables
  <2>1. ASSUME SelectNextCallable(t), countCallables # 0
        PROVE  pc' = [pc EXCEPT ![t] = "run"]
    BY <2>1 DEF SelectNextCallable
  <2>2. ASSUME SelectNextCallable(t), countCallables = 0
        PROVE  pc' = [pc EXCEPT ![t] = "finish"] /\ countCallables' = 0
    BY <2>2 DEF SelectNextCallable
  <2>3. ASSUME WrapperInit(t) \/ RunCallable(t)
        PROVE  pc' = [pc EXCEPT ![t] = "select"]
    BY <2>3 DEF WrapperInit, RunCallable
  <2>4. ASSUME WrapperFinish(t)
        PROVE  /\ pc' = [pc EXCEPT ![t] = "exit"] /\ pc[t] = "finish"
               /\ countCallables' = countCallables
    BY <2>4 DEF WrapperFinish
  <2> QED
    BY <2>1, <2>2, <2>3, <2>4 DEF Wrapper
<1>2. /\ pc[t] \in {"init", "select", "run", "finish"}
      /\ UNCHANGED <<setup, numthreads, main, worker, created>>
      /\ countCallables = 0 => countCallables' = 0
  BY DEF Wrapper, WrapperInit, SelectNextCallable, RunCallable, WrapperFinish
<1>3. pc' \in [Thread -> WrapperState] /\ \A u \in Thread : u # t => pc'[u] = pc[u]
  BY <1>1 DEF TypeOK
<1>4. pc'[t] = next
  BY <1>1 DEF TypeOK
<1>5. main \notin {"start", "returned", "raised"}
  BY <1>2 DEF Phases
<1>6. ASSUME NEW u \in Thread, pc'[u] \in {"finish", "exit"} PROVE countCallables' = 0
  <2>1. CASE u = t
    BY <1>1, <1>2, <1>4, <1>6, <2>1 DEF Phases
  <2>2. CASE u # t
    BY <1>2, <1>3, <1>6, <2>2 DEF Phases
  <2> QED
    BY <2>1, <2>2
<1>7. ASSUME NEW s \in Slot PROVE pc'[s] = "none" <=> s \notin created'
  <2>1. CASE s = t
    BY <1>2, <1>4, <2>1 DEF Phases
  <2>2. CASE s # t
    BY <1>2, <1>3, <2>2 DEF Phases
  <2> QED
    BY <2>1, <2>2
<1>8. pc'[Main] # "none" <=> pc[Main] # "none"
  BY <1>2, <1>3, <1>4
<1>9. ASSUME NEW s \in created, pc[s] = "exit" PROVE pc'[s] = "exit"
  BY <1>2, <1>3, <1>9 DEF TypeOK
<1>10. created \subseteq Slot
  BY DEF TypeOK
<1> QED
  BY <1>2, <1>5, <1>6, <1>7, <1>8, <1>9, <1>10 DEF Phases

(* The positions of the caller and of the workers stay consistent with the *)
(* stack: who left wrapper() saw it empty, and a caller that waits has     *)
(* created at least the first worker.                                      *)
LEMMA PhasesStep ==
  TypeOK /\ TypeOK' /\ Accounting /\ Phases /\ [Next]_vars => Phases'
<1> SUFFICES ASSUME TypeOK, TypeOK', Accounting, Phases, [Next]_vars PROVE Phases'
  OBVIOUS
<1> USE DEF TypeOK, Accounting, AtMostOnce, Phases
<1>1. CASE Add
  BY <1>1 DEF Add
<1>2. ASSUME NEW b \in 1..Cores, SetMaxParallel(b) PROVE Phases'
  BY <1>2 DEF SetMaxParallel
<1>3. CASE ExecuteInline
  BY <1>3 DEF ExecuteInline
<1>4. CASE InlineDone
  BY <1>4 DEF InlineDone
<1>5. CASE ExecuteParallel
  BY <1>5 DEF ExecuteParallel
<1>6. CASE CreateThread
  BY <1>6 DEF CreateThread
<1>7. CASE CreateFails
  <2>1. CASE worker > 0 /\ worker' = worker + 1 /\ UNCHANGED main
    <3>1. created \subseteq 0..(worker' - 1)
      BY <2>1, <1>7 DEF CreateFails
    <3> QED
      BY <2>1, <3>1, <1>7 DEF CreateFails
  <2>2. CASE main' = "raised"
    BY <2>2, <1>7 DEF CreateFails
  <2>3. CASE worker > 0 /\ main' = "join" /\ platform = "windows"
    BY <2>3, <1>7 DEF CreateFails
  <2> QED
    BY <2>1, <2>2, <2>3, <1>7 DEF CreateFails
<1>8. CASE AllSlotsTried
  <2>1. worker > 0 /\ 0 \in created
    BY <1>8 DEF AllSlotsTried
  <2>2. \A s \in created : s < worker
    BY <1>8 DEF AllSlotsTried
  <2>3. /\ main' = "join" /\ main = "create"
        /\ UNCHANGED <<registered, countCallables, worker, numthreads, created, pc>>
    BY <1>8 DEF AllSlotsTried
  <2> QED
    BY <2>1, <2>2, <2>3
<1>9. CASE JoinThread
  <2>1. /\ main = "join" /\ UNCHANGED <<platform, registered, countCallables, main, numthreads, created, pc>>
        /\ pc[worker - 1] = "exit" /\ worker' = worker - 1
    BY <1>9 DEF JoinThread
  <2>2. ASSUME NEW s \in created, s >= worker', platform = "pthread"
        PROVE  pc'[s] = "exit"
    <3>1. s = worker - 1 \/ s >= worker
      BY <2>1, <2>2
    <3> QED
      BY <2>1, <2>2, <3>1
  <2> QED
    BY <2>1, <2>2
<1>10. CASE JoinUninitialised
  BY <1>10 DEF JoinUninitialised
<1>11. CASE JoinDone
  BY <1>11 DEF JoinDone
<1>12. CASE WaitFails
  BY <1>12 DEF WaitFails
<1>13. ASSUME NEW t \in Thread, Wrapper(t) PROVE Phases'
  BY <1>13, WorkerPhases
<1>17. CASE UNCHANGED vars
  BY <1>17 DEF vars
<1> HIDE DEF TypeOK, Accounting, AtMostOnce, Phases
<1> QED
  BY <1>1, <1>2, <1>3, <1>4, <1>5, <1>6, <1>7, <1>8, <1>9, <1>10, <1>11, <1>12,
     <1>13, <1>17 DEF Next, Register, Execute

(* Types, accounting and phases together are inductive. *)
LEMMA Invariance == Spec => [](TypeOK /\ Accounting /\ Phases)
<1>1. Init => TypeOK /\ Accounting /\ Phases
  BY DEF Init, TypeOK, Accounting, AtMostOnce, Phases
<1>2. TypeOK /\ Accounting /\ Phases /\ [Next]_vars => (TypeOK /\ Accounting /\ Phases)'
  BY TypeStep, AccountingStep, PhasesStep
<1> QED
  BY <1>1, <1>2, PTL DEF Spec

(* The Python states change only where a thread enters and leaves          *)
(* wrapper(): the flag it evaluates when it enters is the one it uses when *)
(* it leaves.                                                              *)
LEMMA PythonStep ==
  TypeOK /\ Phases /\ PythonStates /\ [Next]_vars => PythonStates'
<1> SUFFICES ASSUME TypeOK, Phases, PythonStates, [Next]_vars PROVE PythonStates'
  OBVIOUS
<1> USE DEF TypeOK, PythonStates
<1>1. CASE Add \/ \E b \in 1..Cores : SetMaxParallel(b)
  BY <1>1 DEF Add, SetMaxParallel
<1>2. CASE ExecuteInline
  BY <1>2 DEF ExecuteInline
<1>3. CASE CreateThread
  <2>1. /\ pc' = [pc EXCEPT ![worker] = "init"] /\ worker \in Slot /\ pc[worker] = "none"
        /\ UNCHANGED <<maxParallel, countCallables, main, threaded, pythonState>>
    BY <1>3 DEF CreateThread, Phases
  <2> QED
    BY <2>1
<1>4. CASE \/ InlineDone \/ ExecuteParallel \/ CreateFails \/ AllSlotsTried
           \/ JoinThread \/ JoinUninitialised \/ JoinDone \/ WaitFails
  <2>1. UNCHANGED <<maxParallel, countCallables, pc, threaded, pythonState>> /\ main' # "inline"
    BY <1>4 DEF InlineDone, ExecuteParallel, CreateFails, AllSlotsTried, JoinThread,
                JoinUninitialised, JoinDone, WaitFails
  <2> QED
    BY <2>1
<1>5. ASSUME NEW t \in Thread, WrapperInit(t) PROVE PythonStates'
  <2>1. /\ pc' = [pc EXCEPT ![t] = "select"] /\ pc[t] = "init"
        /\ threaded' = [threaded EXCEPT ![t] = maxParallel > 1 /\ countCallables > 1]
        /\ pythonState' = IF threaded'[t] THEN pythonState \cup {t} ELSE pythonState
        /\ UNCHANGED <<maxParallel, countCallables, main>>
    BY <1>5 DEF WrapperInit
  <2>2. t = Main => ~(maxParallel > 1 /\ countCallables > 1)
    BY <2>1 DEF Phases
  <2>3. threaded'[t] <=> maxParallel > 1 /\ countCallables > 1
    BY <2>1
  <2>4. \A u \in Thread : u # t => pc'[u] = pc[u] /\ threaded'[u] = threaded[u]
    BY <2>1
  <2>5. pc'[t] = "select"
    BY <2>1
  <2>6. t \notin pythonState \/ t = Main
    BY <2>1 DEF Thread
  <2>7. ASSUME NEW s \in Slot
        PROVE  s \in pythonState'
                 <=> pc'[s] \in {"select", "run", "finish"} /\ threaded'[s]
    <3>1. s \in Thread
      BY DEF Thread
    <3>2. CASE s = t
      <4>1. t \notin pythonState
        BY <2>1, <3>2
      <4> QED
        BY <2>1, <2>5, <3>2, <4>1
    <3>3. CASE s # t
      BY <2>1, <2>4, <3>1, <3>3
    <3> QED
      BY <3>2, <3>3
  <2>8. /\ Main \in pythonState'
        /\ pc'[Main] \in {"select", "run", "finish"} => ~threaded'[Main]
    <3>1. Main \in Thread
      BY DEF Thread
    <3> QED
      BY <2>1, <2>2, <2>3, <2>4, <3>1
  <2> QED
    BY <2>1, <2>7, <2>8
<1>6. ASSUME NEW t \in Thread, SelectNextCallable(t) PROVE PythonStates'
  <2>1. /\ pc' = [pc EXCEPT ![t] = "finish"] \/ pc' = [pc EXCEPT ![t] = "run"]
        /\ pc[t] = "select" /\ countCallables' <= countCallables
        /\ UNCHANGED <<maxParallel, main, threaded, pythonState>>
    BY <1>6 DEF SelectNextCallable
  <2>2. \A u \in Thread : pc'[u] \in {"select", "run", "finish"}
                            <=> pc[u] \in {"select", "run", "finish"}
    BY <2>1
  <2>3. Main \in Thread /\ Slot \subseteq Thread
    BY DEF Thread
  <2>4. maxParallel <= 1 \/ countCallables <= 1 => maxParallel' <= 1 \/ countCallables' <= 1
    <3>1. countCallables \in Int /\ countCallables' \in Int
      BY <1>6 DEF SelectNextCallable
    <3> QED
      BY <2>1, <3>1
  <2> HIDE DEF TypeOK
  <2> QED
    BY <2>1, <2>2, <2>3, <2>4
<1>7. ASSUME NEW t \in Thread, RunCallable(t) PROVE PythonStates'
  BY <1>7 DEF RunCallable
<1>8. ASSUME NEW t \in Thread, WrapperFinish(t) PROVE PythonStates'
  <2>1. /\ pc' = [pc EXCEPT ![t] = "exit"] /\ pc[t] = "finish"
        /\ pythonState' = IF threaded[t] THEN pythonState \ {t} ELSE pythonState
        /\ UNCHANGED <<maxParallel, countCallables, main, threaded>>
    BY <1>8 DEF WrapperFinish
  <2> QED
    BY <2>1
<1>9. CASE UNCHANGED vars
  BY <1>9 DEF vars
<1> HIDE DEF TypeOK, PythonStates
<1> QED
  BY <1>1, <1>2, <1>3, <1>4, <1>5, <1>6, <1>7, <1>8, <1>9
  DEF Next, Register, Execute, Wrapper

LEMMA PythonInvariance == Spec => []PythonStates
<1>1. Init => PythonStates
  BY DEF Init, PythonStates
<1> QED
  BY <1>1, PythonStep, Invariance, PTL DEF Spec

(* The account of callables and the phases hold in every run of the pool:  *)
(* callables leave the stack one by one into the hands of one worker, and  *)
(* workers leave their loop only when it is empty.                         *)
THEOREM Inductive == Spec => []PoolInv
<1>1. TypeOK /\ Accounting /\ Phases /\ PythonStates => PoolInv
  BY DEF PoolInv
<1> QED
  BY <1>1, Invariance, PythonInvariance, PTL

(* No callable is executed twice, and each that left the stack is in one   *)
(* pair of hands: the caller and the workers take callables one by one     *)
(* under the lock, and nothing puts one back.                              *)
THEOREM PlannedAtMostOnce == Spec => []AtMostOnce
<1>1. Accounting => AtMostOnce
  BY DEF Accounting
<1> QED
  BY <1>1, Invariance, PTL

(* A normal return means that the stack is empty and that no thread still  *)
(* holds a callable, so each of them has been executed.                    *)
THEOREM ReturnIsComplete == Spec => []ReturnedMeansDone
<1>1. ASSUME TypeOK, Accounting, Phases, main = "returned",
             NEW c \in 1..registered
      PROVE  executed[c] = 1
  <2>1. countCallables = 0 /\ \A t \in Thread : pc[t] # "run"
    BY <1>1 DEF TypeOK, Phases
  <2>2. c \in (countCallables + 1)..registered
    BY <2>1
  <2> QED
    BY <1>1, <2>1, <2>2 DEF Accounting
<1>2. TypeOK /\ Accounting /\ Phases => ReturnedMeansDone
  BY <1>1 DEF ReturnedMeansDone
<1> QED
  BY <1>2, Invariance, PTL

(* execute() returns, or gives up because it got no thread, only when no   *)
(* thread uses the group: it raises before the first thread exists, and    *)
(* returns after it has seen every one of them leave wrapper().            *)
THEOREM GroupOutlives == Spec => []GroupOutlivesThreads
<1>1. Phases => GroupOutlivesThreads
  BY DEF Phases, GroupOutlivesThreads
<1> QED
  BY <1>1, Invariance, PTL

(* A worker takes its own Python thread state away with it, and the one of *)
(* the caller is never taken, however late a worker evaluates its flag.    *)
THEOREM PythonReleased == Spec => []PythonStateReleased
<1>1. PythonStates => PythonStateReleased
  BY DEF PythonStates, PythonStateReleased
<1> QED
  BY <1>1, PythonInvariance, PTL
=============================================================================

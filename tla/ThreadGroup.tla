------------------------------ MODULE ThreadGroup ------------------------------
(***************************************************************************)
(* The worker pool of the planning engine (src/utils/actions.cpp, class    *)
(* ThreadGroup in include/frepple/utils.h).  The MRP solver registers one  *)
(* callable per cluster and calls execute(): either the calling thread     *)
(* runs all of them, or a bounded number of OS threads is created, which   *)
(* empty a shared stack of callables, and the caller joins them.           *)
(*                                                                         *)
(* The callables are numbered in the order of add(), at most MaxCallables  *)
(* of them; the stack and its counter change together under the lock, so   *)
(* one number stands for both: the stack holds 1..countCallables, its top  *)
(* last.                                                                   *)
(***************************************************************************)
EXTENDS Integers

CONSTANTS
  Cores,          (* processor cores: the initial value of maxParallel     *)
  MaxCallables,   (* bound on the callables registered with add()          *)
  Platforms,      (* the branches of HAVE_PTHREAD_H that are considered    *)
  CreateMayFail,  (* whether the operating system may refuse a thread      *)
  WaitMayFail     (* whether waiting for a live thread may report an error *)

ASSUME CoresAssumption == Cores \in Nat \ {0}
ASSUME CallablesAssumption == MaxCallables \in Nat
ASSUME PlatformAssumption == Platforms \subseteq {"pthread", "windows"}
ASSUME FailureAssumption == {CreateMayFail, WaitMayFail} \subseteq BOOLEAN

Callable == 1..MaxCallables
Slot == 0..(Cores - 1)              \* index in the array of thread handles
Main == -1                          \* the thread that calls execute()
Thread == Slot \cup {Main}
NoCallable == 0                     \* the NULL pair of an empty stack

VARIABLES
  platform,        (* which branch was compiled                            *)
  maxParallel,     (* most threads the group may use                       *)
  registered,      (* history: how many callables were add()ed             *)
  countCallables,  (* callables still on the stack                         *)
  numthreads,      (* local variable of execute()                          *)
  main,            (* where the caller is in execute()                     *)
  worker,          (* the loop variable of execute()                       *)
  created,         (* slots whose thread handle was initialised            *)
  pc,              (* where each thread is in wrapper()                    *)
  callable,        (* nextfunc of each thread                              *)
  threaded,        (* local flag of wrapper(): Python state wanted         *)
  pythonState,     (* threads that own a Python thread state               *)
  executed         (* history: how often each callable was called          *)

setup == <<platform, maxParallel, registered>>
vars == <<setup, countCallables, numthreads, main, worker, created, pc, callable,
          threaded, pythonState, executed>>

MainState == {"start", "inline", "create", "join", "returned", "raised", "unjoined",
              "crashed"}
WrapperState == {"none", "init", "select", "run", "finish", "exit"}

Init ==
  /\ platform \in Platforms
  /\ maxParallel = Cores
  /\ registered = 0
  /\ countCallables = 0
  /\ numthreads = 0
  /\ main = "start"
  /\ worker = 0
  /\ created = {}
  /\ pc = [t \in Thread |-> "none"]
  /\ callable = [t \in Thread |-> NoCallable]
  /\ threaded = [t \in Thread |-> FALSE]
  /\ pythonState = {Main}
  /\ executed = [c \in Callable |-> 0]

-----------------------------------------------------------------------------
(* Registration, before execute(). *)

Add ==
  /\ main = "start"
  /\ registered < MaxCallables
  /\ registered' = registered + 1
  /\ countCallables' = countCallables + 1
  /\ UNCHANGED <<platform, maxParallel, numthreads, main, worker, created, pc, callable,
                 threaded, pythonState, executed>>

(* setMaxParallel() refuses a value below 1; the solver passes 1 when it   *)
(* logs or does not commit automatically.                                  *)
SetMaxParallel(b) ==
  /\ main = "start"
  /\ b >= 1
  /\ maxParallel' = b
  /\ UNCHANGED <<platform, registered, countCallables, numthreads, main, worker,
                 created, pc, callable, threaded, pythonState, executed>>

-----------------------------------------------------------------------------
(* ThreadGroup::execute() *)

(* Case 1: a single worker or a single callable needs no thread. *)
ExecuteInline ==
  /\ main = "start"
  /\ maxParallel <= 1 \/ countCallables <= 1
  /\ main' = "inline"
  /\ pc' = [pc EXCEPT ![Main] = "init"]
  /\ UNCHANGED <<setup, countCallables, numthreads, worker, created, callable,
                 threaded, pythonState, executed>>

InlineDone ==
  /\ main = "inline"
  /\ pc[Main] = "exit"
  /\ main' = "returned"
  /\ UNCHANGED <<setup, countCallables, numthreads, worker, created, pc, callable,
                 threaded, pythonState, executed>>

(* Case 2: threads are created one by one. *)
ExecuteParallel ==
  /\ main = "start"
  /\ maxParallel > 1
  /\ countCallables > 1
  /\ numthreads' = IF countCallables > maxParallel THEN maxParallel ELSE countCallables
  /\ main' = "create"
  /\ UNCHANGED <<setup, countCallables, worker, created, pc, callable, threaded,
                 pythonState, executed>>

CreateThread ==
  /\ main = "create"
  /\ worker < numthreads
  /\ created' = created \cup {worker}
  /\ pc' = [pc EXCEPT ![worker] = "init"]
  /\ worker' = worker + 1
  /\ UNCHANGED <<setup, countCallables, numthreads, main, callable, threaded,
                 pythonState, executed>>

(* Variant: any refusal makes execute() throw.                             *)
CreateFailsAlwaysRaises ==
  /\ CreateMayFail
  /\ main = "create"
  /\ worker < numthreads
  /\ main' = "raised"
  /\ UNCHANGED <<setup, countCallables, numthreads, worker, created, pc, callable,
                 threaded, pythonState, executed>>

(* The first refusal makes execute() throw.  A later one is only logged:   *)
(* the Windows branch then leaves the loop, the pthread branch goes on     *)
(* with the next slot and leaves this handle uninitialised.                *)
CreateFails ==
  /\ CreateMayFail
  /\ main = "create"
  /\ worker < numthreads
  /\ \/ worker = 0 /\ main' = "raised" /\ UNCHANGED worker
     \/ worker > 0 /\ platform = "pthread" /\ worker' = worker + 1 /\ UNCHANGED main
     \/ worker > 0 /\ platform = "windows" /\ main' = "join" /\ UNCHANGED worker
  /\ UNCHANGED <<setup, countCallables, numthreads, created, pc, callable, threaded,
                 pythonState, executed>>

AllSlotsTried ==
  /\ main = "create"
  /\ worker = numthreads
  /\ main' = "join"
  /\ UNCHANGED <<setup, countCallables, numthreads, worker, created, pc, callable,
                 threaded, pythonState, executed>>

(* Variant: the caller takes a thread for finished without waiting for it. *)
JoinThreadNoWait ==
  /\ main = "join" /\ platform = "pthread"
  /\ worker - 1 \in created
  /\ worker' = worker - 1
  /\ UNCHANGED <<setup, countCallables, numthreads, main, created, pc, callable,
                 threaded, pythonState, executed>>

(* pthread_join from the last slot down to the first. *)
JoinThread ==
  /\ main = "join" /\ platform = "pthread"
  /\ worker - 1 \in created
  /\ pc[worker - 1] = "exit"
  /\ worker' = worker - 1
  /\ UNCHANGED <<setup, countCallables, numthreads, main, created, pc, callable,
                 threaded, pythonState, executed>>

(* Joining a handle nobody initialised is undefined: the call reports an   *)
(* error, which execute() raises ("unjoined"), or it takes the process     *)
(* down.                                                                   *)
JoinUninitialised ==
  /\ main = "join" /\ platform = "pthread"
  /\ worker > 0 /\ worker - 1 \notin created
  /\ main' \in {"unjoined", "crashed"}
  /\ UNCHANGED <<setup, countCallables, numthreads, worker, created, pc, callable,
                 threaded, pythonState, executed>>

(* Variant: the loop over the handles runs one slot too far.               *)
JoinDoneBelowFirst ==
  /\ main = "join"
  /\ \/ platform = "pthread" /\ worker = -1
     \/ platform = "windows" /\ \A s \in created : pc[s] = "exit"
  /\ main' = "returned"
  /\ UNCHANGED <<setup, countCallables, numthreads, worker, created, pc, callable,
                 threaded, pythonState, executed>>

JoinDone ==
  /\ main = "join"
  /\ \/ platform = "pthread" /\ worker = 0
     \/ platform = "windows" /\ \A s \in created : pc[s] = "exit"
  /\ main' = "returned"
  /\ UNCHANGED <<setup, countCallables, numthreads, worker, created, pc, callable,
                 threaded, pythonState, executed>>

(* pthread_join or WaitForMultipleObjects reports an error, which          *)
(* execute() raises although other threads may still run.                  *)
WaitFails ==
  /\ WaitMayFail
  /\ main = "join"
  /\ platform = "pthread" => worker - 1 \in created
  /\ main' = "unjoined"
  /\ UNCHANGED <<setup, countCallables, numthreads, worker, created, pc, callable,
                 threaded, pythonState, executed>>

-----------------------------------------------------------------------------
(* ThreadGroup::wrapper(), run by every worker or by the caller itself *)

Alive == main # "crashed"

(* The flag reads countCallables without the lock, whatever other workers  *)
(* have taken from the stack before this thread got to run.                *)
WrapperInit(t) ==
  /\ Alive /\ pc[t] = "init"
  /\ threaded' = [threaded EXCEPT ![t] = maxParallel > 1 /\ countCallables > 1]
  /\ pythonState' = IF threaded'[t] THEN pythonState \cup {t} ELSE pythonState
  /\ pc' = [pc EXCEPT ![t] = "select"]
  /\ UNCHANGED <<setup, countCallables, numthreads, main, worker, created, callable,
                 executed>>

(* Variant: the callable is read with top() and stays on the stack.        *)
SelectNextCallableNoPop(t) ==
  /\ Alive /\ pc[t] = "select"
  /\ IF countCallables = 0
     THEN /\ pc' = [pc EXCEPT ![t] = "finish"]
          /\ callable' = [callable EXCEPT ![t] = NoCallable]
          /\ UNCHANGED countCallables
     ELSE /\ pc' = [pc EXCEPT ![t] = "run"]
          /\ callable' = [callable EXCEPT ![t] = countCallables]
          /\ UNCHANGED countCallables
  /\ UNCHANGED <<setup, numthreads, main, worker, created, threaded, pythonState,
                 executed>>

(* Variant: no test for an empty stack. *)
SelectNextCallableUnchecked(t) ==
  /\ Alive /\ pc[t] = "select"
  /\ pc' = [pc EXCEPT ![t] = "run"]
  /\ callable' = [callable EXCEPT ![t] = countCallables]
  /\ countCallables' = countCallables - 1
  /\ UNCHANGED <<setup, numthreads, main, worker, created, threaded, pythonState,
                 executed>>

(* selectNextCallable(), under the lock. *)
SelectNextCallable(t) ==
  /\ Alive /\ pc[t] = "select"
  /\ IF countCallables = 0
     THEN /\ pc' = [pc EXCEPT ![t] = "finish"]
          /\ callable' = [callable EXCEPT ![t] = NoCallable]
          /\ UNCHANGED countCallables
     ELSE /\ pc' = [pc EXCEPT ![t] = "run"]
          /\ callable' = [callable EXCEPT ![t] = countCallables]
          /\ countCallables' = countCallables - 1
  /\ UNCHANGED <<setup, numthreads, main, worker, created, threaded, pythonState,
                 executed>>

(* The call itself.  An exception it throws is logged and dropped, so both *)
(* outcomes continue with the next callable.                               *)
RunCallable(t) ==
  /\ Alive /\ pc[t] = "run"
  /\ executed' = [executed EXCEPT ![callable[t]] = @ + 1]
  /\ callable' = [callable EXCEPT ![t] = NoCallable]
  /\ pc' = [pc EXCEPT ![t] = "select"]
  /\ UNCHANGED <<setup, countCallables, numthreads, main, worker, created, threaded,
                 pythonState>>

(* Variant: the flag is evaluated again instead of being kept. *)
WrapperFinishRecomputed(t) ==
  /\ Alive /\ pc[t] = "finish"
  /\ pythonState' = IF maxParallel > 1 /\ countCallables > 1
                    THEN pythonState \ {t} ELSE pythonState
  /\ pc' = [pc EXCEPT ![t] = "exit"]
  /\ UNCHANGED <<setup, countCallables, numthreads, main, worker, created, callable,
                 threaded, executed>>

WrapperFinish(t) ==
  /\ Alive /\ pc[t] = "finish"
  /\ pythonState' = IF threaded[t] THEN pythonState \ {t} ELSE pythonState
  /\ pc' = [pc EXCEPT ![t] = "exit"]
  /\ UNCHANGED <<setup, countCallables, numthreads, main, worker, created, callable,
                 threaded, executed>>

-----------------------------------------------------------------------------
Register == Add \/ \E b \in 1..Cores : SetMaxParallel(b)

Execute == \/ ExecuteInline \/ InlineDone \/ ExecuteParallel \/ CreateThread
           \/ CreateFails \/ AllSlotsTried \/ JoinThread \/ JoinUninitialised
           \/ JoinDone \/ WaitFails

Wrapper(t) == \/ WrapperInit(t) \/ SelectNextCallable(t)
              \/ RunCallable(t) \/ WrapperFinish(t)

Next == Register \/ Execute \/ \E t \in Thread : Wrapper(t)

Spec == Init /\ [][Next]_vars

(* Every OS thread is scheduled by the operating system, and the callables *)
(* terminate, so no enabled step of a thread is postponed forever.  The    *)
(* caller is a thread too; it stops registering and calls execute().       *)
Fairness == WF_vars(Execute) /\ \A t \in Thread : WF_vars(Wrapper(t))
FairSpec == Spec /\ Fairness

-----------------------------------------------------------------------------
TypeOK ==
  /\ platform \in {"pthread", "windows"}
  /\ maxParallel \in 1..Cores
  /\ registered \in 0..MaxCallables
  /\ countCallables \in 0..registered
  /\ numthreads \in 0..Cores
  /\ main \in MainState
  /\ worker \in 0..Cores
  /\ created \in SUBSET Slot
  /\ pc \in [Thread -> WrapperState]
  /\ callable \in [Thread -> 0..MaxCallables]
  /\ threaded \in [Thread -> BOOLEAN]
  /\ pythonState \in SUBSET Thread
  /\ executed \in [Callable -> Nat]

(* No cluster is planned twice, whatever two workers do at the stack at    *)
(* the same time: a callable is executed at most once, and one a thread    *)
(* still holds has not been executed and is held by that thread alone.     *)
AtMostOnce ==
  /\ \A c \in Callable : executed[c] <= 1
  /\ \A t \in Thread : pc[t] = "run" =>
       /\ executed[callable[t]] = 0
       /\ \A u \in Thread : pc[u] = "run" /\ callable[u] = callable[t] => u = t

(* The inductive strengthening of AtMostOnce and ReturnedMeansDone: the    *)
(* callables above countCallables left the stack, and each of them has     *)
(* been executed or is in the hands of exactly one running thread; ...     *)
Accounting ==
  /\ AtMostOnce
  /\ \A c \in 1..countCallables : executed[c] = 0
  /\ \A t \in Thread : pc[t] = "run" => callable[t] \in (countCallables + 1)..registered
  /\ \A c \in (countCallables + 1)..registered :
       executed[c] = 1 \/ \E t \in Thread : pc[t] = "run" /\ callable[t] = c
  /\ \A c \in (registered + 1)..MaxCallables : executed[c] = 0

(* ... a thread leaves wrapper() only when the stack is empty; and the     *)
(* caller, before it returns, has seen at least one thread leave it.       *)
Phases ==
  /\ \A t \in Thread : pc[t] \in {"finish", "exit"} => countCallables = 0
  /\ \A s \in Slot : pc[s] = "none" <=> s \notin created
  /\ main = "start" =>
       /\ countCallables = registered
       /\ worker = 0
       /\ \A t \in Thread : pc[t] = "none"
  /\ main = "inline" => created = {} /\ pc[Main] # "none"
  /\ pc[Main] # "none" => main \in {"inline", "returned"}
  /\ main = "create" =>
       /\ numthreads > 0 /\ worker <= numthreads
       /\ created \subseteq 0..(worker - 1)
       /\ worker > 0 => 0 \in created
  /\ main = "join" =>
       /\ 0 \in created
       /\ platform = "pthread" =>
            \A s \in created : s >= worker => pc[s] = "exit"
  /\ main = "returned" => countCallables = 0
  /\ main = "raised" => created = {}
  /\ main \in {"returned", "raised"} => \A t \in Thread : pc[t] \in {"none", "exit"}
  /\ main = "crashed" => platform = "pthread"

(* A worker owns a Python thread state while it is inside wrapper() and    *)
(* its flag says so; the caller keeps its own, because the decision not to *)
(* create threads stays true while it empties the stack.                   *)
PythonStates ==
  /\ \A s \in Slot : s \in pythonState <=> pc[s] \in {"select", "run", "finish"} /\ threaded[s]
  /\ Main \in pythonState
  /\ pc[Main] \in {"select", "run", "finish"} => ~threaded[Main]
  /\ main = "inline" => maxParallel <= 1 \/ countCallables <= 1

(* What the caller relies on when it returns: the account of the callables *)
(* and the phases of the threads and of the caller, together (and types    *)
(* and Python states).                                                     *)
PoolInv == TypeOK /\ Accounting /\ Phases /\ PythonStates

(* When execute() returns normally every callable has run to its end: the  *)
(* caller may read the plan of every cluster.                              *)
ReturnedMeansDone ==
  main = "returned" => \A c \in 1..registered : executed[c] = 1

(* When execute() returns, or raises because it got no thread, no thread   *)
(* still uses the group: the solver keeps it on the stack of its own       *)
(* frame.  Only the exception of a failed wait leaves threads behind.      *)
GroupOutlivesThreads ==
  main \in {"returned", "raised"} =>
    \A t \in Thread : pc[t] \in {"none", "exit"}

(* "Each OS-level thread needs to initialize a Python thread state": no    *)
(* thread calls a callable without one.                                    *)
CallablesHavePython == \A t \in Thread : pc[t] = "run" => t \in pythonState

(* A worker takes its own Python thread state away with it, and the        *)
(* caller's one is never touched.                                          *)
PythonStateReleased ==
  /\ Main \in pythonState
  /\ \A s \in Slot : pc[s] \in {"none", "exit"} => s \notin pythonState

(* execute() comes to its end, by a return or an exception, whatever the   *)
(* operating system refuses: the caller never waits for a worker that is   *)
(* not there, nor the workers for a callable.                              *)
Terminates == <>(main \in {"returned", "raised", "unjoined", "crashed"})
=============================================================================

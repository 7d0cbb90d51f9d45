------------------------------- MODULE ThreadPool -------------------------------
(***************************************************************************)
(* util::thread_pool_executor: worker threads that take packaged tasks     *)
(* from a deque guarded by a mutex and a condition variable, one thread    *)
(* that owns the pool and calls add() and stop(), and the destructor.      *)
(*                                                                         *)
(* Steps are cut where another thread can see a difference. What happens   *)
(* under tasks_mutex_ and touches only tasks_ is one step; get() is cut    *)
(* between its test of tasks_ and its test of done_, because stop() writes *)
(* done_ without taking the mutex.                                         *)
(***************************************************************************)
EXTENDS Naturals, Sequences

CONSTANTS Worker,       \* the pool's threads (pool_size of them)
          Task,         \* the callables handed to add(), one value per call
          NoTask,       \* "this worker holds no task"
          Free          \* "nobody owns tasks_mutex_"

ASSUME ConstantsAssumption == NoTask \notin Task /\ Free \notin Worker

VARIABLES tasks,        \* tasks_: the deque, front first
          done,         \* done_
          mutex,        \* who owns tasks_mutex_
          pc,           \* pc[w]: where worker w is in worker()/get()
          held,         \* held[w]: the packaged task w took from the deque
          future,       \* future[t]: the state of the future add(t) returned
          owner,        \* what the owning thread is doing with the pool
          joined,       \* stop() has joined every thread
          late          \* late[w]: tasks w took after stop() was called

poolVars == <<tasks, done, mutex, pc, held, future, owner, joined, late>>

Pcs == {"loop", "lock", "test", "empty", "wait", "run", "exited"}

PoolTypeOK ==
    /\ tasks \in Seq(Task)
    /\ done \in BOOLEAN
    /\ mutex \in Worker \cup {Free}
    /\ pc \in [Worker -> Pcs]
    /\ held \in [Worker -> Task \cup {NoTask}]
    /\ \A w \in Worker : held[w] # NoTask <=> pc[w] = "run"
    /\ future \in [Task -> {"none", "pending", "ready", "broken"}]
    /\ owner \in {"idle", "notify", "join", "gone"}
    /\ joined \in BOOLEAN
    /\ late \in [Worker -> Nat]

PoolInit ==
    /\ tasks = <<>>
    /\ done = FALSE
    /\ mutex = Free
    /\ pc = [w \in Worker |-> "loop"]
    /\ held = [w \in Worker |-> NoTask]
    /\ future = [t \in Task |-> "none"]
    /\ owner = "idle"
    /\ joined = FALSE
    /\ late = [w \in Worker |-> 0]

Queued == {tasks[i] : i \in 1..Len(tasks)}

Goto(w, from, to) == pc[w] = from /\ pc' = [pc EXCEPT ![w] = to]
--------------------------------------------------------------------------------
(***************************************************************************)
(* Slips the properties have to catch. None of them is part of PoolNext;   *)
(* each is a variant of the definition its name begins with.               *)
(***************************************************************************)
\* The loop forgets its condition and drains the deque after stop().
LoopTest_Drains(w) ==
    /\ Goto(w, "loop", "lock")
    /\ UNCHANGED <<tasks, done, mutex, held, future, owner, joined, late>>

\* The front task is copied, not popped.
TakeFront_Peeks(w) ==
    /\ tasks # <<>>
    /\ Goto(w, "test", "run")
    /\ held' = [held EXCEPT ![w] = Head(tasks)]
    /\ mutex' = Free
    /\ late' = [late EXCEPT ![w] = IF done THEN @ + 1 ELSE @]
    /\ UNCHANGED <<tasks, done, future, owner, joined>>

\* get() gives up whenever it finds nothing.
ThrowClosing_Always(w) ==
    /\ Goto(w, "empty", "exited")
    /\ mutex' = Free
    /\ UNCHANGED <<tasks, done, held, future, owner, joined, late>>

\* wait() in place of wait_for(): only add() ever wakes a worker.
WakeUp_Never(w) == pc[w] = "wait" /\ FALSE

\* The worker keeps the task object until it gets the next one.
RunTask_KeepsTask(w) ==
    /\ Goto(w, "run", "loop")
    /\ future' = [future EXCEPT ![held[w]] = "ready"]
    /\ UNCHANGED <<tasks, done, mutex, held, owner, joined, late>>

\* The task's exception is not put into the future.
RunTask_BreaksPromise(w) ==
    /\ Goto(w, "run", "loop")
    /\ future' = [future EXCEPT ![held[w]] = "broken"]
    /\ held' = [held EXCEPT ![w] = NoTask]
    /\ UNCHANGED <<tasks, done, mutex, owner, joined, late>>

\* The threads are detached instead of joined.
Join_Detaches ==
    /\ owner = "join"
    /\ joined' = TRUE
    /\ owner' = "idle"
    /\ UNCHANGED <<tasks, done, mutex, pc, held, future, late>>
--------------------------------------------------------------------------------
(***************************************************************************)
(* The owning thread. It may add a task or stop the pool at any time, and  *)
(* may even add after stop(): nothing in the class forbids it.             *)
(***************************************************************************)
Add(t) ==
    /\ owner = "idle"
    /\ mutex = Free
    /\ future[t] = "none"
    /\ tasks' = Append(tasks, t)
    /\ future' = [future EXCEPT ![t] = "pending"]
    /\ owner' = "notify"
    /\ UNCHANGED <<done, mutex, pc, held, joined, late>>

\* notify_one(), after the unlock: wakes one waiting worker, if there is one.
NotifyOne ==
    /\ owner = "notify"
    /\ owner' = "idle"
    /\ \/ \E w \in Worker : pc[w] = "wait" /\ pc' = [pc EXCEPT ![w] = "lock"]
       \/ (\A w \in Worker : pc[w] # "wait") /\ UNCHANGED pc
    /\ UNCHANGED <<tasks, done, mutex, held, future, joined, late>>

\* stop() sets done_ outside the mutex and notifies nobody ...
Stop ==
    /\ owner = "idle"
    /\ ~joined
    /\ done' = TRUE
    /\ owner' = "join"
    /\ UNCHANGED <<tasks, mutex, pc, held, future, joined, late>>

\* ... and then joins every thread.
Join ==
    /\ owner = "join"
    /\ \A w \in Worker : pc[w] = "exited"
    /\ joined' = TRUE
    /\ owner' = "idle"
    /\ UNCHANGED <<tasks, done, mutex, pc, held, future, late>>

\* The destructor after its stop(): the deque goes, and with it the promises
\* of the tasks still in it.
Destroy ==
    /\ owner = "idle"
    /\ joined
    /\ tasks' = <<>>
    /\ future' = [t \in Task |-> IF t \in Queued THEN "broken" ELSE future[t]]
    /\ owner' = "gone"
    /\ UNCHANGED <<done, mutex, pc, held, joined, late>>
--------------------------------------------------------------------------------
(***************************************************************************)
(* A worker thread.                                                        *)
(***************************************************************************)
\* while (!done_)
LoopTest(w) ==
    /\ \/ ~done /\ Goto(w, "loop", "lock")
       \/ done /\ Goto(w, "loop", "exited")
    /\ UNCHANGED <<tasks, done, mutex, held, future, owner, joined, late>>

\* The lock of get(), and the one wait_for() takes again before it returns.
Lock(w) ==
    /\ mutex = Free
    /\ Goto(w, "lock", "test")
    /\ mutex' = w
    /\ UNCHANGED <<tasks, done, held, future, owner, joined, late>>

\* while (tasks_.empty())
TestEmpty(w) ==
    /\ tasks = <<>>
    /\ Goto(w, "test", "empty")
    /\ UNCHANGED <<tasks, done, mutex, held, future, owner, joined, late>>

\* if (done_) throw: unwinds the lock, is caught in worker(), the thread ends.
ThrowClosing(w) ==
    /\ done
    /\ Goto(w, "empty", "exited")
    /\ mutex' = Free
    /\ UNCHANGED <<tasks, done, held, future, owner, joined, late>>

\* tasks_cond_.wait_for(): gives the mutex up and waits, in one step.
BeginWait(w) ==
    /\ ~done
    /\ Goto(w, "empty", "wait")
    /\ mutex' = Free
    /\ UNCHANGED <<tasks, done, held, future, owner, joined, late>>

\* One second went by, or the wait ended for no reason.
WakeUp(w) ==
    /\ Goto(w, "wait", "lock")
    /\ UNCHANGED <<tasks, done, mutex, held, future, owner, joined, late>>

\* The end of get(): take the front task and unlock. done_ is not looked at.
TakeFront(w) ==
    /\ tasks # <<>>
    /\ Goto(w, "test", "run")
    /\ held' = [held EXCEPT ![w] = Head(tasks)]
    /\ tasks' = Tail(tasks)
    /\ mutex' = Free
    /\ late' = [late EXCEPT ![w] = IF done THEN @ + 1 ELSE @]
    /\ UNCHANGED <<done, future, owner, joined>>

\* task() returns: its value or its exception is in the future.
RunTask(w) ==
    /\ Goto(w, "run", "loop")
    /\ future' = [future EXCEPT ![held[w]] = "ready"]
    /\ held' = [held EXCEPT ![w] = NoTask]
    /\ UNCHANGED <<tasks, done, mutex, owner, joined, late>>

WorkerStep(w) ==
    \/ LoopTest(w) \/ Lock(w) \/ TestEmpty(w) \/ ThrowClosing(w)
    \/ BeginWait(w) \/ WakeUp(w) \/ TakeFront(w) \/ RunTask(w)

OwnerStep == (\E t \in Task : Add(t)) \/ NotifyOne \/ Stop \/ Join \/ Destroy

\* The pool is destroyed and every thread has ended.
PoolTerminated == owner = "gone" /\ UNCHANGED poolVars

PoolNext == OwnerStep \/ (\E w \in Worker : WorkerStep(w)) \/ PoolTerminated

PoolSpec == PoolInit /\ [][PoolNext]_poolVars

\* Threads are scheduled and tasks return; wait_for() times out after a second,
\* so waking up needs no notification; the pool is a local of
\* generate_diagrams(), so a stopped pool is destroyed. Nothing obliges the
\* owner to add a task or to stop the pool, and no worker is promised the mutex:
\* another one may overtake it for ever.
Fairness ==
    /\ \A w \in Worker : WF_poolVars(WorkerStep(w))
    /\ WF_poolVars(NotifyOne) /\ WF_poolVars(Join) /\ WF_poolVars(Destroy)

PoolFairSpec == PoolSpec /\ Fairness
--------------------------------------------------------------------------------
(***************************************************************************)
(* Properties                                                              *)
(***************************************************************************)
\* A task that was added and has not run is in exactly one place: once in the
\* deque, or in the hands of one worker. Two workers never run the same task,
\* a task that ran is nowhere, and none is lost while the pool lives.
EachTaskInOnePlace ==
    /\ \A i, j \in 1..Len(tasks) : tasks[i] = tasks[j] => i = j
    /\ \A v, w \in Worker : held[v] = held[w] /\ held[v] # NoTask => v = w
    /\ \A w \in Worker : held[w] \notin Queued
    /\ \A t \in Task : future[t] = "pending" <=>
                          t \in Queued \/ \E w \in Worker : held[w] = t

\* Only the worker that owns tasks_mutex_ is between the lock and the unlock of
\* get(), and the mutex is never left locked behind.
MutexProtectsGet ==
    \A w \in Worker : pc[w] \in {"test", "empty"} <=> mutex = w

\* When stop() has returned no worker runs, holds or will ever take a task, so
\* what the tasks captured by reference may be destroyed.
QuietAfterStop ==
    joined => \A w \in Worker : pc[w] = "exited" /\ held[w] = NoTask

\* No thread of the pool ends before stop() is called, whatever its tasks do.
NoEarlyExit == \A w \in Worker : pc[w] = "exited" => done

\* stop() does not drain the deque: a worker that was already past its test of
\* done_ takes at most one more task.
AtMostOneLateTask == \A w \in Worker : late[w] <= 1

\* The inductive strengthening of the five above (ThreadPool_proofs): what each
\* position in worker() and in the owner's calls says about the rest.
WorkerShape ==
    \A w \in Worker :
        late[w] > 0 => done /\ pc[w] \in {"run", "loop", "exited"}

OwnerShape ==
    /\ owner = "join" => done /\ ~joined
    /\ owner = "gone" => joined
    /\ joined => done

PoolIInv ==
    /\ PoolTypeOK
    /\ EachTaskInOnePlace
    /\ MutexProtectsGet
    /\ QuietAfterStop
    /\ NoEarlyExit
    /\ AtMostOneLateTask
    /\ WorkerShape
    /\ OwnerShape

\* A future never loses its result, and only tasks nobody started are broken.
SettlesOnce(t) ==
    /\ future[t] \in {"ready", "broken"} => future'[t] = future[t]
    /\ future'[t] = "broken" /\ future[t] # "broken" => t \in Queued

FuturesSettleOnce == [][\A t \in Task : SettlesOnce(t)]_poolVars

\* Each add()ed task is carried out or, if the pool is stopped first, given up.
EveryFutureSettles ==
    \A t \in Task : future[t] = "pending" ~> future[t] \in {"ready", "broken"}

\* stop() returns, although it wakes nobody: each worker times out, sees done_
\* and ends.
StopReturns == owner = "join" ~> joined
--------------------------------------------------------------------------------
(***************************************************************************)
(* The pool implements TaskService.                                        *)
(***************************************************************************)
FateOf(t) ==
    CASE future[t] = "none" -> "new"
      [] future[t] = "pending" /\ t \in Queued -> "queued"
      [] future[t] = "pending" /\ t \notin Queued -> "running"
      [] OTHER -> future[t]

Service == INSTANCE TaskService WITH fate <- [t \in Task |-> FateOf(t)],
                                     open <- ~done

ImplementsTaskService == Service!SvcSpec
================================================================================

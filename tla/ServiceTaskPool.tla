---------------------------- MODULE ServiceTaskPool ----------------------------
(***************************************************************************)
(* The worker pool of utils/serviceTaskPool.ts with its worker threads     *)
(* (serviceTaskPool.worker.ts): tasks wait in a FIFO queue, at most        *)
(* PoolSize workers run one each, and a worker that fails or misses a      *)
(* task's deadline is thrown away together with that task.                 *)
(*                                                                         *)
(* The pool lives on the main thread. _drain's loop takes one iteration    *)
(* per step ("drain" says that it is running, and from where it was        *)
(* called); settling a task's promise queues the caller's continuation in  *)
(* "settled", which runs when the handler is done. Threads run beside all  *)
(* this, and what a thread posted before it was terminated may still       *)
(* arrive.                                                                 *)
(***************************************************************************)
EXTENDS Naturals, SequencesExt, FiniteSets

CONSTANTS
    Workers,          \* identities of worker threads; reusing one drops what
                      \* its last user posted, which the pool would ignore
    Tasks,            \* what callers run, each task at most once
    NoWorker, NoTask,
    PoolSize,         \* options.poolSize
    MaxPendingTasks,  \* options.maxPendingTasks
    MaxFaults         \* bound on what goes wrong outside the pool

ASSUME PoolAssumption ==
    /\ NoWorker \notin Workers
    /\ NoTask \notin Tasks
    /\ PoolSize \in Nat \ {0}
    /\ MaxPendingTasks \in Nat \ {0}
    /\ MaxFaults \in Nat

VARIABLES
    queue,        \* _queue: tasks without a worker, oldest first
    workers,      \* _workers
    idleWorkers,  \* _idleWorkers, a stack
    pending,      \* _pending: the worker of each task that has one
    serviceTask,  \* worker._serviceTaskID
    threads,      \* the threads: what each does, and on which task
    drain,        \* "no", or the caller of the running _drain: "run" or "event"
    settled,      \* settled promises whose continuations have not run yet
    abandoned,    \* queued tasks whose promise is already rejected
    faults        \* faults so far

poolVars == <<queue, workers, idleWorkers, pending, serviceTask, threads,
              drain, settled, abandoned, faults>>

Absent == [state |-> "absent", task |-> NoTask]

Active == {t \in Tasks : pending[t] # NoWorker}

PoolTypeOK ==
    /\ queue \in Seq(Tasks)
    /\ workers \subseteq Workers
    /\ idleWorkers \in Seq(Workers)
    /\ pending \in [Tasks -> Workers \cup {NoWorker}]
    /\ serviceTask \in [Workers -> Tasks \cup {NoTask}]
    /\ threads \in [Workers -> [state : {"absent", "ready", "running", "result", "error", "dead"},
                                task : Tasks \cup {NoTask}]]
    /\ drain \in {"no", "run", "event"}
    /\ settled \in Seq([task : Tasks, ok : BOOLEAN])
    /\ abandoned \subseteq Tasks
    /\ faults \in 0 .. MaxFaults

PoolInit ==
    /\ queue = <<>>
    /\ workers = {}
    /\ idleWorkers = <<>>
    /\ pending = [t \in Tasks |-> NoWorker]
    /\ serviceTask = [w \in Workers |-> NoTask]
    /\ threads = [w \in Workers |-> Absent]
    /\ drain = "no"
    /\ settled = <<>>
    /\ abandoned = {}
    /\ faults = 0

Fault == faults < MaxFaults /\ faults' = faults + 1

(* Settling the promise of an abandoned task has no effect.                *)
Settle(t, ok) ==
    /\ settled' = IF t \in abandoned THEN settled
                  ELSE Append(settled, [task |-> t, ok |-> ok])
    /\ abandoned' = abandoned \ {t}

-------------------------------------------------------------------------------
(* run(): admission, and the call of _drain.                               *)

PoolIsFull == Len(queue) + Cardinality(Active) >= MaxPendingTasks

Run(t) ==
    /\ ~PoolIsFull
    /\ queue' = Append(queue, t)
    /\ drain' = "run"
    /\ UNCHANGED <<workers, idleWorkers, pending, serviceTask, threads,
                   settled, abandoned, faults>>

RunRejected(t) ==
    /\ PoolIsFull
    /\ settled' = Append(settled, [task |-> t, ok |-> FALSE])
    /\ UNCHANGED <<queue, workers, idleWorkers, pending, serviceTask, threads,
                   drain, abandoned, faults>>

-------------------------------------------------------------------------------
(* _drain(): one iteration of its loop.                                    *)

HasRoom == Cardinality(workers) < PoolSize

DrainEnds ==
    /\ drain # "no"
    /\ queue = <<>> \/ (idleWorkers = <<>> /\ ~HasRoom)
    /\ drain' = "no"
    /\ UNCHANGED <<queue, workers, idleWorkers, pending, serviceTask, threads,
                   settled, abandoned, faults>>

(* The worker the next task goes to: the one that became idle last, or a   *)
(* new one.                                                                *)
Chosen(w) ==
    /\ drain # "no" /\ queue # <<>>
    /\ IF idleWorkers # <<>>
       THEN w = Last(idleWorkers)
       ELSE HasRoom /\ w \notin workers

Popped == IF idleWorkers # <<>> THEN Front(idleWorkers) ELSE <<>>

(* A thread that has died without the pool knowing never sees the message. *)
AssignTask(w) ==
    /\ Chosen(w)
    /\ queue' = Tail(queue)
    /\ workers' = workers \cup {w}
    /\ idleWorkers' = Popped
    /\ pending' = [pending EXCEPT ![Head(queue)] = w]
    /\ serviceTask' = [serviceTask EXCEPT ![w] = Head(queue)]
    /\ threads' = [threads EXCEPT ![w] =
                     IF @.state = "dead" THEN @
                     ELSE [state |-> "running", task |-> Head(queue)]]
    /\ UNCHANGED <<drain, settled, abandoned, faults>>

(* postMessage throws (the arguments cannot be cloned): the catch clause   *)
(* fails the worker and with it the task, and the loop goes on in the      *)
(* nested _drain.                                                          *)
PostFails(w) ==
    /\ Chosen(w) /\ Fault
    /\ queue' = Tail(queue)
    /\ workers' = workers \ {w}
    /\ idleWorkers' = Popped
    /\ Settle(Head(queue), FALSE)
    /\ threads' = [threads EXCEPT ![w] = Absent]
    /\ UNCHANGED <<pending, serviceTask, drain>>

(* new Worker() throws: the exception leaves _drain and the executor of    *)
(* run()'s promise, which rejects it; the task stays in the queue. (In an  *)
(* event handler the exception ends the process.)                          *)
SpawnFails ==
    /\ drain = "run" /\ queue # <<>>
    /\ idleWorkers = <<>> /\ HasRoom
    /\ Fault
    /\ settled' = Append(settled, [task |-> Last(queue), ok |-> FALSE])
    /\ abandoned' = abandoned \cup {Last(queue)}
    /\ drain' = "no"
    /\ UNCHANGED <<queue, workers, idleWorkers, pending, serviceTask, threads>>

DrainStep ==
    \/ DrainEnds
    \/ \E w \in Workers : AssignTask(w) \/ PostFails(w)
    \/ SpawnFails

-------------------------------------------------------------------------------
(* Events on the main thread.                                              *)

(* Mutant: the worker is looked up after its entry was deleted. *)
HandleMessage_DeletesFirst(w) ==
    LET t == threads[w].task IN
    /\ threads[w].state \in {"result", "error"}
    /\ pending[t] = w
    /\ pending' = [pending EXCEPT ![t] = NoWorker]
    /\ serviceTask' = [serviceTask EXCEPT ![w] = NoTask]
    /\ idleWorkers' = Append(idleWorkers, pending'[t])
    /\ Settle(t, threads[w].state = "result")
    /\ threads' = [threads EXCEPT ![w] = [state |-> "ready", task |-> NoTask]]
    /\ drain' = "event"
    /\ UNCHANGED <<queue, workers, faults>>

(* _handleMessage of the task the worker has: the promise settles and the  *)
(* worker is idle.                                                         *)
HandleMessage(w) ==
    LET t == threads[w].task IN
    /\ threads[w].state \in {"result", "error"}
    /\ pending[t] = w
    /\ pending' = [pending EXCEPT ![t] = NoWorker]
    /\ serviceTask' = [serviceTask EXCEPT ![w] = NoTask]
    /\ idleWorkers' = Append(idleWorkers, w)
    /\ Settle(t, threads[w].state = "result")
    /\ threads' = [threads EXCEPT ![w] = [state |-> "ready", task |-> NoTask]]
    /\ drain' = "event"
    /\ UNCHANGED <<queue, workers, faults>>

(* A message of a worker that was terminated in the meantime.              *)
LateMessageIgnored(w) ==
    /\ threads[w].state \in {"result", "error"}
    /\ pending[threads[w].task] # w
    /\ threads' = [threads EXCEPT ![w] = Absent]
    /\ UNCHANGED <<queue, workers, idleWorkers, pending, serviceTask, drain,
                   settled, abandoned, faults>>

(* What is left of thread w after terminate(): nothing, or the message it  *)
(* posted first. Nobody looks at what such a message says.                 *)
Leftovers(w) ==
    {Absent} \cup
    IF threads[w].state \in {"running", "result", "error"}
    THEN {[state |-> "result", task |-> threads[w].task]}
    ELSE {}

(* filter: a worker is in the idle list once at most.                      *)
IdleWithout(w) ==
    IF w \in Range(idleWorkers)
    THEN RemoveAt(idleWorkers, CHOOSE i \in DOMAIN idleWorkers : idleWorkers[i] = w)
    ELSE idleWorkers

(* Mutant: a worker that is gone stays in the idle list. *)
HandleWorkerFailure_StaysIdle(w) ==
    LET t == serviceTask[w] IN
    /\ w \in workers
    /\ workers' = workers \ {w}
    /\ UNCHANGED idleWorkers
    /\ serviceTask' = [serviceTask EXCEPT ![w] = NoTask]
    /\ IF t # NoTask /\ pending[t] # NoWorker
       THEN pending' = [pending EXCEPT ![t] = NoWorker] /\ Settle(t, FALSE)
       ELSE UNCHANGED <<pending, settled, abandoned>>
    /\ \E left \in Leftovers(w) : threads' = [threads EXCEPT ![w] = left]
    /\ drain' = "event"
    /\ UNCHANGED <<queue, faults>>

(* Mutant: the queue is not drained after a failure. *)
HandleWorkerFailure_NoDrain(w) ==
    LET t == serviceTask[w] IN
    /\ w \in workers
    /\ workers' = workers \ {w}
    /\ idleWorkers' = IdleWithout(w)
    /\ serviceTask' = [serviceTask EXCEPT ![w] = NoTask]
    /\ IF t # NoTask /\ pending[t] # NoWorker
       THEN pending' = [pending EXCEPT ![t] = NoWorker] /\ Settle(t, FALSE)
       ELSE UNCHANGED <<pending, settled, abandoned>>
    /\ \E left \in Leftovers(w) : threads' = [threads EXCEPT ![w] = left]
    /\ UNCHANGED <<queue, drain, faults>>

(* _handleWorkerFailure of a worker that is still in the pool.             *)
HandleWorkerFailure(w) ==
    LET t == serviceTask[w] IN
    /\ w \in workers
    /\ workers' = workers \ {w}
    /\ idleWorkers' = IdleWithout(w)
    /\ serviceTask' = [serviceTask EXCEPT ![w] = NoTask]
    /\ IF t # NoTask /\ pending[t] # NoWorker
       THEN pending' = [pending EXCEPT ![t] = NoWorker] /\ Settle(t, FALSE)
       ELSE UNCHANGED <<pending, settled, abandoned>>
    /\ \E left \in Leftovers(w) : threads' = [threads EXCEPT ![w] = left]
    /\ drain' = "event"
    /\ UNCHANGED <<queue, faults>>

(* The deadline of a task. Its timer is cleared when the task is settled.  *)
TaskTimesOut(t) == pending[t] # NoWorker /\ HandleWorkerFailure(pending[t])

(* The error or exit event of a thread that died by itself.                *)
WorkerFails(w) == threads[w].state = "dead" /\ HandleWorkerFailure(w)

PoolEvent ==
    \/ \E w \in Workers : HandleMessage(w) \/ LateMessageIgnored(w) \/ WorkerFails(w)
    \/ \E t \in Tasks : TaskTimesOut(t)

-------------------------------------------------------------------------------
(* The threads: a task ends with a result or, a fault, with an error; a    *)
(* thread may die at any time, and nothing says that it ever answers.      *)

ThreadAnswers(w) ==
    /\ threads[w].state = "running"
    /\ \/ threads' = [threads EXCEPT ![w].state = "result"] /\ UNCHANGED faults
       \/ threads' = [threads EXCEPT ![w].state = "error"] /\ Fault
    /\ UNCHANGED <<queue, workers, idleWorkers, pending, serviceTask, drain,
                   settled, abandoned>>

ThreadDies(w) ==
    /\ threads[w].state \in {"ready", "running"}
    /\ threads' = [threads EXCEPT ![w].state = "dead"]
    /\ Fault
    /\ UNCHANGED <<queue, workers, idleWorkers, pending, serviceTask, drain,
                   settled, abandoned>>

ThreadStep == \E w \in Workers : ThreadAnswers(w) \/ ThreadDies(w)
================================================================================

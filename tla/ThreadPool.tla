---------------------------------- MODULE ThreadPool ----------------------------------
(***************************************************************************)
(* The pool of threads of the physical layer (srslte::thread_pool).  One   *)
(* thread looks for an idle worker, prepares its job and starts it; the    *)
(* worker runs the job and reports back.                                   *)
(*                                                                         *)
(* Each worker has a status under a mutex of its own, on whose condition   *)
(* variable it waits for a job.  The thread that looks for a worker reads  *)
(* the statuses under mutex_queue alone and waits on cvar_queue.  A        *)
(* section under a mutex is one step if it does not wait; one that waits   *)
(* is split where the mutex is given up, and where a signal that is sent   *)
(* without the mutex can slip in.  Wake-ups without a signal are left out. *)
(***************************************************************************)
EXTENDS Naturals

CONSTANT nof_workers   \* nof_phy_threads: 1 to 4, 2 by default

ASSUME PoolAssumption == nof_workers \in Nat \ {0}

Workers == 0 .. nof_workers - 1

VARIABLES
    status,   \* IDLE, WORKER_READY, START_WORK, WORKING
    alive,    \* worker::running, which run_thread sets and stop() resets
    at,       \* where the thread of each worker is
    caller,   \* where the thread that uses the workers is
    candidate \* the worker whose status wait_worker looks at, or has found

pool == <<status, alive, at, caller, candidate>>

Statuses == {"IDLE", "WORKER_READY", "START_WORK", "WORKING"}

\* Where a worker is outside of its job.
Waiting == {"new", "loop", "check", "block", "wait", "woken"}

\* A worker at "block" has tested its status and holds its mutex; it gives it up
\* by waiting.
MutexFree(w) == at[w] # "block"

\* wait_worker holds mutex_queue from the first status it reads until it has found
\* a worker or waits.
QueueFree == caller \notin {"scan", "block"}

Goto(w, place) == at' = [at EXCEPT ![w] = place]

\* pthread_cond_signal(&cvar[w]): heard by a worker that waits already.
Woken(w, places) == [places EXCEPT ![w] = IF @ = "wait" THEN "check" ELSE @]

-----------------------------------------------------------------------------
(* run_thread of a worker                                                  *)

Run(w) ==
    /\ at[w] = "new" /\ Goto(w, "loop")
    /\ alive' = [alive EXCEPT ![w] = TRUE]
    /\ UNCHANGED <<status, caller, candidate>>

Loop(w) ==
    /\ at[w] = "loop" /\ Goto(w, IF alive[w] THEN "check" ELSE "gone")
    /\ UNCHANGED <<status, alive, caller, candidate>>

\* wait_to_start: the condition of the loop, under the worker's mutex.
NothingToDo(w) ==
    /\ at[w] = "check" /\ status[w] # "START_WORK" /\ alive[w]
    /\ Goto(w, "block")
    /\ UNCHANGED <<status, alive, caller, candidate>>

StartWorking(w) ==
    /\ at[w] = "check" /\ (status[w] = "START_WORK" \/ ~alive[w])
    /\ status' = [status EXCEPT ![w] = "WORKING"]
    /\ Goto(w, "woken")
    /\ UNCHANGED <<alive, caller, candidate>>

\* pthread_cond_wait.
Block(w) ==
    /\ at[w] = "block" /\ Goto(w, "wait")
    /\ UNCHANGED <<status, alive, caller, candidate>>

\* The second test of running: the job, or the end of the thread.
Work(w) ==
    /\ at[w] = "woken" /\ Goto(w, IF alive[w] THEN "work" ELSE "gone")
    /\ UNCHANGED <<status, alive, caller, candidate>>

\* finished(): first the status under the worker's mutex ...
Finish(w) ==
    /\ at[w] = "finish" /\ Goto(w, "announce")
    /\ status' = [status EXCEPT ![w] = "IDLE"]
    /\ UNCHANGED <<alive, caller, candidate>>

\* Mutation: the signal is sent without mutex_queue.
AnnounceUnlocked(w) ==
    /\ at[w] = "announce"
    /\ Goto(w, "loop")
    /\ IF caller = "wait" THEN caller' = "scan" /\ candidate' = 0
                          ELSE UNCHANGED <<caller, candidate>>
    /\ UNCHANGED <<status, alive>>

\* ... then the signal under mutex_queue.
Announce(w) ==
    /\ at[w] = "announce" /\ QueueFree
    /\ Goto(w, "loop")
    /\ IF caller = "wait" THEN caller' = "scan" /\ candidate' = 0
                          ELSE UNCHANGED <<caller, candidate>>
    /\ UNCHANGED <<status, alive>>

WorkerStep(w) ==
    \/ Run(w) \/ Loop(w) \/ NothingToDo(w) \/ StartWorking(w) \/ Block(w) \/ Work(w)
    \/ Finish(w) \/ Announce(w)

-----------------------------------------------------------------------------
(* wait_worker and start_worker                                            *)

\* Mutation: a worker that was started and has not woken up yet counts as finished.
FinishedUnlessWorking(w) == status[w] \in {"IDLE", "START_WORK"}

Finished(w) == status[w] = "IDLE"

\* find_finished_worker reads one status after the other, each while its worker may
\* be changing it.
FindWorker ==
    /\ caller = "scan" /\ Finished(candidate)
    /\ caller' = "claim"
    /\ UNCHANGED <<status, alive, at, candidate>>

LookFurther ==
    /\ caller = "scan" /\ ~Finished(candidate)
    /\ IF candidate + 1 \in Workers THEN candidate' = candidate + 1 /\ UNCHANGED caller
                                    ELSE caller' = "block" /\ UNCHANGED candidate
    /\ UNCHANGED <<status, alive, at>>

\* The pool runs as long as wait_worker is used: phy::stop joins the caller first.
WaitForWorker ==
    /\ caller = "block" /\ caller' = "wait"
    /\ UNCHANGED <<status, alive, at, candidate>>

Claim ==
    /\ caller = "claim" /\ MutexFree(candidate)
    /\ status' = [status EXCEPT ![candidate] = "WORKER_READY"]
    /\ caller' = "receive"
    /\ UNCHANGED <<alive, at, candidate>>

wait_worker == FindWorker \/ LookFurther \/ WaitForWorker \/ Claim

start_worker(w) ==
    /\ MutexFree(w)
    /\ status' = [status EXCEPT ![w] = "START_WORK"]
    /\ at' = Woken(w, at)

-----------------------------------------------------------------------------
(* stop(), worker by worker: worker::stop resets running, signals without  *)
(* the worker's mutex and joins the thread                                 *)

ResetRunning(w) ==
    /\ alive' = [alive EXCEPT ![w] = FALSE]
    /\ UNCHANGED <<status, at, caller, candidate>>

SignalWorker(w) ==
    /\ at' = Woken(w, at)
    /\ UNCHANGED <<status, alive, caller, candidate>>

-----------------------------------------------------------------------------
\* init_worker has pushed every worker and created its thread; whether running was
\* FALSE before the thread sets it does not matter, for only the thread reads it.
PoolInit ==
    /\ status = [w \in Workers |-> "IDLE"]
    /\ alive = [w \in Workers |-> FALSE]
    /\ at = [w \in Workers |-> "new"]
    /\ caller = "loop" /\ candidate = 0
=============================================================================

---------------------------------- MODULE PhyPipeline ----------------------------------
(***************************************************************************)
(* The physical layer of the eNB: the thread that receives a subframe each *)
(* millisecond (srsenb::txrx) and gives it to a worker of the pool, the    *)
(* workers (phch_worker), which take different times over their subframes, *)
(* the chain of semaphores in phch_common::worker_end by which they        *)
(* transmit one after the other, and phy::stop on the console's thread.    *)
(*                                                                         *)
(* A worker transmits nothing for a subframe for which the MAC gives no    *)
(* grants, as it does until RRC has configured the cell: enb::init starts  *)
(* the physical layer first.  What a worker computes is left out, as is    *)
(* the memory phch_worker::stop frees.                                     *)
(***************************************************************************)
EXTENDS ThreadPool, SequencesExt

CONSTANT Spaced   \* until the first transmission subframes do not overlap in time

ASSUME SpacedAssumption == Spaced \in BOOLEAN

Slots == Workers   \* a semaphore for each worker, taken in turn

VARIABLES
    slot,          \* phch_worker::tx_worker_cnt, with the job
    running,       \* phch_worker::running, not the flag of the pool
    mutex,         \* phch_worker::mutex: "free", "worker" or "stop"
    tx_worker_cnt, \* txrx: the semaphore of the next subframe
    receiving,     \* txrx::running
    tx_sem,
    is_first_tx,
    configured,    \* the MAC is started and its scheduler has a cell
    pending,       \* workers whose subframes are to be transmitted, oldest first
    stopper,       \* the statement of phy::stop the console's thread is at
    target         \* the worker or semaphore it is at

workers == <<slot, running, mutex>>
txrx == <<tx_worker_cnt, receiving>>
chain == <<tx_sem, is_first_tx>>
console == <<stopper, target>>
vars == <<pool, workers, txrx, chain, configured, pending, console>>

-----------------------------------------------------------------------------
(* txrx::run_thread                                                        *)

NextSubframe ==
    /\ caller = "loop" /\ receiving
    /\ caller' = "scan" /\ candidate' = 0
    /\ UNCHANGED <<status, alive, at, workers, txrx, chain, configured, pending, console>>

LeaveLoop ==
    /\ caller = "loop" /\ ~receiving
    /\ caller' = "gone"
    /\ UNCHANGED <<status, alive, at, candidate, workers, txrx, chain, configured, pending,
                   console>>

WaitWorker == wait_worker /\ UNCHANGED <<workers, txrx, chain, configured, pending, console>>

\* Mutation: the worker's own number chooses its semaphore.
ReceiveWithId ==
    /\ caller = "receive"
    /\ (Spaced /\ is_first_tx) => pending = <<>>
    /\ slot' = [slot EXCEPT ![candidate] = candidate]
    /\ tx_worker_cnt' = (tx_worker_cnt + 1) % nof_workers
    /\ caller' = "start"
    /\ UNCHANGED <<status, alive, at, candidate, running, mutex, receiving, chain, configured,
                   pending, console>>

\* Mutation: the count runs over.
ReceiveUnwrapped ==
    /\ caller = "receive"
    /\ (Spaced /\ is_first_tx) => pending = <<>>
    /\ slot' = [slot EXCEPT ![candidate] = tx_worker_cnt]
    /\ tx_worker_cnt' = tx_worker_cnt + 1
    /\ caller' = "start"
    /\ UNCHANGED <<status, alive, at, candidate, running, mutex, receiving, chain, configured,
                   pending, console>>

\* rx_now takes the millisecond of a subframe; the comment in worker_end reckons
\* that in the beginning a worker is done by then.  set_time hands the job over.
Receive ==
    /\ caller = "receive"
    /\ (Spaced /\ is_first_tx) => pending = <<>>
    /\ slot' = [slot EXCEPT ![candidate] = tx_worker_cnt]
    /\ tx_worker_cnt' = (tx_worker_cnt + 1) % nof_workers
    /\ caller' = "start"
    /\ UNCHANGED <<status, alive, at, candidate, running, mutex, receiving, chain, configured,
                   pending, console>>

StartWorker ==
    /\ caller = "start" /\ start_worker(candidate)
    /\ pending' = Append(pending, candidate)
    /\ caller' = "loop"
    /\ UNCHANGED <<alive, candidate, workers, txrx, chain, configured, console>>

Txrx == NextSubframe \/ LeaveLoop \/ WaitWorker \/ Receive \/ StartWorker

-----------------------------------------------------------------------------
(* phch_worker::work_imp and phch_common::worker_end                       *)

\* The subframe of w, of which it has one at a time, is no longer to be transmitted.
Without(w) ==
    IF \E i \in 1 .. Len(pending) : pending[i] = w
      THEN RemoveAt(pending, CHOOSE i \in 1 .. Len(pending) : pending[i] = w)
      ELSE pending

\* A subframe for which nothing is transmitted.  After the first transmission its
\* turn never comes, and it stays pending.
Drop(w) == pending' = IF is_first_tx THEN Without(w) ELSE pending

PoolStep(w) ==
    /\ WorkerStep(w)
    /\ UNCHANGED <<workers, txrx, chain, configured, pending, console>>

\* phch_worker::stop was here: the subframe is left out, worker_end with it.
StoppedJob(w) ==
    /\ at[w] = "work" /\ ~running[w]
    /\ Goto(w, "finish") /\ Drop(w)
    /\ UNCHANGED <<status, alive, caller, candidate, workers, txrx, chain, configured, console>>

BeginJob(w) ==
    /\ at[w] = "work" /\ running[w]
    /\ Goto(w, "lock")
    /\ UNCHANGED <<status, alive, caller, candidate, workers, txrx, chain, configured, pending,
                   console>>

LockJob(w) ==
    /\ at[w] = "lock" /\ mutex[w] = "free"
    /\ mutex' = [mutex EXCEPT ![w] = "worker"]
    /\ Goto(w, "schedule")
    /\ UNCHANGED <<status, alive, caller, candidate, slot, running, txrx, chain, configured,
                   pending, console>>

\* Mutation: the jump goes past the unlock as well.
NoGrantsKept(w) ==
    /\ at[w] = "schedule" /\ ~configured
    /\ Goto(w, "finish") /\ Drop(w)
    /\ UNCHANGED <<status, alive, caller, candidate, workers, txrx, chain, configured, console>>

\* No grants, a CFI of 0: the jump to unlock, past worker_end.
NoGrants(w) ==
    /\ at[w] = "schedule" /\ ~configured
    /\ mutex' = [mutex EXCEPT ![w] = "free"]
    /\ Goto(w, "finish") /\ Drop(w)
    /\ UNCHANGED <<status, alive, caller, candidate, slot, running, txrx, chain, configured,
                   console>>

\* The signal is ready; the worker's mutex is given up before worker_end.
Generate(w) ==
    /\ at[w] = "schedule" /\ configured
    /\ mutex' = [mutex EXCEPT ![w] = "free"]
    /\ Goto(w, "first")
    /\ UNCHANGED <<status, alive, caller, candidate, slot, running, txrx, chain, configured,
                   pending, console>>

\* The test of is_first_tx, which no mutex protects ...
TestFirst(w) ==
    /\ at[w] = "first"
    /\ Goto(w, IF is_first_tx THEN "open" ELSE "queue")
    /\ UNCHANGED <<status, alive, caller, candidate, workers, txrx, chain, configured, pending,
                   console>>

\* Mutation: is_first_tx is not reset.
OpenAgain(w) ==
    /\ at[w] = "open"
    /\ tx_sem' = [tx_sem EXCEPT ![slot[w]] = @ + 1]
    /\ Goto(w, "queue")
    /\ UNCHANGED <<status, alive, caller, candidate, workers, txrx, is_first_tx, configured,
                   pending, console>>

\* ... and what the first worker does.
OpenChain(w) ==
    /\ at[w] = "open"
    /\ is_first_tx' = FALSE
    /\ tx_sem' = [tx_sem EXCEPT ![slot[w]] = @ + 1]
    /\ Goto(w, "queue")
    /\ UNCHANGED <<status, alive, caller, candidate, workers, txrx, configured, pending, console>>

\* sem_wait, and on to radio->tx.
Transmit(w) ==
    /\ at[w] = "queue" /\ tx_sem[slot[w]] > 0
    /\ tx_sem' = [tx_sem EXCEPT ![slot[w]] = @ - 1]
    /\ pending' = Without(w)
    /\ Goto(w, "transmit")
    /\ UNCHANGED <<status, alive, caller, candidate, workers, txrx, is_first_tx, configured,
                   console>>

\* radio->tx is back: the next one's turn, and the end of the job.
PassOn(w) ==
    /\ at[w] = "transmit"
    /\ tx_sem' = [tx_sem EXCEPT ![(slot[w] + 1) % nof_workers] = @ + 1]
    /\ Goto(w, "finish")
    /\ UNCHANGED <<status, alive, caller, candidate, workers, txrx, is_first_tx, configured,
                   pending, console>>

Worker(w) ==
    \/ PoolStep(w) \/ StoppedJob(w) \/ BeginJob(w) \/ LockJob(w) \/ NoGrants(w) \/ Generate(w)
    \/ TestFirst(w) \/ OpenChain(w) \/ Transmit(w) \/ PassOn(w)

-----------------------------------------------------------------------------
(* phy::stop                                                               *)

At(here, there) == stopper = here /\ stopper' = there

\* On to the next worker or semaphore, or with the first to what follows.
NextTarget(again, after) ==
    IF target + 1 \in Workers THEN stopper' = again /\ target' = target + 1
                              ELSE stopper' = after /\ target' = 0

StopTxrx ==
    /\ At("up", "join txrx")
    /\ receiving' = FALSE
    /\ UNCHANGED <<pool, workers, tx_worker_cnt, chain, configured, pending, target>>

JoinTxrx ==
    /\ At("join txrx", "stop worker") /\ caller = "gone"
    /\ UNCHANGED <<pool, workers, txrx, chain, configured, pending, target>>

\* phch_worker::stop.
StopWorker ==
    /\ At("stop worker", "lock worker")
    /\ running' = [running EXCEPT ![target] = FALSE]
    /\ UNCHANGED <<pool, slot, mutex, txrx, chain, configured, pending, target>>

LockWorker ==
    /\ At("lock worker", "unlock worker") /\ mutex[target] = "free"
    /\ mutex' = [mutex EXCEPT ![target] = "stop"]
    /\ UNCHANGED <<pool, slot, running, txrx, chain, configured, pending, target>>

\* The wait for the end of the job gives up after 100 ms.
UnlockWorker ==
    /\ stopper = "unlock worker" /\ NextTarget("stop worker", "open chain")
    /\ mutex' = [mutex EXCEPT ![target] = "free"]
    /\ UNCHANGED <<pool, slot, running, txrx, chain, configured, pending>>

\* phch_common::stop.
PostAll ==
    /\ stopper = "open chain" /\ NextTarget("open chain", "reset running")
    /\ tx_sem' = [tx_sem EXCEPT ![target] = @ + 1]
    /\ UNCHANGED <<pool, workers, txrx, is_first_tx, configured, pending>>

\* thread_pool::stop.
StopThread ==
    /\ At("reset running", "signal") /\ ResetRunning(target)
    /\ UNCHANGED <<workers, txrx, chain, configured, pending, target>>

SignalThread ==
    /\ At("signal", "join") /\ SignalWorker(target)
    /\ UNCHANGED <<workers, txrx, chain, configured, pending, target>>

JoinThread ==
    /\ At("join", "start again") /\ at[target] = "gone"
    /\ UNCHANGED <<pool, workers, txrx, chain, configured, pending, target>>

StartAgain ==
    /\ stopper = "start again" /\ NextTarget("reset running", "stopped")
    /\ start_worker(target)
    /\ UNCHANGED <<alive, caller, candidate, workers, txrx, chain, configured, pending>>

Stop ==
    \/ JoinTxrx \/ StopWorker \/ LockWorker \/ UnlockWorker \/ PostAll
    \/ StopThread \/ SignalThread \/ JoinThread \/ StartAgain

-----------------------------------------------------------------------------
\* RRC configures the cell (mac::cell_cfg).
CellCfg ==
    /\ ~configured /\ configured' = TRUE
    /\ UNCHANGED <<pool, workers, txrx, chain, pending, console>>

Init ==
    /\ PoolInit
    /\ slot = [w \in Workers |-> 0]
    /\ running = [w \in Workers |-> TRUE]
    /\ mutex = [w \in Workers |-> "free"]
    /\ tx_worker_cnt = 0 /\ receiving = TRUE
    /\ tx_sem = [s \in Slots |-> 0] /\ is_first_tx = TRUE
    /\ configured = FALSE
    /\ pending = <<>>
    /\ stopper = "up" /\ target = 0

Next == Txrx \/ (\E w \in Workers : Worker(w)) \/ StopTxrx \/ Stop \/ CellCfg

\* The operating system lets every thread go on that can; the user need not stop
\* the program.
Fairness ==
    /\ WF_vars(Txrx) /\ WF_vars(Stop)
    /\ \A w \in Workers : WF_vars(Worker(w))

Spec == Init /\ [][Next]_vars
FairSpec == Spec /\ Fairness

-----------------------------------------------------------------------------
(* Properties                                                              *)

Working == {"work", "lock", "schedule", "first", "open", "queue", "transmit"}

Places == Waiting \union Working \union {"finish", "announce", "gone"}

\* Until phy::stop lets everybody pass (phch_common::stop).
ChainInUse ==
    stopper \in {"up", "join txrx", "stop worker", "lock worker", "unlock worker"}

\* Type invariant.
PhyTypeOK ==
    /\ status \in [Workers -> Statuses] /\ alive \in [Workers -> BOOLEAN]
    /\ at \in [Workers -> Places]
    /\ caller \in {"loop", "scan", "block", "wait", "claim", "receive", "start", "gone"}
    /\ candidate \in Workers
    /\ slot \in [Workers -> Slots] /\ running \in [Workers -> BOOLEAN]
    /\ mutex \in [Workers -> {"free", "worker", "stop"}]
    /\ tx_worker_cnt \in Slots /\ receiving \in BOOLEAN
    /\ tx_sem \in [Slots -> Nat] /\ is_first_tx \in BOOLEAN
    /\ configured \in BOOLEAN /\ pending \in Seq(Workers)
    /\ stopper \in {"up", "join txrx", "stop worker", "lock worker", "unlock worker",
                    "open chain", "reset running", "signal", "join", "start again", "stopped"}
    /\ target \in Workers

\* Never do two workers transmit at once: radio->tx takes one buffer at a time.
OneOnAir ==
    ChainInUse => \A v, w \in Workers : at[v] = "transmit" /\ at[w] = "transmit" => v = w

\* Subframes are transmitted in the order in which they were received, and from the
\* first on none is left out, although any idle worker takes any subframe
\* ("the correct sequence is guaranteed by a chain of N semaphores").
InSequence ==
    [][\A w \in Workers :
            ChainInUse /\ at[w] = "queue" /\ at'[w] = "transmit" => w = Head(pending)]_vars

\* The job of a worker (set_time and the buffer to receive into) is not touched
\* from the moment the worker takes it up until it is done with it.
JobKept == [][\A w \in Workers : at[w] \in Working => slot'[w] = slot[w]]_vars

\* The thread that receives goes on receiving until it is stopped: no signal of a
\* worker that has finished is lost, and the chain never comes to a standstill.
GoesOnReceiving == []<>(caller \in {"receive", "gone"})

\* phy::stop gets as far as the threads of the pool: txrx finds a worker once more
\* and leaves, and no worker keeps its mutex.
StopReachesPool == stopper = "join txrx" ~> stopper = "reset running"

\* phy::stop ends: every worker that waits for a job is woken up ("Need to call
\* start to wake it up").
StopEnds == stopper = "join txrx" ~> stopper = "stopped"
=============================================================================

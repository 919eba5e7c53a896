------------------------------ MODULE PhyPipelineProofs ------------------------------
(***************************************************************************)
(* Proofs about the physical layer, for every number of workers.           *)
(*                                                                         *)
(* PhyTypeOK is inductive.  PoolInv adds that only an idle worker is       *)
(* prepared and started; it is what keeps a job as it was given.  ChainInv *)
(* adds that there is one permission to transmit, either in a semaphore or *)
(* with a worker; it rests on the first transmission having no rival.      *)
(*                                                                         *)
(* QueueInv, SetUpInv and OrderInv are for InSequence: the workers that    *)
(* wait for their turn are those of pending, none is left out, and their   *)
(* slots follow one another from where the permission is.                  *)
(***************************************************************************)
EXTENDS PhyPipeline, SequenceTheorems, FiniteSetTheorems, Arithmetic, TLAPS

-----------------------------------------------------------------------------
(* Type correctness                                                        *)

LEMMA WithoutType ==
    ASSUME NEW w, pending \in Seq(Workers) PROVE Without(w) \in Seq(Workers)
<1>1. CASE \E i \in 1 .. Len(pending) : pending[i] = w
  <2> DEFINE i == CHOOSE i \in 1 .. Len(pending) : pending[i] = w
             before == SubSeq(pending, 1, i - 1)
             after == SubSeq(pending, i + 1, Len(pending))
  <2>1. i \in 1 .. Len(pending) /\ Len(pending) \in Nat
    BY <1>1
  <2>2. \A k \in 1 .. i - 1 : pending[k] \in Workers
    BY <2>1
  <2>3. \A k \in i + 1 .. Len(pending) : pending[k] \in Workers
    BY <2>1
  <2>4. before \in Seq(Workers)
    BY <2>1, <2>2, SubSeqProperties
  <2>5. after \in Seq(Workers)
    BY <2>1, <2>3, SubSeqProperties
  <2>6. Without(w) = before \o after
    BY <1>1 DEF Without, RemoveAt
  <2> HIDE DEF before, after
  <2> QED
    BY <2>4, <2>5, <2>6, ConcatProperties
<1>2. CASE ~ \E i \in 1 .. Len(pending) : pending[i] = w
  BY <1>2 DEF Without
<1> QED
  BY <1>1, <1>2

LEMMA ZeroWorker == 0 \in Workers
BY PoolAssumption DEF Workers

LEMMA SemaphoreType ==
    ASSUME tx_sem \in [Slots -> Nat], NEW s \in Slots
    PROVE  /\ [tx_sem EXCEPT ![s] = @ + 1] \in [Slots -> Nat]
           /\ tx_sem[s] > 0 => [tx_sem EXCEPT ![s] = @ - 1] \in [Slots -> Nat]
OBVIOUS

LEMMA NextSlotType == ASSUME NEW s \in Slots PROVE (s + 1) % nof_workers \in Slots
BY PoolAssumption DEF Slots, Workers

LEMMA TargetType ==
    ASSUME NEW again, NEW after, target \in Workers, NextTarget(again, after)
    PROVE  target' \in Workers /\ stopper' \in {again, after}
BY PoolAssumption DEF NextTarget, Workers

LEMMA WokenType ==
    ASSUME NEW w \in Workers, at \in [Workers -> Places]
    PROVE  Woken(w, at) \in [Workers -> Places]
BY DEF Woken, Places, Waiting

LEMMA GotoType ==
    ASSUME NEW w \in Workers, NEW place \in Places, at \in [Workers -> Places], Goto(w, place)
    PROVE  at' \in [Workers -> Places]
BY DEF Goto

LEMMA PlaceNames ==
    {"new", "loop", "check", "block", "wait", "woken", "work", "lock", "schedule", "first",
     "open", "queue", "transmit", "finish", "announce", "gone"} \subseteq Places
BY DEF Places, Waiting, Working

LEMMA TypeInit == Init => PhyTypeOK
<1>1. 0 \in Workers /\ "new" \in Places
  BY ZeroWorker, PlaceNames
<1> QED
  BY <1>1 DEF Init, PoolInit, PhyTypeOK, Statuses, Slots

LEMMA TypePool ==
    ASSUME PhyTypeOK, NEW w \in Workers, WorkerStep(w)
    PROVE  /\ status' \in [Workers -> Statuses] /\ alive' \in [Workers -> BOOLEAN]
           /\ at' \in [Workers -> Places]
           /\ caller' \in {"loop", "scan", "block", "wait", "claim", "receive", "start", "gone"}
           /\ candidate' \in Workers
<1> USE DEF PhyTypeOK
<1>1. CASE Run(w)
  BY <1>1, GotoType, PlaceNames DEF Run
<1>2. CASE Loop(w)
  <2>1. at' \in [Workers -> Places]
    BY <1>2, GotoType, PlaceNames DEF Loop
  <2> QED
    BY <1>2, <2>1 DEF Loop
<1>3. CASE NothingToDo(w)
  BY <1>3, GotoType, PlaceNames DEF NothingToDo
<1>4. CASE StartWorking(w)
  <2>1. at' \in [Workers -> Places]
    BY <1>4, GotoType, PlaceNames DEF StartWorking
  <2> QED
    BY <1>4, <2>1 DEF StartWorking, Statuses
<1>5. CASE Block(w)
  BY <1>5, GotoType, PlaceNames DEF Block
<1>6. CASE Work(w)
  <2>1. at' \in [Workers -> Places]
    BY <1>6, GotoType, PlaceNames DEF Work
  <2> QED
    BY <1>6, <2>1 DEF Work
<1>7. CASE Finish(w)
  BY <1>7, GotoType, PlaceNames DEF Finish, Statuses
<1>8. CASE Announce(w)
  <2>1. at' \in [Workers -> Places]
    BY <1>8, GotoType, PlaceNames DEF Announce
  <2> QED
    BY <1>8, ZeroWorker, <2>1 DEF Announce
<1> QED
  BY <1>1, <1>2, <1>3, <1>4, <1>5, <1>6, <1>7, <1>8 DEF WorkerStep

LEMMA TypeTxrx == ASSUME PhyTypeOK, Txrx PROVE PhyTypeOK'
<1> USE DEF PhyTypeOK, workers, txrx, chain, console
<1>1. CASE NextSubframe
  BY <1>1, ZeroWorker DEF NextSubframe
<1>2. CASE LeaveLoop
  BY <1>2 DEF LeaveLoop
<1>3. CASE WaitWorker
  <2>1. CASE FindWorker \/ WaitForWorker
    BY <1>3, <2>1 DEF WaitWorker, FindWorker, WaitForWorker
  <2>2. CASE LookFurther
    BY <1>3, <2>2 DEF WaitWorker, LookFurther
  <2>3. CASE Claim
    BY <1>3, <2>3 DEF WaitWorker, Claim, Statuses
  <2> QED
    BY <1>3, <2>1, <2>2, <2>3 DEF WaitWorker, wait_worker
<1>4. CASE Receive
  <2>1. tx_worker_cnt' \in Slots /\ slot' \in [Workers -> Slots]
    BY <1>4, NextSlotType DEF Receive
  <2> QED
    BY <1>4, <2>1 DEF Receive
<1>5. CASE StartWorker
  <2>1. at' \in [Workers -> Places]
    BY <1>5, WokenType DEF StartWorker, start_worker
  <2>2. pending' \in Seq(Workers)
    BY <1>5, AppendProperties DEF StartWorker
  <2> QED
    BY <1>5, <2>1, <2>2 DEF StartWorker, start_worker, Statuses
<1> QED
  BY <1>1, <1>2, <1>3, <1>4, <1>5 DEF Txrx

LEMMA TypeWorker == ASSUME PhyTypeOK, NEW w \in Workers, Worker(w) PROVE PhyTypeOK'
<1> USE DEF PhyTypeOK, workers, txrx, chain, console
<1>1. CASE PoolStep(w)
  <2>1. /\ status' \in [Workers -> Statuses] /\ alive' \in [Workers -> BOOLEAN]
        /\ at' \in [Workers -> Places]
        /\ caller' \in {"loop", "scan", "block", "wait", "claim", "receive", "start", "gone"}
        /\ candidate' \in Workers
    BY <1>1, TypePool DEF PoolStep
  <2> QED
    BY <1>1, <2>1 DEF PoolStep
<1>2. CASE StoppedJob(w)
  <2>1. at' \in [Workers -> Places] /\ pending' \in Seq(Workers)
    BY <1>2, GotoType, PlaceNames, WithoutType DEF StoppedJob, Drop
  <2> QED
    BY <1>2, <2>1 DEF StoppedJob
<1>3. CASE BeginJob(w)
  <2>1. at' \in [Workers -> Places]
    BY <1>3, GotoType, PlaceNames DEF BeginJob
  <2> QED
    BY <1>3, <2>1 DEF BeginJob
<1>4. CASE LockJob(w)
  <2>1. at' \in [Workers -> Places]
    BY <1>4, GotoType, PlaceNames DEF LockJob
  <2> QED
    BY <1>4, <2>1 DEF LockJob
<1>5. CASE NoGrants(w)
  <2>1. at' \in [Workers -> Places] /\ pending' \in Seq(Workers)
    BY <1>5, GotoType, PlaceNames, WithoutType DEF NoGrants, Drop
  <2> QED
    BY <1>5, <2>1 DEF NoGrants
<1>6. CASE Generate(w)
  <2>1. at' \in [Workers -> Places]
    BY <1>6, GotoType, PlaceNames DEF Generate
  <2> QED
    BY <1>6, <2>1 DEF Generate
<1>7. CASE TestFirst(w)
  <2>1. at' \in [Workers -> Places]
    BY <1>7, GotoType, PlaceNames DEF TestFirst
  <2> QED
    BY <1>7, <2>1 DEF TestFirst
<1>8. CASE OpenChain(w)
  <2>1. at' \in [Workers -> Places] /\ tx_sem' \in [Slots -> Nat]
    BY <1>8, GotoType, PlaceNames, SemaphoreType DEF OpenChain
  <2> QED
    BY <1>8, <2>1 DEF OpenChain
<1>9. CASE Transmit(w)
  <2>1. at' \in [Workers -> Places] /\ pending' \in Seq(Workers)
    BY <1>9, GotoType, PlaceNames, WithoutType DEF Transmit
  <2>2. tx_sem' \in [Slots -> Nat]
    BY <1>9, SemaphoreType DEF Transmit
  <2> QED
    BY <1>9, <2>1, <2>2 DEF Transmit
<1>10. CASE PassOn(w)
  <2>1. at' \in [Workers -> Places] /\ tx_sem' \in [Slots -> Nat]
    BY <1>10, GotoType, PlaceNames, NextSlotType, SemaphoreType DEF PassOn
  <2> QED
    BY <1>10, <2>1 DEF PassOn
<1> QED
  BY <1>1, <1>2, <1>3, <1>4, <1>5, <1>6, <1>7, <1>8, <1>9, <1>10 DEF Worker

LEMMA TypeStop == ASSUME PhyTypeOK, StopTxrx \/ Stop PROVE PhyTypeOK'
<1> USE DEF PhyTypeOK, pool, workers, txrx, chain
<1>1. CASE StopTxrx
  BY <1>1 DEF StopTxrx, At
<1>2. CASE JoinTxrx \/ JoinThread
  BY <1>2 DEF JoinTxrx, JoinThread, At
<1>3. CASE StopWorker
  BY <1>3 DEF StopWorker, At
<1>4. CASE LockWorker
  BY <1>4 DEF LockWorker, At
<1>5. CASE UnlockWorker
  <2>1. target' \in Workers /\ stopper' \in {"stop worker", "open chain"}
    BY <1>5, TargetType DEF UnlockWorker
  <2> QED
    BY <1>5, <2>1 DEF UnlockWorker
<1>6. CASE PostAll
  <2>1. target' \in Workers /\ stopper' \in {"open chain", "reset running"}
    BY <1>6, TargetType DEF PostAll
  <2>2. tx_sem' \in [Slots -> Nat]
    BY <1>6, SemaphoreType DEF PostAll, Slots
  <2> QED
    BY <1>6, <2>1, <2>2 DEF PostAll
<1>7. CASE StopThread
  BY <1>7 DEF StopThread, ResetRunning, At
<1>8. CASE SignalThread
  <2>1. at' \in [Workers -> Places]
    BY <1>8, WokenType DEF SignalThread, SignalWorker
  <2> QED
    BY <1>8, <2>1 DEF SignalThread, SignalWorker, At
<1>9. CASE StartAgain
  <2>1. at' \in [Workers -> Places]
    BY <1>9, WokenType DEF StartAgain, start_worker
  <2>2. target' \in Workers /\ stopper' \in {"reset running", "stopped"}
    BY <1>9, TargetType DEF StartAgain
  <2> QED
    BY <1>9, <2>1, <2>2 DEF StartAgain, start_worker, Statuses
<1> QED
  BY <1>1, <1>2, <1>3, <1>4, <1>5, <1>6, <1>7, <1>8, <1>9 DEF Stop

LEMMA TypeStep == PhyTypeOK /\ [Next]_vars => PhyTypeOK'
<1> SUFFICES ASSUME PhyTypeOK, [Next]_vars PROVE PhyTypeOK'
  OBVIOUS
<1> USE DEF pool, workers, txrx, chain, console
<1>1. CASE CellCfg
  BY <1>1 DEF CellCfg, PhyTypeOK
<1>2. CASE UNCHANGED vars
  BY <1>2 DEF vars, PhyTypeOK
<1> QED
  BY <1>1, <1>2, TypeTxrx, TypeWorker, TypeStop DEF Next

\* Every variable keeps its type: the count of subframes stays within the semaphores,
\* the search of find_finished_worker within the workers.
THEOREM PhyTypeCorrect == Spec => []PhyTypeOK
<1> QED
  BY TypeInit, TypeStep, PTL DEF Spec

-----------------------------------------------------------------------------
(* Only an idle worker is prepared and started                             *)

\* A worker at its job, or on the way to it or from it.
Busy(w) == at[w] \in Working \union {"woken", "finish"}

PoolInv ==
    /\ \A w \in Workers : Busy(w) => status[w] = "WORKING"
    /\ caller = "claim" => status[candidate] = "IDLE"
    /\ caller \in {"receive", "start"} => status[candidate] = "WORKER_READY"
    /\ stopper \notin {"up", "join txrx"} => caller = "gone"
    /\ stopper = "start again" => at[target] = "gone"
    /\ ChainInUse => \A w \in Workers : at[w] = "new" \/ alive[w]

LEMMA PoolInvInit == Init => PoolInv
BY ZeroWorker DEF Init, PoolInit, PoolInv, Busy, Working, ChainInUse

\* What the steps of a job have in common.
LEMMA JobGoesOn ==
    ASSUME NEW w \in Workers, Worker(w), ~PoolStep(w)
    PROVE  /\ at[w] \in Working
           /\ \E place \in Working \union {"finish"} : at' = [at EXCEPT ![w] = place]
           /\ UNCHANGED <<status, alive, caller, candidate, stopper, target>>
<1> USE DEF Working, Goto, console
<1>1. CASE StoppedJob(w) \/ BeginJob(w)
  BY <1>1 DEF StoppedJob, BeginJob
<1>2. CASE LockJob(w) \/ NoGrants(w)
  BY <1>2 DEF LockJob, NoGrants
<1>3. CASE Generate(w) \/ TestFirst(w)
  BY <1>3 DEF Generate, TestFirst
<1>4. CASE OpenChain(w)
  BY <1>4 DEF OpenChain
<1>5. CASE Transmit(w) \/ PassOn(w)
  BY <1>5 DEF Transmit, PassOn
<1> QED
  BY <1>1, <1>2, <1>3, <1>4, <1>5 DEF Worker

LEMMA PoolInvTxrx == ASSUME PhyTypeOK, PoolInv, Txrx PROVE PoolInv'
<1> USE DEF PoolInv, Busy, Working, ChainInUse, console
<1>0. candidate \in Workers /\ status \in [Workers -> Statuses] /\ at \in [Workers -> Places]
      /\ target \in Workers
  BY DEF PhyTypeOK
<1>1. CASE NextSubframe \/ LeaveLoop
  BY <1>1 DEF NextSubframe, LeaveLoop
<1>2. CASE WaitWorker
  <2>1. CASE FindWorker
    BY <1>2, <2>1 DEF WaitWorker, FindWorker, Finished
  <2>2. CASE LookFurther \/ WaitForWorker
    BY <1>2, <2>2 DEF WaitWorker, LookFurther, WaitForWorker
  <2>3. CASE Claim
    BY <1>0, <1>2, <2>3 DEF WaitWorker, Claim
  <2> QED
    BY <1>2, <2>1, <2>2, <2>3 DEF WaitWorker, wait_worker
<1>3. CASE Receive
  BY <1>3 DEF Receive
<1>4. CASE StartWorker
  BY <1>0, <1>4 DEF StartWorker, start_worker, Woken
<1> QED
  BY <1>1, <1>2, <1>3, <1>4 DEF Txrx

LEMMA PoolInvWorker == ASSUME PhyTypeOK, PoolInv, NEW w \in Workers, Worker(w) PROVE PoolInv'
<1> USE DEF PoolInv, Busy, Working, ChainInUse, console, Goto
<1>0. candidate \in Workers /\ status \in [Workers -> Statuses] /\ at \in [Workers -> Places]
      /\ target \in Workers /\ alive \in [Workers -> BOOLEAN]
      /\ stopper \in {"up", "join txrx", "stop worker", "lock worker", "unlock worker",
                      "open chain", "reset running", "signal", "join", "start again", "stopped"}
  BY DEF PhyTypeOK
<1>1. CASE PoolStep(w)
  <2>1. CASE Run(w)
    BY <1>0, <1>1, <2>1 DEF PoolStep, Run
  <2>2. CASE Loop(w)
    BY <1>0, <1>1, <2>2 DEF PoolStep, Loop
  <2>3. CASE NothingToDo(w)
    BY <1>0, <1>1, <2>3 DEF PoolStep, NothingToDo
  <2>4. CASE Block(w)
    BY <1>0, <1>1, <2>4 DEF PoolStep, Block
  <2>5. CASE StartWorking(w)
    BY <1>0, <1>1, <2>5 DEF PoolStep, StartWorking
  <2>6. CASE Work(w)
    BY <1>0, <1>1, <2>6 DEF PoolStep, Work
  <2>7. CASE Finish(w)
    BY <1>0, <1>1, <2>7 DEF PoolStep, Finish
  <2>8. CASE Announce(w)
    BY <1>0, <1>1, <2>8 DEF PoolStep, Announce
  <2> QED
    BY <1>1, <2>1, <2>2, <2>3, <2>4, <2>5, <2>6, <2>7, <2>8 DEF PoolStep, WorkerStep
<1>2. CASE ~PoolStep(w)
  <2>1. PICK place \in Working \union {"finish"} : at' = [at EXCEPT ![w] = place]
    BY <1>2, JobGoesOn
  <2>2. at[w] \in Working /\ UNCHANGED <<status, alive, caller, candidate, stopper, target>>
    BY <1>2, JobGoesOn
  <2> QED
    BY <1>0, <2>1, <2>2
<1> QED
  BY <1>1, <1>2

LEMMA PoolInvStop == ASSUME PhyTypeOK, PoolInv, StopTxrx \/ Stop PROVE PoolInv'
<1> USE DEF PoolInv, Busy, Working, ChainInUse, pool, At
<1>0. candidate \in Workers /\ status \in [Workers -> Statuses] /\ at \in [Workers -> Places]
      /\ target \in Workers /\ alive \in [Workers -> BOOLEAN]
  BY DEF PhyTypeOK
<1>1. CASE StopTxrx \/ JoinTxrx \/ StopWorker \/ LockWorker
  BY <1>1 DEF StopTxrx, JoinTxrx, StopWorker, LockWorker
<1>2. CASE UnlockWorker \/ PostAll
  BY <1>2 DEF UnlockWorker, PostAll, NextTarget
<1>3. CASE StopThread
  BY <1>3 DEF StopThread, ResetRunning
<1>4. CASE SignalThread
  BY <1>0, <1>4 DEF SignalThread, SignalWorker, Woken
<1>5. CASE JoinThread
  BY <1>5 DEF JoinThread
<1>6. CASE StartAgain
  BY <1>0, <1>6 DEF StartAgain, start_worker, NextTarget, Woken
<1> QED
  BY <1>1, <1>2, <1>3, <1>4, <1>5, <1>6 DEF Stop

LEMMA PoolInvStep == PhyTypeOK /\ PoolInv /\ [Next]_vars => PoolInv'
<1> SUFFICES ASSUME PhyTypeOK, PoolInv, [Next]_vars PROVE PoolInv'
  OBVIOUS
<1>1. CASE CellCfg \/ UNCHANGED vars
  BY <1>1 DEF CellCfg, vars, pool, console, PoolInv, Busy, ChainInUse
<1> QED
  BY <1>1, PoolInvTxrx, PoolInvWorker, PoolInvStop DEF Next

LEMMA JobStep ==
    ASSUME PhyTypeOK, PoolInv, [Next]_vars, NEW w \in Workers, at[w] \in Working
    PROVE  slot'[w] = slot[w]
<1>1. CASE Receive
  <2>1. status[w] = "WORKING" /\ status[candidate] = "WORKER_READY"
    BY <1>1 DEF Receive, PoolInv, Busy
  <2> QED
    BY <1>1, <2>1 DEF Receive, PhyTypeOK
<1>2. CASE ~Receive
  <2> USE DEF workers
  <2>1. ASSUME NEW v \in Workers, Worker(v) PROVE slot' = slot
    BY <2>1 DEF Worker, PoolStep, StoppedJob, BeginJob, LockJob, NoGrants, Generate, TestFirst,
                OpenChain, Transmit, PassOn
  <2>2. CASE Txrx
    BY <1>2, <2>2 DEF Txrx, NextSubframe, LeaveLoop, WaitWorker, StartWorker
  <2>3. CASE StopTxrx \/ Stop
    BY <2>3 DEF StopTxrx, Stop, JoinTxrx, StopWorker, LockWorker, UnlockWorker, PostAll,
                StopThread, SignalThread, JoinThread, StartAgain
  <2>4. CASE CellCfg \/ UNCHANGED vars
    BY <2>4 DEF CellCfg, vars
  <2> QED
    BY <2>1, <2>2, <2>3, <2>4 DEF Next
<1> QED
  BY <1>1, <1>2

LEMMA PoolCorrect == Spec => [](PhyTypeOK /\ PoolInv)
<1>1. Init => PhyTypeOK /\ PoolInv
  BY TypeInit, PoolInvInit
<1>2. PhyTypeOK /\ PoolInv /\ [Next]_vars => (PhyTypeOK /\ PoolInv)'
  BY TypeStep, PoolInvStep
<1> QED
  BY <1>1, <1>2, PTL DEF Spec

\* The job of a worker is not touched while it is at it, however many workers there
\* are: find_finished_worker reads the statuses while they change, but whom it finds
\* idle stays idle until he is started.
THEOREM JobStaysKept == Spec => JobKept
<1>1. PhyTypeOK /\ PoolInv /\ [Next]_vars
        => [\A w \in Workers : at[w] \in Working => slot'[w] = slot[w]]_vars
  BY JobStep
<1> QED
  BY <1>1, PoolCorrect, PTL DEF Spec, JobKept

-----------------------------------------------------------------------------
(* One permission to transmit                                              *)

\* The subframe of a worker that was started is not yet given to the radio.
Active(w) == status[w] = "START_WORK" \/ at[w] \in Working \union {"woken"}

\* One permission to transmit, in a semaphore or with a worker, and none before
\* the chain is opened.
OnePermission ==
    /\ \A s, t \in Slots : tx_sem[s] > 0 /\ tx_sem[t] > 0 => s = t
    /\ \A s \in Slots : tx_sem[s] <= 1
    /\ \A w \in Workers : at[w] = "transmit" =>
          (\A s \in Slots : tx_sem[s] = 0) /\ \A v \in Workers : at[v] = "transmit" => v = w
    /\ is_first_tx => (\A s \in Slots : tx_sem[s] = 0) /\ \A w \in Workers : at[w] # "transmit"

\* The worker that opens the chain has no rival.
FirstAlone ==
    /\ \A w \in Workers : at[w] = "open" => is_first_tx
    /\ is_first_tx => \A w \in Workers : Active(w) => pending = <<w>>
    /\ is_first_tx /\ caller = "start" => pending = <<>>

ChainInv == ChainInUse => OnePermission /\ FirstAlone

LEMMA ChainInvInit == Init => ChainInv
BY ZeroWorker DEF Init, PoolInit, ChainInv, OnePermission, FirstAlone, Active, Working, Statuses

LEMMA WithoutOnly == ASSUME NEW w, pending = <<w>> PROVE Without(w) = <<>>
<1>1. Len(pending) = 1 /\ pending[1] = w
  OBVIOUS
<1>2. (CHOOSE i \in 1 .. Len(pending) : pending[i] = w) = 1
  BY <1>1
<1>3. Without(w) = SubSeq(pending, 1, 0) \o SubSeq(pending, 2, 1)
  BY <1>1, <1>2 DEF Without, RemoveAt
<1> QED
  BY <1>3, SubSeqEmpty, ConcatEmptySeq

LEMMA ChainInvTxrx ==
    ASSUME Spaced, PhyTypeOK, PoolInv, ChainInv, Txrx PROVE ChainInv'
<1> SUFFICES ASSUME ChainInUse PROVE (OnePermission /\ FirstAlone)'
  BY DEF ChainInv, ChainInUse, Txrx, NextSubframe, LeaveLoop, WaitWorker, Receive, StartWorker,
         console
<1> USE DEF ChainInv, OnePermission, FirstAlone, Active, chain
<1>0. candidate \in Workers /\ status \in [Workers -> Statuses] /\ at \in [Workers -> Places]
  BY DEF PhyTypeOK
<1>1. CASE NextSubframe \/ LeaveLoop
  BY <1>1 DEF NextSubframe, LeaveLoop
<1>2. CASE WaitWorker
  <2>1. CASE FindWorker \/ LookFurther \/ WaitForWorker
    BY <1>2, <2>1 DEF WaitWorker, FindWorker, LookFurther, WaitForWorker
  <2>2. CASE Claim
    BY <1>0, <1>2, <2>2 DEF WaitWorker, Claim
  <2> QED
    BY <1>2, <2>1, <2>2 DEF WaitWorker, wait_worker
<1>3. CASE Receive
  BY <1>3 DEF Receive
<1>4. CASE StartWorker
  <2>1. at'[candidate] \notin {"open", "transmit"} /\ \A w \in Workers \ {candidate} : at'[w] = at[w]
    BY <1>0, <1>4 DEF StartWorker, start_worker, Woken, PoolInv, Busy, Working
  <2>2. OnePermission'
    BY <1>4, <2>1 DEF StartWorker
  <2>3. is_first_tx => pending' = <<candidate>>
    BY <1>4 DEF StartWorker
  <2>4. is_first_tx => \A w \in Workers : ~Active(w)
    BY <1>4 DEF StartWorker
  <2>5. FirstAlone'
    BY <1>0, <1>4, <2>1, <2>3, <2>4 DEF StartWorker, start_worker
  <2> QED
    BY <2>2, <2>5
<1> QED
  BY <1>1, <1>2, <1>3, <1>4 DEF Txrx

LEMMA ChainInvWorker ==
    ASSUME Spaced, PhyTypeOK, PoolInv, ChainInv, NEW w \in Workers, Worker(w) PROVE ChainInv'
<1> SUFFICES ASSUME ChainInUse PROVE (OnePermission /\ FirstAlone)'
  BY DEF ChainInv, ChainInUse, Worker, PoolStep, StoppedJob, BeginJob, LockJob, NoGrants,
         Generate, TestFirst, OpenChain, Transmit, PassOn, console
<1> USE DEF ChainInv, OnePermission, FirstAlone, Active, Working, Goto, chain
<1>0. /\ status \in [Workers -> Statuses] /\ at \in [Workers -> Places]
      /\ slot \in [Workers -> Slots] /\ tx_sem \in [Slots -> Nat]
      /\ at[w] = "new" \/ alive[w]
      /\ Busy(w) => status[w] = "WORKING"
  BY DEF PhyTypeOK, PoolInv
<1>1. CASE PoolStep(w)
  <2>0. UNCHANGED <<tx_sem, is_first_tx, pending>>
    BY <1>1 DEF PoolStep
  <2>1. CASE Run(w) \/ Loop(w) \/ NothingToDo(w) \/ Block(w)
    BY <1>0, <2>0, <2>1 DEF Run, Loop, NothingToDo, Block
  <2>2. CASE StartWorking(w)
    <3>1. status[w] = "START_WORK"
      BY <1>0, <2>2 DEF StartWorking
    <3> QED
      BY <1>0, <2>0, <2>2, <3>1 DEF StartWorking
  <2>3. CASE Work(w)
    BY <1>0, <2>0, <2>3 DEF Work
  <2>4. CASE Finish(w)
    BY <1>0, <2>0, <2>4 DEF Finish
  <2>5. CASE Announce(w)
    BY <1>0, <2>0, <2>5 DEF Announce
  <2> QED
    BY <1>1, <2>1, <2>2, <2>3, <2>4, <2>5 DEF PoolStep, WorkerStep
<1>2. CASE StoppedJob(w) \/ NoGrants(w)
  <2>1. at[w] \in Working /\ at' = [at EXCEPT ![w] = "finish"] /\ Drop(w)
        /\ UNCHANGED <<status, caller, tx_sem, is_first_tx>>
    BY <1>2 DEF StoppedJob, NoGrants
  <2>2. OnePermission'
    BY <1>0, <2>1
  <2>3. is_first_tx => pending = <<w>> /\ pending' = <<>>
    BY <2>1, WithoutOnly DEF Drop
  <2>4. is_first_tx => \A v \in Workers : ~Active(v)'
    BY <1>0, <2>1, <2>3 DEF Busy
  <2> QED
    BY <1>0, <2>1, <2>2, <2>3, <2>4
<1>3. CASE BeginJob(w) \/ LockJob(w) \/ Generate(w)
  BY <1>0, <1>3 DEF BeginJob, LockJob, Generate
<1>4. CASE TestFirst(w)
  BY <1>0, <1>4 DEF TestFirst
<1>5. CASE OpenChain(w)
  <2>1. is_first_tx /\ \A v \in Workers : at[v] = "open" => v = w
    BY <1>5 DEF OpenChain
  <2>2. OnePermission'
    BY <1>0, <1>5, <2>1 DEF OpenChain
  <2> QED
    BY <1>0, <1>5, <2>1, <2>2 DEF OpenChain
<1>6. CASE Transmit(w)
  <2>1. ~is_first_tx /\ \A s \in Slots : tx_sem'[s] = 0
    BY <1>0, <1>6 DEF Transmit
  <2>2. \A v \in Workers : at'[v] = "transmit" => v = w
    BY <1>0, <1>6 DEF Transmit
  <2> QED
    BY <1>0, <1>6, <2>1, <2>2 DEF Transmit
<1>7. CASE PassOn(w)
  <2> DEFINE s == (slot[w] + 1) % nof_workers
  <2>1. s \in Slots
    BY <1>0, NextSlotType
  <2>2. ~is_first_tx /\ (\A t \in Slots : tx_sem[t] = 0) /\ tx_sem' = [tx_sem EXCEPT ![s] = @ + 1]
    BY <1>7 DEF PassOn
  <2>3. \A v \in Workers : at'[v] # "transmit"
    BY <1>0, <1>7 DEF PassOn
  <2> HIDE DEF s
  <2>4. OnePermission'
    BY <1>0, <1>7, <2>1, <2>2, <2>3 DEF PassOn
  <2> QED
    BY <1>0, <1>7, <2>2, <2>4 DEF PassOn
<1> QED
  BY <1>1, <1>2, <1>3, <1>4, <1>5, <1>6, <1>7 DEF Worker

\* What neither touches the chain nor moves a worker.
LEMMA ChainInvSame ==
    ASSUME ChainInv, ChainInUse' => ChainInUse,
           UNCHANGED <<status, at, caller, tx_sem, is_first_tx, pending>>
    PROVE  ChainInv'
<1>1. \A w \in Workers : Active(w)' <=> Active(w)
  BY DEF Active
<1> QED
  BY <1>1 DEF ChainInv, OnePermission, FirstAlone

LEMMA ChainInvStop == ASSUME ChainInv, StopTxrx \/ Stop PROVE ChainInv'
<1> USE DEF ChainInUse, At, NextTarget, pool, chain
<1>1. CASE StopTxrx \/ JoinTxrx
  BY <1>1, ChainInvSame DEF StopTxrx, JoinTxrx
<1>2. CASE StopWorker \/ LockWorker \/ UnlockWorker
  BY <1>2, ChainInvSame DEF StopWorker, LockWorker, UnlockWorker
<1>3. CASE PostAll \/ StopThread \/ SignalThread \/ JoinThread \/ StartAgain
  BY <1>3 DEF PostAll, StopThread, SignalThread, JoinThread, StartAgain, ChainInv
<1> QED
  BY <1>1, <1>2, <1>3 DEF Stop

LEMMA ChainInvStep ==
    ASSUME Spaced PROVE PhyTypeOK /\ PoolInv /\ ChainInv /\ [Next]_vars => ChainInv'
<1> SUFFICES ASSUME PhyTypeOK, PoolInv, ChainInv, [Next]_vars PROVE ChainInv'
  OBVIOUS
<1>1. CASE CellCfg \/ UNCHANGED vars
  BY <1>1, ChainInvSame DEF CellCfg, vars, pool, chain, console, ChainInUse
<1> QED
  BY <1>1, ChainInvTxrx, ChainInvWorker, ChainInvStop DEF Next

\* Two workers never transmit at once, however many there are, if the subframes of
\* the beginning are as far apart as the comment in worker_end says.
THEOREM AloneOnAir == ASSUME Spaced PROVE Spec => []OneOnAir
<1>1. ChainInv => OneOnAir
  BY DEF ChainInv, OnePermission, OneOnAir
<1> QED
  BY <1>1, ChainInvInit, ChainInvStep, PoolCorrect, PTL DEF Spec

-----------------------------------------------------------------------------
(* The order of transmission                                               *)

Queued(w) == \E i \in 1 .. Len(pending) : pending[i] = w

\* Started, and not yet allowed to transmit.
OnItsWay(w) ==
    status[w] = "START_WORK" \/ at[w] \in (Working \ {"transmit"}) \union {"woken"}

\* txrx may still start workers.
ReceivingOn == stopper \in {"up", "join txrx"}

OnceEach == \A i, j \in 1 .. Len(pending) : pending[i] = pending[j] => i = j

\* Who is on its way is queued, and until the workers are stopped nobody else.
QueueInv == ChainInUse =>
    /\ OnceEach
    /\ \A w \in Workers : OnItsWay(w) => Queued(w)
    /\ ReceivingOn => \A w \in Workers : Queued(w) => OnItsWay(w)

\* What keeps a subframe from being left out once the chain is open: the cell is
\* configured, and no worker is stopped while txrx receives.
SetUpInv == ChainInUse =>
    /\ ReceivingOn => \A w \in Workers : running[w]
    /\ ~is_first_tx => configured
    /\ \A w \in Workers : at[w] \in {"first", "open"} => configured

\* The slot of the next worker to be started.
NextSlot == IF caller = "start" THEN slot[candidate] ELSE tx_worker_cnt

\* The permission to transmit is at slot p or on its way to it.
Permits(p) ==
    \/ tx_sem[p] > 0
    \/ \E w \in Workers : at[w] = "transmit" /\ (slot[w] + 1) % nof_workers = p

\* The queue holds the slots from p on, and ends where the next worker will come.
QueueFrom(p) ==
    /\ \A i \in 1 .. Len(pending) : slot[pending[i]] = (p + (i - 1)) % nof_workers
    /\ (p + Len(pending)) % nof_workers = NextSlot

OrderInv == ChainInUse =>
    /\ caller = "start" => tx_worker_cnt = (slot[candidate] + 1) % nof_workers
    /\ is_first_tx => \A i \in 1 .. Len(pending) :
                        (slot[pending[i]] + 1) % nof_workers = tx_worker_cnt
    /\ ~is_first_tx => \A p \in Slots : Permits(p) => QueueFrom(p)

\* The stopper only moves on, and txrx and the workers leave it alone.
LEMMA StopperMoves ==
    ASSUME [Next]_vars PROVE (ChainInUse' => ChainInUse) /\ (ReceivingOn' => ReceivingOn)
<1> USE DEF ChainInUse, ReceivingOn, console
<1>1. CASE Txrx
  BY <1>1 DEF Txrx, NextSubframe, LeaveLoop, WaitWorker, Receive, StartWorker
<1>2. ASSUME NEW w \in Workers, Worker(w)
      PROVE  (ChainInUse' => ChainInUse) /\ (ReceivingOn' => ReceivingOn)
  BY <1>2 DEF Worker, PoolStep, StoppedJob, BeginJob, LockJob, NoGrants, Generate, TestFirst,
              OpenChain, Transmit, PassOn
<1>3. CASE StopTxrx \/ Stop
  BY <1>3 DEF StopTxrx, Stop, JoinTxrx, StopWorker, LockWorker, UnlockWorker, PostAll,
              StopThread, SignalThread, JoinThread, StartAgain, At, NextTarget
<1>4. CASE CellCfg \/ UNCHANGED vars
  BY <1>4 DEF CellCfg, vars
<1> QED
  BY <1>1, <1>2, <1>3, <1>4 DEF Next

\* Only Transmit lets a worker that waits for its turn transmit.
LEMMA TransmitOnly ==
    ASSUME [Next]_vars, at \in [Workers -> Places],
           NEW w \in Workers, at[w] = "queue", at'[w] = "transmit"
    PROVE  Transmit(w)
<1>1. ASSUME NEW v \in Workers, Worker(v) PROVE Transmit(w)
  <2>1. CASE PoolStep(v)
    BY <2>1 DEF PoolStep, WorkerStep, Run, Loop, NothingToDo, StartWorking, Block, Work, Finish,
                Announce, Goto
  <2>2. CASE ~PoolStep(v) /\ ~Transmit(v)
    BY <1>1, <2>2 DEF Worker, StoppedJob, BeginJob, LockJob, NoGrants, Generate, TestFirst,
                      OpenChain, PassOn, Goto
  <2>3. CASE Transmit(v)
    BY <2>3 DEF Transmit, Goto
  <2> QED
    BY <2>1, <2>2, <2>3
<1>2. CASE Txrx
  BY <1>2 DEF Txrx, NextSubframe, LeaveLoop, WaitWorker, wait_worker, FindWorker, LookFurther,
              WaitForWorker, Claim, Receive, StartWorker, start_worker, Woken
<1>3. CASE StopTxrx \/ Stop
  BY <1>3 DEF StopTxrx, Stop, JoinTxrx, StopWorker, LockWorker, UnlockWorker, PostAll,
              StopThread, ResetRunning, SignalThread, SignalWorker, JoinThread, StartAgain,
              start_worker, Woken, pool
<1>4. CASE CellCfg \/ UNCHANGED vars
  BY <1>4 DEF CellCfg, vars, pool
<1> QED
  BY <1>1, <1>2, <1>3, <1>4 DEF Next

LEMMA SetUpInit == Init => SetUpInv
BY DEF Init, PoolInit, SetUpInv

LEMMA SetUpStep == PhyTypeOK /\ SetUpInv /\ [Next]_vars => SetUpInv'
<1> SUFFICES ASSUME PhyTypeOK, SetUpInv, [Next]_vars, ChainInUse, ReceivingOn' => ReceivingOn
             PROVE  SetUpInv'
  BY StopperMoves DEF SetUpInv
<1> USE DEF SetUpInv, chain, workers, pool, console, Goto
<1>0. at \in [Workers -> Places] /\ running \in [Workers -> BOOLEAN] /\ target \in Workers
      /\ candidate \in Workers
  BY DEF PhyTypeOK
<1>1. CASE Txrx
  <2>1. UNCHANGED <<running, is_first_tx, configured>>
    BY <1>1 DEF Txrx, NextSubframe, LeaveLoop, WaitWorker, Receive, StartWorker
  <2>2. \A w \in Workers : at'[w] = at[w] \/ at'[w] = "check"
    BY <1>0, <1>1 DEF Txrx, NextSubframe, LeaveLoop, WaitWorker, wait_worker, FindWorker, LookFurther,
           WaitForWorker, Claim, Receive, StartWorker, start_worker, Woken
  <2> QED
    BY <2>1, <2>2
<1>2. ASSUME NEW w \in Workers, Worker(w) PROVE SetUpInv'
  <2>1. CASE PoolStep(w)
    <3>1. at'[w] \notin {"first", "open"} /\ \A v \in Workers \ {w} : at'[v] = at[v]
      BY <1>0, <2>1 DEF PoolStep, WorkerStep, Run, Loop, NothingToDo, StartWorking, Block, Work,
                        Finish, Announce
    <3>2. UNCHANGED <<running, is_first_tx, configured>>
      BY <2>1 DEF PoolStep
    <3> QED
      BY <3>1, <3>2
  <2>2. CASE StoppedJob(w) \/ BeginJob(w) \/ LockJob(w) \/ NoGrants(w)
    BY <1>0, <2>2 DEF StoppedJob, BeginJob, LockJob, NoGrants
  <2>3. CASE Generate(w) \/ TestFirst(w)
    BY <1>0, <2>3 DEF Generate, TestFirst
  <2>4. CASE OpenChain(w)
    BY <1>0, <2>4 DEF OpenChain
  <2>5. CASE Transmit(w) \/ PassOn(w)
    BY <1>0, <2>5 DEF Transmit, PassOn
  <2> QED
    BY <1>2, <2>1, <2>2, <2>3, <2>4, <2>5 DEF Worker
<1>3. CASE StopTxrx \/ Stop
  <2>1. UNCHANGED <<is_first_tx, configured>>
    BY <1>3 DEF StopTxrx, Stop, JoinTxrx, StopWorker, LockWorker, UnlockWorker, PostAll,
                StopThread, SignalThread, JoinThread, StartAgain
  <2>2. ReceivingOn' => running' = running
    BY <1>3 DEF StopTxrx, Stop, JoinTxrx, StopWorker, LockWorker, UnlockWorker, PostAll,
                StopThread, SignalThread, JoinThread, StartAgain, At, ReceivingOn
  <2>3. \A w \in Workers : at'[w] = at[w] \/ at'[w] = "check"
    BY <1>0, <1>3 DEF StopTxrx, Stop, JoinTxrx, StopWorker, LockWorker, UnlockWorker, PostAll,
           StopThread, ResetRunning, SignalThread, SignalWorker, JoinThread, StartAgain,
           start_worker, Woken
  <2> QED
    BY <2>1, <2>2, <2>3
<1>4. CASE CellCfg
  BY <1>4 DEF CellCfg
<1>5. CASE UNCHANGED vars
  BY <1>5 DEF vars
<1> QED
  BY <1>1, <1>2, <1>3, <1>4, <1>5 DEF Next

-----------------------------------------------------------------------------
\* The subframes at the head leaves the queue to the others.
LEMMA WithoutHead ==
    ASSUME pending \in Seq(Workers), pending # <<>>, NEW w, w = pending[1], OnceEach
    PROVE  /\ Without(w) = Tail(pending) /\ Len(Tail(pending)) = Len(pending) - 1
           /\ \A i \in 1 .. Len(pending) - 1 : Tail(pending)[i] = pending[i + 1]
<1>1. 1 \in 1 .. Len(pending) /\ Len(pending) \in Nat
  OBVIOUS
<1>2. (CHOOSE i \in 1 .. Len(pending) : pending[i] = w) = 1
  BY <1>1 DEF OnceEach
<1>3. Without(w) = SubSeq(pending, 1, 0) \o SubSeq(pending, 2, Len(pending))
  <2>1. Without(w) = RemoveAt(pending, 1)
    BY <1>1, <1>2, Zenon DEF Without
  <2>2. 1 - 1 = 0 /\ 1 + 1 = 2
    OBVIOUS
  <2> QED
    BY <2>1, <2>2, Zenon DEF RemoveAt
<1>4. SubSeq(pending, 2, Len(pending)) \in Seq(Workers)
  <2>1. \A k \in 2 .. Len(pending) : pending[k] \in Workers
    BY <1>1
  <2> QED
    BY <1>1, <2>1, SubSeqProperties
<1>5. SubSeq(pending, 1, 0) = <<>>
  BY <1>1, SubSeqEmpty
<1>6. Without(w) = Tail(pending)
  BY <1>3, <1>4, <1>5, TailIsSubSeq, ConcatEmptySeq
<1> QED
  BY <1>6, HeadTailProperties

\* What leaves the queue alone, and who is on its way.
LEMMA QueueSame ==
    ASSUME QueueInv, ChainInUse' => ChainInUse, ReceivingOn' => ReceivingOn,
           UNCHANGED pending, \A w \in Workers : OnItsWay(w)' <=> OnItsWay(w)
    PROVE  QueueInv'
BY DEF QueueInv, OnceEach, Queued

LEMMA QueueInit == Init => QueueInv
<1>1. Init => pending = <<>> /\ \A w \in Workers : ~OnItsWay(w)
  BY DEF Init, PoolInit, OnItsWay, Working
<1> QED
  BY <1>1 DEF QueueInv, OnceEach, Queued

LEMMA QueueTxrx ==
    ASSUME PhyTypeOK, PoolInv, QueueInv, Txrx, ChainInUse, ReceivingOn' => ReceivingOn
    PROVE  QueueInv'
<1> USE DEF OnItsWay, Working
<1>0. candidate \in Workers /\ status \in [Workers -> Statuses] /\ at \in [Workers -> Places]
      /\ pending \in Seq(Workers)
  BY DEF PhyTypeOK
<1>1. CASE NextSubframe \/ LeaveLoop \/ Receive
  BY <1>1, QueueSame DEF NextSubframe, LeaveLoop, Receive
<1>2. CASE WaitWorker
  <2>1. CASE FindWorker \/ LookFurther \/ WaitForWorker
    BY <1>2, <2>1, QueueSame DEF WaitWorker, FindWorker, LookFurther, WaitForWorker
  <2>2. CASE Claim
    <3>1. status[candidate] # "START_WORK" /\ \A w \in Workers : OnItsWay(w)' <=> OnItsWay(w)
      BY <1>0, <1>2, <2>2 DEF WaitWorker, Claim, PoolInv
    <3> QED
      BY <1>2, <2>2, <3>1, QueueSame DEF WaitWorker, Claim
  <2> QED
    BY <1>2, <2>1, <2>2 DEF WaitWorker, wait_worker
<1>3. CASE StartWorker
  <2>1. ReceivingOn /\ ~OnItsWay(candidate)
    BY <1>0, <1>3 DEF StartWorker, PoolInv, Busy, ReceivingOn
  <2>2. /\ candidate' = candidate /\ OnItsWay(candidate)'
        /\ \A w \in Workers \ {candidate} : OnItsWay(w)' <=> OnItsWay(w)
    BY <1>0, <1>3 DEF StartWorker, start_worker, Woken
  <2>3. ~Queued(candidate)
    BY <1>0, <2>1 DEF QueueInv
  <2>4. /\ Len(pending) \in Nat /\ Len(pending') = Len(pending) + 1
        /\ \A i \in 1 .. Len(pending) : pending'[i] = pending[i]
        /\ pending'[Len(pending) + 1] = candidate
    BY <1>0, <1>3, AppendProperties DEF StartWorker
  <2>5. OnceEach'
    BY <2>3, <2>4 DEF OnceEach, Queued, QueueInv
  <2>6. \A w \in Workers : Queued(w)' <=> Queued(w) \/ w = candidate
    BY <2>4 DEF Queued
  <2> HIDE DEF OnItsWay
  <2>7. ASSUME NEW w \in Workers PROVE Queued(w)' <=> OnItsWay(w)'
    BY <2>1, <2>2, <2>6 DEF QueueInv
  <2> QED
    BY <2>5, <2>7 DEF QueueInv
<1> QED
  BY <1>1, <1>2, <1>3 DEF Txrx

\* A worker that is allowed to transmit is the oldest of the queue: the permission
\* is at its slot, the slots of the queue follow from there, and the queue is no
\* longer than the workers are many.
LEMMA OldestFirst ==
    ASSUME PhyTypeOK, ChainInUse, QueueInv, OrderInv, ~is_first_tx,
           NEW w \in Workers, at[w] = "queue", tx_sem[slot[w]] > 0
    PROVE  pending # <<>> /\ w = pending[1]
<1>0. /\ slot[w] \in 0 .. nof_workers - 1 /\ pending \in Seq(Workers) /\ Len(pending) \in Nat
      /\ pending \in [1 .. Len(pending) -> Workers]
      /\ nof_workers \in Nat /\ nof_workers > 0
  <2>1. pending \in Seq(Workers) /\ slot[w] \in Slots
    BY DEF PhyTypeOK
  <2>2. pending \in [1 .. Len(pending) -> Workers] /\ Len(pending) \in Nat
    BY <2>1
  <2> QED
    BY <2>1, <2>2, PoolAssumption DEF Slots, Workers
<1>1. PICK i \in 1 .. Len(pending) : pending[i] = w
  BY DEF QueueInv, OnItsWay, Working, Queued
<1>2. (slot[w] + (i - 1)) % nof_workers = slot[w]
  <2>1. slot[w] \in Slots /\ Permits(slot[w])
    BY <1>0 DEF Permits, Slots, Workers
  <2>2. QueueFrom(slot[w])
    BY <2>1 DEF OrderInv
  <2>3. slot[pending[i]] = (slot[w] + (i - 1)) % nof_workers
    BY <1>1, <2>2 DEF QueueFrom
  <2> QED
    BY <1>1, <2>3
<1>3. Len(pending) <= nof_workers
  <2>1. SUFFICES ASSUME nof_workers < Len(pending) PROVE FALSE
    BY <1>0
  <2>2. IsFiniteSet(Workers) /\ Cardinality(Workers) = nof_workers
    <3>1. 0 \in Int /\ nof_workers - 1 \in Int /\ ~(0 > nof_workers - 1)
      BY <1>0
    <3> QED
      BY <1>0, <3>1, FS_Interval DEF Workers
  <2>3. IsFiniteSet(1 .. Len(pending)) /\ Cardinality(1 .. Len(pending)) = Len(pending)
    <3> DEFINE n == Len(pending)
    <3>1. 1 \in Int /\ n \in Int /\ ~(1 > n) /\ (n - 1) + 1 = n
      BY <1>0, <2>1
    <3> HIDE DEF n
    <3>2. IsFiniteSet(1 .. n) /\ Cardinality(1 .. n) = n
      BY <3>1, FS_Interval
    <3> QED
      BY <3>2 DEF n
  <2>4. \E x, y \in 1 .. Len(pending) : x # y /\ pending[x] = pending[y]
    BY <1>0, <2>1, <2>2, <2>3, FS_PigeonHole
  <2> QED
    BY <2>4 DEF QueueInv, OnceEach
<1>4. i - 1 \in 0 .. nof_workers - 1
  BY <1>0, <1>1, <1>3
<1>5. i - 1 = 0
  <2> DEFINE b == i - 1
  <2>1. b \in 0 .. nof_workers - 1 /\ (slot[w] + b) % nof_workers = slot[w]
    BY <1>2, <1>4
  <2> HIDE DEF b
  <2>2. b = 0
    BY <1>0, <2>1, ModStay
  <2> QED
    BY <2>2 DEF b
<1>6. i = 1
  BY <1>5
<1> QED
  BY <1>0, <1>1, <1>6

LEMMA QueueWorker ==
    ASSUME PhyTypeOK, PoolInv, ChainInv, SetUpInv, QueueInv, OrderInv, ChainInUse,
           ReceivingOn' => ReceivingOn, NEW w \in Workers, Worker(w)
    PROVE  QueueInv'
<1> USE DEF Working, Goto
<1>0. /\ status \in [Workers -> Statuses] /\ at \in [Workers -> Places]
      /\ slot \in [Workers -> Slots] /\ tx_sem \in [Slots -> Nat] /\ pending \in Seq(Workers)
      /\ at[w] = "new" \/ alive[w]
      /\ Busy(w) => status[w] = "WORKING"
  BY DEF PhyTypeOK, PoolInv
<1>1. CASE PoolStep(w)
  <2>1. \A v \in Workers : OnItsWay(v)' <=> OnItsWay(v)
    <3> USE DEF OnItsWay
    <3>1. CASE Run(w) \/ Loop(w) \/ NothingToDo(w) \/ Block(w)
      BY <1>0, <3>1 DEF Run, Loop, NothingToDo, Block
    <3>2. CASE StartWorking(w)
      BY <1>0, <3>2 DEF StartWorking
    <3>3. CASE Work(w)
      BY <1>0, <3>3 DEF Work
    <3>4. CASE Finish(w)
      BY <1>0, <3>4 DEF Finish, Busy
    <3>5. CASE Announce(w)
      BY <1>0, <3>5 DEF Announce
    <3> QED
      BY <1>1, <3>1, <3>2, <3>3, <3>4, <3>5 DEF PoolStep, WorkerStep
  <2> QED
    BY <1>1, <2>1, QueueSame DEF PoolStep
<1>2. CASE StoppedJob(w) \/ NoGrants(w)
  <2>1. /\ at[w] \in {"work", "schedule"} /\ at' = [at EXCEPT ![w] = "finish"] /\ Drop(w)
        /\ UNCHANGED <<status, is_first_tx>>
    BY <1>2 DEF StoppedJob, NoGrants, chain
  <2>2. ~OnItsWay(w)' /\ \A v \in Workers \ {w} : OnItsWay(v)' <=> OnItsWay(v)
    BY <1>0, <2>1 DEF OnItsWay, Busy
  <2>3. CASE is_first_tx
    <3>1. pending = <<w>> /\ pending' = <<>>
      BY <2>1, <2>3, WithoutOnly DEF Drop, ChainInv, FirstAlone, Active
    <3>2. Len(pending) = 1 /\ pending[1] = w /\ Len(pending') = 0
      BY <3>1
    <3>3. \A v \in Workers \ {w} : ~OnItsWay(v)
      BY <3>2 DEF QueueInv, Queued
    <3>4. OnceEach' /\ \A v \in Workers : ~Queued(v)'
      BY <3>2 DEF OnceEach, Queued
    <3> QED
      BY <2>2, <3>3, <3>4 DEF QueueInv
  <2>4. CASE ~is_first_tx
    <3>1. pending' = pending
      BY <2>1, <2>4 DEF Drop
    <3>2. ~ReceivingOn
      BY <1>2, <2>4 DEF SetUpInv, StoppedJob, NoGrants
    <3>3. OnceEach' /\ \A v \in Workers : Queued(v)' <=> Queued(v)
      BY <3>1 DEF OnceEach, Queued, QueueInv
    <3>4. \A v \in Workers : OnItsWay(v)' => OnItsWay(v)
      BY <2>2
    <3> QED
      BY <3>2, <3>3, <3>4 DEF QueueInv
  <2> QED
    BY <2>3, <2>4
<1>3. CASE BeginJob(w) \/ LockJob(w) \/ Generate(w)
  BY <1>0, <1>3, QueueSame DEF BeginJob, LockJob, Generate, OnItsWay
<1>4. CASE TestFirst(w) \/ OpenChain(w)
  <2>1. \A v \in Workers : OnItsWay(v)' <=> OnItsWay(v)
    BY <1>0, <1>4 DEF TestFirst, OpenChain, OnItsWay
  <2> QED
    BY <1>4, <2>1, QueueSame DEF TestFirst, OpenChain
<1>5. CASE Transmit(w)
  <2>1. ~is_first_tx
    BY <1>0, <1>5 DEF Transmit, ChainInv, OnePermission
  <2>2. pending # <<>> /\ w = pending[1]
    BY <1>5, <2>1, OldestFirst DEF Transmit
  <2>3. /\ pending' = Tail(pending) /\ Len(pending') = Len(pending) - 1
        /\ \A i \in 1 .. Len(pending) - 1 : pending'[i] = pending[i + 1]
    BY <1>0, <1>5, <2>2, WithoutHead DEF Transmit, QueueInv
  <2>4. Len(pending) \in Nat /\ Len(pending) > 0
    BY <1>0, <2>2
  <2>5. OnceEach'
    <3>1. SUFFICES ASSUME NEW i \in 1 .. Len(pending'), NEW j \in 1 .. Len(pending'),
                          pending'[i] = pending'[j]
                   PROVE  i = j
      BY DEF OnceEach
    <3>2. i + 1 \in 1 .. Len(pending) /\ j + 1 \in 1 .. Len(pending)
      BY <2>3, <2>4
    <3>3. pending[i + 1] = pending[j + 1]
      BY <2>3, <2>4, <3>1
    <3>4. i + 1 = j + 1
      BY <3>2, <3>3 DEF QueueInv, OnceEach
    <3> QED
      BY <2>3, <2>4, <3>4
  <2>6. ASSUME NEW v \in Workers PROVE Queued(v)' <=> Queued(v) /\ v # w
    <3>1. ASSUME NEW i \in 1 .. Len(pending'), pending'[i] = v PROVE Queued(v) /\ v # w
      <4>1. i + 1 \in 1 .. Len(pending) /\ i + 1 # 1 /\ 1 \in 1 .. Len(pending)
        BY <2>3, <2>4
      <4>2. pending[i + 1] = v
        BY <2>3, <2>4, <3>1
      <4> QED
        BY <2>2, <4>1, <4>2 DEF Queued, QueueInv, OnceEach
    <3>2. ASSUME NEW i \in 1 .. Len(pending), pending[i] = v, v # w PROVE Queued(v)'
      <4>1. i - 1 \in 1 .. Len(pending) - 1 /\ (i - 1) + 1 = i
        BY <2>2, <2>4, <3>2
      <4>2. pending'[i - 1] = v
        BY <2>3, <3>2, <4>1
      <4> QED
        BY <2>3, <4>1, <4>2 DEF Queued
    <3> QED
      BY <3>1, <3>2 DEF Queued
  <2>7. ~OnItsWay(w)' /\ \A v \in Workers \ {w} : OnItsWay(v)' <=> OnItsWay(v)
    BY <1>0, <1>5 DEF Transmit, OnItsWay, Busy
  <2>8. \A v \in Workers : OnItsWay(v)' <=> OnItsWay(v) /\ v # w
    BY <2>7
  <2> QED
    BY <2>5, <2>6, <2>8 DEF QueueInv
<1>6. CASE PassOn(w)
  <2>1. \A v \in Workers : OnItsWay(v)' <=> OnItsWay(v)
    BY <1>0, <1>6 DEF PassOn, OnItsWay
  <2> QED
    BY <1>6, <2>1, QueueSame DEF PassOn
<1> QED
  BY <1>1, <1>2, <1>3, <1>4, <1>5, <1>6 DEF Worker

LEMMA QueueStop ==
    ASSUME QueueInv, StopTxrx \/ Stop, ChainInUse' => ChainInUse, ReceivingOn' => ReceivingOn
    PROVE  QueueInv'
<1>1. CASE StopTxrx \/ JoinTxrx \/ StopWorker \/ LockWorker \/ UnlockWorker
  BY <1>1, QueueSame DEF StopTxrx, JoinTxrx, StopWorker, LockWorker, UnlockWorker, OnItsWay, pool
<1>2. CASE PostAll \/ StopThread \/ SignalThread \/ JoinThread \/ StartAgain
  BY <1>2 DEF PostAll, StopThread, SignalThread, JoinThread, StartAgain, At, NextTarget,
              ChainInUse, QueueInv
<1> QED
  BY <1>1, <1>2 DEF Stop

LEMMA QueueStep ==
    PhyTypeOK /\ PoolInv /\ ChainInv /\ SetUpInv /\ QueueInv /\ OrderInv /\ [Next]_vars
      => QueueInv'
<1> SUFFICES ASSUME PhyTypeOK, PoolInv, ChainInv, SetUpInv, QueueInv, OrderInv, [Next]_vars,
                    ChainInUse, ChainInUse' => ChainInUse, ReceivingOn' => ReceivingOn
             PROVE  QueueInv'
  BY StopperMoves DEF QueueInv
<1>1. CASE CellCfg \/ UNCHANGED vars
  BY <1>1, QueueSame DEF CellCfg, vars, pool, OnItsWay
<1> QED
  BY <1>1, QueueTxrx, QueueWorker, QueueStop DEF Next

\* What leaves alone the queue, its slots and the permission.
LEMMA OrderSame ==
    ASSUME OrderInv, ChainInUse' => ChainInUse,
           UNCHANGED <<slot, tx_worker_cnt, tx_sem, is_first_tx, pending>>,
           caller' = "start" <=> caller = "start", caller = "start" => candidate' = candidate,
           \A w \in Workers : at'[w] = "transmit" <=> at[w] = "transmit"
    PROVE  OrderInv'
<1>1. NextSlot' = NextSlot
  BY DEF NextSlot
<1>2. \A p \in Slots : Permits(p)' <=> Permits(p)
  BY DEF Permits
<1>3. \A p \in Slots : QueueFrom(p)' <=> QueueFrom(p)
  BY <1>1 DEF QueueFrom
<1> QED
  BY <1>2, <1>3 DEF OrderInv

LEMMA OrderInit == Init => OrderInv
<1>1. Init => pending = <<>> /\ caller = "loop" /\ is_first_tx
  BY DEF Init, PoolInit
<1> QED
  BY <1>1 DEF OrderInv

LEMMA OrderReceive ==
    ASSUME Spaced, PhyTypeOK, PoolInv, QueueInv, OrderInv, ChainInUse, Receive
    PROVE  OrderInv'
<1>0. /\ candidate \in Workers /\ tx_worker_cnt \in Slots /\ slot \in [Workers -> Slots]
      /\ at \in [Workers -> Places] /\ pending \in Seq(Workers)
  BY DEF PhyTypeOK
<1>1. ~Queued(candidate) /\ at[candidate] # "transmit"
  <2>1. ReceivingOn /\ status[candidate] = "WORKER_READY" /\ ~Busy(candidate)
    BY <1>0 DEF Receive, PoolInv, ReceivingOn
  <2> QED
    BY <1>0, <2>1 DEF QueueInv, OnItsWay, Busy, Working
<1>2. /\ slot'[candidate] = tx_worker_cnt /\ \A w \in Workers \ {candidate} : slot'[w] = slot[w]
      /\ tx_worker_cnt' = (tx_worker_cnt + 1) % nof_workers
      /\ caller' = "start" /\ candidate' = candidate /\ is_first_tx' = is_first_tx
      /\ UNCHANGED <<pending, tx_sem, at>>
  BY <1>0 DEF Receive, chain
<1>3. NextSlot' = NextSlot
  BY <1>2 DEF NextSlot, Receive
<1>4. \A p \in Slots : Permits(p)' => Permits(p)
  BY <1>1, <1>2 DEF Permits
<1>5. \A i \in 1 .. Len(pending) : slot'[pending[i]] = slot[pending[i]]
  BY <1>0, <1>1, <1>2 DEF Queued
<1>6. \A p \in Slots : QueueFrom(p) => QueueFrom(p)'
  BY <1>2, <1>3, <1>5 DEF QueueFrom
<1>7. is_first_tx => Len(pending) = 0
  BY DEF Receive
<1>8. is_first_tx' => \A i \in 1 .. Len(pending') :
                          (slot'[pending'[i]] + 1) % nof_workers = tx_worker_cnt'
  BY <1>2, <1>7
<1>9. tx_worker_cnt' = (slot'[candidate'] + 1) % nof_workers
  BY <1>2
<1>10. ~is_first_tx' => \A p \in Slots : Permits(p)' => QueueFrom(p)'
  BY <1>2, <1>4, <1>6 DEF OrderInv
<1> QED
  BY <1>8, <1>9, <1>10 DEF OrderInv

LEMMA OrderStart ==
    ASSUME PhyTypeOK, ChainInv, OrderInv, ChainInUse, StartWorker PROVE OrderInv'
<1>0. /\ candidate \in Workers /\ slot \in [Workers -> Slots] /\ at \in [Workers -> Places]
      /\ pending \in Seq(Workers) /\ Len(pending) \in Nat
  <2>1. candidate \in Workers /\ slot \in [Workers -> Slots] /\ at \in [Workers -> Places]
        /\ pending \in Seq(Workers)
    BY DEF PhyTypeOK
  <2> QED
    BY <2>1
<1>1. /\ caller = "start" /\ caller' = "loop" /\ UNCHANGED <<slot, tx_worker_cnt, tx_sem, is_first_tx>>
      /\ \A w \in Workers : at'[w] = "transmit" => at[w] = "transmit"
  BY <1>0 DEF StartWorker, start_worker, Woken, workers, txrx, chain
<1>2. /\ Len(pending') = Len(pending) + 1 /\ pending'[Len(pending) + 1] = candidate
      /\ \A i \in 1 .. Len(pending) : pending'[i] = pending[i]
  BY <1>0, AppendProperties DEF StartWorker
<1>3. NextSlot = slot[candidate] /\ NextSlot' = tx_worker_cnt
      /\ tx_worker_cnt = (slot[candidate] + 1) % nof_workers
  BY <1>1 DEF NextSlot, OrderInv
<1>4. is_first_tx' => \A i \in 1 .. Len(pending') :
                          (slot'[pending'[i]] + 1) % nof_workers = tx_worker_cnt'
  <2>1. is_first_tx => Len(pending) = 0
    BY <1>1 DEF ChainInv, FirstAlone
  <2> QED
    BY <1>1, <1>2, <1>3, <2>1
<1>5. ASSUME ~is_first_tx, NEW p \in Slots, Permits(p)' PROVE QueueFrom(p)'
  <2>1. QueueFrom(p)
    BY <1>1, <1>5 DEF Permits, OrderInv
  <2>2. \A i \in 1 .. Len(pending') : slot'[pending'[i]] = (p + (i - 1)) % nof_workers
    <3>1. ASSUME NEW i \in 1 .. Len(pending)
          PROVE  slot'[pending'[i]] = (p + (i - 1)) % nof_workers
      BY <1>1, <1>2, <2>1 DEF QueueFrom
    <3>2. slot'[pending'[Len(pending) + 1]] = (p + ((Len(pending) + 1) - 1)) % nof_workers
      <4>1. (Len(pending) + 1) - 1 = Len(pending)
        BY <1>0
      <4>2. slot[candidate] = (p + Len(pending)) % nof_workers
        BY <1>3, <2>1 DEF QueueFrom
      <4> QED
        BY <1>1, <1>2, <4>1, <4>2
    <3> QED
      BY <1>0, <1>2, <3>1, <3>2
  <2>3. (p + Len(pending')) % nof_workers = NextSlot'
    <3> DEFINE a == p + Len(pending)
    <3>1. p \in Int /\ nof_workers \in Nat /\ nof_workers > 0
      BY PoolAssumption DEF Slots, Workers
    <3>2. a \in Int /\ p + Len(pending') = a + 1 /\ a % nof_workers = slot[candidate]
      BY <1>0, <1>2, <1>3, <2>1, <3>1 DEF QueueFrom
    <3> HIDE DEF a
    <3>3. (a + 1) % nof_workers = ((a % nof_workers) + 1) % nof_workers
      <4>1. 1 \in Int
        OBVIOUS
      <4> QED
        BY <3>1, <3>2, <4>1, ModAdd, Zenon
    <3> QED
      BY <1>3, <3>2, <3>3
  <2> QED
    BY <2>2, <2>3 DEF QueueFrom
<1> QED
  BY <1>1, <1>4, <1>5 DEF OrderInv

LEMMA OrderTxrx ==
    ASSUME Spaced, PhyTypeOK, PoolInv, ChainInv, QueueInv, OrderInv, ChainInUse, Txrx
    PROVE  OrderInv'
<1>1. CASE NextSubframe \/ LeaveLoop
  BY <1>1, OrderSame DEF NextSubframe, LeaveLoop, workers, txrx, chain
<1>2. CASE WaitWorker
  BY <1>2, OrderSame DEF WaitWorker, wait_worker, FindWorker, LookFurther, WaitForWorker, Claim,
                         workers, txrx, chain
<1> QED
  BY <1>1, <1>2, OrderReceive, OrderStart DEF Txrx

LEMMA OrderOpen ==
    ASSUME PhyTypeOK, PoolInv, ChainInv, OrderInv, ChainInUse, NEW w \in Workers, OpenChain(w)
    PROVE  OrderInv'
<1>0. /\ slot[w] \in Slots /\ at \in [Workers -> Places] /\ tx_sem \in [Slots -> Nat]
      /\ slot[w] \in 0 .. nof_workers - 1 /\ nof_workers \in Nat /\ nof_workers > 0
  <2>1. slot[w] \in Slots /\ at \in [Workers -> Places] /\ tx_sem \in [Slots -> Nat]
    BY DEF PhyTypeOK
  <2> QED
    BY <2>1, PoolAssumption DEF Slots, Workers
<1>1. is_first_tx /\ pending = <<w>> /\ caller # "start"
  BY DEF OpenChain, ChainInv, FirstAlone, Active, Working
<1>2. Len(pending) = 1 /\ pending[1] = w
  BY <1>1
<1>3. (slot[w] + 1) % nof_workers = tx_worker_cnt
  BY <1>1, <1>2 DEF OrderInv
<1>4. /\ UNCHANGED <<pending, caller, candidate, slot, tx_worker_cnt>> /\ is_first_tx' = FALSE
      /\ \A s \in Slots \ {slot[w]} : tx_sem'[s] = 0
      /\ \A v \in Workers : at'[v] # "transmit"
  BY <1>0, <1>1 DEF OpenChain, Goto, ChainInv, OnePermission, workers, txrx
<1>5. \A p \in Slots : Permits(p)' => p = slot[w]
  BY <1>4 DEF Permits
<1>6. ASSUME NEW p \in Slots, Permits(p)' PROVE QueueFrom(p)'
  <2>1. p = slot[w]
    BY <1>5, <1>6
  <2>2. p = (p + (1 - 1)) % nof_workers
    <3>1. p + (1 - 1) = p
      BY <1>0, <2>1
    <3> QED
      BY <1>0, <2>1, <3>1, ModSmall
  <2>3. NextSlot' = tx_worker_cnt
    BY <1>1, <1>4 DEF NextSlot
  <2>4. ASSUME NEW i \in 1 .. Len(pending')
        PROVE  slot'[pending'[i]] = (p + (i - 1)) % nof_workers
    <3>0. pending' = pending
      BY <1>4
    <3>1. i = 1
      <4>1. Len(pending') = 1
        BY <1>2, <3>0, Zenon
      <4>2. i \in 1 .. 1
        BY <4>1, Zenon
      <4> QED
        BY <4>2
    <3> QED
      BY <1>2, <1>4, <2>1, <2>2, <3>1
  <2>5. (p + Len(pending')) % nof_workers = NextSlot'
    BY <1>2, <1>3, <1>4, <2>1, <2>3
  <2> QED
    BY <2>4, <2>5 DEF QueueFrom
<1> QED
  BY <1>1, <1>4, <1>6 DEF OrderInv

LEMMA OrderTransmit ==
    ASSUME PhyTypeOK, ChainInv, QueueInv, OrderInv, ChainInUse, NEW w \in Workers, Transmit(w)
    PROVE  OrderInv'
<1>0. /\ slot[w] \in Slots /\ at \in [Workers -> Places] /\ tx_sem \in [Slots -> Nat]
      /\ slot[w] \in Int /\ nof_workers \in Nat /\ nof_workers > 0 /\ pending \in Seq(Workers)
  <2>1. slot[w] \in Slots /\ at \in [Workers -> Places] /\ tx_sem \in [Slots -> Nat]
        /\ pending \in Seq(Workers)
    BY DEF PhyTypeOK
  <2> QED
    BY <2>1, PoolAssumption DEF Slots, Workers
<1>1. ~is_first_tx /\ ~is_first_tx'
  BY <1>0 DEF Transmit, ChainInv, OnePermission
<1>2. pending # <<>> /\ w = pending[1]
  BY <1>1, OldestFirst DEF Transmit
<1>3. /\ Len(pending) \in Nat /\ Len(pending) > 0 /\ Len(pending') = Len(pending) - 1
      /\ \A i \in 1 .. Len(pending) - 1 : pending'[i] = pending[i + 1]
  <2>1. Len(pending) \in Nat /\ Len(pending) > 0
    BY <1>0, <1>2
  <2> QED
    BY <1>0, <1>2, <2>1, WithoutHead DEF Transmit, QueueInv
<1>4. /\ UNCHANGED <<caller, candidate, slot, tx_worker_cnt>>
      /\ \A s \in Slots : tx_sem'[s] = 0
      /\ \A v \in Workers : at'[v] = "transmit" => v = w
  BY <1>0 DEF Transmit, Goto, ChainInv, OnePermission, workers, txrx
<1>5. QueueFrom(slot[w])
  BY <1>0, <1>1 DEF Transmit, OrderInv, Permits
<1> DEFINE q == (slot[w] + 1) % nof_workers
<1>6. ASSUME NEW p \in Slots, Permits(p)' PROVE p = q
  BY <1>4, <1>6 DEF Permits
<1>7. ASSUME NEW b \in Int PROVE (q + b) % nof_workers = (slot[w] + (b + 1)) % nof_workers
  <2> DEFINE a == slot[w] + 1
  <2>1. a \in Int /\ a + b = slot[w] + (b + 1)
    BY <1>0
  <2>2. ((a % nof_workers) + b) % nof_workers = (a + b) % nof_workers
    <3> HIDE DEF a
    <3> QED
      BY <1>0, <2>1, ModAdd, Zenon
  <2> QED
    BY <2>1, <2>2
<1>8. NextSlot' = NextSlot
  BY <1>4 DEF NextSlot
<1> HIDE DEF q
<1>9. \A i \in 1 .. Len(pending') : slot'[pending'[i]] = (q + (i - 1)) % nof_workers
  <2>1. SUFFICES ASSUME NEW i \in 1 .. Len(pending')
                 PROVE  slot'[pending'[i]] = (q + (i - 1)) % nof_workers
    OBVIOUS
  <2>2. i - 1 \in Int /\ i + 1 \in 1 .. Len(pending) /\ (i - 1) + 1 = (i + 1) - 1
        /\ i \in 1 .. Len(pending) - 1
    BY <1>3
  <2>3. slot[pending[i + 1]] = (slot[w] + ((i + 1) - 1)) % nof_workers
    BY <1>5, <2>2 DEF QueueFrom
  <2>4. (q + (i - 1)) % nof_workers = (slot[w] + ((i - 1) + 1)) % nof_workers
    BY <1>7, <2>2
  <2>5. slot'[pending'[i]] = slot[pending[i + 1]]
    BY <1>3, <1>4, <2>2
  <2> QED
    BY <2>2, <2>3, <2>4, <2>5
<1>10. (q + Len(pending')) % nof_workers = NextSlot'
  <2>1. Len(pending') \in Int /\ Len(pending') + 1 = Len(pending)
    BY <1>3
  <2>2. (q + Len(pending')) % nof_workers = (slot[w] + (Len(pending') + 1)) % nof_workers
    BY <1>7, <2>1
  <2> QED
    BY <1>5, <1>8, <2>1, <2>2 DEF QueueFrom
<1>11. \A p \in Slots : Permits(p)' => QueueFrom(p)'
  <2>1. SUFFICES ASSUME NEW p \in Slots, Permits(p)' PROVE QueueFrom(p)'
    OBVIOUS
  <2>2. p = q
    BY <1>6, <2>1
  <2> QED
    BY <1>9, <1>10, <2>2 DEF QueueFrom
<1> QED
  BY <1>1, <1>4, <1>11 DEF OrderInv

LEMMA OrderPassOn ==
    ASSUME PhyTypeOK, ChainInv, OrderInv, ChainInUse, NEW w \in Workers, PassOn(w)
    PROVE  OrderInv'
<1> DEFINE q == (slot[w] + 1) % nof_workers
<1>0. q \in Slots /\ at \in [Workers -> Places] /\ tx_sem \in [Slots -> Nat]
  BY NextSlotType DEF PhyTypeOK
<1>1. ~is_first_tx /\ (\A s \in Slots : tx_sem[s] = 0) /\ at[w] = "transmit"
  BY DEF PassOn, ChainInv, OnePermission
<1>2. /\ UNCHANGED <<pending, caller, candidate, slot, tx_worker_cnt, is_first_tx>>
      /\ \A v \in Workers : at'[v] = "transmit" => at[v] = "transmit"
      /\ tx_sem' = [tx_sem EXCEPT ![q] = @ + 1]
  BY <1>0 DEF PassOn, Goto, workers, txrx
<1>3. Permits(q)
  BY <1>1 DEF Permits
<1> HIDE DEF q
<1>4. \A s \in Slots : tx_sem'[s] > 0 => s = q
  BY <1>0, <1>1, <1>2
<1>5. \A p \in Slots : Permits(p)' => Permits(p)
  BY <1>2, <1>3, <1>4 DEF Permits
<1>6. \A p \in Slots : QueueFrom(p)' <=> QueueFrom(p)
  BY <1>2 DEF QueueFrom, NextSlot
<1> QED
  BY <1>1, <1>2, <1>5, <1>6 DEF OrderInv

LEMMA OrderWorker ==
    ASSUME PhyTypeOK, PoolInv, ChainInv, QueueInv, OrderInv, ChainInUse, ChainInUse' => ChainInUse,
           NEW w \in Workers, Worker(w)
    PROVE  OrderInv'
<1> USE DEF Goto, workers, txrx, chain
<1>0. at \in [Workers -> Places]
  BY DEF PhyTypeOK
<1>1. CASE PoolStep(w)
  <2>1. UNCHANGED <<slot, tx_worker_cnt, tx_sem, is_first_tx, pending>>
    BY <1>1 DEF PoolStep
  <2>2. /\ caller' = "start" <=> caller = "start"
        /\ caller = "start" => candidate' = candidate
        /\ \A v \in Workers : at'[v] = "transmit" <=> at[v] = "transmit"
    BY <1>0, <1>1 DEF PoolStep, WorkerStep, Run, Loop, NothingToDo, StartWorking, Block, Work,
                      Finish, Announce
  <2> QED
    BY <2>1, <2>2, OrderSame
<1>2. CASE StoppedJob(w) \/ NoGrants(w)
  <2>1. /\ at[w] \in {"work", "schedule"} /\ at' = [at EXCEPT ![w] = "finish"] /\ Drop(w)
        /\ UNCHANGED <<slot, tx_worker_cnt, tx_sem, is_first_tx, caller, candidate>>
    BY <1>2 DEF StoppedJob, NoGrants
  <2>2. \A v \in Workers : at'[v] = "transmit" <=> at[v] = "transmit"
    BY <1>0, <2>1
  <2>3. CASE is_first_tx
    <3>1. pending' = <<>>
      BY <2>1, <2>3, WithoutOnly DEF Drop, ChainInv, FirstAlone, Active, Working
    <3> QED
      BY <2>1, <2>3, <3>1 DEF OrderInv
  <2>4. CASE ~is_first_tx
    BY <2>1, <2>2, <2>4, OrderSame DEF Drop
  <2> QED
    BY <2>3, <2>4
<1>3. CASE BeginJob(w) \/ LockJob(w) \/ Generate(w) \/ TestFirst(w)
  <2>1. UNCHANGED <<slot, tx_worker_cnt, tx_sem, is_first_tx, pending, caller, candidate>>
    BY <1>3 DEF BeginJob, LockJob, Generate, TestFirst
  <2>2. \A v \in Workers : at'[v] = "transmit" <=> at[v] = "transmit"
    BY <1>0, <1>3 DEF BeginJob, LockJob, Generate, TestFirst
  <2> QED
    BY <2>1, <2>2, OrderSame
<1> QED
  BY <1>1, <1>2, <1>3, OrderOpen, OrderTransmit, OrderPassOn DEF Worker

LEMMA OrderStop ==
    ASSUME OrderInv, StopTxrx \/ Stop, ChainInUse' => ChainInUse PROVE OrderInv'
<1>1. CASE StopTxrx \/ JoinTxrx \/ StopWorker \/ LockWorker \/ UnlockWorker
  BY <1>1, OrderSame DEF StopTxrx, JoinTxrx, StopWorker, LockWorker, UnlockWorker, pool, txrx,
                         chain, workers
<1>2. CASE PostAll \/ StopThread \/ SignalThread \/ JoinThread \/ StartAgain
  BY <1>2 DEF PostAll, StopThread, SignalThread, JoinThread, StartAgain, At, NextTarget,
              ChainInUse, OrderInv
<1> QED
  BY <1>1, <1>2 DEF Stop

LEMMA OrderStep ==
    ASSUME Spaced
    PROVE  PhyTypeOK /\ PoolInv /\ ChainInv /\ QueueInv /\ OrderInv /\ [Next]_vars => OrderInv'
<1> SUFFICES ASSUME PhyTypeOK, PoolInv, ChainInv, QueueInv, OrderInv, [Next]_vars,
                    ChainInUse, ChainInUse' => ChainInUse
             PROVE  OrderInv'
  BY StopperMoves DEF OrderInv
<1>1. CASE CellCfg \/ UNCHANGED vars
  BY <1>1, OrderSame DEF CellCfg, vars, pool, workers, txrx, chain
<1> QED
  BY <1>1, OrderTxrx, OrderWorker, OrderStop DEF Next

\* Subframes are transmitted in the order in which they were received, and none is
\* left out, however many workers there are and whoever took which: the first of
\* the queue is the one whose semaphore the permission has reached.
THEOREM TransmitsInSequence == ASSUME Spaced PROVE Spec => InSequence
<1> DEFINE Inv == PhyTypeOK /\ PoolInv /\ ChainInv /\ SetUpInv /\ QueueInv /\ OrderInv
<1>1. Init => Inv
  BY TypeInit, PoolInvInit, ChainInvInit, SetUpInit, QueueInit, OrderInit
<1>2. Inv /\ [Next]_vars => Inv'
  BY TypeStep, PoolInvStep, ChainInvStep, SetUpStep, QueueStep, OrderStep
<1>3. Inv /\ [Next]_vars =>
        [\A w \in Workers :
            ChainInUse /\ at[w] = "queue" /\ at'[w] = "transmit" => w = Head(pending)]_vars
  <2> SUFFICES ASSUME Inv, [Next]_vars, ChainInUse,
                      NEW w \in Workers, at[w] = "queue", at'[w] = "transmit"
               PROVE  w = Head(pending)
    OBVIOUS
  <2>0. at \in [Workers -> Places] /\ pending \in Seq(Workers) /\ tx_sem \in [Slots -> Nat]
        /\ slot[w] \in Slots
    BY DEF PhyTypeOK
  <2>1. Transmit(w)
    BY <2>0, TransmitOnly
  <2>2. ~is_first_tx
    BY <2>0, <2>1 DEF Transmit, ChainInv, OnePermission
  <2>3. pending # <<>> /\ w = pending[1]
    BY <2>1, <2>2, OldestFirst DEF Transmit
  <2> QED
    BY <2>0, <2>3
<1> QED
  BY <1>1, <1>2, <1>3, PTL DEF Spec, InSequence
=============================================================================

--------------------------- MODULE ImporterProofs ---------------------------
(***************************************************************************)
(* Theorems about Importer, for any number of workers, any tree and any    *)
(* backlog: it implements AsyncCompute, it does not send on the closed     *)
(* results channel unless its context is cancelled, and a sequence that    *)
(* ends has yielded every file or says that it has not.                    *)
(*                                                                         *)
(* The second needs that the channel is closed only when Shutdown has      *)
(* returned, that Shutdown returns only when the workers are done or the   *)
(* context is, and that a worker that sends is not done.  The third needs  *)
(* the pool's theorem about Shutdown, and where err stands against the     *)
(* walker, the captured failure and what the consumer was told.            *)
(***************************************************************************)
EXTENDS Importer, TLAPS

\* every pool step of the importer is a step of the pool
LEMMA PoolStepRefines ==
    ASSUME [Next]_vars
    PROVE  [P!Next]_P!vars
<1> USE DEF P!Next, P!Caller, P!Worker, P!Closer, P!vars
<1>1. CASE WalkRun
  BY <1>1 DEF WalkRun
<1>2. CASE WalkFailed
  BY <1>2 DEF WalkFailed, poolVars
<1>3. CASE WalkDone \/ WalkShutdown \/ WalkShutdownReturn
  BY <1>3 DEF WalkDone, WalkShutdown, WalkShutdownReturn
<1>4. CASE CloseResults \/ ConsumerEnd
  BY <1>4 DEF CloseResults, ConsumerEnd, poolVars
<1>5. ASSUME NEW w \in Workers, WorkSkip(w) \/ WorkFail(w) \/ WorkSend(w)
                                  \/ WorkSendCancelled(w)
      PROVE  [P!Next]_P!vars
  BY <1>5 DEF WorkSkip, WorkFail, WorkSend, WorkSendCancelled
<1>6. ASSUME NEW w \in Workers, WorkImport(w) \/ WorkSendPanic(w)
      PROVE  [P!Next]_P!vars
  BY <1>6 DEF WorkImport, WorkSendPanic, poolVars
<1>7. CASE PoolStep
  BY <1>7 DEF PoolStep
<1>8. CASE UNCHANGED vars
  BY <1>8 DEF vars
<1>9. QED
  BY <1>1, <1>2, <1>3, <1>4, <1>5, <1>6, <1>7, <1>8 DEF Next, Walk, Work

\* The importer implements the pool: its initial states are the pool's, and
\* each of its steps is a step of the pool or leaves the pool alone.
THEOREM ImplementsPool == Spec => PoolSpec
<1>1. Init => P!Init
  BY DEF Init
<1>2. QED
  BY <1>1, PoolStepRefines, PTL DEF Spec, PoolSpec, P!Spec

-----------------------------------------------------------------------------
\* the theorems of AsyncCompute, for the importer's pool
Pool == INSTANCE AsyncComputeProofs

\* the two instances are the same pool
LEMMA SamePool == P!Spec => Pool!Spec
<1>1. P!Init => Pool!Init
  BY DEF P!Init, Pool!Init
<1>2. [P!Next]_P!vars => [Pool!Next]_Pool!vars
  BY DEF P!RunBegin, Pool!RunBegin, P!RunSend, Pool!RunSend,
          P!RunCancelled, Pool!RunCancelled, P!ShutdownBegin,
          Pool!ShutdownBegin, P!ShutdownReturn, Pool!ShutdownReturn,
          P!WorkerTake, Pool!WorkerTake, P!WorkloadReturn,
          Pool!WorkloadReturn, P!WorkerRecord, Pool!WorkerRecord,
          P!WorkerEnd, Pool!WorkerEnd, P!CloseQueue, Pool!CloseQueue,
          P!CloseReturn, Pool!CloseReturn, P!Cancel, Pool!Cancel,
          P!Finished, Pool!Finished, P!shutdownVars, Pool!shutdownVars,
          P!workerVars, Pool!workerVars, P!vars, Pool!vars, P!Caller,
          Pool!Caller, P!Worker, Pool!Worker, P!Closer, Pool!Closer,
          P!Next, Pool!Next
<1>3. QED
  BY <1>1, <1>2, PTL DEF P!Spec, Pool!Spec

\* What is proved of the pool holds of the importer's: when Import's Shutdown
\* returns with the context alive, every accepted path has been dealt with.
THEOREM ImportShutdownComplete == Spec => []P!ShutdownComplete
<1>1. Pool!ShutdownComplete => P!ShutdownComplete
  BY DEF P!ShutdownComplete, Pool!ShutdownComplete
<1>2. Pool!Spec => []Pool!ShutdownComplete
  BY Pool!GracefulShutdown, ImporterAssumption
<1>3. QED
  BY SamePool, <1>1, <1>2, ImplementsPool, PTL DEF PoolSpec

-----------------------------------------------------------------------------
\* a worker that sends its result is still at its workload
SendingWorks ==
    \A w \in Workers : sending[w] => worker[w] \in Workloads /\ record[w] = "none"

\* who has an outcome to record has a workload
RecordingWorks == \A w \in Workers : record[w] # "none" => worker[w] \in Workloads

\* the channel is closed after Shutdown, and Shutdown returns after the workers
ClosedLast ==
    /\ results = "closed" => shutdown = "returned"
    /\ shutdown = "returned" => cause # "none"
    /\ cause # "none" => ctx \/ closer = "returned"
    /\ closer = "returned" => \A w \in Workers : worker[w] = "done"

SendInv ==
    /\ sending \in [Workers -> BOOLEAN]
    /\ SendingWorks
    /\ RecordingWorks
    /\ ClosedLast
    /\ NoSendOnClosed

LEMMA SendInit == Init => SendInv
  BY DEF Init, P!Init, SendInv, SendingWorks, RecordingWorks, ClosedLast,
         NoSendOnClosed

LEMMA PoolType == Spec => []P!TypeOK
<1>1. Pool!TypeOK => P!TypeOK
  BY DEF P!TypeOK, Pool!TypeOK
<1>2. Pool!Spec => []Pool!TypeOK
  BY Pool!TypeCorrect, ImporterAssumption
<1>3. QED
  BY SamePool, <1>1, <1>2, ImplementsPool, PTL DEF PoolSpec

LEMMA SendNext == P!TypeOK /\ SendInv /\ [Next]_vars => SendInv'
<1> SUFFICES ASSUME P!TypeOK, SendInv, [Next]_vars PROVE SendInv'
  OBVIOUS
<1> USE DEF SendInv, SendingWorks, RecordingWorks, ClosedLast, NoSendOnClosed,
            importVars, P!shutdownVars, P!workerVars
<1>1. CASE WalkRun
  BY <1>1 DEF WalkRun, P!RunBegin, P!RunSend
<1>2. CASE WalkFailed
  BY <1>2 DEF WalkFailed, P!RunCancelled, poolVars
<1>3. CASE WalkDone \/ WalkShutdown \/ WalkShutdownReturn
  BY <1>3 DEF WalkDone, WalkShutdown, WalkShutdownReturn, P!ShutdownBegin,
              P!ShutdownReturn, P!TypeOK
<1>4. CASE CloseResults \/ ConsumerEnd
  BY <1>4 DEF CloseResults, ConsumerEnd, poolVars
<1>5. ASSUME NEW w \in Workers, WorkSkip(w) \/ WorkFail(w) PROVE SendInv'
  <2>1. /\ worker[w] \in Workloads
        /\ ~sending[w]
        /\ \E res \in {"nil", "err"} : record' = [record EXCEPT ![w] = res]
        /\ UNCHANGED <<ctx, worker, closer, cause, shutdown, sending, results, panic>>
    BY <1>5 DEF WorkSkip, WorkFail, P!WorkloadReturn
  <2>2. \A v \in Workers : v # w => record'[v] = record[v]
    BY <2>1 DEF P!TypeOK
  <2>3. SendingWorks' /\ RecordingWorks'
    BY <2>1, <2>2
  <2>4. QED
    BY <2>1, <2>3
<1>6. ASSUME NEW w \in Workers, WorkSend(w) \/ WorkSendCancelled(w) PROVE SendInv'
  <2>1. /\ worker[w] \in Workloads
        /\ sending' = [sending EXCEPT ![w] = FALSE]
        /\ \E res \in {"nil", "err"} : record' = [record EXCEPT ![w] = res]
        /\ UNCHANGED <<ctx, worker, closer, cause, shutdown, results, panic>>
    BY <1>6 DEF WorkSend, WorkSendCancelled, P!WorkloadReturn
  <2>2. /\ sending' \in [Workers -> BOOLEAN]
        /\ \A v \in Workers : v # w => record'[v] = record[v]
        /\ \A v \in Workers : sending'[v] => v # w /\ sending[v]
    BY <2>1 DEF P!TypeOK
  <2>3. SendingWorks' /\ RecordingWorks'
    BY <2>1, <2>2
  <2>4. QED
    BY <2>1, <2>2, <2>3
<1>7. ASSUME NEW w \in Workers, WorkImport(w) PROVE SendInv'
  BY <1>7 DEF WorkImport, poolVars
<1>8. ASSUME NEW w \in Workers, WorkSendPanic(w) PROVE SendInv'
  <2>1. worker[w] # "done"
    BY <1>8, ImporterAssumption DEF WorkSendPanic
  <2>2. ctx
    BY <1>8, <2>1 DEF WorkSendPanic
  <2>3. QED
    BY <1>8, <2>2 DEF WorkSendPanic, poolVars
<1>9. CASE PoolStep
  <2>1. ASSUME NEW w \in Workers, P!WorkerTake(w), UNCHANGED importVars
        PROVE  SendInv'
    <3>1. Head(queued) \in Workloads
      BY <2>1 DEF P!WorkerTake, P!TypeOK
    <3>2. worker[w] \notin Workloads /\ worker[w] # "done"
      BY <2>1, ImporterAssumption DEF P!WorkerTake
    <3>3. QED
      BY <2>1, <3>1, <3>2 DEF P!WorkerTake, P!TypeOK
  <2>2. ASSUME NEW w \in Workers, P!WorkerRecord(w), UNCHANGED importVars
        PROVE  SendInv'
    BY <2>2, ImporterAssumption DEF P!WorkerRecord, P!TypeOK
  <2>3. ASSUME NEW w \in Workers, P!WorkerEnd(w), UNCHANGED importVars
        PROVE  SendInv'
    BY <2>3, ImporterAssumption DEF P!WorkerEnd, P!TypeOK
  <2>4. ASSUME P!Closer, UNCHANGED importVars PROVE SendInv'
    BY <2>4 DEF P!Closer, P!CloseQueue, P!CloseReturn
  <2>5. ASSUME P!Cancel, UNCHANGED importVars PROVE SendInv'
    BY <2>5 DEF P!Cancel
  <2>6. QED
    BY <1>9, <2>1, <2>2, <2>3, <2>4, <2>5 DEF PoolStep
<1>10. CASE UNCHANGED vars
  BY <1>10 DEF vars
<1>11. QED
  BY <1>1, <1>2, <1>3, <1>4, <1>5, <1>6, <1>7, <1>8, <1>9, <1>10
     DEF Next, Walk, Work

\* While the context is alive no worker of the importer sends on the closed
\* results channel, for any number of workers and files.
THEOREM SendsAreSafe == Spec => []NoSendOnClosed
<1>1. SendInv => NoSendOnClosed
  BY DEF SendInv
<1>2. QED
  BY <1>1, SendInit, SendNext, PoolType, PTL DEF Spec

-----------------------------------------------------------------------------
\* a file whose import succeeded was yielded; a walker that is through without
\* an error has handed over every path; the captured failure is in err, and
\* what the consumer was told at the end was err
Complete ==
    /\ err \in {"none", "err"}
    /\ \A x \in Workloads \ Directories : outcome[x] = "nil" => x \in yielded
    /\ results = "closed" => walker # "walk"
    /\ consumer = "ended" => results = "closed"
    /\ walker # "walk" /\ err = "none" => \A x \in Workloads : outcome[x] # "new"
    /\ consumer = "ended" /\ reported = "none" => \A x \in Workloads : outcome[x] # "new"
    /\ captured => err = "err"
    /\ FailureYielded

LEMMA CompleteInit == Init => Complete
  BY DEF Init, P!Init, Complete, FailureYielded

LEMMA WalkCompletes == P!TypeOK /\ SendInv /\ Complete /\ Walk => Complete'
<1> SUFFICES ASSUME P!TypeOK, SendInv, Complete, Walk PROVE Complete'
  OBVIOUS
<1> USE DEF Complete, FailureYielded, importVars, P!shutdownVars, P!workerVars
<1>1. CASE WalkRun
  <2>1. \A x \in Workloads : outcome'[x] \in {outcome[x], "accepted"}
    BY <1>1 DEF WalkRun, P!RunBegin, P!RunSend, P!TypeOK
  <2>2. QED
    BY <1>1, <2>1 DEF WalkRun, P!RunBegin, P!RunSend
<1>2. CASE WalkFailed
  <2>1. \A x \in Workloads : outcome'[x] \in {outcome[x], "refused"}
    BY <1>2 DEF WalkFailed, P!RunCancelled, poolVars, P!TypeOK
  <2>2. QED
    BY <1>2, <2>1 DEF WalkFailed, P!RunCancelled, poolVars
<1>3. CASE WalkDone \/ WalkShutdown \/ WalkShutdownReturn
  BY <1>3 DEF WalkDone, WalkShutdown, WalkShutdownReturn, P!ShutdownBegin,
              P!ShutdownReturn
<1>4. CASE CloseResults
  BY <1>4 DEF CloseResults, poolVars
<1>5. QED
  BY <1>1, <1>2, <1>3, <1>4 DEF Walk

LEMMA WorkCompletes ==
    ASSUME P!TypeOK, SendInv, Complete, NEW w \in Workers, Work(w)
    PROVE  Complete'
<1> USE DEF Complete, importVars, P!shutdownVars, P!workerVars
\* once the sequence has ended only a cancelled pool has a worker at work
<1>1. consumer = "ended" /\ worker[w] \in Workloads => ctx
  BY ImporterAssumption DEF SendInv, ClosedLast
<1>2. ASSUME NEW res \in {"nil", "err"}, P!WorkloadReturn(w, res)
      PROVE  /\ worker[w] \in Workloads
             /\ \A x \in Workloads : outcome'[x] = IF x = worker[w] THEN res ELSE outcome[x]
             /\ ctx' = ctx
  BY <1>2 DEF P!WorkloadReturn, P!TypeOK
<1>3. CASE WorkSkip(w)
  BY <1>2, <1>3 DEF WorkSkip, FailureYielded
<1>4. CASE WorkFail(w)
  <2>1. P!WorkloadReturn(w, "err")
    BY <1>4 DEF WorkFail
  <2>2. FailureYielded'
    BY <1>1, <1>2, <1>4, <2>1 DEF WorkFail, FailureYielded
  <2>3. QED
    BY <1>2, <1>4, <2>1, <2>2 DEF WorkFail
<1>5. CASE WorkImport(w) \/ WorkSendPanic(w)
  BY <1>5 DEF WorkImport, WorkSendPanic, poolVars, FailureYielded
<1>6. CASE WorkSend(w)
  <2>1. P!WorkloadReturn(w, "nil")
    BY <1>6 DEF WorkSend
  <2>2. QED
    BY <1>2, <1>6, <2>1 DEF WorkSend, FailureYielded
<1>7. CASE WorkSendCancelled(w)
  <2>1. P!WorkloadReturn(w, "err")
    BY <1>7 DEF WorkSendCancelled
  <2>2. QED
    BY <1>2, <1>7, <2>1 DEF WorkSendCancelled, FailureYielded
<1>8. QED
  BY <1>3, <1>4, <1>5, <1>6, <1>7 DEF Work

LEMMA CompleteNext == P!TypeOK /\ SendInv /\ Complete /\ [Next]_vars => Complete'
<1> SUFFICES ASSUME P!TypeOK, SendInv, Complete, [Next]_vars PROVE Complete'
  OBVIOUS
<1>1. CASE Walk
  BY <1>1, WalkCompletes
<1>2. ASSUME NEW w \in Workers, Work(w) PROVE Complete'
  BY <1>2, WorkCompletes
<1>3. CASE ConsumerEnd
  BY <1>3 DEF ConsumerEnd, Complete, FailureYielded, poolVars
<1>4. CASE PoolStep
  <2>1. UNCHANGED <<outcome, importVars>> /\ (ctx => ctx')
    BY <1>4 DEF PoolStep, P!WorkerTake, P!WorkerRecord, P!WorkerEnd, P!Closer,
                P!CloseQueue, P!CloseReturn, P!Cancel, P!shutdownVars, P!workerVars
  <2>2. QED
    BY <2>1 DEF Complete, FailureYielded, importVars
<1>5. CASE UNCHANGED vars
  BY <1>5 DEF vars, Complete, FailureYielded
<1>6. QED
  BY <1>1, <1>2, <1>3, <1>4, <1>5 DEF Next

\* For any tree and any number of workers: a sequence that ends without an
\* error, the context alive, has yielded every file but those whose Stat failed,
\* and a failed import is reported at its end.
THEOREM ResultsAreComplete == Spec => []ResultsComplete
<1>1. P!TypeOK /\ SendInv /\ Complete /\ P!ShutdownComplete => ResultsComplete
  <2> SUFFICES ASSUME P!TypeOK, SendInv, Complete, P!ShutdownComplete,
                      consumer = "ended", ~ctx, reported = "none",
                      NEW x \in Workloads \ Directories
               PROVE  x \in yielded \/ outcome[x] = "err"
    BY DEF ResultsComplete, EverythingYielded, Complete
  <2>1. shutdown = "returned" /\ outcome[x] # "new"
    BY DEF Complete, SendInv, ClosedLast
  <2>2. outcome[x] \in {"new", "nil", "err"}
    BY <2>1 DEF P!ShutdownComplete
  <2>3. QED
    BY <2>1, <2>2 DEF Complete
<1>2. QED
  BY <1>1, SendInit, SendNext, CompleteInit, CompleteNext, PoolType,
     ImportShutdownComplete, PTL DEF Spec
=============================================================================

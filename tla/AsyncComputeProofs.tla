------------------------- MODULE AsyncComputeProofs -------------------------
(***************************************************************************)
(* Theorems about AsyncCompute, for any number of workers, any workloads   *)
(* and any backlog.                                                        *)
(*                                                                         *)
(* ShutdownComplete needs to know where an accepted workload can be (in    *)
(* the queue or with a worker, Tracked), that nothing is queued once the   *)
(* queue is closed and a worker has ended (Drained), and when Shutdown's   *)
(* context can be done (Ordered).  FailureReported needs moreover that a   *)
(* workload is in one place and returns once (Single), and that outcomes   *)
(* lead to the pointer and from there to the cause (Reported).             *)
(***************************************************************************)
EXTENDS AsyncCompute, TLAPS

InQueue(x) == \E i \in 1 .. Len(queued) : queued[i] = x

\* an accepted workload is in the queue or with a worker
Tracked ==
    /\ \A x \in Workloads :
        outcome[x] = "accepted" => InQueue(x) \/ \E w \in Workers : worker[w] = x
    /\ caller # "free" => outcome[caller] = "new"
    /\ \A i \in 1 .. Len(queued) : outcome[queued[i]] # "new"
    /\ \A w \in Workers : worker[w] \in Workloads => outcome[worker[w]] # "new"
    /\ \A w \in Workers : record[w] # "none" =>
            worker[w] \in Workloads /\ outcome[worker[w]] \in {"nil", "err"}

\* workers end when the queue is closed and empty, and then it stays empty
Drained ==
    /\ caller # "free" => shutdown = "none"
    /\ closed => shutdown # "none"
    /\ \A w \in Workers : worker[w] = "done" => closed /\ queued = <<>>

\* Shutdown's context is done because the workers are, or because the
\* caller's context is
Ordered ==
    /\ \A x \in Workloads : outcome[x] = "refused" => ctx
    /\ closer = "returned" => \A w \in Workers : worker[w] = "done"
    /\ cause # "none" => ctx \/ closer = "returned"
    /\ shutdown = "returned" => cause # "none"
    /\ closer # "none" => shutdown # "none"

IInv == TypeOK /\ Tracked /\ Drained /\ Ordered

\* what is queued or with a worker has not returned, and is nowhere else
Single ==
    /\ \A i \in 1 .. Len(queued) : outcome[queued[i]] = "accepted"
    /\ \A i, j \in 1 .. Len(queued) : queued[i] = queued[j] => i = j
    /\ \A w \in Workers : worker[w] \in Workloads =>
            /\ outcome[worker[w]] = IF record[w] = "none" THEN "accepted" ELSE record[w]
            /\ \A i \in 1 .. Len(queued) : queued[i] # worker[w]
            /\ \A v \in Workers : worker[v] = worker[w] => v = w

\* an outcome is on its way to the pointer, or the pointer is set; the pointer
\* has the outcome of some workload, and the cause has the pointer's
Reported ==
    /\ \A x \in Workloads : outcome[x] \in {"nil", "err"} =>
            failed # "none" \/ \E w \in Workers : worker[w] = x /\ record[w] # "none"
    /\ failed # "none" => \E x \in Workloads : outcome[x] = failed
    /\ cause # "none" /\ ~ctx => (cause = "err" <=> failed = "err")

RInv == IInv /\ Single /\ Reported

-----------------------------------------------------------------------------
LEMMA TypeInit == Init => TypeOK
<1> SUFFICES ASSUME Init PROVE TypeOK
  OBVIOUS
<1>1. queued \in Seq(Workloads) /\ Len(queued) = 0
  BY DEF Init
<1>2. 0 <= Backlog
  BY PoolAssumption
<1>3. QED
  BY <1>1, <1>2 DEF Init, TypeOK

LEMMA CallerType == TypeOK /\ Caller => TypeOK'
<1> SUFFICES ASSUME TypeOK, Caller PROVE TypeOK'
  OBVIOUS
<1> USE PoolAssumption DEF TypeOK, shutdownVars, workerVars
<1>1. ASSUME NEW x \in Workloads, RunBegin(x) PROVE TypeOK'
  BY <1>1 DEF RunBegin
<1>2. CASE RunSend
  BY <1>2 DEF RunSend
<1>3. CASE RunCancelled
  BY <1>3 DEF RunCancelled
<1>4. CASE ShutdownBegin
  BY <1>4 DEF ShutdownBegin
<1>5. CASE ShutdownReturn
  BY <1>5 DEF ShutdownReturn
<1>6. QED
  BY <1>1, <1>2, <1>3, <1>4, <1>5 DEF Caller

LEMMA WorkerType ==
    ASSUME TypeOK, NEW w \in Workers, Worker(w)
    PROVE  TypeOK'
<1> USE PoolAssumption DEF TypeOK, shutdownVars, workerVars
<1>1. CASE WorkerTake(w)
  BY <1>1 DEF WorkerTake
<1>2. ASSUME NEW res \in {"nil", "err"}, WorkloadReturn(w, res) PROVE TypeOK'
  BY <1>2 DEF WorkloadReturn
<1>3. CASE WorkerRecord(w)
  BY <1>3 DEF WorkerRecord
<1>4. CASE WorkerEnd(w)
  BY <1>4 DEF WorkerEnd
<1>5. QED
  BY <1>1, <1>2, <1>3, <1>4 DEF Worker

LEMMA NextType == TypeOK /\ [Next]_vars => TypeOK'
<1> SUFFICES ASSUME TypeOK, [Next]_vars PROVE TypeOK'
  OBVIOUS
<1>1. CASE Caller
  BY <1>1, CallerType
<1>2. ASSUME NEW w \in Workers, Worker(w) PROVE TypeOK'
  BY <1>2, WorkerType
<1>3. CASE Closer
  BY <1>3 DEF Closer, CloseQueue, CloseReturn, TypeOK, workerVars
<1>4. CASE Cancel
  BY <1>4 DEF Cancel, TypeOK, workerVars
<1>5. CASE Finished \/ UNCHANGED vars
  BY <1>5 DEF Finished, vars, TypeOK
<1>6. QED
  BY <1>1, <1>2, <1>3, <1>4, <1>5 DEF Next

\* Every variable keeps its type; in particular the queue never holds more
\* than the backlog.
THEOREM TypeCorrect == Spec => []TypeOK
  BY TypeInit, NextType, PTL DEF Spec

-----------------------------------------------------------------------------
LEMMA InvInit == Init => Tracked /\ Drained /\ Ordered
<1> SUFFICES ASSUME Init PROVE Tracked /\ Drained /\ Ordered
  OBVIOUS
<1>1. 1 .. Len(queued) = {}
  BY DEF Init
<1>2. \A w \in Workers : worker[w] \notin Workloads
  BY PoolAssumption DEF Init
<1>3. Tracked
  BY <1>1, <1>2 DEF Init, Tracked
<1>4. Drained /\ Ordered
  BY DEF Init, Drained, Ordered
<1>5. QED
  BY <1>3, <1>4

LEMMA CallerInv == IInv /\ Caller => (Tracked /\ Drained /\ Ordered)'
<1> SUFFICES ASSUME IInv, Caller PROVE (Tracked /\ Drained /\ Ordered)'
  OBVIOUS
<1> USE PoolAssumption DEF shutdownVars, workerVars
<1>1. ASSUME NEW x \in Workloads, RunBegin(x)
      PROVE  (Tracked /\ Drained /\ Ordered)'
  BY <1>1 DEF RunBegin, IInv, TypeOK, Tracked, Drained, Ordered, InQueue
<1>2. CASE RunSend
  <2>1. /\ caller \in Workloads
        /\ queued' = Append(queued, caller)
        /\ queued \in Seq(Workloads)
        /\ outcome' = [outcome EXCEPT ![caller] = "accepted"]
        /\ caller' = "free"
        /\ UNCHANGED <<ctx, closed, worker, record, failed, closer, cause, shutdown>>
    BY <1>2 DEF RunSend, IInv, TypeOK
  <2>2. /\ Len(queued') = Len(queued) + 1
        /\ \A i \in 1 .. Len(queued) : queued'[i] = queued[i]
        /\ queued'[Len(queued) + 1] = caller
        /\ Len(queued) \in Nat
    BY <2>1
  <2>3. \A x \in Workloads : InQueue(x) => InQueue(x)'
    BY <2>2 DEF InQueue
  <2>4. \A x \in Workloads : x = caller => InQueue(x)'
    <3>1. Len(queued) + 1 \in 1 .. Len(queued')
      BY <2>2
    <3>2. QED
      BY <2>2, <3>1 DEF InQueue
  <2>5. Tracked'
    <3>1. ASSUME NEW x \in Workloads, outcome'[x] = "accepted"
          PROVE  InQueue(x)' \/ \E w \in Workers : worker'[w] = x
      BY <2>1, <2>3, <2>4, <3>1 DEF IInv, Tracked, TypeOK
    <3>2. \A i \in 1 .. Len(queued') : outcome'[queued'[i]] # "new"
      BY <2>1, <2>2 DEF IInv, Tracked, TypeOK
    <3>3. \A w \in Workers : worker'[w] \in Workloads => outcome'[worker'[w]] # "new"
      BY <2>1 DEF IInv, Tracked, TypeOK
    <3>4. \A w \in Workers : record'[w] # "none" =>
            worker'[w] \in Workloads /\ outcome'[worker'[w]] \in {"nil", "err"}
      BY <1>2, <2>1 DEF RunSend, IInv, Tracked, TypeOK
    <3>5. QED
      BY <2>1, <3>1, <3>2, <3>3, <3>4 DEF Tracked
  <2>6. Drained'
    BY <1>2, <2>1, <2>2 DEF IInv, Drained, TypeOK
  <2>7. Ordered'
    BY <2>1 DEF IInv, Ordered, TypeOK
  <2>8. QED
    BY <2>5, <2>6, <2>7
<1>3. CASE RunCancelled
  BY <1>3 DEF RunCancelled, IInv, TypeOK, Tracked, Drained, Ordered, InQueue
<1>4. CASE ShutdownBegin
  BY <1>4 DEF ShutdownBegin, IInv, TypeOK, Tracked, Drained, Ordered, InQueue
<1>5. CASE ShutdownReturn
  BY <1>5 DEF ShutdownReturn, IInv, TypeOK, Tracked, Drained, Ordered, InQueue
<1>6. QED
  BY <1>1, <1>2, <1>3, <1>4, <1>5 DEF Caller

LEMMA WorkerInv ==
    ASSUME IInv, NEW w \in Workers, Worker(w)
    PROVE  (Tracked /\ Drained /\ Ordered)'
<1> USE PoolAssumption DEF shutdownVars, workerVars
<1>1. CASE WorkerTake(w)
  <2>1. /\ queued # <<>>
        /\ queued \in Seq(Workloads)
        /\ queued' = Tail(queued)
        /\ worker[w] = "idle"
        /\ worker' = [worker EXCEPT ![w] = queued[1]]
        /\ UNCHANGED <<ctx, caller, closed, outcome, record, failed, closer, cause,
                       shutdown>>
    BY <1>1 DEF WorkerTake, IInv, TypeOK
  <2>2. /\ Len(queued) \in Nat
        /\ Len(queued) >= 1
        /\ Len(queued') = Len(queued) - 1
        /\ \A i \in 1 .. Len(queued') : queued'[i] = queued[i + 1]
        /\ queued[1] \in Workloads
    BY <2>1
  <2>3. ASSUME NEW x \in Workloads, InQueue(x)
        PROVE  InQueue(x)' \/ x = queued[1]
    <3>1. PICK i \in 1 .. Len(queued) : queued[i] = x
      BY <2>3 DEF InQueue
    <3>2. CASE i = 1
      BY <3>1, <3>2
    <3>3. CASE i # 1
      <4>1. i - 1 \in 1 .. Len(queued') /\ queued'[i - 1] = x
        BY <2>2, <3>1, <3>3
      <4>2. QED
        BY <4>1 DEF InQueue
    <3>4. QED
      BY <3>2, <3>3
  <2>4. Tracked'
    BY <2>1, <2>2, <2>3 DEF IInv, Tracked, TypeOK
  <2>5. Drained'
    BY <2>1, <2>2 DEF IInv, Drained, TypeOK
  <2>6. Ordered'
    BY <2>1, <2>2 DEF IInv, Ordered, TypeOK
  <2>7. QED
    BY <2>4, <2>5, <2>6
<1>2. ASSUME NEW res \in {"nil", "err"}, WorkloadReturn(w, res)
      PROVE  (Tracked /\ Drained /\ Ordered)'
  <2> DEFINE x == worker[w]
  <2>1. /\ x \in Workloads
        /\ record[w] = "none"
        /\ record' = [record EXCEPT ![w] = res]
        /\ outcome' = [outcome EXCEPT ![x] = res]
        /\ UNCHANGED <<ctx, caller, queued, closed, worker, failed, closer, cause,
                       shutdown>>
    BY <1>2 DEF WorkloadReturn
  <2>2. \A y \in Workloads : outcome'[y] = IF y = x THEN res ELSE outcome[y]
    BY <2>1 DEF IInv, TypeOK
  <2>3. \A i \in 1 .. Len(queued) : queued[i] \in Workloads
    BY DEF IInv, TypeOK
  <2>4. \A y \in Workloads : InQueue(y) <=> InQueue(y)'
    BY <2>1 DEF InQueue
  <2>5. Tracked'
    BY <2>1, <2>2, <2>3, <2>4 DEF IInv, Tracked, TypeOK
  <2>6. Drained'
    BY <2>1 DEF IInv, Drained
  <2>7. Ordered'
    BY <2>1, <2>2 DEF IInv, Ordered
  <2>8. QED
    BY <2>5, <2>6, <2>7
<1>3. CASE WorkerRecord(w)
  <2>1. /\ record[w] # "none"
        /\ record' = [record EXCEPT ![w] = "none"]
        /\ worker' = [worker EXCEPT ![w] = "idle"]
        /\ UNCHANGED <<ctx, caller, queued, closed, outcome, closer, cause, shutdown>>
    BY <1>3 DEF WorkerRecord
  <2>2. worker[w] \in Workloads /\ outcome[worker[w]] \in {"nil", "err"}
    BY <2>1 DEF IInv, Tracked
  <2>3. \A v \in Workers : v # w => worker'[v] = worker[v] /\ record'[v] = record[v]
    BY <2>1 DEF IInv, TypeOK
  <2>4. worker'[w] = "idle" /\ record'[w] = "none" /\ "idle" \notin Workloads
    BY <2>1 DEF IInv, TypeOK
  <2>5. \A y \in Workloads : InQueue(y) <=> InQueue(y)'
    BY <2>1 DEF InQueue
  <2>6. Tracked'
    BY <2>1, <2>2, <2>3, <2>4, <2>5 DEF IInv, Tracked
  <2>7. Drained'
    BY <2>1, <2>3, <2>4 DEF IInv, Drained
  <2>8. Ordered'
    BY <2>1, <2>2, <2>3, <2>4 DEF IInv, Ordered
  <2>9. QED
    BY <2>6, <2>7, <2>8
<1>4. CASE WorkerEnd(w)
  BY <1>4 DEF WorkerEnd, IInv, TypeOK, Tracked, Drained, Ordered, InQueue
<1>5. QED
  BY <1>1, <1>2, <1>3, <1>4 DEF Worker

LEMMA InvNext == IInv /\ [Next]_vars => (Tracked /\ Drained /\ Ordered)'
<1> SUFFICES ASSUME IInv, [Next]_vars PROVE (Tracked /\ Drained /\ Ordered)'
  OBVIOUS
<1>1. CASE Caller
  BY <1>1, CallerInv
<1>2. ASSUME NEW w \in Workers, Worker(w) PROVE (Tracked /\ Drained /\ Ordered)'
  BY <1>2, WorkerInv
<1>3. CASE Closer
  BY <1>3 DEF Closer, CloseQueue, CloseReturn, IInv, TypeOK, Tracked, Drained,
              Ordered, InQueue, workerVars
<1>4. CASE Cancel
  BY <1>4 DEF Cancel, IInv, TypeOK, Tracked, Drained, Ordered, InQueue, workerVars
<1>5. CASE Finished \/ UNCHANGED vars
  BY <1>5 DEF Finished, vars, IInv, TypeOK, Tracked, Drained, Ordered, InQueue
<1>6. QED
  BY <1>1, <1>2, <1>3, <1>4, <1>5 DEF Next

\* Whatever the number of workers and workloads, a Shutdown that returns with
\* its context alive has seen every accepted workload return.
THEOREM GracefulShutdown == Spec => []ShutdownComplete
<1>1. IInv => ShutdownComplete
  <2> SUFFICES ASSUME IInv, shutdown = "returned", ~ctx, NEW x \in Workloads
               PROVE  outcome[x] \in {"new", "nil", "err"}
    BY DEF ShutdownComplete
  <2>1. \A w \in Workers : worker[w] = "done"
    BY DEF IInv, Ordered
  <2>2. queued = <<>>
    BY <2>1, PoolAssumption DEF IInv, Drained
  <2>3. outcome[x] # "accepted"
    BY <2>1, <2>2, PoolAssumption DEF IInv, Tracked, InQueue
  <2>4. QED
    BY <2>3 DEF IInv, Ordered, TypeOK
<1>2. QED
  BY <1>1, TypeInit, NextType, InvInit, InvNext, PTL DEF Spec, IInv

-----------------------------------------------------------------------------
LEMMA ReportInit == Init => Single /\ Reported
<1> SUFFICES ASSUME Init PROVE Single /\ Reported
  OBVIOUS
<1>1. 1 .. Len(queued) = {}
  BY DEF Init
<1>2. \A w \in Workers : worker[w] \notin Workloads
  BY PoolAssumption DEF Init
<1>3. QED
  BY <1>1, <1>2 DEF Init, Single, Reported

LEMMA CallerReports == RInv /\ Caller => (Single /\ Reported)'
<1> SUFFICES ASSUME RInv, Caller PROVE (Single /\ Reported)'
  OBVIOUS
<1> USE PoolAssumption DEF shutdownVars, workerVars, RInv, IInv
<1>1. ASSUME NEW x \in Workloads, RunBegin(x) PROVE (Single /\ Reported)'
  BY <1>1 DEF RunBegin, Single, Reported
<1>2. CASE RunSend
  <2>1. /\ caller \in Workloads /\ outcome[caller] = "new"
        /\ queued \in Seq(Workloads) /\ queued' = Append(queued, caller)
        /\ outcome' = [outcome EXCEPT ![caller] = "accepted"]
        /\ UNCHANGED <<ctx, worker, record, failed, cause>>
    BY <1>2 DEF RunSend, TypeOK, Tracked
  <2>2. /\ Len(queued) \in Nat /\ Len(queued') = Len(queued) + 1
        /\ \A i \in 1 .. Len(queued) : queued'[i] = queued[i]
        /\ queued'[Len(queued) + 1] = caller
    BY <2>1
  <2>3. \A x \in Workloads : outcome'[x] = IF x = caller THEN "accepted" ELSE outcome[x]
    BY <2>1 DEF TypeOK
  <2>4. \A i \in 1 .. Len(queued) : queued[i] \in Workloads /\ queued[i] # caller
    BY <2>1 DEF Tracked
  <2>5. \A i \in 1 .. Len(queued') : i \in 1 .. Len(queued) \/ i = Len(queued) + 1
    BY <2>2
  <2>6. \A w \in Workers : worker[w] \in Workloads => worker[w] # caller
    BY <2>1 DEF Tracked
  <2>7. Single'
    BY <2>1, <2>2, <2>3, <2>4, <2>5, <2>6 DEF Single
  <2>8. Reported'
    <3>1. failed # "none" => \E x \in Workloads : outcome'[x] = failed
      BY <2>1, <2>3 DEF Reported, TypeOK
    <3>2. QED
      BY <2>1, <2>3, <3>1 DEF Reported
  <2>9. QED
    BY <2>7, <2>8
<1>3. CASE RunCancelled
  <2>1. /\ caller \in Workloads /\ outcome[caller] = "new"
        /\ outcome' = [outcome EXCEPT ![caller] = "refused"]
        /\ UNCHANGED <<ctx, queued, worker, record, failed, cause>>
    BY <1>3 DEF RunCancelled, TypeOK, Tracked
  <2>2. \A x \in Workloads : outcome'[x] = IF x = caller THEN "refused" ELSE outcome[x]
    BY <2>1 DEF TypeOK
  <2>3. \A i \in 1 .. Len(queued) : queued[i] \in Workloads /\ queued[i] # caller
    BY <2>1 DEF Tracked, TypeOK
  <2>4. \A w \in Workers : worker[w] \in Workloads => worker[w] # caller
    BY <2>1 DEF Tracked
  <2>5. Single'
    BY <2>1, <2>2, <2>3, <2>4 DEF Single
  <2>6. failed # "none" => \E x \in Workloads : outcome'[x] = failed
    BY <2>1, <2>2 DEF Reported, TypeOK
  <2>7. QED
    BY <2>1, <2>2, <2>5, <2>6 DEF Reported
<1>4. CASE ShutdownBegin
  <2>1. ctx \/ cause' = "none"
    BY <1>4 DEF ShutdownBegin, TypeOK
  <2>2. QED
    BY <1>4, <2>1 DEF ShutdownBegin, Single, Reported
<1>5. CASE ShutdownReturn
  BY <1>5 DEF ShutdownReturn, Single, Reported
<1>6. QED
  BY <1>1, <1>2, <1>3, <1>4, <1>5 DEF Caller

LEMMA WorkerReports ==
    ASSUME RInv, NEW w \in Workers, Worker(w)
    PROVE  (Single /\ Reported)'
<1> USE PoolAssumption DEF shutdownVars, workerVars, RInv, IInv
<1>1. CASE WorkerTake(w)
  <2>1. /\ queued # <<>> /\ queued \in Seq(Workloads) /\ queued' = Tail(queued)
        /\ worker[w] = "idle" /\ worker' = [worker EXCEPT ![w] = queued[1]]
        /\ UNCHANGED <<ctx, outcome, record, failed, cause>>
    BY <1>1 DEF WorkerTake, TypeOK
  <2>2. /\ Len(queued) \in Nat /\ Len(queued) >= 1 /\ Len(queued') = Len(queued) - 1
        /\ \A i \in 1 .. Len(queued') : i + 1 \in 1 .. Len(queued) /\ i + 1 # 1
                                        /\ queued'[i] = queued[i + 1]
        /\ queued[1] \in Workloads /\ 1 \in 1 .. Len(queued)
    BY <2>1
  <2>3. record[w] = "none"
    BY <2>1 DEF Tracked
  <2>4. \A v \in Workers : worker'[v] = IF v = w THEN queued[1] ELSE worker[v]
    BY <2>1 DEF TypeOK
  <2>5. \A i, j \in 1 .. Len(queued') : i + 1 = j + 1 => i = j
    BY <2>2
  <2>6. Single'
    BY <2>1, <2>2, <2>3, <2>4, <2>5 DEF Single
  <2>7. Reported'
    BY <2>1, <2>3, <2>4 DEF Reported
  <2>8. QED
    BY <2>6, <2>7
<1>2. ASSUME NEW res \in {"nil", "err"}, WorkloadReturn(w, res)
      PROVE  (Single /\ Reported)'
  <2> DEFINE x == worker[w]
  <2>1. /\ x \in Workloads /\ record[w] = "none"
        /\ record' = [record EXCEPT ![w] = res]
        /\ outcome' = [outcome EXCEPT ![x] = res]
        /\ UNCHANGED <<ctx, queued, worker, failed, cause>>
    BY <1>2 DEF WorkloadReturn
  <2>2. \A y \in Workloads : outcome'[y] = IF y = x THEN res ELSE outcome[y]
    BY <2>1 DEF TypeOK
  <2>3. \A v \in Workers : record'[v] = IF v = w THEN res ELSE record[v]
    BY <2>1 DEF TypeOK
  <2>4. outcome[x] = "accepted"
    BY <2>1 DEF Single
  <2>5. \A i \in 1 .. Len(queued) : queued[i] \in Workloads /\ queued[i] # x
    BY <2>1 DEF Single, TypeOK
  <2>6. Single'
    BY <2>1, <2>2, <2>3, <2>5 DEF Single
  <2>7. failed # "none" => \E y \in Workloads : outcome'[y] = failed
    BY <2>2, <2>4 DEF Reported, TypeOK
  <2>8. Reported'
    BY <2>1, <2>2, <2>3, <2>7 DEF Reported
  <2>9. QED
    BY <2>6, <2>8
<1>3. CASE WorkerRecord(w)
  <2>1. /\ record[w] # "none" /\ failed' = IF failed = "none" THEN record[w] ELSE failed
        /\ record' = [record EXCEPT ![w] = "none"]
        /\ worker' = [worker EXCEPT ![w] = "idle"]
        /\ UNCHANGED <<ctx, queued, outcome, closer, cause>>
    BY <1>3 DEF WorkerRecord
  <2>2. worker[w] \in Workloads /\ outcome[worker[w]] = record[w]
    BY <2>1 DEF Tracked, Single
  <2>3. /\ \A v \in Workers : v # w => worker'[v] = worker[v] /\ record'[v] = record[v]
        /\ worker'[w] = "idle" /\ record'[w] = "none" /\ "idle" \notin Workloads
    BY <2>1 DEF TypeOK
  <2>4. Single'
    BY <2>1, <2>3 DEF Single
  <2>5. failed' # "none" /\ \E x \in Workloads : outcome'[x] = failed'
    BY <2>1, <2>2 DEF Reported
  <2>6. cause # "none" /\ ~ctx => FALSE
    BY <2>2, PoolAssumption DEF Ordered
  <2>7. QED
    BY <2>1, <2>4, <2>5, <2>6 DEF Reported
<1>4. CASE WorkerEnd(w)
  <2>1. /\ worker[w] = "idle" /\ worker' = [worker EXCEPT ![w] = "done"]
        /\ UNCHANGED <<ctx, queued, outcome, record, failed, cause>>
    BY <1>4 DEF WorkerEnd
  <2>2. /\ \A v \in Workers : v # w => worker'[v] = worker[v]
        /\ worker'[w] = "done" /\ "done" \notin Workloads /\ "idle" \notin Workloads
    BY <2>1 DEF TypeOK
  <2>3. QED
    BY <2>1, <2>2 DEF Single, Reported
<1>5. QED
  BY <1>1, <1>2, <1>3, <1>4 DEF Worker

LEMMA ReportNext == RInv /\ [Next]_vars => (Single /\ Reported)'
<1> SUFFICES ASSUME RInv, [Next]_vars PROVE (Single /\ Reported)'
  OBVIOUS
<1>1. CASE Caller
  BY <1>1, CallerReports
<1>2. ASSUME NEW w \in Workers, Worker(w) PROVE (Single /\ Reported)'
  BY <1>2, WorkerReports
<1>3. CASE CloseQueue
  BY <1>3 DEF CloseQueue, Single, Reported, RInv, workerVars
<1>4. CASE CloseReturn
  BY <1>4 DEF CloseReturn, Single, Reported, RInv, workerVars
<1>5. CASE Cancel
  BY <1>5 DEF Cancel, Single, Reported, RInv, workerVars
<1>6. CASE Finished \/ UNCHANGED vars
  BY <1>6 DEF Finished, vars, Single, Reported, RInv
<1>7. QED
  BY <1>1, <1>2, <1>3, <1>4, <1>5, <1>6 DEF Next, Closer

\* Whatever the number of workers and workloads, an error that Shutdown returns
\* is a workload's, and where every workload failed it returns one: the swap
\* keeps the first outcome, and no outcome is lost on its way there.
THEOREM FailuresReported == Spec => []FailureReported
<1>1. RInv => FailureReported
  <2> SUFFICES ASSUME RInv, shutdown = "returned", ~ctx
               PROVE  /\ cause = "err" => \E x \in Workloads : outcome[x] = "err"
                      /\ (/\ \E x \in Workloads : outcome[x] = "err"
                          /\ \A x \in Workloads : outcome[x] # "nil")
                         => cause = "err"
    BY DEF FailureReported
  <2>1. cause # "none" /\ \A w \in Workers : worker[w] = "done"
    BY DEF RInv, IInv, Ordered
  <2>2. \A w \in Workers : record[w] = "none"
    BY <2>1, PoolAssumption DEF RInv, IInv, Tracked
  <2>3. QED
    BY <2>1, <2>2 DEF RInv, IInv, TypeOK, Reported
<1>2. QED
  BY <1>1, TypeInit, NextType, InvInit, InvNext, ReportInit, ReportNext, PTL
  DEF Spec, IInv, RInv
=============================================================================

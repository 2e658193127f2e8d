---------------------------- MODULE AsyncCompute ----------------------------
(***************************************************************************)
(* internal/asynccompute: a pool of workers that run the workloads one     *)
(* goroutine, the caller, hands to Run, and its graceful Shutdown.         *)
(*                                                                         *)
(* What a workload does is left open: it returns nil or an error, by       *)
(* WorkloadReturn. Importer composes this module with the workload of the  *)
(* media importer.                                                         *)
(***************************************************************************)
EXTENDS Naturals, Sequences

CONSTANTS
    Workers,        \* the goroutines init starts
    Workloads,      \* what the caller has to run, each at most once
    Backlog,        \* the capacity of the queue
    MayCancel       \* whether the context of the caller may be cancelled

ASSUME PoolAssumption ==
    /\ Workers # {}
    /\ Backlog \in Nat \ {0}
    /\ MayCancel \in BOOLEAN
    /\ {"free", "idle", "done"} \cap Workloads = {}

VARIABLES
    ctx,        \* the caller's context is cancelled
    caller,     \* the workload the caller is handing to Run, or "free"
    queued,     \* the channel's buffer
    closed,     \* close(queued) has run
    worker,     \* worker[w]: the workload w has, "idle" in range, or "done"
    outcome,    \* outcome[x]: what became of workload x
    record,     \* record[w]: what w's workload returned, before the swap
    failed,     \* the pointer failed: "none", or to "nil" or "err"
    closer,     \* the goroutine of Shutdown that calls Close
    cause,      \* the cause of Shutdown's context, "none" until it is done
    shutdown    \* where Shutdown is

vars == <<ctx, caller, queued, closed, worker, outcome, record, failed,
          closer, cause, shutdown>>

-----------------------------------------------------------------------------
TypeOK ==
    /\ ctx \in BOOLEAN
    /\ caller \in Workloads \cup {"free"}
    /\ queued \in Seq(Workloads)
    /\ Len(queued) <= Backlog
    /\ closed \in BOOLEAN
    /\ worker \in [Workers -> Workloads \cup {"idle", "done"}]
    /\ outcome \in [Workloads -> {"new", "accepted", "refused", "nil", "err"}]
    /\ record \in [Workers -> {"none", "nil", "err"}]
    /\ failed \in {"none", "nil", "err"}
    /\ closer \in {"none", "close", "wait", "returned"}
    /\ cause \in {"none", "nil", "err"}
    /\ shutdown \in {"none", "waiting", "returned"}

\* New: an empty queue and idle workers
Init ==
    /\ ctx = FALSE
    /\ caller = "free"
    /\ queued = <<>>
    /\ closed = FALSE
    /\ worker = [w \in Workers |-> "idle"]
    /\ outcome = [x \in Workloads |-> "new"]
    /\ record = [w \in Workers |-> "none"]
    /\ failed = "none"
    /\ closer = "none"
    /\ cause = "none"
    /\ shutdown = "none"

shutdownVars == <<closer, cause, shutdown>>
workerVars == <<worker, record, failed>>

-----------------------------------------------------------------------------
(* Run *)

RunBegin(x) ==
    /\ caller = "free"
    /\ shutdown = "none"
    /\ outcome[x] = "new"
    /\ caller' = x
    /\ UNCHANGED <<ctx, queued, closed, workerVars, outcome, shutdownVars>>

RunSend ==
    /\ caller # "free"
    /\ Len(queued) < Backlog
    /\ queued' = Append(queued, caller)
    /\ outcome' = [outcome EXCEPT ![caller] = "accepted"]
    /\ caller' = "free"
    /\ UNCHANGED <<ctx, closed, workerVars, shutdownVars>>

\* the context is done: of two ready cases select takes either
RunCancelled ==
    /\ caller # "free"
    /\ ctx
    /\ outcome' = [outcome EXCEPT ![caller] = "refused"]
    /\ caller' = "free"
    /\ UNCHANGED <<ctx, queued, closed, workerVars, shutdownVars>>

-----------------------------------------------------------------------------
(* The workers of init *)

WorkerTake(w) ==
    /\ worker[w] = "idle"
    /\ queued # <<>>
    /\ worker' = [worker EXCEPT ![w] = Head(queued)]
    /\ queued' = Tail(queued)
    /\ UNCHANGED <<ctx, caller, closed, outcome, record, failed, shutdownVars>>

\* pending.workload() returns res
WorkloadReturn(w, res) ==
    /\ worker[w] \in Workloads
    /\ record[w] = "none"
    /\ record' = [record EXCEPT ![w] = res]
    /\ outcome' = [outcome EXCEPT ![worker[w]] = res]
    /\ UNCHANGED <<ctx, caller, queued, closed, worker, failed, shutdownVars>>

\* Mutant of WorkerRecord: the outcome is logged and nothing else.
WorkerRecordLogged(w) ==
    /\ record[w] # "none"
    /\ record' = [record EXCEPT ![w] = "none"]
    /\ worker' = [worker EXCEPT ![w] = "idle"]
    /\ UNCHANGED <<ctx, caller, queued, closed, outcome, failed, shutdownVars>>

\* failed.CompareAndSwap(nil, &cause): the pointer is nil only before the
\* first workload's outcome, whatever that is, has been stored
WorkerRecord(w) ==
    /\ record[w] # "none"
    /\ failed' = IF failed = "none" THEN record[w] ELSE failed
    /\ record' = [record EXCEPT ![w] = "none"]
    /\ worker' = [worker EXCEPT ![w] = "idle"]
    /\ UNCHANGED <<ctx, caller, queued, closed, outcome, shutdownVars>>

\* Mutant of WorkerEnd: what is still queued is left.
WorkerEndEarly(w) ==
    /\ worker[w] = "idle"
    /\ closed
    /\ worker' = [worker EXCEPT ![w] = "done"]
    /\ UNCHANGED <<ctx, caller, queued, closed, outcome, record, failed, shutdownVars>>

\* range ends when the channel is closed and empty
WorkerEnd(w) ==
    /\ worker[w] = "idle"
    /\ closed
    /\ queued = <<>>
    /\ worker' = [worker EXCEPT ![w] = "done"]
    /\ UNCHANGED <<ctx, caller, queued, closed, outcome, record, failed, shutdownVars>>

-----------------------------------------------------------------------------
(* Shutdown and Close *)

ShutdownBegin ==
    /\ caller = "free"
    /\ shutdown = "none"
    /\ shutdown' = "waiting"
    /\ closer' = "close"
    /\ cause' = IF ctx THEN "nil" ELSE "none"
    /\ UNCHANGED <<ctx, caller, queued, closed, workerVars, outcome>>

\* Mutant of CloseQueue: the workers are awaited without being told.
CloseQueueForgotten ==
    /\ closer = "close"
    /\ closer' = "wait"
    /\ UNCHANGED <<ctx, caller, queued, closed, workerVars, outcome, cause, shutdown>>

CloseQueue ==
    /\ closer = "close"
    /\ closer' = "wait"
    /\ closed' = TRUE
    /\ UNCHANGED <<ctx, caller, queued, workerVars, outcome, cause, shutdown>>

\* the wait group is done; Close returns what failed points to, and that is
\* the context's cause unless it was cancelled before
CloseReturn ==
    /\ closer = "wait"
    /\ \A w \in Workers : worker[w] = "done"
    /\ closer' = "returned"
    /\ cause' = IF cause # "none" THEN cause
                ELSE IF failed = "err" THEN "err" ELSE "nil"
    /\ UNCHANGED <<ctx, caller, queued, closed, workerVars, outcome, shutdown>>

ShutdownReturn ==
    /\ shutdown = "waiting"
    /\ cause # "none"
    /\ shutdown' = "returned"
    /\ UNCHANGED <<ctx, caller, queued, closed, workerVars, outcome, closer, cause>>

\* the context is cancelled, which Shutdown does not report as an error
Cancel ==
    /\ MayCancel
    /\ ~ctx
    /\ ctx' = TRUE
    /\ cause' = IF shutdown # "none" /\ cause = "none" THEN "nil" ELSE cause
    /\ UNCHANGED <<caller, queued, closed, workerVars, outcome, closer, shutdown>>

\* nothing is left to do
Finished ==
    /\ shutdown = "returned"
    /\ closer = "returned"
    /\ UNCHANGED vars

-----------------------------------------------------------------------------
Caller ==
    \/ \E x \in Workloads : RunBegin(x)
    \/ RunSend
    \/ RunCancelled
    \/ ShutdownBegin
    \/ ShutdownReturn

Worker(w) ==
    \/ WorkerTake(w)
    \/ \E res \in {"nil", "err"} : WorkloadReturn(w, res)
    \/ WorkerRecord(w)
    \/ WorkerEnd(w)

Closer == CloseQueue \/ CloseReturn

Next ==
    \/ Caller
    \/ \E w \in Workers : Worker(w)
    \/ Closer
    \/ Cancel
    \/ Finished

Spec == Init /\ [][Next]_vars

\* Goroutines go on, and every workload returns: the ones the program runs
\* work through a finite file, torrent or row, or take the context.
Fairness ==
    /\ WF_vars(RunSend \/ RunCancelled)
    /\ WF_vars(ShutdownReturn)
    /\ \A w \in Workers : WF_vars(Worker(w))
    /\ WF_vars(Closer)

FairSpec == Spec /\ Fairness

-----------------------------------------------------------------------------
\* "gracefully shutdown by invoking close and waiting until all workers
\* complete or the context times out": if Shutdown returns while its context
\* is not cancelled, every workload Run accepted has returned.
ShutdownComplete ==
    (shutdown = "returned" /\ ~ctx)
    => \A x \in Workloads : outcome[x] \in {"new", "nil", "err"}

\* Shutdown's error is a failed workload's, and where every workload failed
\* it does report a failure. (A failure after a success is not reported.)
FailureReported ==
    (shutdown = "returned" /\ ~ctx) =>
        /\ cause = "err" => \E x \in Workloads : outcome[x] = "err"
        /\ (/\ \E x \in Workloads : outcome[x] = "err"
            /\ \A x \in Workloads : outcome[x] # "nil")
           => cause = "err"

\* A full queue never blocks Run for good.
RunReturns == (caller # "free") ~> (caller = "free")

\* Shutdown returns, and all workers end, also when its context was cancelled.
ShutdownReturns ==
    (shutdown = "waiting") ~>
        (shutdown = "returned" /\ \A w \in Workers : worker[w] = "done")

\* No caller waits for ever, be it on a full queue or for the workers.
CallsReturn == RunReturns /\ ShutdownReturns
=============================================================================

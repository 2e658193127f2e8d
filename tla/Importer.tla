------------------------------ MODULE Importer ------------------------------
(***************************************************************************)
(* library/import.filesystem.go: importer.Import, the iterator over the    *)
(* media files of a directory. A walker goroutine hands the paths to an    *)
(* asynccompute pool, whose workers import a file each and send it over an *)
(* unbuffered channel to the goroutine that ranges over the iterator       *)
(* (cmd/cmdmedia/cmd.filesystem.go), which records it.                     *)
(*                                                                         *)
(* The pool is AsyncCompute; its workload is refined into the steps of the *)
(* closure Import passes to it.                                            *)
(***************************************************************************)
EXTENDS Naturals, Sequences

CONSTANTS
    Workers, Workloads, Backlog, MayCancel,     \* of the pool
    Directories,    \* the paths that are directories, walked like the others
    MayStop         \* whether the consumer may leave its loop

VARIABLES
    ctx, caller, queued, closed, worker, outcome, record, failed, closer,
    cause, shutdown,                            \* of the pool
    sending,    \* sending[w]: w is in the select that sends its result
    panic,      \* a worker has sent on a closed channel
    results,    \* "open" or "closed"
    err,        \* the variable err: "none" or "err"
    captured,   \* the sync.Once capture has run
    walker,     \* the walker goroutine: "walk", "shutdown", "returned"
    consumer,   \* the goroutine ranging over the iterator
    yielded,    \* the files that were yielded
    reported    \* the error that was yielded at the end

P == INSTANCE AsyncCompute

ASSUME ImporterAssumption ==
    /\ Workers # {}
    /\ Backlog \in Nat \ {0}
    /\ MayCancel \in BOOLEAN
    /\ {"free", "idle", "done"} \cap Workloads = {}
    /\ Directories \subseteq Workloads
    /\ MayStop \in BOOLEAN

poolVars == <<ctx, caller, queued, closed, worker, outcome, record, failed,
              closer, cause, shutdown>>
importVars == <<sending, panic, results, err, captured, walker, consumer,
                yielded, reported>>
vars == <<ctx, caller, queued, closed, worker, outcome, record, failed,
          closer, cause, shutdown, sending, panic, results, err, captured,
          walker, consumer, yielded, reported>>

-----------------------------------------------------------------------------
TypeOK ==
    /\ P!TypeOK
    /\ sending \in [Workers -> BOOLEAN]
    /\ panic \in BOOLEAN
    /\ results \in {"open", "closed"}
    /\ err \in {"none", "err"}
    /\ captured \in BOOLEAN
    /\ walker \in {"walk", "shutdown", "returned"}
    /\ consumer \in {"range", "stopped", "ended"}
    /\ yielded \subseteq Workloads
    /\ reported \in {"none", "err"}

Init ==
    /\ P!Init
    /\ sending = [w \in Workers |-> FALSE]
    /\ panic = FALSE
    /\ results = "open"
    /\ err = "none"
    /\ captured = FALSE
    /\ walker = "walk"
    /\ consumer = "range"
    /\ yielded = {}
    /\ reported = "none"

-----------------------------------------------------------------------------
(* The walker goroutine *)

\* arena.Run for the next path
WalkRun ==
    /\ walker = "walk"
    /\ \/ \E x \in Workloads : P!RunBegin(x)
       \/ P!RunSend
    /\ UNCHANGED importVars

\* Mutant of WalkFailed: the queue is closed here as well.
WalkFailedCloses ==
    /\ walker = "walk"
    /\ caller # "free" /\ ctx
    /\ outcome' = [outcome EXCEPT ![caller] = "refused"]
    /\ caller' = "free"
    /\ closed' = TRUE
    /\ err' = "err"
    /\ walker' = "shutdown"
    /\ UNCHANGED <<ctx, queued, worker, record, failed, closer, cause, shutdown,
                   sending, panic, results, captured, consumer, yielded, reported>>

\* Run was cancelled, or a path cannot be read: the traversal is over
WalkFailed ==
    /\ walker = "walk"
    /\ \/ P!RunCancelled
       \/ caller = "free" /\ UNCHANGED poolVars
    /\ err' = "err"
    /\ walker' = "shutdown"
    /\ UNCHANGED <<sending, panic, results, captured, consumer, yielded, reported>>

\* the traversal is complete; the deferred function calls Shutdown
WalkDone ==
    /\ walker = "walk"
    /\ \A x \in Workloads : outcome[x] # "new"
    /\ P!ShutdownBegin
    /\ walker' = "shutdown"
    /\ UNCHANGED <<sending, panic, results, err, captured, consumer, yielded, reported>>

WalkShutdown ==
    /\ walker = "shutdown"
    /\ P!ShutdownBegin
    /\ UNCHANGED importVars

WalkShutdownReturn ==
    /\ walker = "shutdown"
    /\ P!ShutdownReturn
    /\ UNCHANGED importVars

\* Mutant of CloseResults: the channel is closed before the pool is shut down.
CloseResultsFirst ==
    /\ walker = "shutdown"
    /\ results = "open"
    /\ results' = "closed"
    /\ UNCHANGED <<poolVars, sending, panic, err, captured, walker, consumer,
                   yielded, reported>>

\* Mutant of CloseResults: the channel is not closed.
CloseResultsForgotten ==
    /\ walker = "shutdown"
    /\ shutdown = "returned"
    /\ walker' = "returned"
    /\ err' = IF err = "none" /\ cause = "err" THEN "err" ELSE err
    /\ UNCHANGED <<poolVars, sending, panic, results, captured, consumer, yielded,
                   reported>>

\* err = errorsx.Compact(err, Shutdown(...)), then close(results)
CloseResults ==
    /\ walker = "shutdown"
    /\ shutdown = "returned"
    /\ walker' = "returned"
    /\ err' = IF err = "none" /\ cause = "err" THEN "err" ELSE err
    /\ results' = "closed"
    /\ UNCHANGED <<poolVars, sending, panic, captured, consumer, yielded, reported>>

-----------------------------------------------------------------------------
(* The workload *)

\* the path is a directory, or Stat fails: the error goes to the pool alone
WorkSkip(w) ==
    /\ ~sending[w]
    /\ \/ worker[w] \in Directories /\ P!WorkloadReturn(w, "nil")
       \/ P!WorkloadReturn(w, "err")
    /\ UNCHANGED importVars

\* the import fails, and the first such failure is captured
WorkFail(w) ==
    /\ ~sending[w]
    /\ worker[w] \notin Directories
    /\ P!WorkloadReturn(w, "err")
    /\ captured' = TRUE
    /\ err' = IF captured THEN err ELSE "err"
    /\ UNCHANGED <<sending, panic, results, walker, consumer, yielded, reported>>

\* the import succeeds
WorkImport(w) ==
    /\ ~sending[w]
    /\ worker[w] \in Workloads \ Directories
    /\ record[w] = "none"
    /\ sending' = [sending EXCEPT ![w] = TRUE]
    /\ UNCHANGED <<poolVars, panic, results, err, captured, walker, consumer,
                   yielded, reported>>

\* Mutant of WorkSend: a result the consumer is not ready for is dropped.
WorkSendDrops(w) ==
    /\ sending[w]
    /\ results = "open"
    /\ P!WorkloadReturn(w, "nil")
    /\ sending' = [sending EXCEPT ![w] = FALSE]
    /\ yielded' \in {yielded, yielded \cup {worker[w]}}
    /\ UNCHANGED <<consumer, panic, results, err, captured, walker, reported>>

\* results <- tx: the consumer receives, and goes on or leaves its loop
WorkSend(w) ==
    /\ sending[w]
    /\ results = "open"
    /\ consumer = "range"
    /\ P!WorkloadReturn(w, "nil")
    /\ sending' = [sending EXCEPT ![w] = FALSE]
    /\ yielded' = yielded \cup {worker[w]}
    /\ \/ UNCHANGED consumer
       \/ MayStop /\ consumer' = "stopped"
    /\ UNCHANGED <<panic, results, err, captured, walker, reported>>

\* <-ictx.Done()
WorkSendCancelled(w) ==
    /\ sending[w]
    /\ ctx
    /\ P!WorkloadReturn(w, "err")
    /\ sending' = [sending EXCEPT ![w] = FALSE]
    /\ UNCHANGED <<panic, results, err, captured, walker, consumer, yielded, reported>>

\* select may choose the send although the channel is closed: the process ends
WorkSendPanic(w) ==
    /\ sending[w]
    /\ results = "closed"
    /\ panic' = TRUE
    /\ UNCHANGED <<poolVars, sending, results, err, captured, walker, consumer,
                   yielded, reported>>

-----------------------------------------------------------------------------

\* the channel is closed: the error, if there is one, is yielded last
ConsumerEnd ==
    /\ consumer = "range"
    /\ results = "closed"
    /\ consumer' = "ended"
    /\ reported' = err
    /\ UNCHANGED <<poolVars, sending, panic, results, err, captured, walker, yielded>>

PoolStep ==
    /\ \/ \E w \in Workers : P!WorkerTake(w) \/ P!WorkerRecord(w) \/ P!WorkerEnd(w)
       \/ P!Closer
       \/ P!Cancel
    /\ UNCHANGED importVars

Walk == WalkRun \/ WalkFailed \/ WalkDone \/ WalkShutdown \/ WalkShutdownReturn
        \/ CloseResults

Work(w) == WorkSkip(w) \/ WorkFail(w) \/ WorkImport(w) \/ WorkSend(w)
           \/ WorkSendCancelled(w) \/ WorkSendPanic(w)

Next ==
    /\ ~panic
    /\ \/ Walk
       \/ \E w \in Workers : Work(w)
       \/ ConsumerEnd
       \/ PoolStep

Spec == Init /\ [][Next]_vars

\* The goroutines go on, and an import works through a finite file.
Fairness ==
    /\ WF_vars(~panic /\ Walk)
    /\ WF_vars(~panic /\ ConsumerEnd)
    /\ WF_vars(~panic /\ P!Closer /\ UNCHANGED importVars)
    /\ \A w \in Workers :
        /\ WF_vars(~panic /\ (P!WorkerTake(w) \/ P!WorkerRecord(w) \/ P!WorkerEnd(w))
                          /\ UNCHANGED importVars)
        /\ WF_vars(~panic /\ Work(w))

FairSpec == Spec /\ Fairness

-----------------------------------------------------------------------------
\* As long as the context is not cancelled no worker sends on a closed
\* channel: results is closed only after Shutdown has seen all workers end.
\* (When it is cancelled Shutdown does not wait, and WorkSendPanic can happen.)
NoSendOnClosed == panic => ctx

\* When the sequence ends without an error, and the context was not cancelled,
\* every file of the tree was yielded, but for those whose Stat failed.
EverythingYielded ==
    (consumer = "ended" /\ ~ctx /\ reported = "none") =>
        \A x \in Workloads \ Directories : x \in yielded \/ outcome[x] = "err"

\* A failed import is reported at the end of the sequence, although the pool
\* itself may lose it to an earlier success: the first failure is captured.
FailureYielded ==
    (consumer = "ended" /\ ~ctx /\ captured) => reported = "err"

\* What the consumer was given is all there is, or it is told that it is not.
ResultsComplete == EverythingYielded /\ FailureYielded

\* The importer uses the pool as the pool is specified, and its workload only
\* does what a workload may do.
PoolSpec == P!Spec

\* The loop over the iterator ends, unless its body leaves it or a worker
\* panics.
SequenceEnds == (consumer = "range") ~> (consumer # "range" \/ panic)
=============================================================================

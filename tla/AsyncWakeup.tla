---------------------------- MODULE AsyncWakeup ----------------------------
(***************************************************************************)
(* library/disk.quota.go: the wakeup a background pass over the library    *)
(* sleeps on, and the archival worker that sleeps on it.                   *)
(*                                                                         *)
(* Four goroutines share one AsyncWakeup:                                  *)
(*   waker     the goroutine NewAsyncWakeup starts: waits on the condition *)
(*             variable and turns a broadcast into a nil on the channel;   *)
(*   periodic  PeriodicWakeup, which broadcasts once an hour, forever;     *)
(*   worker    NewAutoArchive (NewDiskReclaim has the same shape): a pass  *)
(*             over the library, then a receive from the channel;          *)
(*   closer    the caller of Close (cmd/cmdtorrent/cmd.import.peer.go).    *)
(* The importers are the workloads of the import command: each stores a    *)
(* library row and then broadcasts.                                        *)
(*                                                                         *)
(* A row is a member of Importers (the importer that stored it); all that  *)
(* matters here is whether a pass has selected it since it was stored.     *)
(***************************************************************************)
EXTENDS Naturals, Sequences

CONSTANTS
    Importers,      \* the workloads that store rows and broadcast
    Archive,        \* the import command's --archive flag: broadcast per row
    MayCancel,      \* whether the parent context may be cancelled
    MayFail         \* whether registration and passes may fail

ASSUME WakeupAssumption ==
    /\ Archive \in BOOLEAN
    /\ MayCancel \in BOOLEAN
    /\ MayFail \in BOOLEAN

VARIABLES
    ctx,        \* the parent context is cancelled
    ictx,       \* the context derived in NewAsyncWakeup is cancelled
    q,          \* the channel's buffer: <<>>, <<"nil">> or <<"closed">>
    qclosed,    \* close(q) has run
    waker,      \* where the waker goroutine is
    worker,     \* where NewAutoArchive is
    why,        \* the error untilClosed returned
    closer,     \* where cleanup is
    importer,   \* importer[i]: where workload i is
    dirty       \* the rows stored since the last pass selected its rows

vars == <<ctx, ictx, q, qclosed, waker, worker, why, closer, importer, dirty>>

-----------------------------------------------------------------------------
WakerState == {"lock", "wait", "select", "returned", "panic"}

WorkerState ==
    {"setup", "absent", "scan", "upload", "receive", "final", "finalupload",
     "exit", "done"}

CloserState ==
    {"idle", "send", "broadcast", "prewait", "wait", "close", "returned"}

TypeOK ==
    /\ ctx \in BOOLEAN
    /\ ictx \in BOOLEAN
    /\ q \in {<<>>, <<"nil">>, <<"closed">>}
    /\ qclosed \in BOOLEAN
    /\ waker \in WakerState
    /\ worker \in WorkerState
    /\ why \in {"none", "closed", "cancelled", "failed"}
    /\ closer \in CloserState
    /\ importer \in [Importers -> {"idle", "stored", "finished"}]
    /\ dirty \in SUBSET Importers

\* NewAsyncWakeup: two condition variables, an empty channel of capacity 1
\* and a waker that has just been started.
Init ==
    /\ ctx = FALSE
    /\ ictx = FALSE
    /\ q = <<>>
    /\ qclosed = FALSE
    /\ waker = "lock"
    /\ worker = "setup"
    /\ why = "none"
    /\ closer = "idle"
    /\ importer = [i \in Importers |-> "idle"]
    /\ dirty = {}

-----------------------------------------------------------------------------
(* sync.Cond.Broadcast on the wakeup condition: the waker is woken when it *)
(* is waiting; a broadcast while it is anywhere else is lost.              *)
Woken == IF waker = "wait" THEN "select" ELSE waker

\* sync.Cond.Broadcast on the done condition, whose only waiter is cleanup.
DoneWoken == IF closer = "wait" THEN "close" ELSE closer

-----------------------------------------------------------------------------
(* The waker goroutine *)

\* L.Lock(); Wait() enlists the goroutine and releases the lock
WakerWait ==
    /\ waker = "lock"
    /\ waker' = "wait"
    /\ UNCHANGED <<ctx, ictx, q, qclosed, worker, why, closer, importer, dirty>>

\* Mutant of WakerSelect: the goroutine ends when the channel is full.
WakerSelectReturnsWhenFull ==
    /\ waker = "select"
    /\ \/ q = <<>> /\ q' = <<"nil">> /\ waker' = "lock"
       \/ (ictx \/ q # <<>>) /\ waker' = "returned" /\ UNCHANGED q
    /\ UNCHANGED <<ctx, ictx, qclosed, worker, why, closer, importer, dirty>>

\* select: of the cases that are ready one is taken at random. A send to a
\* closed channel is ready, and panics.
WakerSelect ==
    /\ waker = "select"
    /\ \/ ictx /\ waker' = "returned" /\ UNCHANGED q
       \/ ~qclosed /\ q = <<>> /\ q' = <<"nil">> /\ waker' = "lock"
       \/ qclosed /\ waker' = "panic" /\ UNCHANGED q
       \/ ~ictx /\ ~qclosed /\ q # <<>> /\ waker' = "lock" /\ UNCHANGED q
    /\ UNCHANGED <<ctx, ictx, qclosed, worker, why, closer, importer, dirty>>

-----------------------------------------------------------------------------
(* PeriodicWakeup: started by AutoArchival beside the worker; it looks at  *)
(* no context and never stops.                                             *)
PeriodicWakeup ==
    /\ worker \notin {"setup", "absent"}
    /\ waker' = Woken
    /\ UNCHANGED <<ctx, ictx, q, qclosed, worker, why, closer, importer, dirty>>

-----------------------------------------------------------------------------
(* The worker *)

\* AutoArchival: a registration or token failure is returned (and logged by
\* the caller) before the worker is started.
AutoArchival ==
    /\ worker = "setup"
    /\ \/ worker' = "scan"
       \/ MayFail /\ worker' = "absent"
    /\ UNCHANGED <<ctx, ictx, q, qclosed, waker, why, closer, importer, dirty>>

\* archive(): the query selects every archivable row
ArchiveScan ==
    /\ \/ worker = "scan" /\ worker' = "upload"
       \/ worker = "final" /\ worker' = "finalupload"
    /\ ~ctx
    /\ dirty' = {}
    /\ UNCHANGED <<ctx, ictx, q, qclosed, waker, why, closer, importer>>

\* archive() returns nil: each row was uploaded, or its failure was logged
ArchiveComplete ==
    /\ \/ worker = "upload" /\ worker' = "receive"
       \/ worker = "finalupload" /\ worker' = "exit"
    /\ UNCHANGED <<ctx, ictx, q, qclosed, waker, why, closer, importer, dirty>>

\* archive() returns the query's error: a cancelled context or a failed query
ArchiveError ==
    /\ worker \in {"scan", "upload", "final", "finalupload"}
    /\ ctx \/ MayFail
    /\ worker' = "exit"
    /\ why' = IF ctx THEN "cancelled" ELSE "failed"
    /\ UNCHANGED <<ctx, ictx, q, qclosed, waker, closer, importer, dirty>>

\* Mutant of WorkerReceive: no final pass once the wakeup is closed.
WorkerReceiveNoFinalPass ==
    /\ worker = "receive"
    /\ q # <<>>
    /\ q' = Tail(q)
    /\ IF Head(q) = "closed" THEN worker' = "exit" /\ why' = "closed"
                             ELSE worker' = "scan" /\ UNCHANGED why
    /\ UNCHANGED <<ctx, ictx, qclosed, waker, closer, importer, dirty>>

\* select in untilClosed. A receive from a closed and drained channel yields
\* nil, which is a wakeup.
WorkerReceive ==
    /\ worker = "receive"
    /\ \/ /\ q # <<>>
          /\ q' = Tail(q)
          /\ IF Head(q) = "closed" THEN worker' = "final" /\ why' = "closed"
                                   ELSE worker' = "scan" /\ UNCHANGED why
       \/ /\ q = <<>> /\ qclosed
          /\ worker' = "scan"
          /\ UNCHANGED <<q, why>>
       \/ /\ ctx
          /\ worker' = "exit" /\ why' = "cancelled"
          /\ UNCHANGED q
    /\ UNCHANGED <<ctx, ictx, qclosed, waker, closer, importer, dirty>>

\* defer async.doneCond.Broadcast()
WorkerExit ==
    /\ worker = "exit"
    /\ worker' = "done"
    /\ closer' = DoneWoken
    /\ UNCHANGED <<ctx, ictx, q, qclosed, waker, why, importer, dirty>>

-----------------------------------------------------------------------------
(* The importers (cmd.import.peer.go) *)

\* a workload fails, or stores its row
ImportStore(i) ==
    /\ worker # "setup"
    /\ importer[i] = "idle"
    /\ \/ /\ importer' = [importer EXCEPT ![i] = "stored"]
          /\ dirty' = dirty \cup {i}
       \/ /\ MayFail
          /\ importer' = [importer EXCEPT ![i] = "finished"]
          /\ UNCHANGED dirty
    /\ UNCHANGED <<ctx, ictx, q, qclosed, waker, worker, why, closer>>

\* the torrent is stopped, which may fail; then if t.Archive
\* { async.Broadcast() }
ImportBroadcast(i) ==
    /\ importer[i] = "stored"
    /\ importer' = [importer EXCEPT ![i] = "finished"]
    /\ \/ Archive /\ waker' = Woken
       \/ (~Archive \/ MayFail) /\ UNCHANGED waker
    /\ UNCHANGED <<ctx, ictx, q, qclosed, worker, why, closer, dirty>>

-----------------------------------------------------------------------------
(* Close: sync.OnceFunc, called once asynccompute.Shutdown has waited for  *)
(* every workload, or has been cancelled with workloads still running.     *)

\* async.Close(), whose cleanup begins with done()
CloseBegin ==
    /\ closer = "idle"
    /\ worker # "setup"
    /\ ctx \/ \A i \in Importers : importer[i] = "finished"
    /\ closer' = "send"
    /\ ictx' = TRUE
    /\ UNCHANGED <<ctx, q, qclosed, waker, worker, why, importer, dirty>>

\* Mutant of CloseSend: a default case drops the error when the buffer is full.
CloseSendOrDrop ==
    /\ closer = "send"
    /\ q' = IF q = <<>> THEN <<"closed">> ELSE q
    /\ closer' = "broadcast"
    /\ UNCHANGED <<ctx, ictx, qclosed, waker, worker, why, importer, dirty>>

\* q <- errAsyncClosed: blocks while the buffer is full
CloseSend ==
    /\ closer = "send"
    /\ q = <<>>
    /\ q' = <<"closed">>
    /\ closer' = "broadcast"
    /\ UNCHANGED <<ctx, ictx, qclosed, waker, worker, why, importer, dirty>>

\* <-ctx.Done()
CloseCancelled ==
    /\ closer = "send"
    /\ ctx
    /\ closer' = "prewait"
    /\ UNCHANGED <<ctx, ictx, q, qclosed, waker, worker, why, importer, dirty>>

\* wakeup.Broadcast()
CloseBroadcast ==
    /\ closer = "broadcast"
    /\ closer' = "prewait"
    /\ waker' = Woken
    /\ UNCHANGED <<ctx, ictx, q, qclosed, worker, why, importer, dirty>>

\* donecond.L.Lock(); donecond.Wait()
CloseWait ==
    /\ closer = "prewait"
    /\ closer' = "wait"
    /\ UNCHANGED <<ctx, ictx, q, qclosed, waker, worker, why, importer, dirty>>

\* close(q)
CloseChannel ==
    /\ closer = "close"
    /\ closer' = "returned"
    /\ qclosed' = TRUE
    /\ UNCHANGED <<ctx, ictx, q, waker, worker, why, importer, dirty>>

-----------------------------------------------------------------------------
\* an interrupt cancels the command's context, and with it the derived one
CancelParent ==
    /\ MayCancel
    /\ ~ctx
    /\ ctx' = TRUE
    /\ ictx' = TRUE
    /\ UNCHANGED <<q, qclosed, waker, worker, why, closer, importer, dirty>>

\* a panic in any goroutine ends the process
Running == waker # "panic"

Waker == WakerWait \/ WakerSelect
Worker ==
    \/ AutoArchival \/ ArchiveScan \/ ArchiveComplete \/ ArchiveError
    \/ WorkerReceive \/ WorkerExit
Importer(i) == ImportStore(i) \/ ImportBroadcast(i)
Closer ==
    \/ CloseBegin \/ CloseSend \/ CloseCancelled \/ CloseBroadcast
    \/ CloseWait \/ CloseChannel

Next ==
    /\ Running
    /\ \/ Waker
       \/ PeriodicWakeup
       \/ Worker
       \/ \E i \in Importers : Importer(i)
       \/ Closer
       \/ CancelParent

Spec == Init /\ [][Next]_vars

\* Every goroutine is scheduled. A goroutine blocked on a channel send is
\* served first in, first out by the runtime: once the worker drains the
\* buffer the blocked errAsyncClosed takes its place, hence the strong
\* fairness of CloseSend. Nobody is obliged to cancel the context, to fail,
\* or to call Close.
Fairness ==
    /\ WF_vars(Running /\ Waker)
    /\ WF_vars(Running /\ PeriodicWakeup)
    /\ WF_vars(Running /\ Worker)
    /\ \A i \in Importers : WF_vars(Running /\ ImportBroadcast(i))
    /\ SF_vars(Running /\ CloseSend)
    /\ WF_vars(Running /\ (CloseCancelled \/ CloseBroadcast \/ CloseWait
                                          \/ CloseChannel))

FairSpec == Spec /\ Fairness

-----------------------------------------------------------------------------
(* Safety *)

\* The channel is closed only once the worker is gone. NewAutoArchive takes a
\* nil received from a closed channel for a wakeup, so a close any earlier
\* would have it run pass after pass without ever sleeping.
ChannelOutlivesWorker == qclosed => worker = "done"

\* "run a final time to ensure everything is archived": when Close returns and
\* the worker ended because of it, some pass has selected every stored row.
CloseArchivesEverything ==
    closer = "returned" /\ why = "closed" => dirty = {}

\* What Close promises while it runs and when it returns: the channel is never
\* closed under the worker, and nothing that was stored is left behind.
CloseIsSafe == ChannelOutlivesWorker /\ CloseArchivesEverything

(* Liveness *)

\* No wakeup is lost for good: a broadcast that finds the waker busy is made
\* up for by a later one, so every stored row is selected by a pass unless
\* the worker has ended.
RowsEventuallySelected ==
    \A i \in Importers :
        i \in dirty ~> (i \notin dirty \/ worker \in {"absent", "exit", "done"})

\* Close ends the worker, whatever the waker puts on the channel meanwhile.
CloseStopsWorker ==
    closer # "idle" ~> worker \in {"absent", "done"}

\* A Close that is waiting before the worker ends is released by the worker's
\* deferred broadcast.
WaitingCloseReturns ==
    (closer = "wait" /\ worker \notin {"absent", "done"}) ~> closer = "returned"

\* Close comes to an end: it stops the worker against a full channel, failures
\* and cancellation, and returns if it waits before the worker ends.
CloseEnds == CloseStopsWorker /\ WaitingCloseReturns

\* "signal everything is done so the close function returns" (disk.quota.go):
\* every Close returns. Does not hold: a broadcast on the done condition that
\* precedes cleanup's Wait wakes nobody, and none follows it.
CloseReturns == closer = "send" ~> closer = "returned"
=============================================================================

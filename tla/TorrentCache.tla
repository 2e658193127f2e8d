---------------------------- MODULE TorrentCache ----------------------------
(***************************************************************************)
(* Reading content whose blocks may have been reclaimed: a read that finds *)
(* no block file restores the block from the archive and reads again.      *)
(*   torrent readers   fallback.ReadAt (library/deeppool.torrent.cache.go),*)
(*                     called by the torrent client; they share a mutex;   *)
(*   media readers     DeeppoolReaderAtCache.ReadAt, called to serve a     *)
(*                     library file; each open file has a mutex of its own.*)
(* Both write into the block files of one torrent directory (DirCache), as *)
(* do peers, and Reclaim may be removing that directory meanwhile.         *)
(*                                                                         *)
(* The torrent has one file, so the archive and the directory have the     *)
(* same offsets. A block is a sequence of cells, the pieces in which the   *)
(* copy of a response arrives; cells numbers them from 0.                  *)
(***************************************************************************)
EXTENDS Naturals, FiniteSets

CONSTANTS
    TReaders,       \* goroutines of the torrent client that read
    MReaders,       \* open library files that are read
    Last,           \* the number of the last block
    CellsOf,        \* CellsOf[b]: the number of cells of block b
    Requests,       \* the reads a reader may ask for
    MayPeer,        \* whether peers write blocks
    MayReclaim      \* whether the reclaim pass removes the directory

Readers == TReaders \cup MReaders
Blocks == 0 .. Last

\* Cells from..to of block blk, and the first more cells of the next block.
RequestType ==
    {q \in [blk : Blocks, from : Nat, to : Nat, more : Nat] :
        /\ q.from <= q.to
        /\ q.to < CellsOf[q.blk]
        /\ q.more > 0 => q.blk < Last /\ q.more <= CellsOf[q.blk + 1]}

ASSUME CacheAssumption ==
    /\ Last \in Nat
    /\ CellsOf \in [Blocks -> Nat \ {0}]
    /\ Requests \subseteq RequestType
    /\ Requests # {}
    /\ MayPeer \in BOOLEAN
    /\ MayReclaim \in BOOLEAN
    /\ "none" \notin TReaders
    /\ TReaders \cap MReaders = {}

VARIABLES
    dir,            \* the torrent directory exists
    files,          \* the blocks that have a file
    written,        \* written[b]: the cells of b that were written
    removing,       \* RemoveAll: whether it runs, and the names left
    mutex,          \* the holder of the torrent readers' mutex
    cacheblocked,   \* fallback.cacheblocked
    pc,             \* pc[r]: where reader r is
    req,            \* req[r]: what r reads
    pos,            \* pos[r]: the next cell r's download writes
    res,            \* res[r]: what r's last read returned
    exposed,        \* ghost: the blocks something else wrote or removed
    late            \* ghost: r's read began when the cache was blocked

diskVars == <<dir, files, written, exposed>>
vars == <<dir, files, written, removing, mutex, cacheblocked, pc, req, pos,
          res, exposed, late>>

-----------------------------------------------------------------------------
Results == {"ok", "zeros", "error"}
Steps == {"idle", "missing", "lock", "recheck", "query", "download", "reread"}

TypeOK ==
    /\ dir \in BOOLEAN
    /\ files \subseteq Blocks
    /\ written \in [Blocks -> SUBSET Nat]
    /\ \A b \in Blocks : written[b] \subseteq 0 .. CellsOf[b] - 1
    /\ removing \in [active : BOOLEAN, names : SUBSET Blocks]
    /\ mutex \in TReaders \cup {"none"}
    /\ cacheblocked \in BOOLEAN
    /\ pc \in [Readers -> Steps]
    /\ \A r \in MReaders : pc[r] \notin {"missing", "lock", "query"}
    /\ req \in [Readers -> Requests]
    /\ pos \in [Readers -> Nat]
    /\ res \in [Readers -> Results]
    /\ exposed \subseteq Blocks
    /\ late \in [Readers -> BOOLEAN]

\* the directory of a torrent whose blocks were reclaimed earlier
Init ==
    /\ dir = TRUE
    /\ files = {}
    /\ written = [b \in Blocks |-> {}]
    /\ removing = [active |-> FALSE, names |-> {}]
    /\ mutex = "none"
    /\ cacheblocked = FALSE
    /\ pc = [r \in Readers |-> "idle"]
    /\ req \in {[r \in Readers |-> q] : q \in Requests}
    /\ pos = [r \in Readers |-> 0]
    /\ res = [r \in Readers |-> "ok"]
    /\ exposed = {}
    /\ late = [r \in Readers |-> FALSE]

-----------------------------------------------------------------------------
(* DirCache.ReadAt *)

\* readchunk: a file that ends before the chunk does is io.EOF, and what was
\* never written below its end reads as zeros
readchunk(b, from, to) ==
    IF b \notin files THEN "notexist"
    ELSE IF \A c \in written[b] : c < to THEN "eof"
    ELSE IF from .. to \subseteq written[b] THEN "ok"
    ELSE "zeros"

\* the chunks are read in order, up to the first that fails
ReadAt(q) ==
    LET first == readchunk(q.blk, q.from, q.to)
        second == readchunk(q.blk + 1, 0, q.more - 1)
    IN IF first \notin {"ok", "zeros"} \/ q.more = 0 THEN first
       ELSE IF second = "ok" THEN first ELSE second

NoError(outcome) == outcome \in {"ok", "zeros"}

\* what the caller is told, and the deferred Unlock
Return(r, outcome) ==
    /\ pc' = [pc EXCEPT ![r] = "idle"]
    /\ res' = [res EXCEPT ![r] = IF NoError(outcome) THEN outcome ELSE "error"]
    /\ mutex' = IF mutex = r THEN "none" ELSE mutex

Goto(r, step) ==
    /\ pc' = [pc EXCEPT ![r] = step]
    /\ UNCHANGED <<res, mutex>>

-----------------------------------------------------------------------------
(* ReadAt of both readers *)

\* the first look at the disk; anything but a missing file is the answer
ReadLocal(r, q) ==
    /\ pc[r] = "idle"
    /\ req' = [req EXCEPT ![r] = q]
    /\ late' = [late EXCEPT ![r] = cacheblocked /\ ReadAt(q) = "notexist"]
    /\ IF ReadAt(q) = "notexist"
       THEN Goto(r, IF r \in TReaders THEN "missing" ELSE "recheck")
       ELSE Return(r, ReadAt(q))
    /\ UNCHANGED <<diskVars, removing, cacheblocked, pos>>

\* Mutant of CheckBlocked: the flag is not looked at.
CheckBlockedNever(r) ==
    /\ pc[r] = "missing"
    /\ Goto(r, "lock")
    /\ UNCHANGED <<diskVars, removing, cacheblocked, req, pos, late>>

\* cacheblocked.Load()
CheckBlocked(r) ==
    /\ pc[r] = "missing"
    /\ IF cacheblocked THEN Return(r, "blocked") ELSE Goto(r, "lock")
    /\ UNCHANGED <<diskVars, removing, cacheblocked, req, pos, late>>

Lock(r) ==
    /\ pc[r] = "lock"
    /\ mutex = "none"
    /\ mutex' = r
    /\ pc' = [pc EXCEPT ![r] = "recheck"]
    /\ UNCHANGED <<diskVars, removing, cacheblocked, req, pos, res, late>>

\* Mutant of Recheck: the second look at the disk is left out.
RecheckSkipped(r) ==
    /\ pc[r] = "recheck"
    /\ Goto(r, IF r \in TReaders THEN "query" ELSE "download")
    /\ pos' = [pos EXCEPT ![r] = 0]
    /\ UNCHANGED <<diskVars, removing, cacheblocked, req, late>>

\* the second look, with the mutex held; a media reader, whose mutex nobody
\* else has, comes here directly and downloads whatever the error is
Recheck(r) ==
    /\ pc[r] = "recheck"
    /\ IF NoError(ReadAt(req[r]))
       THEN Return(r, ReadAt(req[r])) /\ UNCHANGED pos
       ELSE /\ Goto(r, IF r \in TReaders THEN "query" ELSE "download")
            /\ pos' = [pos EXCEPT ![r] = 0]
    /\ UNCHANGED <<diskVars, removing, cacheblocked, req, late>>

\* MetadataForTorrentArchiveRetrieval: an archived row is found, or none, or
\* the query fails or runs into its timeout and the read fails as it did
Query(r) ==
    /\ pc[r] = "query"
    /\ \/ Goto(r, "download")
       \/ Goto(r, "reread")
       \/ Return(r, "failed")
    /\ UNCHANGED <<diskVars, removing, cacheblocked, req, pos, late>>

-----------------------------------------------------------------------------
(* downloadChunk: the block of the request's offset, from its first cell *)

\* Mutant of DownloadWrite: the copy starts at the requested offset.
DownloadWriteFromOffset(r) ==
    LET b == req[r].blk
        c == IF pos[r] = 0 THEN req[r].from ELSE pos[r]
    IN
    /\ pc[r] = "download"
    /\ c < CellsOf[b]
    /\ dir
    /\ files' = files \cup {b}
    /\ written' = [written EXCEPT ![b] = @ \cup {c}]
    /\ pos' = [pos EXCEPT ![r] = c + 1]
    /\ UNCHANGED <<dir, removing, mutex, cacheblocked, pc, req, res, exposed, late>>

\* DirCache.WriteAt opens the block's file for every write it is given
DownloadWrite(r) ==
    LET b == req[r].blk IN
    /\ pc[r] = "download"
    /\ pos[r] < CellsOf[b]
    /\ dir
    /\ files' = files \cup {b}
    /\ written' = [written EXCEPT ![b] = @ \cup {pos[r]}]
    /\ pos' = [pos EXCEPT ![r] = @ + 1]
    /\ UNCHANGED <<dir, removing, mutex, cacheblocked, pc, req, res, exposed, late>>

\* The query's 3 seconds go on during the download: when they are over the
\* rows cannot be read to their end, and the read fails although the block is
\* there.
DownloadDone(r) ==
    /\ pc[r] = "download"
    /\ pos[r] = CellsOf[req[r].blk]
    /\ \/ Goto(r, "reread")
       \/ r \in TReaders /\ Return(r, "failed")
    /\ UNCHANGED <<dir, files, written, exposed, removing, cacheblocked, req,
                   pos, late>>

\* Mutant of DownloadFailed: an early return keeps the mutex.
DownloadFailedLocked(r) ==
    /\ pc[r] = "download"
    /\ pc' = [pc EXCEPT ![r] = "idle"]
    /\ res' = [res EXCEPT ![r] = "error"]
    /\ UNCHANGED mutex
    /\ UNCHANGED <<dir, files, written, exposed, removing, cacheblocked, req,
                   pos, late>>

\* the response breaks off, nothing arrived for 3 seconds, or the block cannot
\* be written, with or without its file created; what was written stays
DownloadFailed(r) ==
    /\ pc[r] = "download"
    /\ Return(r, "failed")
    /\ files' \in {files} \cup IF dir THEN {files \cup {req[r].blk}} ELSE {}
    /\ UNCHANGED <<dir, written, exposed, removing, cacheblocked, req, pos, late>>

\* 401 or 403: no further download for this torrent
DownloadRefused(r) ==
    /\ pc[r] = "download"
    /\ pos[r] = 0
    /\ Return(r, "failed")
    /\ cacheblocked' = (cacheblocked \/ r \in TReaders)
    /\ UNCHANGED <<dir, files, written, exposed, removing, req, pos, late>>

Reread(r) ==
    /\ pc[r] = "reread"
    /\ Return(r, ReadAt(req[r]))
    /\ UNCHANGED <<diskVars, removing, cacheblocked, req, pos, late>>

-----------------------------------------------------------------------------
(* What else writes to the directory or removes from it *)

\* a peer's data, written by the torrent client through the embedded storage
PeerWrite(b, c) ==
    /\ MayPeer
    /\ dir
    /\ c < CellsOf[b]
    /\ files' = files \cup {b}
    /\ written' = [written EXCEPT ![b] = @ \cup {c}]
    /\ exposed' = exposed \cup {b}
    /\ UNCHANGED <<dir, removing, mutex, cacheblocked, pc, req, pos, res, late>>

\* Reclaim calls os.RemoveAll, which lists the directory,
ReclaimBegin ==
    /\ MayReclaim
    /\ dir
    /\ ~removing.active
    /\ removing' = [active |-> TRUE, names |-> files]
    /\ UNCHANGED <<diskVars, mutex, cacheblocked, pc, req, pos, res, late>>

\* removes the files it listed,
ReclaimRemove(b) ==
    /\ b \in removing.names
    /\ removing' = [removing EXCEPT !.names = @ \ {b}]
    /\ files' = files \ {b}
    /\ written' = [written EXCEPT ![b] = {}]
    /\ exposed' = IF \E r \in Readers : /\ pc[r] = "download"
                                        /\ req[r].blk = b
                                        /\ pos[r] > 0
                  THEN exposed \cup {b} ELSE exposed \ {b}
    /\ UNCHANGED <<dir, mutex, cacheblocked, pc, req, pos, res, late>>

\* and the directory, unless a file was written into it meanwhile
ReclaimEnd ==
    /\ removing.active
    /\ removing.names = {}
    /\ removing' = [active |-> FALSE, names |-> {}]
    /\ dir' = (files # {})
    /\ UNCHANGED <<files, written, exposed, mutex, cacheblocked, pc,
                   req, pos, res, late>>

\* The torrent is started again: OpenTorrent makes the directory and a new
\* fallback. Reads of a dropped fallback are not followed.
OpenTorrent ==
    /\ \A r \in TReaders : pc[r] = "idle"
    /\ dir' = TRUE
    /\ cacheblocked' = FALSE
    /\ UNCHANGED <<files, written, exposed, removing, mutex, pc, req,
                   pos, res, late>>

\* The process ends. Ranger.Download itself can end it: when there is no
\* response it looks at the status code of a nil one.
Crash ==
    /\ pc' = [r \in Readers |-> "idle"]
    /\ res' = [r \in Readers |-> "error"]
    /\ mutex' = "none"
    /\ cacheblocked' = FALSE
    /\ removing' = [active |-> FALSE, names |-> {}]
    /\ UNCHANGED <<dir, files, written, exposed, req, pos, late>>

-----------------------------------------------------------------------------
Reader(r) ==
    \/ \E q \in Requests : ReadLocal(r, q)
    \/ CheckBlocked(r)
    \/ Lock(r)
    \/ Recheck(r)
    \/ Query(r)
    \/ DownloadWrite(r)
    \/ DownloadDone(r)
    \/ DownloadFailed(r)
    \/ DownloadRefused(r)
    \/ Reread(r)

Next ==
    \/ \E r \in Readers : Reader(r)
    \/ \E b \in Blocks : \E c \in 0 .. CellsOf[b] - 1 : PeerWrite(b, c)
    \/ ReclaimBegin
    \/ \E b \in Blocks : ReclaimRemove(b)
    \/ ReclaimEnd
    \/ OpenTorrent
    \/ Crash

Spec == Init /\ [][Next]_vars

\* A reader that is running goes on: a download ends, since the copy makes
\* progress every 3 seconds or is cancelled (TimeoutWriter), and the query has
\* a timeout. sync.Mutex hands over to the waiter that has waited longest, so
\* Lock is strongly fair.
Fairness ==
    \A r \in Readers :
        /\ WF_vars(CheckBlocked(r) \/ Recheck(r) \/ Query(r) \/ Reread(r))
        /\ WF_vars(DownloadWrite(r) \/ DownloadDone(r) \/ DownloadFailed(r))
        /\ SF_vars(Lock(r))

FairSpec == Spec /\ Fairness

-----------------------------------------------------------------------------
\* What was never written is never below the end of a block's file, unless a
\* peer wrote to the block or the block was removed while it was restored: a
\* download begins at the first cell and two downloads of a block at once, or
\* one that breaks off and is repeated, leave no hole.
HolesExplained ==
    \A b \in Blocks \ exposed : \A c \in written[b] : 0 .. c \subseteq written[b]

\* After a 401 or 403 no read that begins downloads again: a read that began
\* with the cache blocked never gets as far as the archive.
BlockedNeverDownloads ==
    \A r \in TReaders : late[r] => pc[r] \notin {"query", "download", "reread"}

\* A block that is completely on disk is not downloaded again by a torrent
\* reader that waited for the mutex while another restored it (reads within a
\* block, and no writer but the torrent readers).
RestoredOnce ==
    \A r \in TReaders :
        (pc[r] = "download" /\ pos[r] = 0 /\ req[r].more = 0)
        => 0 .. CellsOf[req[r].blk] - 1 \notin SUBSET written[req[r].blk]

\* Every read returns.
ReadsReturn == \A r \in Readers : (pc[r] # "idle") ~> (pc[r] = "idle")
=============================================================================

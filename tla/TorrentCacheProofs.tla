------------------------- MODULE TorrentCacheProofs -------------------------
(***************************************************************************)
(* Theorems about TorrentCache, for any readers, blocks and requests.      *)
(*                                                                         *)
(* HolesExplained needs to know how far each download has got: all cells   *)
(* below a download's position are written, unless its block is exposed.   *)
(* BlockedNeverDownloads needs that a read that began with the cache       *)
(* blocked still finds it blocked when it looks. RestoredOnce needs that   *)
(* the mutex is held from the second look at the disk to the download.     *)
(***************************************************************************)
EXTENDS TorrentCache, TLAPS

\* a download has written what is before its position
DownloadsWrite ==
    \A r \in Readers :
        (pc[r] = "download" /\ req[r].blk \notin exposed)
        => \A c \in Nat : c < pos[r] => c \in written[req[r].blk]

\* a download that is about to begin begins at the first cell
DownloadsBegin == \A r \in Readers : pc[r] = "query" => pos[r] = 0

\* the form of HolesExplained the steps preserve
PrefixWritten ==
    \A b \in Blocks \ exposed : \A c \in written[b] :
        \A d \in Nat : d < c => d \in written[b]

\* who read the flag after it was set has yet to be turned away
LateTurnedAway ==
    \A r \in TReaders :
        late[r] => \/ pc[r] = "idle"
                   \/ pc[r] = "missing" /\ cacheblocked

-----------------------------------------------------------------------------
LEMMA RequestFacts ==
    ASSUME NEW q \in Requests
    PROVE  /\ q.blk \in Blocks
           /\ q.from \in Nat
           /\ q.to \in Nat
           /\ q.more \in Nat
           /\ CellsOf[q.blk] \in Nat
           /\ CellsOf[q.blk] > 0
  BY CacheAssumption DEF RequestType

LEMMA TypeInit == Init => TypeOK
<1> SUFFICES ASSUME Init PROVE TypeOK
  OBVIOUS
<1>1. req \in [Readers -> Requests]
  BY DEF Init
<1>2. \A b \in Blocks : written[b] \subseteq 0 .. CellsOf[b] - 1
  BY DEF Init
<1>3. \A r \in MReaders : pc[r] \notin {"missing", "lock", "query"}
  BY DEF Init, Readers
<1>4. QED
  BY <1>1, <1>2, <1>3 DEF Init, TypeOK, Steps, Results

LEMMA ReadType ==
    ASSUME TypeOK, NEW r \in Readers, NEW q \in Requests, ReadLocal(r, q)
    PROVE  TypeOK'
  BY CacheAssumption
  DEF ReadLocal, TypeOK, Goto, Return, NoError, Steps, Results, diskVars, Readers

LEMMA ReaderType ==
    ASSUME TypeOK, NEW r \in Readers, Reader(r)
    PROVE  TypeOK'
<1> DEFINE b == req[r].blk
<1>0. /\ b \in Blocks /\ CellsOf[b] \in Nat /\ pos[r] \in Nat
      /\ r \in Readers
  BY RequestFacts DEF TypeOK
<1>1. ASSUME NEW q \in Requests, ReadLocal(r, q) PROVE TypeOK'
  BY <1>1, ReadType
<1>2. CASE CheckBlocked(r)
  BY <1>2 DEF CheckBlocked, TypeOK, Goto, Return, NoError, Steps, Results, diskVars, Readers
<1>3. CASE Lock(r)
  <2>1. r \in TReaders
    BY <1>3 DEF Lock, TypeOK, Readers
  <2>2. QED
    BY <1>3, <2>1 DEF Lock, TypeOK, Steps, diskVars, Readers
<1>4. CASE Recheck(r)
  <2>1. CASE NoError(ReadAt(req[r]))
    BY <1>4, <2>1 DEF Recheck, TypeOK, Return, NoError, Steps, Results, diskVars, Readers
  <2>2. CASE ~NoError(ReadAt(req[r]))
    BY <1>4, <2>2, CacheAssumption DEF Recheck, TypeOK, Goto, Steps, diskVars, Readers
  <2>3. QED
    BY <2>1, <2>2
<1>5. CASE Query(r)
  BY <1>5 DEF Query, TypeOK, Goto, Return, NoError, Steps, Results, diskVars, Readers
<1>6. CASE DownloadWrite(r)
  <2>1. /\ written' = [written EXCEPT ![b] = @ \cup {pos[r]}]
        /\ pos[r] < CellsOf[b]
    BY <1>6 DEF DownloadWrite
  <2>2. written' \in [Blocks -> SUBSET Nat]
    BY <1>0, <2>1 DEF TypeOK
  <2>3. \A x \in Blocks : written'[x] \subseteq 0 .. CellsOf[x] - 1
    BY <1>0, <2>1 DEF TypeOK
  <2>4. QED
    BY <1>0, <1>6, <2>2, <2>3 DEF DownloadWrite, TypeOK
<1>7. CASE DownloadDone(r)
  BY <1>0, <1>7 DEF DownloadDone, TypeOK, Goto, Return, NoError, Steps, Results, Readers
<1>8. CASE DownloadFailed(r)
  BY <1>0, <1>8 DEF DownloadFailed, TypeOK, Return, NoError, Steps, Results
<1>9. CASE DownloadRefused(r)
  BY <1>0, <1>9 DEF DownloadRefused, TypeOK, Return, NoError, Steps, Results
<1>10. CASE Reread(r)
  BY <1>10 DEF Reread, TypeOK, Return, NoError, Steps, Results, diskVars, Readers
<1>11. QED
  BY <1>1, <1>2, <1>3, <1>4, <1>5, <1>6, <1>7, <1>8, <1>9, <1>10 DEF Reader

LEMMA PeerType ==
    ASSUME TypeOK, NEW b \in Blocks, NEW c \in 0 .. CellsOf[b] - 1,
           PeerWrite(b, c)
    PROVE  TypeOK'
<1>1. CellsOf[b] \in Nat
  BY CacheAssumption
<1>2. written' \in [Blocks -> SUBSET Nat]
  BY <1>1 DEF PeerWrite, TypeOK
<1>3. \A x \in Blocks : written'[x] \subseteq 0 .. CellsOf[x] - 1
  BY <1>1 DEF PeerWrite, TypeOK
<1>4. QED
  BY <1>2, <1>3 DEF PeerWrite, TypeOK

LEMMA NextType == TypeOK /\ [Next]_vars => TypeOK'
<1> SUFFICES ASSUME TypeOK, [Next]_vars PROVE TypeOK'
  OBVIOUS
<1>1. ASSUME NEW r \in Readers, Reader(r) PROVE TypeOK'
  BY <1>1, ReaderType
<1>2. ASSUME NEW b \in Blocks, NEW c \in 0 .. CellsOf[b] - 1, PeerWrite(b, c)
      PROVE  TypeOK'
  BY <1>2, PeerType
<1>3. CASE ReclaimBegin
  BY <1>3 DEF ReclaimBegin, TypeOK, diskVars
<1>4. ASSUME NEW b \in Blocks, ReclaimRemove(b) PROVE TypeOK'
  BY <1>4 DEF ReclaimRemove, TypeOK
<1>5. CASE ReclaimEnd
  BY <1>5 DEF ReclaimEnd, TypeOK
<1>6. CASE OpenTorrent
  BY <1>6 DEF OpenTorrent, TypeOK
<1>7. CASE Crash
  BY <1>7 DEF Crash, TypeOK, Steps, Results, Readers
<1>8. CASE UNCHANGED vars
  BY <1>8 DEF vars, TypeOK
<1>9. QED
  BY <1>1, <1>2, <1>3, <1>4, <1>5, <1>6, <1>7, <1>8 DEF Next

\* The state has its type in every reachable state; in particular no cell is
\* written past the end of its block, and only torrent readers hold the mutex.
THEOREM TypeCorrect == Spec => []TypeOK
  BY TypeInit, NextType, PTL DEF Spec

-----------------------------------------------------------------------------
LEMMA LateInit == Init => LateTurnedAway
  BY DEF Init, LateTurnedAway, Readers

LEMMA LateNext == TypeOK /\ LateTurnedAway /\ [Next]_vars => LateTurnedAway'
<1> SUFFICES ASSUME TypeOK, LateTurnedAway, [Next]_vars PROVE LateTurnedAway'
  OBVIOUS
<1> USE DEF LateTurnedAway, TypeOK
<1>1. ASSUME NEW r \in Readers, NEW q \in Requests, ReadLocal(r, q)
      PROVE  LateTurnedAway'
  BY <1>1 DEF ReadLocal, Goto, Return, Readers
<1>2. ASSUME NEW r \in Readers, CheckBlocked(r) PROVE LateTurnedAway'
  BY <1>2 DEF CheckBlocked, Goto, Return, Readers
<1>3. ASSUME NEW r \in Readers,
             \/ Lock(r) \/ Recheck(r) \/ Query(r) \/ DownloadWrite(r)
             \/ DownloadDone(r) \/ DownloadFailed(r) \/ Reread(r)
      PROVE  LateTurnedAway'
  BY <1>3 DEF Lock, Recheck, Query, DownloadWrite, DownloadDone,
              DownloadFailed, Reread, Goto, Return, Readers
<1>4. ASSUME NEW r \in Readers, DownloadRefused(r) PROVE LateTurnedAway'
  BY <1>4 DEF DownloadRefused, Return, Readers
<1>5. ASSUME NEW b \in Blocks, NEW c \in 0 .. CellsOf[b] - 1, PeerWrite(b, c)
      PROVE  LateTurnedAway'
  BY <1>5 DEF PeerWrite
<1>6. CASE ReclaimBegin \/ ReclaimEnd \/ \E b \in Blocks : ReclaimRemove(b)
  BY <1>6 DEF ReclaimBegin, ReclaimEnd, ReclaimRemove
<1>7. CASE OpenTorrent
  BY <1>7 DEF OpenTorrent
<1>8. CASE Crash
  BY <1>8 DEF Crash, Readers
<1>9. CASE UNCHANGED vars
  BY <1>9 DEF vars
<1>10. QED
  BY <1>1, <1>2, <1>3, <1>4, <1>5, <1>6, <1>7, <1>8, <1>9 DEF Next, Reader

\* Once the archive refused access no read that begins asks it again, for any
\* number of readers.
THEOREM BlockedIsFinal == Spec => []BlockedNeverDownloads
<1>1. LateTurnedAway => BlockedNeverDownloads
  BY DEF LateTurnedAway, BlockedNeverDownloads
<1>2. QED
  BY <1>1, TypeInit, NextType, LateInit, LateNext, PTL DEF Spec

-----------------------------------------------------------------------------
HolesInv == DownloadsBegin /\ DownloadsWrite /\ PrefixWritten

LEMMA HolesInit == Init => HolesInv
  BY DEF Init, HolesInv, DownloadsBegin, DownloadsWrite, PrefixWritten

LEMMA HolesWrite ==
    ASSUME TypeOK, HolesInv, NEW r \in Readers, DownloadWrite(r)
    PROVE  HolesInv'
<1> DEFINE b == req[r].blk
<1>1. /\ pc[r] = "download"
      /\ written' = [written EXCEPT ![b] = @ \cup {pos[r]}]
      /\ pos' = [pos EXCEPT ![r] = @ + 1]
      /\ UNCHANGED <<pc, req, exposed>>
  BY DEF DownloadWrite
<1>2. b \in Blocks /\ pos[r] \in Nat
  BY RequestFacts DEF TypeOK
<1>3. DownloadsWrite'
  <2>1. ASSUME NEW s \in Readers, pc[s] = "download", req[s].blk \notin exposed,
               NEW c \in Nat, c < pos'[s]
        PROVE  c \in written'[req[s].blk]
    <3>1. c < pos[s] \/ (s = r /\ c = pos[r])
      BY <1>1, <1>2, <2>1 DEF TypeOK
    <3>2. req[s].blk \in Blocks
      BY RequestFacts DEF TypeOK
    <3>3. QED
      BY <1>1, <1>2, <2>1, <3>1, <3>2 DEF HolesInv, DownloadsWrite, TypeOK
  <2>2. QED
    BY <1>1, <2>1 DEF DownloadsWrite
<1>4. PrefixWritten'
  BY <1>1, <1>2 DEF HolesInv, DownloadsBegin, DownloadsWrite, PrefixWritten, TypeOK
<1>5. DownloadsBegin'
  BY <1>1, <1>2 DEF HolesInv, DownloadsBegin, TypeOK
<1>6. QED
  BY <1>3, <1>4, <1>5 DEF HolesInv

LEMMA HolesRemove ==
    ASSUME TypeOK, HolesInv, NEW b \in Blocks, ReclaimRemove(b)
    PROVE  HolesInv'
<1>1. /\ written' = [written EXCEPT ![b] = {}]
      /\ exposed' \in {exposed \cup {b}, exposed \ {b}}
      /\ UNCHANGED <<pc, req, pos>>
  BY DEF ReclaimRemove
<1>2. ASSUME NEW r \in Readers, pc[r] = "download", req[r].blk = b, pos[r] > 0
      PROVE  b \in exposed'
  BY <1>2 DEF ReclaimRemove
<1>3. DownloadsWrite'
  BY <1>1, <1>2 DEF HolesInv, DownloadsWrite, TypeOK
<1>4. PrefixWritten'
  BY <1>1 DEF HolesInv, PrefixWritten, TypeOK
<1>5. DownloadsBegin'
  BY <1>1 DEF HolesInv, DownloadsBegin
<1>6. QED
  BY <1>3, <1>4, <1>5 DEF HolesInv

LEMMA HolesNext == TypeOK /\ HolesInv /\ [Next]_vars => HolesInv'
<1> SUFFICES ASSUME TypeOK, HolesInv, [Next]_vars PROVE HolesInv'
  OBVIOUS
<1>1. ASSUME NEW r \in Readers, NEW q \in Requests, ReadLocal(r, q)
      PROVE  HolesInv'
  BY <1>1 DEF ReadLocal, Goto, Return, HolesInv, DownloadsBegin, DownloadsWrite,
              PrefixWritten, TypeOK, diskVars
<1>2. ASSUME NEW r \in Readers,
             CheckBlocked(r) \/ Lock(r) \/ Recheck(r) \/ Query(r) \/ Reread(r)
      PROVE  HolesInv'
  <2>1. PrefixWritten'
    BY <1>2 DEF CheckBlocked, Lock, Recheck, Query, Reread, HolesInv,
                PrefixWritten, diskVars
  <2>2. CASE Query(r)
    <3>1. pos[r] = 0
      BY <2>2 DEF Query, HolesInv, DownloadsBegin
    <3>2. QED
      BY <2>1, <2>2, <3>1 DEF Query, Goto, Return, HolesInv, DownloadsBegin,
                DownloadsWrite, TypeOK, diskVars
  <2>3. CASE CheckBlocked(r) \/ Lock(r) \/ Recheck(r) \/ Reread(r)
    BY <2>1, <2>3 DEF CheckBlocked, Lock, Recheck, Reread, Goto, Return,
                HolesInv, DownloadsBegin, DownloadsWrite, TypeOK, diskVars
  <2>4. QED
    BY <1>2, <2>2, <2>3
<1>3. ASSUME NEW r \in Readers, DownloadWrite(r) PROVE HolesInv'
  BY <1>3, HolesWrite
<1>4. ASSUME NEW r \in Readers,
             DownloadDone(r) \/ DownloadFailed(r) \/ DownloadRefused(r)
      PROVE  HolesInv'
  BY <1>4 DEF DownloadDone, DownloadFailed, DownloadRefused, Goto, Return,
              HolesInv, DownloadsBegin, DownloadsWrite, PrefixWritten, TypeOK
<1>5. ASSUME NEW b \in Blocks, NEW c \in 0 .. CellsOf[b] - 1, PeerWrite(b, c)
      PROVE  HolesInv'
  BY <1>5 DEF PeerWrite, HolesInv, DownloadsBegin, DownloadsWrite, PrefixWritten, TypeOK
<1>6. CASE ReclaimBegin \/ ReclaimEnd \/ OpenTorrent
  BY <1>6 DEF ReclaimBegin, ReclaimEnd, OpenTorrent, HolesInv, DownloadsBegin, DownloadsWrite,
              PrefixWritten, diskVars
<1>7. ASSUME NEW b \in Blocks, ReclaimRemove(b) PROVE HolesInv'
  BY <1>7, HolesRemove
<1>8. CASE Crash
  BY <1>8 DEF Crash, HolesInv, DownloadsBegin, DownloadsWrite, PrefixWritten
<1>9. CASE UNCHANGED vars
  BY <1>9 DEF vars, HolesInv, DownloadsBegin, DownloadsWrite, PrefixWritten
<1>10. QED
  BY <1>1, <1>2, <1>3, <1>4, <1>5, <1>6, <1>7, <1>8, <1>9 DEF Next, Reader

\* However many readers restore the same blocks, and wherever their downloads
\* break off, a block no peer wrote and no reclaim took away under a download
\* has no hole below the end of its file.
THEOREM NoHoles == Spec => []HolesExplained
<1>1. TypeOK /\ HolesInv => HolesExplained
  BY DEF TypeOK, HolesInv, PrefixWritten, HolesExplained
<1>2. QED
  BY <1>1, TypeInit, NextType, HolesInit, HolesNext, PTL DEF Spec
-----------------------------------------------------------------------------
\* a torrent reader past Lock holds the mutex
Held ==
    \A r \in TReaders :
        pc[r] \in {"recheck", "query", "download", "reread"} => mutex = r

\* what was written is in a file
WrittenInFiles == \A b \in Blocks : b \notin files => written[b] = {}

\* some cell of the block is not written
Incomplete(b) == \E c \in 0 .. CellsOf[b] - 1 : c \notin written[b]

\* what the second look at the disk found missing is still missing
StillMissing ==
    \A r \in TReaders :
        (/\ req[r].more = 0
         /\ pc[r] = "query" \/ (pc[r] = "download" /\ pos[r] = 0))
        => Incomplete(req[r].blk)

OnceInv == Held /\ WrittenInFiles /\ StillMissing

LEMMA OnceInit == Init => OnceInv
  BY DEF Init, OnceInv, Held, WrittenInFiles, StillMissing, Readers

LEMMA HeldNext == TypeOK /\ Held /\ [Next]_vars => Held'
<1> SUFFICES ASSUME TypeOK, Held, [Next]_vars PROVE Held'
  OBVIOUS
<1> USE CacheAssumption DEF TypeOK, Held, Readers
<1>1. ASSUME NEW r \in Readers, NEW q \in Requests, ReadLocal(r, q) PROVE Held'
  BY <1>1 DEF ReadLocal, Goto, Return
<1>2. ASSUME NEW r \in Readers, CheckBlocked(r) \/ Lock(r) PROVE Held'
  BY <1>2 DEF CheckBlocked, Lock, Goto, Return
<1>3. ASSUME NEW r \in Readers, Recheck(r) \/ Query(r) \/ Reread(r) PROVE Held'
  BY <1>3 DEF Recheck, Query, Reread, Goto, Return
<1>4. ASSUME NEW r \in Readers,
             \/ DownloadWrite(r) \/ DownloadDone(r)
             \/ DownloadFailed(r) \/ DownloadRefused(r)
      PROVE  Held'
  BY <1>4 DEF DownloadWrite, DownloadDone, DownloadFailed, DownloadRefused,
              Goto, Return
<1>5. ASSUME NEW b \in Blocks, NEW c \in 0 .. CellsOf[b] - 1, PeerWrite(b, c)
      PROVE  Held'
  BY <1>5 DEF PeerWrite
<1>6. CASE ReclaimBegin \/ ReclaimEnd \/ \E b \in Blocks : ReclaimRemove(b)
  BY <1>6 DEF ReclaimBegin, ReclaimEnd, ReclaimRemove
<1>7. CASE OpenTorrent \/ Crash
  BY <1>7 DEF OpenTorrent, Crash
<1>8. CASE UNCHANGED vars
  BY <1>8 DEF vars
<1>9. QED
  BY <1>1, <1>2, <1>3, <1>4, <1>5, <1>6, <1>7, <1>8 DEF Next, Reader

LEMMA WrittenNext ==
    TypeOK /\ WrittenInFiles /\ [Next]_vars => WrittenInFiles'
<1> SUFFICES ASSUME TypeOK, WrittenInFiles, [Next]_vars PROVE WrittenInFiles'
  OBVIOUS
<1> USE DEF TypeOK, WrittenInFiles
<1>1. ASSUME NEW r \in Readers, DownloadWrite(r) PROVE WrittenInFiles'
  BY <1>1, RequestFacts DEF DownloadWrite
<1>2. ASSUME NEW r \in Readers, DownloadFailed(r) PROVE WrittenInFiles'
  BY <1>2 DEF DownloadFailed
<1>3. ASSUME NEW b \in Blocks, NEW c \in 0 .. CellsOf[b] - 1, PeerWrite(b, c)
      PROVE  WrittenInFiles'
  BY <1>3 DEF PeerWrite
<1>4. ASSUME NEW b \in Blocks, ReclaimRemove(b) PROVE WrittenInFiles'
  BY <1>4 DEF ReclaimRemove
<1>5. CASE UNCHANGED <<files, written>>
  BY <1>5
<1>6. QED
  BY <1>1, <1>2, <1>3, <1>4, <1>5
  DEF Next, Reader, ReadLocal, CheckBlocked, Lock, Recheck, Query, DownloadDone,
      DownloadRefused, Reread, ReclaimBegin, ReclaimEnd, OpenTorrent, Crash,
      vars, diskVars

\* a read within a block that fails leaves a cell of the block to restore
LEMMA FailedReadIsIncomplete ==
    ASSUME TypeOK, WrittenInFiles, NEW q \in Requests, q.more = 0,
           ~NoError(ReadAt(q))
    PROVE  Incomplete(q.blk)
<1>1. /\ q.blk \in Blocks /\ CellsOf[q.blk] \in Nat /\ CellsOf[q.blk] > 0
      /\ q.to \in Nat /\ q.to < CellsOf[q.blk]
  BY RequestFacts, CacheAssumption DEF RequestType
<1>2. ReadAt(q) = readchunk(q.blk, q.from, q.to)
  BY DEF ReadAt
<1>3. q.blk \notin files \/ \A c \in written[q.blk] : c < q.to
  BY <1>2 DEF readchunk, NoError
<1>4. CASE q.blk \notin files
  BY <1>1, <1>4 DEF WrittenInFiles, Incomplete
<1>5. CASE \A c \in written[q.blk] : c < q.to
  <2>1. q.to \notin written[q.blk]
    BY <1>1, <1>5
  <2>2. QED
    BY <1>1, <2>1 DEF Incomplete
<1>6. QED
  BY <1>3, <1>4, <1>5

LEMMA MissingNext ==
    ASSUME TypeOK, OnceInv, [Next]_vars, MReaders = {}, ~MayPeer
    PROVE  StillMissing'
<1> USE DEF TypeOK, OnceInv, StillMissing
<1>0. Readers = TReaders
  BY DEF Readers
<1>1. ASSUME NEW r \in Readers, NEW q \in Requests, ReadLocal(r, q)
      PROVE  StillMissing'
  BY <1>0, <1>1 DEF ReadLocal, Goto, Return, diskVars, Incomplete
<1>2. ASSUME NEW r \in Readers, CheckBlocked(r) \/ Lock(r) \/ Reread(r)
      PROVE  StillMissing'
  BY <1>0, <1>2 DEF CheckBlocked, Lock, Reread, Goto, Return, diskVars, Incomplete
<1>3. ASSUME NEW r \in Readers, Recheck(r) PROVE StillMissing'
  <2>1. /\ UNCHANGED <<written, req>>
        /\ \A s \in Readers \ {r} : pc'[s] = pc[s] /\ pos'[s] = pos[s]
        /\ pc'[r] \in {"query", "download"} => ~NoError(ReadAt(req[r]))
    BY <1>3 DEF Recheck, Goto, Return, diskVars
  <2>2. req[r].more = 0 /\ ~NoError(ReadAt(req[r])) => Incomplete(req[r].blk)
    BY FailedReadIsIncomplete
  <2>3. QED
    BY <1>0, <2>1, <2>2 DEF Incomplete
<1>4. ASSUME NEW r \in Readers, Query(r) PROVE StillMissing'
  BY <1>0, <1>4 DEF Query, Goto, Return, diskVars, Incomplete
<1>5. ASSUME NEW r \in Readers, DownloadWrite(r) PROVE StillMissing'
  <2>1. /\ pc[r] = "download"
        /\ pos'[r] > 0
        /\ UNCHANGED <<pc, req>>
    BY <1>5 DEF DownloadWrite
  <2>2. \A s \in TReaders \ {r} : pc[s] \notin {"query", "download"}
    BY <1>0, <2>1 DEF Held
  <2>3. QED
    BY <2>1, <2>2
<1>6. ASSUME NEW r \in Readers,
             DownloadDone(r) \/ DownloadFailed(r) \/ DownloadRefused(r)
      PROVE  StillMissing'
  BY <1>0, <1>6 DEF DownloadDone, DownloadFailed, DownloadRefused, Goto, Return,
                    Incomplete
<1>7. ASSUME NEW b \in Blocks, ReclaimRemove(b) PROVE StillMissing'
  <2>1. /\ \A x \in Blocks : written'[x] \subseteq written[x]
        /\ UNCHANGED <<pc, req, pos>>
    BY <1>7 DEF ReclaimRemove
  <2>2. \A r \in TReaders : req[r].blk \in Blocks
    BY <1>0, RequestFacts
  <2>3. QED
    BY <2>1, <2>2 DEF Incomplete
<1>8. CASE ReclaimBegin \/ ReclaimEnd \/ OpenTorrent
  BY <1>8 DEF ReclaimBegin, ReclaimEnd, OpenTorrent, diskVars, Incomplete
<1>9. CASE Crash
  BY <1>0, <1>9 DEF Crash
<1>10. CASE UNCHANGED vars
  BY <1>10 DEF vars, Incomplete
<1>11. QED
  BY <1>1, <1>2, <1>3, <1>4, <1>5, <1>6, <1>7, <1>8, <1>9, <1>10
  DEF Next, Reader, PeerWrite

\* When only the torrent client reads and no peer writes, a reader that waited
\* for the mutex while another restored the block does not download it again,
\* however many readers wait and whatever Reclaim removes meanwhile.
THEOREM RestoresOnce ==
    ASSUME MReaders = {}, ~MayPeer
    PROVE  Spec => []RestoredOnce
<1>1. TypeOK /\ OnceInv => RestoredOnce
  BY DEF TypeOK, OnceInv, StillMissing, Incomplete, RestoredOnce
<1>2. TypeOK /\ OnceInv /\ [Next]_vars => OnceInv'
  BY HeldNext, WrittenNext, MissingNext DEF OnceInv
<1>3. QED
  BY <1>1, <1>2, TypeInit, NextType, OnceInit, PTL DEF Spec
=============================================================================

--------------------------- MODULE ArchivalProofs ---------------------------
(***************************************************************************)
(* Theorems about Archival, for any files, any torrents and any way the    *)
(* files are spread over the torrents.                                     *)
(*                                                                         *)
(* ContentRecoverable is not inductive: it needs to know that the rows a   *)
(* reclaim pass still holds from its query are archived or were taken back *)
(* by a client, that an archived row is uploaded (which in turn needs that *)
(* the row about to be recorded is), that a media link leads to a torrent  *)
(* that contains the file, and that a file whose link is being replaced    *)
(* still has the blocks that were hashed.                                  *)
(***************************************************************************)
EXTENDS Archival, TLAPS

\* the row Archive is about to record has been uploaded
RecordedIsUploaded == archiver.record \subseteq cloud

\* links and imports stay within the torrent
LinkedContained ==
    /\ \A f \in Files : link[f] \in Torrents => f \in Contains[link[f]]
    /\ \A t \in Torrents : download[t] \subseteq Contains[t]
    /\ \A t \in Torrents : linking[t] \subseteq Contains[t]

\* no link leads to the torrent a sole file is about to be linked to, so no
\* reclaim reaches its blocks
LinkingHeld ==
    \A t \in Torrents : \A f \in linking[t] :
        Sole(f) => link[f] # t /\ f \in have[t]

\* the rows a reclaim pass holds are still archived, or a client intervened
ReclaimingArchived ==
    \A f \in reclaimer : row[f] = "archived" \/ f \in unarchived

IInv ==
    /\ TypeOK
    /\ ArchivedIsUploaded
    /\ RecordedIsUploaded
    /\ LinkedContained
    /\ LinkingHeld
    /\ ReclaimingArchived
    /\ ContentRecoverable

-----------------------------------------------------------------------------
LEMMA TypeInit == Init => TypeOK
  BY ArchivalAssumption DEF Init, TypeOK, PathKind, ArchiveID

LEMMA ImportType ==
    ASSUME TypeOK, NEW t \in Torrents, Import(t)
    PROVE  TypeOK'
<1> USE ArchivalAssumption DEF TypeOK, dbVars, fsVars, transferVars
<1>1. CASE Download(t)
  BY <1>1 DEF Download
<1>2. ASSUME NEW f \in Files, ImportUnlink(t, f) \/ ImportSymlink(t, f) PROVE TypeOK'
  BY <1>2 DEF ImportUnlink, ImportSymlink, PathKind
<1>3. ASSUME NEW f \in Files, ImportFailed(t, f) PROVE TypeOK'
  BY <1>3 DEF ImportFailed
<1>4. ASSUME NEW f \in Files, ImportRecord(t, f) PROVE TypeOK'
  BY <1>4 DEF ImportRecord, InsertRow, ArchiveID
<1>5. CASE OpenTorrent(t)
  BY <1>5 DEF OpenTorrent
<1>6. QED
  BY <1>1, <1>2, <1>3, <1>4, <1>5 DEF Import

LEMMA HandlersType ==
    ASSUME TypeOK, NEW f \in Files, Handlers(f)
    PROVE  TypeOK'
<1> USE ArchivalAssumption DEF TypeOK, dbVars, fsVars, transferVars
<1>1. CASE LibraryUpload(f)
  BY <1>1 DEF LibraryUpload, InsertRow, ArchiveID, PathKind
<1>2. ASSUME NEW aid \in ArchiveID, LibraryPatch(f, aid) PROVE TypeOK'
  BY <1>2 DEF LibraryPatch
<1>3. CASE LibraryDelete(f)
  BY <1>3 DEF LibraryDelete
<1>4. CASE LibraryRead(f)
  BY <1>4 DEF LibraryRead, LinkOpened, PathKind
<1>5. QED
  BY <1>1, <1>2, <1>3, <1>4 DEF Handlers

LEMMA PassType ==
    ASSUME TypeOK, ArchivePass \/ ReclaimPass
    PROVE  TypeOK'
<1> USE ArchivalAssumption DEF TypeOK, dbVars, fsVars, transferVars
<1>1. CASE ArchiveScan
  BY <1>1 DEF ArchiveScan
<1>2. ASSUME NEW f \in Files, ArchiveUpload(f) PROVE TypeOK'
  BY <1>2 DEF ArchiveUpload
<1>3. ASSUME NEW f \in Files, ArchiveFailed(f) PROVE TypeOK'
  BY <1>3 DEF ArchiveFailed, LinkOpened, PathKind
<1>4. CASE ArchiveRecord
  BY <1>4 DEF ArchiveRecord, ArchiveID
<1>5. CASE ReclaimScan \/ ReclaimStop
  BY <1>5 DEF ReclaimScan, ReclaimStop
<1>6. ASSUME NEW f \in Files, ReclaimSkip(f) PROVE TypeOK'
  BY <1>6 DEF ReclaimSkip
<1>7. ASSUME NEW f \in Files, Reclaim(f) PROVE TypeOK'
  BY <1>7 DEF Reclaim
<1>8. QED
  BY <1>1, <1>2, <1>3, <1>4, <1>5, <1>6, <1>7 DEF ArchivePass, ReclaimPass

LEMMA TypeStep == TypeOK /\ [Next]_vars => TypeOK'
<1> SUFFICES ASSUME TypeOK, [Next]_vars PROVE TypeOK'
  OBVIOUS
<1>1. ASSUME NEW t \in Torrents, TorrentDelete(t) PROVE TypeOK'
  BY <1>1 DEF TypeOK, TorrentDelete, transferVars, PathKind
<1>2. CASE Restart
  BY <1>2 DEF TypeOK, Restart, dbVars, fsVars
<1>3. CASE UNCHANGED vars
  BY <1>3 DEF TypeOK, vars
<1>4. QED
  BY <1>1, <1>2, <1>3, ImportType, HandlersType, PassType DEF Next

\* The rows, media links, torrent directories and the two passes of the
\* library are well formed in every reachable state.
THEOREM TypeCorrect == Spec => []TypeOK
  BY TypeInit, TypeStep, PTL DEF Spec

-----------------------------------------------------------------------------
LEMMA IInvInit == Init => IInv
<1> SUFFICES ASSUME Init PROVE IInv
  OBVIOUS
<1>1. TypeOK
  BY TypeInit
<1>2. ContentRecoverable /\ LinkedContained /\ LinkingHeld
  BY ArchivalAssumption
  DEF Init, ContentRecoverable, LinkedContained, LinkingHeld, PathKind
<1>3. ArchivedIsUploaded /\ RecordedIsUploaded /\ ReclaimingArchived
  BY DEF Init, ArchivedIsUploaded, RecordedIsUploaded, ReclaimingArchived
<1>4. QED
  BY <1>1, <1>2, <1>3 DEF IInv

\* DownloadInto only adds content, links it where it is, and keeps archive ids
LEMMA ImportKeeps ==
    ASSUME IInv, TypeOK', NEW t \in Torrents, Import(t)
    PROVE  IInv'
<1> USE ArchivalAssumption
    DEF IInv, TypeOK, dbVars, fsVars, transferVars, ArchivedIsUploaded,
        RecordedIsUploaded, LinkedContained, LinkingHeld, ReclaimingArchived,
        ContentRecoverable, Sole
<1>1. CASE Download(t)
  BY <1>1 DEF Download
<1>2. ASSUME NEW f \in Files, ImportUnlink(t, f) PROVE IInv'
  BY <1>2 DEF ImportUnlink, PathKind
<1>3. ASSUME NEW f \in Files, ImportSymlink(t, f) PROVE IInv'
  BY <1>3 DEF ImportSymlink
<1>4. ASSUME NEW f \in Files, ImportFailed(t, f) PROVE IInv'
  BY <1>4 DEF ImportFailed
<1>5. ASSUME NEW f \in Files, ImportRecord(t, f) PROVE IInv'
  BY <1>5 DEF ImportRecord, InsertRow
<1>6. CASE OpenTorrent(t)
  BY <1>6 DEF OpenTorrent
<1>7. QED
  BY <1>1, <1>2, <1>3, <1>4, <1>5, <1>6 DEF Import

\* handlers change links to paths that are no torrent, fetch archived content
\* back, and take an archive id away only as unarchived
LEMMA HandlersKeep ==
    ASSUME IInv, TypeOK', NEW f \in Files, Handlers(f)
    PROVE  IInv'
<1> USE ArchivalAssumption
    DEF IInv, TypeOK, dbVars, fsVars, transferVars, ArchivedIsUploaded,
        RecordedIsUploaded, LinkedContained, LinkingHeld, ReclaimingArchived,
        ContentRecoverable, Sole
<1>1. CASE LibraryUpload(f)
  BY <1>1 DEF LibraryUpload, InsertRow, PathKind
<1>2. ASSUME NEW aid \in ArchiveID, LibraryPatch(f, aid) PROVE IInv'
  BY <1>2 DEF LibraryPatch
<1>3. CASE LibraryDelete(f)
  BY <1>3 DEF LibraryDelete
<1>4. CASE LibraryRead(f)
  BY <1>4 DEF LibraryRead, LinkOpened, PathKind
<1>5. QED
  BY <1>1, <1>2, <1>3, <1>4 DEF Handlers

LEMMA ArchiveKeeps ==
    ASSUME IInv, TypeOK', ArchivePass
    PROVE  IInv'
<1> USE ArchivalAssumption
    DEF IInv, TypeOK, dbVars, fsVars, transferVars, ArchivedIsUploaded,
        RecordedIsUploaded, LinkedContained, LinkingHeld, ReclaimingArchived,
        ContentRecoverable, Sole
<1>1. CASE ArchiveScan
  BY <1>1 DEF ArchiveScan
<1>2. ASSUME NEW f \in Files, ArchiveUpload(f) PROVE IInv'
  BY <1>2 DEF ArchiveUpload
<1>3. ASSUME NEW f \in Files, ArchiveFailed(f) PROVE IInv'
  BY <1>3 DEF ArchiveFailed, LinkOpened, PathKind
<1>4. CASE ArchiveRecord
  BY <1>4 DEF ArchiveRecord
<1>5. QED
  BY <1>1, <1>2, <1>3, <1>4 DEF ArchivePass

\* The heart of the argument. Reclaiming g empties the directory its link
\* leads to. A sole file f whose link leads there too is in that torrent, and
\* so is g: the torrent being {f}, f is g, an archived row of the pass.
LEMMA ReclaimKeeps ==
    ASSUME IInv, TypeOK', ReclaimPass
    PROVE  IInv'
<1> USE ArchivalAssumption
    DEF IInv, TypeOK, dbVars, fsVars, transferVars
<1>1. CASE ReclaimScan \/ ReclaimStop
  BY <1>1 DEF ReclaimScan, ReclaimStop, ArchivedIsUploaded, RecordedIsUploaded,
       LinkedContained, LinkingHeld, ReclaimingArchived, ContentRecoverable, Sole
<1>2. ASSUME NEW f \in Files, ReclaimSkip(f) PROVE IInv'
  BY <1>2 DEF ReclaimSkip, ArchivedIsUploaded, RecordedIsUploaded,
       LinkedContained, LinkingHeld, ReclaimingArchived, ContentRecoverable, Sole
<1>3. ASSUME NEW g \in Files, Reclaim(g) PROVE IInv'
  <2>1. (ArchivedIsUploaded /\ RecordedIsUploaded /\ LinkedContained
            /\ ReclaimingArchived)'
    BY <1>3 DEF Reclaim, ArchivedIsUploaded, RecordedIsUploaded,
         LinkedContained, ReclaimingArchived
  <2>2. ASSUME NEW f \in Files, Sole(f), link[f] \in Torrents, f \notin unarchived
        PROVE  f \in have'[link[f]] \/ (row[f] = "archived" /\ f \in cloud)
    <3>1. CASE link[f] # link[g]
      BY <1>3, <2>2, <3>1 DEF Reclaim, ContentRecoverable
    <3>2. CASE link[f] = link[g]
      <4>1. f \in Contains[link[g]] /\ g \in Contains[link[g]]
        BY <1>3, <2>2, <3>2 DEF Reclaim, LinkedContained
      <4>2. f = g
        BY <1>3, <2>2, <4>1 DEF Reclaim, Sole
      <4>3. row[f] = "archived"
        BY <1>3, <2>2, <4>2 DEF Reclaim, ReclaimingArchived
      <4>4. QED
        BY <4>3 DEF ArchivedIsUploaded
    <3>3. QED
      BY <3>1, <3>2
  <2>3. ContentRecoverable'
    BY <1>3, <2>2 DEF Reclaim, ContentRecoverable, Sole
  <2>4. LinkingHeld'
    <3>1. ASSUME NEW t \in Torrents, NEW f \in linking[t], Sole(f)
          PROVE  link[f] # t /\ f \in have'[t]
      <4>1. f \in Files /\ f \in Contains[t] /\ link[f] # t /\ f \in have[t]
        BY <3>1 DEF LinkedContained, LinkingHeld
      <4>2. CASE link[g] = t
        <5>1. g \in Contains[t] /\ Contains[t] = {f}
          BY <3>1, <4>1, <4>2 DEF LinkedContained, Sole
        <5>2. QED
          BY <4>1, <4>2, <5>1
      <4>3. CASE link[g] # t
        BY <1>3, <4>1, <4>3 DEF Reclaim
      <4>4. QED
        BY <4>2, <4>3
    <3>2. QED
      BY <1>3, <3>1 DEF Reclaim, LinkingHeld, Sole
  <2>5. QED
    BY <2>1, <2>3, <2>4
<1>4. QED
  BY <1>1, <1>2, <1>3 DEF ReclaimPass

LEMMA IInvStep == IInv /\ [Next]_vars => IInv'
<1> SUFFICES ASSUME IInv, [Next]_vars PROVE IInv'
  OBVIOUS
<1>1. TypeOK'
  BY TypeStep DEF IInv
<1>2. ASSUME NEW t \in Torrents, TorrentDelete(t) PROVE IInv'
  BY <1>1, <1>2, ArchivalAssumption
  DEF IInv, TypeOK, TorrentDelete, transferVars, PathKind, ArchivedIsUploaded,
      RecordedIsUploaded, LinkedContained, LinkingHeld, ReclaimingArchived,
      ContentRecoverable, Sole
<1>3. CASE Restart
  BY <1>1, <1>3
  DEF IInv, TypeOK, Restart, dbVars, fsVars, ArchivedIsUploaded,
      RecordedIsUploaded, LinkedContained, LinkingHeld, ReclaimingArchived,
      ContentRecoverable, Sole
<1>4. CASE UNCHANGED vars
  BY <1>1, <1>4
  DEF IInv, vars, ArchivedIsUploaded, RecordedIsUploaded, LinkedContained,
      LinkingHeld, ReclaimingArchived, ContentRecoverable, Sole
<1>5. QED
  BY <1>1, <1>2, <1>3, <1>4, ImportKeeps, HandlersKeep, ArchiveKeeps,
     ReclaimKeeps DEF Next

THEOREM InductiveInvariant == Spec => []IInv
  BY IInvInit, IInvStep, PTL DEF Spec

\* Reclaiming disk space loses no content of single-file torrents, for any
\* number of torrents sharing it and any interleaving of the passes with
\* imports, handlers and restarts.
THEOREM NothingLost == Spec => []ContentRecoverable
<1>1. IInv => ContentRecoverable
  BY DEF IInv
<1>2. QED
  BY <1>1, InductiveInvariant, PTL

\* A row that names an archive names one that was uploaded.
THEOREM ArchiveBacked == Spec => []ArchivedIsUploaded
<1>1. IInv => ArchivedIsUploaded
  BY DEF IInv
<1>2. QED
  BY <1>1, InductiveInvariant, PTL

\* Disk, rows and archive agree, for any files and any torrents that share them.
THEOREM ContentSafe == Spec => []ContentKept
<1>1. ContentRecoverable /\ ArchivedIsUploaded => ContentKept
  BY DEF ContentKept
<1>2. QED
  BY <1>1, NothingLost, ArchiveBacked, PTL

\* An import, an upload, either pass or a restart never takes an archive id
\* from a row: only a client's patch does.
THEOREM ArchiveIdStays == Spec => ArchiveIdKept
<1> DEFINE Kept == \A f \in Files :
        row[f] = "archived" /\ row'[f] # "archived" => f \in unarchived'
<1>1. TypeOK /\ [Next]_vars => [Kept]_vars
  <2> SUFFICES ASSUME TypeOK, Next PROVE Kept
    OBVIOUS
  <2> USE DEF TypeOK, dbVars
  <2>1. ASSUME NEW t \in Torrents, Import(t) PROVE Kept
    BY <2>1 DEF Import, Download, ImportUnlink, ImportSymlink, ImportFailed,
                ImportRecord, InsertRow, OpenTorrent
  <2>2. ASSUME NEW t \in Torrents, TorrentDelete(t) PROVE Kept
    BY <2>2 DEF TorrentDelete
  <2>3. ASSUME NEW f \in Files, Handlers(f) PROVE Kept
    BY <2>3 DEF Handlers, LibraryUpload, InsertRow, LibraryPatch,
                LibraryDelete, LibraryRead
  <2>4. CASE ArchivePass
    BY <2>4 DEF ArchivePass, ArchiveScan, ArchiveUpload, ArchiveFailed,
                ArchiveRecord
  <2>5. CASE ReclaimPass
    BY <2>5 DEF ReclaimPass, ReclaimScan, ReclaimSkip, Reclaim, ReclaimStop
  <2>6. CASE Restart
    BY <2>6 DEF Restart
  <2>7. QED
    BY <2>1, <2>2, <2>3, <2>4, <2>5, <2>6 DEF Next
<1>2. QED
  BY <1>1, TypeCorrect, PTL DEF Spec, ArchiveIdKept
=============================================================================

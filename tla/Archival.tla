------------------------------ MODULE Archival ------------------------------
(***************************************************************************)
(* Where the content of the library is: the rows of library_metadata, the  *)
(* links of the media directory, the torrent directories they point to and *)
(* the archive service, under the archive pass (NewAutoArchive, Archive),  *)
(* the reclaim pass (NewDiskReclaim, Reclaim), finished downloads          *)
(* (tracking.DownloadInto, ImportSymlink), the handlers of                 *)
(* media/http.library.go and tracking.Delete.                              *)
(*                                                                         *)
(* A file stands for its content: a library row's id is the digest of the  *)
(* content, so the same content in two torrents is one row and one link.   *)
(* The blocks of a file in a torrent directory are all there or not there. *)
(***************************************************************************)
EXTENDS Naturals, FiniteSets

CONSTANTS
    Files,          \* contents, i.e. ids of library rows
    Torrents,       \* torrents, i.e. directories under torrent/
    Contains,       \* Contains[t]: the files of torrent t
    Archivable      \* the torrents whose metadata says archivable

\* what a media path can be besides a symlink to a torrent directory
PathKind == {"none", "file", "dir", "blocks"}

ASSUME ArchivalAssumption ==
    /\ Contains \in [Torrents -> SUBSET Files]
    /\ Archivable \subseteq Torrents
    /\ Torrents \cap PathKind = {}

VARIABLES
    row,        \* row[f]: no row, or its archive_id: Nil, Max or an archive's
    owner,      \* owner[f]: the row's torrent_id
    tombstoned, \* the files whose row has a tombstoned_at
    link,       \* link[f]: what media/<id> is
    dirs,       \* the torrents whose directory exists
    have,       \* have[t]: the files with all their blocks in t's directory
    cloud,      \* the files the archive service holds
    unarchived, \* the files a client took the archive id of
    download,   \* download[t]: the files DownloadInto has yet to import
    linking,    \* linking[t]: the file whose link is being replaced
    imported,   \* imported[t]: the files imported but not recorded
    archiver,   \* the archive pass: rows left, and the row being recorded
    reclaimer   \* the reclaim pass: rows left

vars == <<row, owner, tombstoned, link, dirs, have, cloud, unarchived,
          download, linking, imported, archiver, reclaimer>>

fsVars == <<link, dirs, have>>
dbVars == <<row, owner, tombstoned>>
transferVars == <<download, linking, imported>>

-----------------------------------------------------------------------------
ArchiveID == {"nil", "max", "archived"}

TypeOK ==
    /\ row \in [Files -> ArchiveID \cup {"none"}]
    /\ owner \in [Files -> Torrents \cup {"none"}]
    /\ tombstoned \subseteq Files
    /\ link \in [Files -> Torrents \cup PathKind]
    /\ dirs \subseteq Torrents
    /\ have \in [Torrents -> SUBSET Files]
    /\ cloud \subseteq Files
    /\ unarchived \subseteq Files
    /\ download \in [Torrents -> SUBSET Files]
    /\ linking \in [Torrents -> SUBSET Files]
    /\ imported \in [Torrents -> SUBSET Files]
    /\ archiver \in [todo : SUBSET Files, record : SUBSET Files]
    /\ reclaimer \subseteq Files

\* a new installation
Init ==
    /\ row = [f \in Files |-> "none"]
    /\ owner = [f \in Files |-> "none"]
    /\ tombstoned = {}
    /\ link = [f \in Files |-> "none"]
    /\ dirs = {}
    /\ have = [t \in Torrents |-> {}]
    /\ cloud = {}
    /\ unarchived = {}
    /\ download = [t \in Torrents |-> {}]
    /\ linking = [t \in Torrents |-> {}]
    /\ imported = [t \in Torrents |-> {}]
    /\ archiver = [todo |-> {}, record |-> {}]
    /\ reclaimer = {}

-----------------------------------------------------------------------------
(* The files of the media directory *)

\* fsx.Exists follows the link: a link to a removed directory does not exist
Exists(f) == link[f] \in {"file", "dir", "blocks"} \cup dirs

\* NewDirectoryCache(path): MkdirAll makes a missing directory, accepts an
\* existing one, and fails on a file and on a link to a removed directory
CacheOpens(f) == link[f] \in {"none", "dir", "blocks"} \cup dirs
LinkOpened(f) == [link EXCEPT ![f] = IF @ = "none" THEN "dir" ELSE @]

\* every block of f can be read through media/<id>
Readable(f) ==
    \/ link[f] = "blocks"
    \/ link[f] \in dirs /\ f \in have[link[f]]

-----------------------------------------------------------------------------
(* Rows *)

\* Mutant of InsertRow: on conflict the archive id is overwritten too.
InsertRowOverwrites(f, t, aid) ==
    /\ row' = [row EXCEPT ![f] = aid]
    /\ owner' = [owner EXCEPT ![f] = IF row[f] = "none" THEN t ELSE @]
    /\ UNCHANGED tombstoned

\* MetadataInsertWithDefaults: on conflict an archive's id is kept, and
\* neither torrent_id nor tombstoned_at is touched
InsertRow(f, t, aid) ==
    /\ row' = [row EXCEPT ![f] = IF @ = "archived" THEN @ ELSE aid]
    /\ owner' = [owner EXCEPT ![f] = IF row[f] = "none" THEN t ELSE @]
    /\ UNCHANGED tombstoned

-----------------------------------------------------------------------------
(* DownloadInto *)

\* the torrent is complete and its files are about to be imported
Download(t) ==
    /\ download[t] = {}
    /\ linking[t] = {}
    /\ imported[t] = {}
    /\ dirs' = dirs \cup {t}
    /\ have' = [have EXCEPT ![t] = Contains[t]]
    /\ download' = [download EXCEPT ![t] = Contains[t]]
    /\ UNCHANGED <<dbVars, link, cloud, unarchived, linking, imported, archiver,
                   reclaimer>>

\* ImportSymlink: hash the content, lock, remove what is at media/<id>
\* (os.Remove refuses a directory with blocks in it)
ImportUnlink(t, f) ==
    /\ f \in download[t]
    /\ linking[t] = {}
    /\ f \in have[t]
    /\ link[f] # "blocks"
    /\ link' = [link EXCEPT ![f] = "none"]
    /\ download' = [download EXCEPT ![t] = @ \ {f}]
    /\ linking' = [linking EXCEPT ![t] = {f}]
    /\ UNCHANGED <<dbVars, dirs, have, cloud, unarchived, imported, archiver,
                   reclaimer>>

\* os.Symlink to the torrent, which fails if the path was taken meanwhile. The
\* mutex is one DownloadInto's own: another import, a pass or a GET may come
\* in between. The result is sent to DownloadInto, unless that has returned.
ImportSymlink(t, f) ==
    /\ f \in linking[t]
    /\ linking' = [linking EXCEPT ![t] = {}]
    /\ \/ /\ link[f] = "none"
          /\ link' = [link EXCEPT ![f] = t]
          /\ \/ imported' = [imported EXCEPT ![t] = @ \cup {f}]
             \/ UNCHANGED imported
       \/ link[f] # "none" /\ UNCHANGED <<link, imported>>
    /\ UNCHANGED <<dbVars, dirs, have, cloud, unarchived, download, archiver,
                   reclaimer>>

\* a file that cannot be read or unlinked is reported and skipped
ImportFailed(t, f) ==
    /\ f \in download[t]
    /\ download' = [download EXCEPT ![t] = @ \ {f}]
    /\ UNCHANGED <<dbVars, fsVars, cloud, unarchived, linking, imported, archiver,
                   reclaimer>>

\* the imported file's row is inserted, or that fails and DownloadInto returns
ImportRecord(t, f) ==
    /\ f \in imported[t]
    /\ \/ /\ InsertRow(f, t, IF t \in Archivable THEN "max" ELSE "nil")
          /\ imported' = [imported EXCEPT ![t] = @ \ {f}]
          /\ UNCHANGED download
       \/ /\ imported' = [imported EXCEPT ![t] = {}]
          /\ download' = [download EXCEPT ![t] = {}]
          /\ UNCHANGED dbVars
    /\ UNCHANGED <<fsVars, cloud, unarchived, linking, archiver, reclaimer>>

\* starting a torrent opens its storage, which makes its directory
OpenTorrent(t) ==
    /\ t \notin dirs
    /\ dirs' = dirs \cup {t}
    /\ UNCHANGED <<dbVars, link, have, cloud, unarchived, transferVars,
                   archiver, reclaimer>>

-----------------------------------------------------------------------------
(* media/http.library.go and tracking.Delete *)

\* upload: the row is inserted, then the temporary file renamed over
\* media/<id>; a directory there makes the rename fail and the row stays
LibraryUpload(f) ==
    /\ InsertRow(f, "none", "nil")
    /\ link' = [link EXCEPT ![f] = IF @ \in {"dir", "blocks"} THEN @ ELSE "file"]
    /\ UNCHANGED <<dirs, have, cloud, unarchived, transferVars, archiver, reclaimer>>

\* patch: archive_id is whatever the client sends: Nil, Max or an archive id
\* it was shown before
LibraryPatch(f, aid) ==
    /\ row[f] # "none"
    /\ aid = "archived" => f \in cloud
    /\ row' = [row EXCEPT ![f] = aid]
    /\ unarchived' = IF row[f] = "archived" /\ aid # "archived"
                     THEN unarchived \cup {f} ELSE unarchived
    /\ UNCHANGED <<owner, tombstoned, fsVars, cloud, transferVars, archiver, reclaimer>>

LibraryDelete(f) ==
    /\ row[f] # "none"
    /\ tombstoned' = tombstoned \cup {f}
    /\ UNCHANGED <<row, owner, fsVars, cloud, unarchived, transferVars,
                   archiver, reclaimer>>

\* GET: vstoragefs.Open makes the cache, and missing blocks are fetched from
\* the archive into it (DeeppoolReaderAtCache.ReadAt)
LibraryRead(f) ==
    /\ row[f] # "none"
    /\ CacheOpens(f)
    /\ LET opened == LinkOpened(f)
           fetch == ~Readable(f) /\ row[f] = "archived" /\ f \in cloud
       IN \/ link' = opened /\ UNCHANGED have
          \/ /\ fetch /\ opened[f] = "dir"
             /\ link' = [link EXCEPT ![f] = "blocks"]
             /\ UNCHANGED have
          \/ /\ fetch /\ opened[f] \in Torrents
             /\ have' = [have EXCEPT ![opened[f]] = @ \cup {f}]
             /\ UNCHANGED link
    /\ UNCHANGED <<dbVars, dirs, cloud, unarchived, transferVars, archiver, reclaimer>>

\* tracking.Delete: tombstones the rows and the torrent and removes the media
\* paths, up to the first that cannot be removed. The names Glob returns are
\* relative to the torrent directory, so the RemoveAll that follows does not
\* reach the torrent's content.
TorrentDelete(t) ==
    LET owned == {f \in Files : row[f] # "none" /\ owner[f] = t} IN
    /\ tombstoned' = tombstoned \cup owned
    /\ \E removed \in SUBSET owned :
        link' = [f \in Files |-> IF f \in removed THEN "none" ELSE link[f]]
    /\ UNCHANGED <<row, owner, dirs, have, cloud, unarchived, transferVars,
                   archiver, reclaimer>>

-----------------------------------------------------------------------------
(* NewAutoArchive's archive() and Archive *)

\* Mutant of ArchiveScan: the query compares with the wrong sentinel.
ArchiveScanNil ==
    /\ archiver = [todo |-> {}, record |-> {}]
    /\ archiver' = [archiver EXCEPT !.todo = {f \in Files : row[f] = "nil"}]
    /\ UNCHANGED <<dbVars, fsVars, cloud, unarchived, transferVars, reclaimer>>

ArchiveScan ==
    /\ archiver = [todo |-> {}, record |-> {}]
    /\ archiver' = [archiver EXCEPT !.todo = {f \in Files : row[f] = "max"}]
    /\ UNCHANGED <<dbVars, fsVars, cloud, unarchived, transferVars, reclaimer>>

\* the content is encrypted and uploaded
ArchiveUpload(f) ==
    /\ archiver.record = {}
    /\ f \in archiver.todo
    /\ Readable(f)
    /\ cloud' = cloud \cup {f}
    /\ archiver' = [todo |-> archiver.todo \ {f}, record |-> {f}]
    /\ UNCHANGED <<dbVars, fsVars, unarchived, transferVars, reclaimer>>

\* the content cannot be read, or the upload fails: logged, next row
ArchiveFailed(f) ==
    /\ archiver.record = {}
    /\ f \in archiver.todo
    /\ link' = IF CacheOpens(f) THEN LinkOpened(f) ELSE link
    /\ archiver' = [archiver EXCEPT !.todo = @ \ {f}]
    /\ UNCHANGED <<dbVars, dirs, have, cloud, unarchived, transferVars, reclaimer>>

\* MetadataArchivedByID, by id whatever the row has become meanwhile; or the
\* update fails and the upload is forgotten
ArchiveRecord ==
    /\ archiver.record # {}
    /\ archiver' = [archiver EXCEPT !.record = {}]
    /\ \/ row' = [f \in Files |-> IF f \in archiver.record THEN "archived" ELSE row[f]]
       \/ UNCHANGED row
    /\ UNCHANGED <<owner, tombstoned, fsVars, cloud, unarchived, transferVars, reclaimer>>

-----------------------------------------------------------------------------
(* NewDiskReclaim's reclaim() and Reclaim *)

\* Mutant of ReclaimScan: only the Nil id is excluded.
ReclaimScanArchivable ==
    /\ reclaimer = {}
    /\ reclaimer' = {f \in Files : row[f] \notin {"none", "nil"}}
    /\ UNCHANGED <<dbVars, fsVars, cloud, unarchived, transferVars, archiver>>

ReclaimScan ==
    /\ reclaimer = {}
    /\ reclaimer' = {f \in Files : row[f] = "archived"}
    /\ UNCHANGED <<dbVars, fsVars, cloud, unarchived, transferVars, archiver>>

\* skipped: the path does not exist, the disk usage is unknown, or the path
\* is no link
ReclaimSkip(f) ==
    /\ f \in reclaimer
    /\ reclaimer' = reclaimer \ {f}
    /\ UNCHANGED <<dbVars, fsVars, cloud, unarchived, transferVars, archiver>>

\* at most 80% of the disk is used: the pass is over
ReclaimStop ==
    /\ reclaimer # {}
    /\ reclaimer' = {}
    /\ UNCHANGED <<dbVars, fsVars, cloud, unarchived, transferVars, archiver>>

\* os.RemoveAll of the link's target, the directory of the whole torrent
Reclaim(f) ==
    /\ f \in reclaimer
    /\ Exists(f) /\ link[f] \in Torrents
    /\ reclaimer' = reclaimer \ {f}
    /\ dirs' = dirs \ {link[f]}
    /\ have' = [have EXCEPT ![link[f]] = {}]
    /\ UNCHANGED <<dbVars, link, cloud, unarchived, transferVars, archiver>>

-----------------------------------------------------------------------------
\* the process ends and is started again: passes and imports under way are lost
Restart ==
    /\ download' = [t \in Torrents |-> {}]
    /\ linking' = [t \in Torrents |-> {}]
    /\ imported' = [t \in Torrents |-> {}]
    /\ archiver' = [todo |-> {}, record |-> {}]
    /\ reclaimer' = {}
    /\ UNCHANGED <<dbVars, fsVars, cloud, unarchived>>

Import(t) ==
    \/ Download(t)
    \/ \E f \in Files : \/ ImportUnlink(t, f) \/ ImportSymlink(t, f)
                        \/ ImportFailed(t, f) \/ ImportRecord(t, f)
    \/ OpenTorrent(t)

Handlers(f) ==
    \/ LibraryUpload(f)
    \/ \E aid \in ArchiveID : LibraryPatch(f, aid)
    \/ LibraryDelete(f)
    \/ LibraryRead(f)

ArchivePass ==
    \/ ArchiveScan
    \/ \E f \in Files : ArchiveUpload(f) \/ ArchiveFailed(f)
    \/ ArchiveRecord

ReclaimPass ==
    \/ ReclaimScan
    \/ \E f \in Files : ReclaimSkip(f) \/ Reclaim(f)
    \/ ReclaimStop

Next ==
    \/ \E t \in Torrents : Import(t) \/ TorrentDelete(t)
    \/ \E f \in Files : Handlers(f)
    \/ ArchivePass
    \/ ReclaimPass
    \/ Restart

Spec == Init /\ [][Next]_vars

\* The passes are retried every hour (PeriodicWakeup), also across restarts,
\* and the archive service is assumed not to refuse an upload for ever.
Fairness ==
    /\ SF_vars(ArchiveScan)
    /\ \A f \in Files : SF_vars(ArchiveUpload(f))
    /\ SF_vars(ArchiveRecord /\ row' # row)

FairSpec == Spec /\ Fairness

-----------------------------------------------------------------------------
\* the torrents of f hold nothing else
Sole(f) == \A t \in Torrents : f \in Contains[t] => Contains[t] = {f}

\* No content is lost by reclaiming: where a file is the only one of its
\* torrents, its media link leads to its blocks or the archive has it and the
\* row says so, whatever passes, imports, handlers and restarts interleave.
\* Excepted are the files whose archive id a client overwrote.
ContentRecoverable ==
    \A f \in Files :
        (Sole(f) /\ link[f] \in Torrents /\ f \notin unarchived)
        => f \in have[link[f]] \/ (row[f] = "archived" /\ f \in cloud)

\* A row names an archive only if the archive service holds the content:
\* Archive records the id after the upload, never before or instead.
ArchivedIsUploaded == \A f \in Files : row[f] = "archived" => f \in cloud

\* Disk, rows and archive agree: no content is lost by reclaiming it, and the
\* rows that say so are right about what the archive holds.
ContentKept == ContentRecoverable /\ ArchivedIsUploaded

\* Only a client's patch takes a row's archive id away: re-importing a torrent
\* or uploading the same content again does not (MetadataInsertWithDefaults).
ArchiveIdKept ==
    [][\A f \in Files :
        row[f] = "archived" /\ row'[f] # "archived" => f \in unarchived']_vars

\* A readable archivable row is archived in the end, unless its archivable
\* mark or its content goes away first: a failed upload or a restart between
\* upload and record is retried by a later pass.
EventuallyArchived ==
    \A f \in Files :
        (row[f] = "max" /\ Readable(f)) ~> (row[f] # "max" \/ ~Readable(f))

\* "Clears archived data from disk." (NewDiskReclaim): what a reclaim removes
\* is archived. Does not hold: Reclaim removes the directory of the whole
\* torrent, with the files of it that are not archived.
ReclaimOnlyArchived ==
    [][\A t \in Torrents : \A f \in have[t] \ have'[t] : row[f] = "archived"]_vars
=============================================================================

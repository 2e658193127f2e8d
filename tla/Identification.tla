--------------------------- MODULE Identification ---------------------------
(***************************************************************************)
(* How content gets its title.  MediaMetadataImport, every ten minutes,    *)
(* reads the titles of finished media archives into the table of known     *)
(* media; IdentifyTorrentyMedia, every fifteen, looks up a title for every *)
(* torrent that has none and hands it on to the library; a user assigns    *)
(* one by hand; a download puts its torrent's title on the row it adds to  *)
(* the library.                                                            *)
(*                                                                         *)
(* known_media_id is a title, or one of two ids that are none: Max, which  *)
(* the passes look for, and Nil, which they do not.                        *)
(***************************************************************************)
EXTENDS Naturals, Sequences, FiniteSets

CONSTANTS
  Content,      \* torrents, each with one file
  Titles,       \* known media
  Fits,         \* the titles close enough to each torrent's description
  Archives,     \* torrents that are media archives
  RecordsOf,    \* an archive's files, each the records that can be decoded
  MaxAssigned,  \* bound on what users assign
  MaxStops      \* bound on crashes and failing statements

ASSUME IdentificationAssumption ==
  /\ Fits \in [Content -> SUBSET Titles]
  /\ RecordsOf \in [Archives -> Seq(Seq(Titles))]

VARIABLES
  catalogue,  \* library_known_media
  known,      \* torrents_metadata.known_media_id, NoRow before there is one
  recent,     \* the torrents whose updated_at is not before the pass's ts
  shelf,      \* library_metadata.known_media_id of each torrent's file
  identify,   \* IdentifyTorrentyMedia: where it is and the rows it has to do
  pending,    \* metadatasync: the torrents between its two statements
  job,        \* a download's copy of the torrent's title, NoRow without one
  import,     \* MediaMetadataImport: where it is, and the outcome its pool kept
  work,       \* what the pools of the pass, and abandoned ones, have to do
  importedAt, \* the archives marked as imported
  assigned,   \* how often users assigned
  stops,      \* faults so far
  byUser,     \* history: the titles users put on each library row
  lost        \* history: records handed over that a fault lost

identvars == <<catalogue, known, recent, shelf, identify, pending, job, import,
               work, importedAt, assigned, stops, byUser, lost>>
rowvars == <<known, recent, shelf, identify, pending, job, assigned, byUser>>
archivevars == <<import, work, importedAt, lost>>

NoId == "none"
Max0 == "max"     \* uuid.Max: not identified yet
Nil0 == "nil"     \* uuid.Nil: identified as nothing

ASSUME IdsAssumption == {NoId, Max0, Nil0} \cap Titles = {}

Idle0 == [at |-> "idle", todo |-> {}]
NotImporting == [at |-> "idle", first |-> "none"]
NoWork == [todo |-> {}, handed |-> {}, records |-> {}]
Pools == {"pass", "abandoned"}

IdentInit ==
  /\ catalogue = {}
  /\ known = [t \in Content |-> NoId] /\ recent = {}
  /\ shelf = [t \in Content |-> NoId]
  /\ identify = Idle0 /\ pending = {}
  /\ job = [t \in Content |-> NoId]
  /\ import = NotImporting /\ work = [p \in Pools |-> NoWork] /\ importedAt = {}
  /\ assigned = 0 /\ stops = 0
  /\ byUser = [t \in Content |-> {}] /\ lost = {}

-----------------------------------------------------------------------------
(* Torrents and downloads *)

\* DetectKnownMedia: the best match of the catalogue, Unknown when none is
DetectKnownMedia(t) ==
  IF Fits[t] \cap catalogue = {} THEN {Nil0} ELSE Fits[t] \cap catalogue

SetKnown(t, k) ==
  /\ known' = [known EXCEPT ![t] = k]
  /\ recent' = recent \cup {t}

\* a feed's torrent is looked up when it is added, any other one is not
Add(t) ==
  /\ known[t] = NoId
  /\ \E k \in DetectKnownMedia(t) \cup {Max0} : SetKnown(t, k)
  /\ UNCHANGED <<catalogue, shelf, identify, pending, job, archivevars,
                 assigned, stops, byUser>>

\* a download starts with a copy of the row, and every progress renews it
Progress(t) ==
  /\ known[t] # NoId
  /\ job' = [job EXCEPT ![t] = known[t]]
  /\ recent' = recent \cup {t}
  /\ UNCHANGED <<catalogue, known, shelf, identify, pending, archivevars,
                 assigned, stops, byUser>>

\* the end of DownloadInto: a row that exists keeps its title
DownloadInto(t) ==
  /\ job[t] # NoId
  /\ shelf' = [shelf EXCEPT ![t] = IF @ = NoId THEN job[t] ELSE @]
  /\ job' = [job EXCEPT ![t] = NoId]
  /\ recent' = recent \cup {t}
  /\ UNCHANGED <<catalogue, known, identify, pending, archivevars, assigned,
                 stops, byUser>>

-----------------------------------------------------------------------------
(* IdentifyTorrentyMedia *)

\* the rows of the query are those of its start
IdentifyQuery ==
  /\ identify.at = "idle"
  /\ identify' = [at |-> "query", todo |-> {t \in Content : known[t] = Max0}]
  /\ UNCHANGED <<catalogue, known, recent, shelf, pending, job, archivevars,
                 assigned, stops, byUser>>

\* ts is taken after the query
IdentifyTimestamp ==
  /\ identify.at = "query"
  /\ identify' = [identify EXCEPT !.at = "rows"]
  /\ recent' = {}
  /\ UNCHANGED <<catalogue, known, shelf, pending, job, archivevars, assigned,
                 stops, byUser>>

\* one row: what is found is assigned whatever the row has become since; a
\* statement that fails is as if nothing were found
IdentifyRow(t) ==
  /\ identify.at = "rows" /\ t \in identify.todo
  /\ identify' = [identify EXCEPT !.todo = @ \ {t}]
  /\ \E k \in DetectKnownMedia(t) \cup {Nil0} :
      IF k = Nil0 THEN UNCHANGED <<known, recent>> ELSE SetKnown(t, k)
  /\ UNCHANGED <<catalogue, shelf, pending, job, archivevars, assigned, stops, byUser>>

\* Mutant of TransferKnownMediaID: rows of any torrent follow.
TransferAll(t) ==
  IF shelf[t] # NoId /\ t \in recent /\ known[t] \notin {Max0, Nil0}
  THEN known[t] ELSE shelf[t]

\* MetadataTransferKnownMediaIDFromTorrent: one row of the library
TransferKnownMediaID(t) ==
  IF shelf[t] = Max0 /\ t \in recent /\ known[t] \notin {Max0, Nil0}
  THEN known[t] ELSE shelf[t]

\* one statement for all rows, which may fail
IdentifyTransfer ==
  /\ identify.at = "rows" /\ identify.todo = {}
  /\ shelf' \in {shelf, [t \in Content |-> TransferKnownMediaID(t)]}
  /\ identify' = Idle0
  /\ UNCHANGED <<catalogue, known, recent, pending, job, archivevars, assigned,
                 stops, byUser>>

\* the rows end in an error: nothing is handed on
IdentifyFails ==
  /\ identify.at = "rows" /\ stops < MaxStops /\ stops' = stops + 1
  /\ identify' = Idle0
  /\ UNCHANGED <<catalogue, known, recent, shelf, pending, job, archivevars,
                 assigned, byUser>>

\* cmdKnownMedia, which has the database for itself: it assigns Nil as well
CommandKnownMedia ==
  /\ identify.at = "idle" /\ import.at = "idle" /\ pending = {}
  /\ \A t \in Content : job[t] = NoId
  /\ \E found \in [Content -> Titles \cup {Nil0, NoId}] :
      /\ \A t \in Content : found[t] \in
            IF known[t] = Max0 THEN DetectKnownMedia(t) ELSE {NoId}
      /\ known' = [t \in Content |-> IF found[t] = NoId THEN known[t] ELSE found[t]]
      /\ shelf' = [t \in Content |->
            IF shelf[t] = Max0 /\ found[t] \notin {NoId, Nil0} THEN found[t] ELSE shelf[t]]
  /\ UNCHANGED <<catalogue, recent, identify, pending, job, archivevars,
                 assigned, stops, byUser>>

-----------------------------------------------------------------------------
(* Users *)

\* metadatasync: the torrent's row first
AssignKnownMediaID(t, k) ==
  /\ known[t] # NoId /\ t \notin pending /\ assigned < MaxAssigned
  /\ assigned' = assigned + 1
  /\ SetKnown(t, k)
  /\ pending' = pending \cup {t}
  /\ UNCHANGED <<catalogue, shelf, identify, job, archivevars, stops, byUser>>

\* then every row of the library that belongs to it, if the statement succeeds
SyncKnownMediaID(t) ==
  /\ t \in pending /\ pending' = pending \ {t}
  /\ shelf' \in {shelf, [shelf EXCEPT ![t] = IF @ = NoId THEN @ ELSE known[t]]}
  /\ UNCHANGED <<catalogue, known, recent, identify, job, archivevars, assigned,
                 stops, byUser>>

\* HTTPLibrary.patch
Patch(t, k) ==
  /\ shelf[t] # NoId /\ assigned < MaxAssigned
  /\ assigned' = assigned + 1
  /\ shelf' = [shelf EXCEPT ![t] = k]
  /\ byUser' = [byUser EXCEPT ![t] = @ \cup {k}]
  /\ UNCHANGED <<catalogue, known, recent, identify, pending, job, archivevars,
                 stops>>

-----------------------------------------------------------------------------
(* MediaMetadataImport: a pool reads archives, a second one inserts records *)

ImportQuery ==
  /\ import.at = "idle"
  /\ import' = [at |-> "archives", first |-> "none"]
  /\ work' = [work EXCEPT !["pass"].todo = Archives \ importedAt]
  /\ UNCHANGED <<catalogue, rowvars, importedAt, stops, lost>>

\* of every file importtarfile hands over the first record, and returns
FirstRecords(files) ==
  {Head(files[i]) : i \in {j \in DOMAIN files : files[j] # <<>>}}

\* the pool keeps the outcome of the archive that ends first
Outcome(p, o) ==
  import' = IF p = "pass" /\ import.first = "none" THEN [import EXCEPT !.first = o]
            ELSE import

\* one archive: its records are handed to the inserting pool
ImportArchive(p, a) ==
  /\ a \in work[p].todo
  /\ work' = [work EXCEPT ![p].todo = @ \ {a}, ![p].handed = @ \cup {a},
                          ![p].records = @ \cup FirstRecords(RecordsOf[a])]
  /\ UNCHANGED <<catalogue, rowvars, import, importedAt, stops, lost>>

\* UnpackSeq takes an archive it cannot read on for one that ends
ImportArchiveCut(p, a, n) ==
  LET files == RecordsOf[a] IN
  /\ a \in work[p].todo /\ n < Len(files)
  /\ stops < MaxStops /\ stops' = stops + 1
  /\ work' = [work EXCEPT ![p].todo = @ \ {a}, ![p].handed = @ \cup {a},
                          ![p].records = @ \cup FirstRecords(SubSeq(files, 1, n))]
  /\ lost' = lost \cup FirstRecords(SubSeq(files, n + 1, Len(files)))
  /\ UNCHANGED <<catalogue, rowvars, import, importedAt>>

\* then it is marked, whether or not they are inserted yet
MetadataImportedByID(p, a) ==
  /\ a \in work[p].handed
  /\ importedAt' = importedAt \cup {a}
  /\ work' = [work EXCEPT ![p].handed = @ \ {a}]
  /\ Outcome(p, "ok")
  /\ UNCHANGED <<catalogue, rowvars, stops, lost>>

\* an archive that cannot be read or marked is left for the next pass
ImportArchiveFails(p, a) ==
  /\ a \in work[p].todo \cup work[p].handed
  /\ stops < MaxStops /\ stops' = stops + 1
  /\ work' = [work EXCEPT ![p].todo = @ \ {a}, ![p].handed = @ \ {a}]
  /\ Outcome(p, "error")
  /\ UNCHANGED <<catalogue, rowvars, importedAt, lost>>

\* the worker of the inserting pool; a title that is there is updated
KnownInsert(p, x) ==
  /\ x \in work[p].records
  /\ work' = [work EXCEPT ![p].records = @ \ {x}]
  /\ catalogue' = catalogue \cup {x}
  /\ UNCHANGED <<rowvars, import, importedAt, stops, lost>>

KnownInsertFails(p, x) ==
  /\ x \in work[p].records
  /\ work' = [work EXCEPT ![p].records = @ \ {x}]
  /\ stops < MaxStops /\ stops' = stops + 1
  /\ lost' = lost \cup {x}
  /\ UNCHANGED <<catalogue, rowvars, import, importedAt>>

PoolDone == import.at = "archives" /\ work["pass"].todo \cup work["pass"].handed = {}

\* Mutant of ImportShutdown: the inserting pool is not waited for.
ImportShutdownAtOnce ==
  /\ PoolDone /\ import.first # "error"
  /\ import' = NotImporting /\ work' = [work EXCEPT !["pass"] = NoWork]
  /\ UNCHANGED <<catalogue, rowvars, importedAt, stops, lost>>

\* both pools are shut down, the inserting one last: its queue is empty
ImportShutdown ==
  /\ PoolDone /\ import.first # "error" /\ work["pass"].records = {}
  /\ import' = NotImporting
  /\ UNCHANGED <<catalogue, rowvars, work, importedAt, stops, lost>>

\* The pass returns early and nobody waits for the pools, which go on: after a
\* first archive that failed, or when the rows end in an error before all of
\* them were enqueued.
ImportAbandoned(enqueued) ==
  /\ import.at = "archives" /\ enqueued \subseteq work["pass"].todo
  /\ \/ PoolDone /\ import.first = "error" /\ UNCHANGED stops
     \/ stops < MaxStops /\ stops' = stops + 1
  /\ import' = NotImporting
  /\ work' = [p \in Pools |->
        IF p = "pass" THEN NoWork
        ELSE [todo |-> work[p].todo \cup enqueued,
              handed |-> work[p].handed \cup work["pass"].handed,
              records |-> work[p].records \cup work["pass"].records]]
  /\ UNCHANGED <<catalogue, rowvars, importedAt, lost>>

-----------------------------------------------------------------------------
\* the daemon stops and starts again: rows stay, what is under way does not
StopAndStart ==
  /\ stops < MaxStops /\ stops' = stops + 1
  /\ identify' = Idle0 /\ import' = NotImporting /\ pending' = {}
  /\ job' = [t \in Content |-> NoId]
  /\ lost' = lost \cup UNION {work[p].records : p \in Pools}
  /\ work' = [p \in Pools |-> NoWork]
  /\ UNCHANGED <<catalogue, known, recent, shelf, importedAt, assigned, byUser>>

IdentNext ==
  \/ \E t \in Content :
      \/ Add(t) \/ Progress(t) \/ DownloadInto(t)
      \/ IdentifyRow(t) \/ SyncKnownMediaID(t)
      \/ \E k \in Titles \cup {Nil0} : AssignKnownMediaID(t, k) \/ Patch(t, k)
  \/ IdentifyQuery \/ IdentifyTimestamp \/ IdentifyTransfer \/ IdentifyFails
  \/ CommandKnownMedia
  \/ ImportQuery \/ ImportShutdown
  \/ \E enqueued \in SUBSET Archives : ImportAbandoned(enqueued)
  \/ \E p \in Pools :
      \/ \E a \in Archives :
          \/ ImportArchive(p, a) \/ MetadataImportedByID(p, a) \/ ImportArchiveFails(p, a)
          \/ \E n \in 0..Len(RecordsOf[a]) : ImportArchiveCut(p, a, n)
      \/ \E x \in Titles : KnownInsert(p, x) \/ KnownInsertFails(p, x)
  \/ StopAndStart

IdentSpec == IdentInit /\ [][IdentNext]_identvars

-----------------------------------------------------------------------------
\* A title a user put on a library row by hand stays, unless a user assigns
\* another one to the row or to its torrent: no pass, download or restart
\* takes it away (library/genieql.gen.go, the three statements that set it).
PatchedTitleStays ==
  [][\A t \in Content :
        (shelf[t] \in byUser[t] /\ shelf'[t] # shelf[t]) =>
            assigned' # assigned \/ t \in pending]_identvars

\* An archive that was marked as imported is one whose records are known media
\* once no pass runs, but for those a fault took and those an abandoned pool
\* still has: the mark, which is set before the records are inserted, never
\* comes too early for a pass that ends well
\* (torrent.media.metadata.import.go).
MarkedIsImported ==
  import.at = "idle" =>
    \A a \in importedAt :
        FirstRecords(RecordsOf[a]) \subseteq catalogue \cup lost \cup work["abandoned"].records
=============================================================================

------------------------------ MODULE Torrents ------------------------------
(***************************************************************************)
(* The life of a torrent: its row of torrents_metadata, the torrents the   *)
(* client runs, and the Download goroutines that follow them into the      *)
(* library, under the handlers of media/http.discovered.go, the watched    *)
(* directory, the feeds' automatic downloads, ResumeDownloads and          *)
(* VerifyTorrents of the daemon's start, and restarts.                     *)
(*                                                                         *)
(* A timestamp column is a Boolean: set (before now) or 'infinity'.  What  *)
(* nothing here reads (tombstoned_at, uploaded, peers, trackers, names) is *)
(* left out.  The client's view of the bytes on disk is taken as right.    *)
(***************************************************************************)
EXTENDS Naturals, FiniteSets

CONSTANTS
    Torrents,       \* info hashes
    Size,           \* the bytes of a torrent
    Clients,        \* requests and watched files being handled at a time
    Jobs,           \* Download goroutines at a time
    MaxInputs,      \* bound on requests, watched files and feed items
    MaxFaults       \* bound on restarts, failures and losses on disk

None == "none"      \* no torrent, no job

ASSUME TorrentsAssumption ==
    /\ Size \in Nat \ {0}
    /\ MaxInputs \in Nat
    /\ MaxFaults \in Nat
    /\ None \notin Torrents
    /\ None \notin Jobs

VARIABLES
    listed,     \* the torrents with a row
    rows,       \* rows[t]: the columns of t's row
    have,       \* have[t]: the bytes of t on disk
    running,    \* the torrents in the client's map
    library,    \* library[t]: the library rows of t: none, live, tombstoned
    jobs,       \* jobs[j]: a Download goroutine
    reqs,       \* reqs[c]: the handler c is in and what it does next
    resume,     \* resume[r]: a ResumeDownloads, at the start or after a feed
    verify,     \* VerifyTorrents
    feed,       \* the feed item about to be marked for download
    inputs,     \* how many requests, watched files and feed items so far
    faults,     \* how many restarts, failures and losses so far
    excused     \* history: torrents that a failure or an overlap hit

vars == <<listed, rows, have, running, library, jobs, reqs, resume, verify,
          feed, inputs, faults, excused>>

db == <<listed, rows>>
passes == <<resume, verify, feed>>
bounds == <<inputs, faults>>

-----------------------------------------------------------------------------
Resumers == {"boot", "feed"}

Row == [initiated : BOOLEAN, paused : BOOLEAN, seeding : BOOLEAN,
        verify : BOOLEAN, bytes : 0..Size, downloaded : 0..Size]

\* live: its torrent is in the client; at: its bytes when it was dropped
Job == [t : Torrents \cup {None}, step : {"idle", "read", "import", "complete"},
        md : 0..Size, live : BOOLEAN, at : 0..Size]
NoJob == [t |-> None, step |-> "idle", md |-> 0, live |-> FALSE, at |-> 0]

Request == [op : {"idle", "start", "download", "mark", "watched", "follow",
                  "pause", "shelf", "delete"},
            t : Torrents \cup {None}, added : BOOLEAN, job : Jobs \cup {None}]
NoRequest == [op |-> "idle", t |-> None, added |-> FALSE, job |-> None]

Resume == [due : BOOLEAN, todo : SUBSET Torrents, t : Torrents \cup {None},
           added : BOOLEAN]

TypeOK ==
    /\ listed \subseteq Torrents
    /\ rows \in [Torrents -> Row]
    /\ have \in [Torrents -> 0..Size]
    /\ running \subseteq Torrents
    /\ library \in [Torrents -> {"none", "live", "tombstoned"}]
    /\ jobs \in [Jobs -> Job]
    /\ reqs \in [Clients -> Request]
    /\ resume \in [Resumers -> Resume]
    /\ verify \in [due : BOOLEAN, todo : SUBSET Torrents, t : Torrents \cup {None}]
    /\ feed \in Torrents \cup {None}
    /\ inputs \in 0..MaxInputs
    /\ faults \in 0..MaxFaults
    /\ excused \subseteq Torrents

\* what NewMetadata and the defaults of the table say of a new row
NewMetadata(bytes, downloaded, seeding) ==
    [initiated |-> FALSE, paused |-> FALSE, seeding |-> seeding, verify |-> FALSE,
     bytes |-> bytes, downloaded |-> downloaded]

Passive == [due |-> FALSE, todo |-> {}, t |-> None, added |-> FALSE]

\* the goroutines Command.Run starts
Booted ==
    /\ running' = {}
    /\ jobs' = [j \in Jobs |-> NoJob]
    /\ reqs' = [c \in Clients |-> NoRequest]
    /\ resume' = [r \in Resumers |-> [Passive EXCEPT !.due = (r = "boot")]]
    /\ verify' = [due |-> TRUE, todo |-> {}, t |-> None]
    /\ feed' = None

\* a new installation, whose passes found no rows
Init ==
    /\ listed = {}
    /\ rows = [t \in Torrents |-> NewMetadata(0, 0, FALSE)]
    /\ have = [t \in Torrents |-> 0]
    /\ running = {}
    /\ library = [t \in Torrents |-> "none"]
    /\ jobs = [j \in Jobs |-> NoJob]
    /\ reqs = [c \in Clients |-> NoRequest]
    /\ resume = [r \in Resumers |-> Passive]
    /\ verify = [due |-> FALSE, todo |-> {}, t |-> None]
    /\ feed = None
    /\ inputs = 0
    /\ faults = 0
    /\ excused = {}

-----------------------------------------------------------------------------
Input == inputs < MaxInputs /\ inputs' = inputs + 1 /\ UNCHANGED faults
Fault == faults < MaxFaults /\ faults' = faults + 1 /\ UNCHANGED inputs

(* The statements of tracking/genieql.gen.go, as functions of a row *)

\* on conflict only updated_at and the tracker change
MetadataInsertWithDefaults(t, new) ==
    /\ listed' = listed \cup {t}
    /\ rows' = [rows EXCEPT ![t] = IF t \in listed THEN @ ELSE new]

\* Mutant of MetadataProgressByID: a torrent that seeded once goes on seeding.
ProgressKeepsSeeding(r, n) ==
    [r EXCEPT !.downloaded = n, !.seeding = r.seeding \/ r.bytes = n]

MetadataProgressByID(r, n) == [r EXCEPT !.downloaded = n, !.seeding = (r.bytes = n)]
MetadataVerifyByID(r, n) ==
    [r EXCEPT !.downloaded = n, !.seeding = (r.bytes = n), !.verify = FALSE]
MetadataCompleteByID(r, n) ==
    [r EXCEPT !.downloaded = n, !.seeding = (r.bytes = n), !.verify = TRUE]
MetadataPausedByID(r) == [r EXCEPT !.paused = TRUE, !.initiated = FALSE]
MetadataDownloadByID(r) == [r EXCEPT !.paused = FALSE, !.initiated = TRUE]
MetadataAutoDownloadByID(r) == [r EXCEPT !.initiated = TRUE]
MetadataTombstoneByID(r) == [r EXCEPT !.initiated = FALSE, !.seeding = FALSE]

Update(t, r) == rows' = [rows EXCEPT ![t] = r]

\* what a Download keeps of the row it scanned
MetadataScan(r) == r.downloaded

MetadataQueryIncomplete(r) == r.downloaded < r.bytes
MetadataQueryNotPaused(r) == ~r.paused
MetadataQueryInitiated(r) == r.initiated
MetadataQueryNeedsVerification(r) == r.verify

MetadataSearch(matching) == listed \cap matching

\* the torrents of /downloading and of ResumeDownloads
Wanted(r) ==
    /\ MetadataQueryInitiated(r)
    /\ MetadataQueryIncomplete(r)
    /\ MetadataQueryNotPaused(r)

Resumable == {t \in Torrents : Wanted(rows[t])}

-----------------------------------------------------------------------------
(* The torrent client and the Download goroutines *)

HasJob(t) == \E j \in Jobs : jobs[j].t = t

\* what BytesCompleted says to a job: a dropped torrent gets nothing more
BytesCompleted(job) == IF job.live THEN have[job.t] ELSE job.at

\* a job of a dropped torrent reads for ever unless all its bytes are there;
\* once its progress is recorded it does nothing more
Forgotten(job) == ~job.live /\ job.step = "read" /\ job.at < Size /\ job.md = job.at

Tidy(js) == [j \in Jobs |-> IF Forgotten(js[j]) THEN NoJob ELSE js[j]]

\* Client.Stop: the map forgets the torrent, whoever reads it is not told
Stop(t) ==
    /\ running' = running \ {t}
    /\ jobs' = Tidy([j \in Jobs |->
                  IF jobs[j].t = t /\ jobs[j].live
                  THEN [jobs[j] EXCEPT !.live = FALSE, !.at = have[t]]
                  ELSE jobs[j]])

\* go tracking.Download(ctx, q, vfs, &md, dl), in the first free slot
Go(t, j, md) ==
    /\ jobs[j] = NoJob
    /\ j = CHOOSE i \in Jobs : jobs[i] = NoJob
    /\ jobs' = [jobs EXCEPT ![j] =
                  [t |-> t, step |-> "read", md |-> md, live |-> TRUE, at |-> 0]]

\* pieces arrive from peers
Receive(t) ==
    /\ t \in running
    /\ have[t] < Size
    /\ have' = [have EXCEPT ![t] = @ + 1]
    /\ UNCHANGED <<db, running, library, jobs, reqs, passes, bounds, excused>>

\* a reclaim or a damaged disk takes content away
Lose(t) ==
    /\ Fault
    /\ have[t] > 0
    /\ have' = [have EXCEPT ![t] = 0]
    /\ UNCHANGED <<db, running, library, jobs, reqs, passes, excused>>

\* DownloadProgress, on a tick or an event: nothing unless the count differs
\* from the one in md. The write of a dropped torrent may be an old count.
DownloadProgress(j) ==
    LET job == jobs[j]
        n == BytesCompleted(job)
        r == MetadataProgressByID(rows[job.t], n)
    IN  /\ job.t # None
        /\ job.md # n
        /\ Update(job.t, r)
        /\ jobs' = Tidy([jobs EXCEPT ![j].md = MetadataScan(r)])
        /\ excused' = IF job.live THEN excused ELSE excused \cup {job.t}
        /\ UNCHANGED <<listed, have, running, library, reqs, passes, bounds>>

\* Mutant of Downloaded: the row is completed before the content is imported.
DownloadedCompletes(j) ==
    /\ jobs[j].step = "read"
    /\ BytesCompleted(jobs[j]) = Size
    /\ jobs' = [jobs EXCEPT ![j].step = "import"]
    /\ Update(jobs[j].t, MetadataCompleteByID(rows[jobs[j].t], Size))
    /\ UNCHANGED <<listed, have, running, library, reqs, passes, bounds, excused>>

\* torrent.DownloadInto has read every byte
Downloaded(j) ==
    /\ jobs[j].step = "read"
    /\ BytesCompleted(jobs[j]) = Size
    /\ jobs' = [jobs EXCEPT ![j].step = "import"]
    /\ UNCHANGED <<db, have, running, library, reqs, passes, bounds, excused>>

\* Mutant of Transfer: the upsert takes the tombstone of a deleted row back.
TransferRevives(j) ==
    LET t == jobs[j].t
    IN  /\ jobs[j].step = "import"
        /\ have[t] = Size
        /\ library' = [library EXCEPT ![t] = "live"]
        /\ jobs' = [jobs EXCEPT ![j].step = "complete"]
        /\ UNCHANGED <<db, have, running, reqs, passes, bounds, excused>>

\* ImportFilesystem and the library rows: a row that is there keeps its
\* tombstone
Transfer(j) ==
    LET t == jobs[j].t
    IN  /\ jobs[j].step = "import"
        /\ have[t] = Size
        /\ library' = [library EXCEPT ![t] = IF @ = "none" THEN "live" ELSE @]
        /\ jobs' = [jobs EXCEPT ![j].step = "complete"]
        /\ UNCHANGED <<db, have, running, reqs, passes, bounds, excused>>

\* the end of DownloadInto, which also ends DownloadProgress
Complete(j) ==
    LET t == jobs[j].t
    IN  /\ jobs[j].step = "complete"
        /\ Update(t, MetadataCompleteByID(rows[t], Size))
        /\ jobs' = [jobs EXCEPT ![j] = NoJob]
        /\ UNCHANGED <<listed, have, running, library, reqs, passes, bounds, excused>>

\* an error of the storage, of the import or of the database
JobFails(j) ==
    /\ Fault
    /\ jobs[j].t # None
    /\ jobs' = [jobs EXCEPT ![j] = NoJob]
    /\ excused' = excused \cup {jobs[j].t}
    /\ UNCHANGED <<db, have, running, library, reqs, passes>>

-----------------------------------------------------------------------------
(* The handlers of media/http.discovered.go and the watched directory *)

\* someone is in the middle of something with t
Busy(t) ==
    \/ \E c \in Clients : reqs[c].t = t
    \/ \E r \in Resumers : resume[r].t = t
    \/ verify.t = t
    \/ feed = t

\* history: what begins while t is busy is an overlap
Begins(t) == excused' = IF Busy(t) THEN excused \cup {t} ELSE excused

\* the first free slot for a request
Free(c) == reqs[c] = NoRequest /\ c = CHOOSE i \in Clients : reqs[i] = NoRequest

Enter(c, t, op, added) ==
    /\ Input
    /\ Free(c)
    /\ reqs' = [reqs EXCEPT ![c] =
                  [op |-> op, t |-> t, added |-> added, job |-> None]]
    /\ Begins(t)

Step(c, from, to) ==
    /\ reqs[c].op = from
    /\ reqs' = [reqs EXCEPT ![c] = IF to = "idle" THEN NoRequest ELSE [@ EXCEPT !.op = to]]

\* magnet knows no length; upload has the .torrent file
Add(c, t) ==
    /\ Enter(c, t, "start", FALSE)
    /\ \E bytes \in {0, Size} : MetadataInsertWithDefaults(t, NewMetadata(bytes, 0, FALSE))
    /\ UNCHANGED <<have, running, library, jobs, passes>>

\* Start, and a Download even if the torrent was running
AddStart(c, j) ==
    LET t == reqs[c].t
    IN  /\ Step(c, "start", "idle")
        /\ running' = running \cup {t}
        /\ Go(t, j, MetadataScan(rows[t]))
        /\ UNCHANGED <<db, have, library, passes, bounds, excused>>

\* publish: the content is copied to the storage before the row is inserted
Publish(c, t) ==
    /\ Input
    /\ Free(c)
    /\ have' = [have EXCEPT ![t] = Size]
    /\ MetadataInsertWithDefaults(t, NewMetadata(Size, Size, TRUE))
    /\ Begins(t)
    /\ UNCHANGED <<running, library, jobs, reqs, passes>>

\* download: the row is found and Start looks for the torrent in its map
DownloadFind(c, t) ==
    /\ t \in listed
    /\ Enter(c, t, "download", t \notin running)
    /\ UNCHANGED <<db, have, running, library, jobs, passes>>

DownloadStart(c, j) ==
    LET t == reqs[c].t
        added == reqs[c].added
    IN  /\ reqs[c].op = "download"
        /\ running' = running \cup {t}
        /\ IF added THEN Go(t, j, MetadataScan(rows[t])) ELSE UNCHANGED jobs
        /\ reqs' = [reqs EXCEPT ![c].op = "mark", ![c].added = FALSE,
                                ![c].job = IF added THEN j ELSE None]
        /\ UNCHANGED <<db, have, library, passes, bounds, excused>>

\* the row is scanned into the metadata the Download works on
DownloadMark(c) ==
    LET t == reqs[c].t
        r == MetadataDownloadByID(rows[t])
    IN  /\ Step(c, "mark", "idle")
        /\ Update(t, r)
        /\ jobs' = [j \in Jobs |->
                      IF j = reqs[c].job /\ jobs[j].t = t
                      THEN [jobs[j] EXCEPT !.md = MetadataScan(r)] ELSE jobs[j]]
        /\ UNCHANGED <<listed, have, running, library, passes, bounds, excused>>

\* Directory.download: Start first, the row when the info is there
WatchStart(c, t) ==
    /\ Enter(c, t, "watched", FALSE)
    /\ running' = running \cup {t}
    /\ UNCHANGED <<db, have, library, jobs, passes>>

WatchInsert(c) ==
    /\ Step(c, "watched", "follow")
    /\ MetadataInsertWithDefaults(reqs[c].t, NewMetadata(Size, 0, FALSE))
    /\ UNCHANGED <<have, running, library, jobs, passes, bounds, excused>>

\* a Download even if another one follows the torrent
WatchFollow(c, j) ==
    LET t == reqs[c].t
        r == MetadataDownloadByID(rows[t])
    IN  /\ Step(c, "follow", "idle")
        /\ Update(t, r)
        /\ Go(t, j, MetadataScan(r))
        /\ UNCHANGED <<listed, have, running, library, passes, bounds, excused>>

PauseStop(c, t) ==
    /\ t \in listed
    /\ Enter(c, t, "pause", FALSE)
    /\ Stop(t)
    /\ UNCHANGED <<db, have, library, passes>>

\* Mutant of PauseMark: the torrent is stopped and its row is left as it was.
PauseMarkNothing(c) ==
    /\ Step(c, "pause", "idle")
    /\ UNCHANGED <<db, have, running, library, jobs, passes, bounds, excused>>

PauseMark(c) ==
    LET t == reqs[c].t
    IN  /\ Step(c, "pause", "idle")
        /\ Update(t, MetadataPausedByID(rows[t]))
        /\ UNCHANGED <<listed, have, running, library, jobs, passes, bounds, excused>>

DeleteStop(c, t) ==
    /\ t \in listed
    /\ Enter(c, t, "shelf", FALSE)
    /\ Stop(t)
    /\ UNCHANGED <<db, have, library, passes>>

\* tracking.Delete: the library's rows, then the torrent's. The blocks stay:
\* the matches of the glob are names within the torrent directory.
DeleteLibrary(c) ==
    LET t == reqs[c].t
    IN  /\ Step(c, "shelf", "delete")
        /\ library' = [library EXCEPT ![t] = IF @ = "live" THEN "tombstoned" ELSE @]
        /\ UNCHANGED <<db, have, running, jobs, passes, bounds, excused>>

DeleteRow(c) ==
    LET t == reqs[c].t
    IN  /\ Step(c, "delete", "idle")
        /\ Update(t, MetadataTombstoneByID(rows[t]))
        /\ UNCHANGED <<listed, have, running, library, jobs, passes, bounds, excused>>

\* the early returns: the client, the database or the caller fails
Return(c) ==
    /\ Fault
    /\ reqs[c] # NoRequest
    /\ reqs' = [reqs EXCEPT ![c] = NoRequest]
    /\ excused' = excused \cup {reqs[c].t}
    /\ UNCHANGED <<db, have, running, library, jobs, passes>>

-----------------------------------------------------------------------------
(* Feeds, and the passes of the daemon's start *)

\* handlehttp and handlemagnet: a magnet's length is what the feed says
FeedItem(t) ==
    /\ Input
    /\ feed = None
    /\ resume["feed"] \in {Passive, [Passive EXCEPT !.due = TRUE]}
    /\ \E bytes \in {0, Size} : MetadataInsertWithDefaults(t, NewMetadata(bytes, 0, FALSE))
    /\ feed' \in {t, None}     \* does the feed download automatically?
    /\ resume' = [resume EXCEPT !["feed"].due = TRUE]
    /\ Begins(t)
    /\ UNCHANGED <<have, running, library, jobs, reqs, verify>>

\* Mutant of FeedMark: the pause is taken back, as the download handler does.
FeedMarkUnpauses ==
    /\ feed # None
    /\ Update(feed, MetadataDownloadByID(rows[feed]))
    /\ feed' = None
    /\ UNCHANGED <<listed, have, running, library, jobs, reqs, resume, verify, bounds,
                   excused>>

FeedMark ==
    /\ feed # None
    /\ Update(feed, MetadataAutoDownloadByID(rows[feed]))
    /\ feed' = None
    /\ UNCHANGED <<listed, have, running, library, jobs, reqs, resume, verify, bounds,
                   excused>>

\* recording the feed's cooldown fails: no ResumeDownloads for its items
FeedFails ==
    /\ Fault
    /\ feed = None
    /\ resume["feed"].due
    /\ resume' = [resume EXCEPT !["feed"].due = FALSE]
    /\ excused' = excused \cup listed
    /\ UNCHANGED <<db, have, running, library, jobs, reqs, verify, feed>>

\* Mutant of ResumeQuery: the downloads wait until VerifyTorrents is over.
ResumeQueryWaits(r) ==
    /\ resume[r].due
    /\ ~verify.due /\ verify.todo = {} /\ verify.t = None
    /\ r = "feed" => feed = None
    /\ resume' = [resume EXCEPT ![r] = [Passive EXCEPT !.todo = MetadataSearch(Resumable)]]
    /\ UNCHANGED <<db, have, running, library, jobs, reqs, verify, feed, bounds, excused>>

\* ResumeDownloads: the rows are those of the query's snapshot
ResumeQuery(r) ==
    /\ resume[r].due
    /\ r = "feed" => feed = None
    /\ resume' = [resume EXCEPT ![r] = [Passive EXCEPT !.todo = MetadataSearch(Resumable)]]
    /\ UNCHANGED <<db, have, running, library, jobs, reqs, verify, feed, bounds, excused>>

ResumeFind(r, t) ==
    /\ resume[r].t = None
    /\ t \in resume[r].todo
    /\ resume' = [resume EXCEPT ![r].todo = @ \ {t}, ![r].t = t,
                                ![r].added = (t \notin running)]
    /\ Begins(t)
    /\ UNCHANGED <<db, have, running, library, jobs, reqs, verify, feed, bounds>>

ResumeStart(r, j) ==
    LET t == resume[r].t
    IN  /\ t # None
        /\ running' = running \cup {t}
        /\ IF resume[r].added THEN Go(t, j, MetadataScan(rows[t])) ELSE UNCHANGED jobs
        /\ resume' = [resume EXCEPT ![r].t = None, ![r].added = FALSE]
        /\ UNCHANGED <<db, have, library, reqs, verify, feed, bounds, excused>>

\* Start fails: on to the next row; torrent.New fails: the pass is over
ResumeFails(r) ==
    LET t == resume[r].t
    IN  /\ Fault
        /\ t # None
        /\ \/ /\ resume' = [resume EXCEPT ![r].t = None, ![r].added = FALSE]
              /\ excused' = excused \cup {t}
           \/ /\ resume' = [resume EXCEPT ![r] = Passive]
              /\ excused' = excused \cup {t} \cup resume[r].todo
        /\ UNCHANGED <<db, have, running, library, jobs, reqs, verify, feed>>

Unverified == {t \in Torrents : MetadataQueryNeedsVerification(rows[t])}

VerifyQuery ==
    /\ verify.due
    /\ verify' = [due |-> FALSE, todo |-> MetadataSearch(Unverified),
                  t |-> None]
    /\ UNCHANGED <<db, have, running, library, jobs, reqs, resume, feed, bounds, excused>>

\* VerifyTorrents starts what it verifies, and no Download follows it
VerifyStart(t) ==
    /\ verify.t = None
    /\ t \in verify.todo
    /\ running' = running \cup {t}
    /\ verify' = [verify EXCEPT !.todo = @ \ {t}, !.t = t]
    /\ excused' = excused \cup {t}
    /\ UNCHANGED <<db, have, library, jobs, reqs, resume, feed, bounds>>

\* nothing is recorded while the info is unknown, or when the update fails
VerifyRecord ==
    /\ verify.t # None
    /\ verify' = [verify EXCEPT !.t = None]
    /\ \/ Update(verify.t, MetadataVerifyByID(rows[verify.t], have[verify.t]))
       \/ UNCHANGED rows
    /\ UNCHANGED <<listed, have, running, library, jobs, reqs, resume, feed, bounds,
                   excused>>

\* the process ends and is started again
Restart ==
    /\ Fault
    /\ Booted
    /\ excused' = {}
    /\ UNCHANGED <<db, have, library>>

-----------------------------------------------------------------------------
Handlers(c) ==
    \/ \E t \in Torrents : Add(c, t) \/ Publish(c, t) \/ DownloadFind(c, t)
                           \/ WatchStart(c, t) \/ PauseStop(c, t) \/ DeleteStop(c, t)
    \/ \E j \in Jobs : AddStart(c, j) \/ DownloadStart(c, j) \/ WatchFollow(c, j)
    \/ DownloadMark(c) \/ WatchInsert(c) \/ PauseMark(c)
    \/ DeleteLibrary(c) \/ DeleteRow(c) \/ Return(c)

DownloadJob(j) ==
    DownloadProgress(j) \/ Downloaded(j) \/ Transfer(j) \/ Complete(j) \/ JobFails(j)

ResumeDownloads(r) ==
    \/ ResumeQuery(r)
    \/ \E t \in Torrents : ResumeFind(r, t)
    \/ \E j \in Jobs : ResumeStart(r, j)
    \/ ResumeFails(r)

Next ==
    \/ \E t \in Torrents : Receive(t) \/ Lose(t) \/ FeedItem(t) \/ VerifyStart(t)
    \/ \E c \in Clients : Handlers(c)
    \/ \E j \in Jobs : DownloadJob(j)
    \/ \E r \in Resumers : ResumeDownloads(r)
    \/ FeedMark \/ FeedFails \/ VerifyQuery \/ VerifyRecord
    \/ Restart

\* the daemon's goroutines go on; requests, peers and disks owe nothing
Fairness ==
    /\ \A r \in Resumers : WF_vars(ResumeDownloads(r))
    /\ WF_vars(FeedMark)

Spec == Init /\ [][Next]_vars /\ Fairness

-----------------------------------------------------------------------------
(* Properties *)

\* A row says seeding only when all its bytes are recorded as downloaded,
\* whatever progress, verification and completion write in whatever order.
SeedingIsComplete == \A t \in Torrents : rows[t].seeding => rows[t].downloaded = rows[t].bytes

\* A row due for verification has been completed, and a completed torrent has
\* rows in the library: the transfer comes before MetadataCompleteByID.
CompletedIsShelved == \A t \in Torrents : rows[t].verify => library[t] # "none"

\* What a row says of a torrent that is done is true, wherever a process that
\* downloads, imports and completes it in separate writes was cut off: it seeds
\* what is whole, and it has been completed when it is in the library.
DoneIsDone == SeedingIsComplete /\ CompletedIsShelved

\* nothing under way concerns t
Settled(t) ==
    /\ ~Busy(t)
    /\ ~verify.due /\ t \notin verify.todo
    /\ \A r \in Resumers : ~resume[r].due /\ t \notin resume[r].todo

\* A torrent listed as downloading is being downloaded once nothing is under
\* way: the only exceptions since the last restart are torrents with requests
\* that overlapped, with a step that failed, that VerifyTorrents started before
\* ResumeDownloads could, and with the late progress of a job whose torrent was
\* dropped.
WantedIsDownloading ==
    \A t \in listed \ excused : Wanted(rows[t]) /\ Settled(t) => HasJob(t)

\* Whether a torrent is to be downloaded is decided by requests and the
\* watched directory, and a feed may initiate but not take back a pause:
\* progress, completion, verification, resuming and restarts change neither.
DecisionsAreTheUsers ==
    [][\A t \in listed :
        /\ rows'[t].paused # rows[t].paused =>
              \E c \in Clients : reqs[c].t = t /\ reqs'[c] # reqs[c]
        /\ rows'[t].initiated # rows[t].initiated =>
              feed = t \/ \E c \in Clients : reqs[c].t = t /\ reqs'[c] # reqs[c]]_vars

\* After a start every torrent listed as downloading gets its Download.
ResumedAfterRestart ==
    \A t \in Torrents :
        (resume["boot"].due /\ t \in listed /\ Wanted(rows[t]))
            ~> (HasJob(t) \/ ~Wanted(rows[t]) \/ t \in excused)

Promise == INSTANCE Shelf WITH content <- have, shelf <- library

\* Torrents keep the shelf's promise: content gets to the library only when
\* it is whole, and deleted content does not come back.
ShelfKept == Promise!ShelfSpec
=============================================================================

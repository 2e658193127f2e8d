--------------------------- MODULE TorrentsProofs ---------------------------
(***************************************************************************)
(* Theorems about Torrents, for any torrents, sizes, handlers, Download    *)
(* goroutines, inputs and faults.                                          *)
(*                                                                         *)
(* DoneInv adds to DoneIsDone that a job about to complete its torrent has *)
(* put it on the shelf.  The refinement and the action property need the   *)
(* types only.  WantedInv is the inductive form of WantedIsDownloading: it *)
(* says, of every torrent that is not excused, who is about to give it the *)
(* job it waits for (Awaited), and that no other request, pass or forgotten*)
(* job can interfere with that one (Alone, MarkedLives, NoneForgotten,     *)
(* FoundStays); PassesInv is what the passes and the requests keep to for  *)
(* excused torrents too, so that a restart finds every row.                *)
(***************************************************************************)
EXTENDS Torrents, TLAPS

-----------------------------------------------------------------------------
(* Types *)

LEMMA RowType ==
    ASSUME NEW r \in Row, NEW n \in 0 .. Size
    PROVE  /\ MetadataProgressByID(r, n) \in Row
           /\ MetadataVerifyByID(r, n) \in Row
           /\ MetadataCompleteByID(r, n) \in Row
           /\ MetadataPausedByID(r) \in Row
           /\ MetadataDownloadByID(r) \in Row
           /\ MetadataAutoDownloadByID(r) \in Row
           /\ MetadataTombstoneByID(r) \in Row
           /\ MetadataScan(r) \in 0 .. Size
  BY DEF Row, MetadataProgressByID, MetadataVerifyByID, MetadataCompleteByID,
         MetadataPausedByID, MetadataDownloadByID, MetadataAutoDownloadByID,
         MetadataTombstoneByID, MetadataScan

LEMMA NewRowType ==
    ASSUME NEW b \in 0 .. Size, NEW d \in 0 .. Size, NEW s \in BOOLEAN
    PROVE  NewMetadata(b, d, s) \in Row
  BY DEF NewMetadata, Row

LEMMA SizeType == Size \in 0 .. Size /\ 0 \in 0 .. Size
  BY TorrentsAssumption

LEMMA NoJobType == NoJob \in Job
  BY SizeType DEF NoJob, Job

LEMMA NoRequestType == NoRequest \in Request
  BY DEF NoRequest, Request

LEMMA JobType ==
    ASSUME NEW x \in Job, NEW n \in 0 .. Size
    PROVE  /\ [x EXCEPT !.md = n] \in Job
           /\ [x EXCEPT !.live = FALSE, !.at = n] \in Job
           /\ \A s \in {"idle", "read", "import", "complete"} :
                [x EXCEPT !.step = s] \in Job
           /\ x.t \in Torrents \cup {None} /\ x.md \in 0 .. Size
           /\ x.live \in BOOLEAN /\ x.at \in 0 .. Size
  BY DEF Job

LEMMA TidyType ==
    ASSUME NEW js \in [Jobs -> Job]
    PROVE  Tidy(js) \in [Jobs -> Job]
  BY NoJobType DEF Tidy

LEMMA GoType ==
    ASSUME jobs \in [Jobs -> Job], NEW t \in Torrents, NEW j \in Jobs,
           NEW md \in 0 .. Size, Go(t, j, md)
    PROVE  jobs' \in [Jobs -> Job]
  BY SizeType DEF Go, Job

LEMMA InsertType ==
    ASSUME listed \subseteq Torrents, rows \in [Torrents -> Row],
           NEW t \in Torrents, NEW r \in Row, MetadataInsertWithDefaults(t, r)
    PROVE  listed' \subseteq Torrents /\ rows' \in [Torrents -> Row]
  BY DEF MetadataInsertWithDefaults

LEMMA StopType ==
    ASSUME TypeOK, NEW t \in Torrents, Stop(t)
    PROVE  running' \subseteq Torrents /\ jobs' \in [Jobs -> Job]
<1> DEFINE js == [j \in Jobs |-> IF jobs[j].t = t /\ jobs[j].live
                                 THEN [jobs[j] EXCEPT !.live = FALSE, !.at = have[t]]
                                 ELSE jobs[j]]
<1>1. js \in [Jobs -> Job]
  BY JobType DEF TypeOK
<1>2. jobs' = Tidy(js)
  BY DEF Stop
<1>3. jobs' \in [Jobs -> Job]
  BY <1>1, <1>2, TidyType
<1>4. QED
  BY <1>3 DEF Stop, TypeOK

LEMMA EnterType ==
    ASSUME TypeOK, NEW c \in Clients, NEW t \in Torrents, NEW a \in BOOLEAN,
           NEW op \in {"start", "download", "watched", "pause", "shelf"},
           Enter(c, t, op, a)
    PROVE  /\ reqs' \in [Clients -> Request]
           /\ inputs' \in 0 .. MaxInputs /\ faults' \in 0 .. MaxFaults
           /\ excused' \subseteq Torrents
<1>1. [op |-> op, t |-> t, added |-> a, job |-> None] \in Request
  BY DEF Request
<1>2. inputs' \in 0 .. MaxInputs /\ faults' \in 0 .. MaxFaults
  BY TorrentsAssumption DEF Enter, Input, TypeOK
<1>3. QED
  BY <1>1, <1>2 DEF Enter, Begins, TypeOK

LEMMA StepType ==
    ASSUME TypeOK, NEW c \in Clients, NEW from,
           NEW to \in {"idle", "follow", "delete"}, Step(c, from, to)
    PROVE  reqs' \in [Clients -> Request]
<1>1. reqs[c] \in Request /\ [reqs[c] EXCEPT !.op = to] \in Request
  BY DEF TypeOK, Request
<1>2. QED
  BY <1>1, NoRequestType DEF Step, TypeOK

\* a handler that is in the middle of something knows its torrent
RequestsTyped ==
    \A c \in Clients : \/ reqs[c] = NoRequest
                       \/ reqs[c].op # "idle" /\ reqs[c].t \in Torrents

LEMMA Handled ==
    ASSUME RequestsTyped, NEW c \in Clients, reqs[c].op # "idle"
    PROVE  reqs[c].t \in Torrents
  BY DEF RequestsTyped, NoRequest
LEMMA TypeInit == Init => TypeOK /\ RequestsTyped
<1> SUFFICES ASSUME Init PROVE TypeOK /\ RequestsTyped
  OBVIOUS
<1>1. rows \in [Torrents -> Row]
  <2>1. NewMetadata(0, 0, FALSE) \in Row
    BY SizeType, NewRowType
  <2>2. QED
    BY <2>1 DEF Init
<1>2. Passive \in Resume
  BY DEF Passive, Resume
<1>3. /\ jobs \in [Jobs -> Job] /\ reqs \in [Clients -> Request]
      /\ resume \in [Resumers -> Resume]
  BY <1>2, NoJobType, NoRequestType DEF Init
<1>4. RequestsTyped
  BY DEF Init, RequestsTyped, NoRequest
<1>5. inputs \in 0 .. MaxInputs /\ faults \in 0 .. MaxFaults
  BY TorrentsAssumption DEF Init
<1>6. /\ have \in [Torrents -> 0 .. Size]
      /\ library \in [Torrents -> {"none", "live", "tombstoned"}]
  BY SizeType DEF Init
<1>7. /\ verify \in [due : BOOLEAN, todo : SUBSET Torrents, t : Torrents \cup {None}]
      /\ listed = {} /\ running = {} /\ excused = {} /\ feed = None
  BY DEF Init
<1>8. QED
  BY <1>1, <1>3, <1>4, <1>5, <1>6, <1>7 DEF TypeOK

LEMMA JobTypes ==
    ASSUME TypeOK, NEW j \in Jobs, DownloadJob(j)
    PROVE  TypeOK'
<1>0. jobs[j] \in Job
  BY DEF TypeOK
<1>1. CASE DownloadProgress(j)
  <2> DEFINE job == jobs[j]
             n == BytesCompleted(job)
             r == MetadataProgressByID(rows[job.t], n)
             js == [jobs EXCEPT ![j].md = MetadataScan(r)]
  <2>1. /\ job.t # None /\ Update(job.t, r) /\ jobs' = Tidy(js)
        /\ excused' \subseteq excused \cup {job.t}
        /\ UNCHANGED <<listed, have, running, library, reqs, passes, bounds>>
    BY <1>1 DEF DownloadProgress
  <2>2. job.t \in Torrents
    BY <1>0, <2>1, JobType, SizeType
  <2>3. n \in 0 .. Size
    BY <1>0, <2>2, JobType, SizeType DEF BytesCompleted, TypeOK
  <2>4. r \in Row /\ MetadataScan(r) \in 0 .. Size
    BY <2>2, <2>3, RowType DEF TypeOK
  <2> HIDE DEF n, r
  <2>5. [job EXCEPT !.md = MetadataScan(r)] \in Job
    BY <1>0, <2>4, JobType
  <2>6. js \in [Jobs -> Job]
    BY <2>5 DEF TypeOK
  <2>7. jobs' \in [Jobs -> Job]
    BY <2>1, <2>6, TidyType
  <2>8. QED
    BY <2>1, <2>2, <2>4, <2>7 DEF Update, TypeOK, passes, bounds
<1>2. CASE Downloaded(j) \/ Transfer(j)
  <2>1. \A s \in {"import", "complete"} : [jobs[j] EXCEPT !.step = s] \in Job
    BY <1>0, JobType, SizeType
  <2>2. jobs' \in [Jobs -> Job]
    BY <1>2, <2>1 DEF Downloaded, Transfer, TypeOK
  <2>3. library' \in [Torrents -> {"none", "live", "tombstoned"}]
    BY <1>2 DEF Downloaded, Transfer, TypeOK
  <2>4. QED
    BY <1>2, <2>2, <2>3 DEF Downloaded, Transfer, TypeOK, db, passes, bounds
<1>3. CASE Complete(j)
  <2> DEFINE t == jobs[j].t
  <2>1. rows' \in [Torrents -> Row]
    <3>1. CASE t \in Torrents
      <4>1. MetadataCompleteByID(rows[t], Size) \in Row
        BY <3>1, RowType, SizeType DEF TypeOK
      <4>2. QED
        BY <1>3, <4>1 DEF Complete, Update, TypeOK
    <3>2. CASE t \notin Torrents
      BY <1>3, <3>2 DEF Complete, Update, TypeOK
    <3>3. QED
      BY <3>1, <3>2
  <2>2. jobs' \in [Jobs -> Job]
    BY <1>3, NoJobType DEF Complete, TypeOK
  <2>3. QED
    BY <1>3, <2>1, <2>2 DEF Complete, TypeOK, passes, bounds
<1>4. CASE JobFails(j)
  <2>1. jobs' \in [Jobs -> Job]
    BY <1>4, NoJobType DEF JobFails, TypeOK
  <2>2. faults' \in 0 .. MaxFaults /\ inputs' = inputs
    BY <1>4, TorrentsAssumption DEF JobFails, Fault, TypeOK
  <2>3. excused' \subseteq Torrents
    BY <1>0, <1>4, JobType, SizeType DEF JobFails, TypeOK
  <2>4. QED
    BY <1>4, <2>1, <2>2, <2>3 DEF JobFails, TypeOK, db, passes
<1>5. QED
  BY <1>1, <1>2, <1>3, <1>4 DEF DownloadJob

LEMMA HandlerTypes ==
    ASSUME TypeOK, RequestsTyped, NEW c \in Clients, Handlers(c)
    PROVE  TypeOK'
<1> DEFINE t == reqs[c].t
<1>0. reqs[c] \in Request
  BY DEF TypeOK
<1>f. \A x \in Torrents : Begins(x) => excused' \subseteq Torrents
  BY DEF Begins, TypeOK
<1>1. ASSUME NEW x \in Torrents, Add(c, x) PROVE TypeOK'
  <2>1. Enter(c, x, "start", FALSE) /\ UNCHANGED <<have, running, library, jobs, passes>>
    BY <1>1 DEF Add
  <2>2. listed' \subseteq Torrents /\ rows' \in [Torrents -> Row]
    <3>1. PICK b \in {0, Size} : MetadataInsertWithDefaults(x, NewMetadata(b, 0, FALSE))
      BY <1>1 DEF Add
    <3>2. NewMetadata(b, 0, FALSE) \in Row
      BY SizeType, NewRowType
    <3>3. QED
      BY <3>1, <3>2, InsertType DEF TypeOK
  <2>3. QED
    BY <2>1, <2>2, EnterType DEF TypeOK, passes
<1>2. ASSUME NEW x \in Torrents, Publish(c, x) PROVE TypeOK'
  <2>1. NewMetadata(Size, Size, TRUE) \in Row
    BY SizeType, NewRowType
  <2>2. listed' \subseteq Torrents /\ rows' \in [Torrents -> Row]
    BY <1>2, <2>1, InsertType DEF Publish, TypeOK
  <2>3. inputs' \in 0 .. MaxInputs /\ faults' = faults
    BY <1>2, TorrentsAssumption DEF Publish, Input, TypeOK
  <2>4. have' \in [Torrents -> 0 .. Size]
    BY <1>2, SizeType DEF Publish, TypeOK
  <2>5. excused' \subseteq Torrents
    BY <1>2, <1>f DEF Publish
  <2>6. QED
    BY <1>2, <2>2, <2>3, <2>4, <2>5 DEF Publish, TypeOK, passes
<1>3. ASSUME NEW x \in Torrents, DownloadFind(c, x) \/ WatchStart(c, x) PROVE TypeOK'
  <2>1. /\ \E op \in {"download", "watched"}, a \in BOOLEAN : Enter(c, x, op, a)
        /\ running' \in {running, running \cup {x}}
        /\ UNCHANGED <<db, have, library, jobs, passes>>
    BY <1>3 DEF DownloadFind, WatchStart
  <2>2. /\ reqs' \in [Clients -> Request]
        /\ inputs' \in 0 .. MaxInputs /\ faults' \in 0 .. MaxFaults
        /\ excused' \subseteq Torrents
    BY <2>1, EnterType
  <2>3. QED
    BY <2>1, <2>2 DEF TypeOK, db, passes
<1>4. ASSUME NEW x \in Torrents, PauseStop(c, x) \/ DeleteStop(c, x) PROVE TypeOK'
  <2>1. /\ \E op \in {"pause", "shelf"} : Enter(c, x, op, FALSE)
        /\ Stop(x)
        /\ UNCHANGED <<db, have, library, passes>>
    BY <1>4 DEF PauseStop, DeleteStop
  <2>2. /\ reqs' \in [Clients -> Request]
        /\ inputs' \in 0 .. MaxInputs /\ faults' \in 0 .. MaxFaults
        /\ excused' \subseteq Torrents
    BY <2>1, EnterType
  <2>3. running' \subseteq Torrents /\ jobs' \in [Jobs -> Job]
    BY <2>1, StopType
  <2>4. QED
    BY <2>1, <2>2, <2>3 DEF TypeOK, db, passes
<1>5. ASSUME NEW j \in Jobs, AddStart(c, j) PROVE TypeOK'
  <2>1. t \in Torrents
    BY <1>5, Handled DEF AddStart, Step
  <2>2. MetadataScan(rows[t]) \in 0 .. Size
    BY <2>1, RowType, SizeType DEF TypeOK
  <2>3. jobs' \in [Jobs -> Job]
    BY <1>5, <2>1, <2>2, GoType DEF AddStart, TypeOK
  <2>4. reqs' \in [Clients -> Request]
    BY <1>5, StepType DEF AddStart
  <2>5. QED
    BY <1>5, <2>1, <2>3, <2>4 DEF AddStart, TypeOK, db, passes, bounds
<1>6. ASSUME NEW j \in Jobs, DownloadStart(c, j) PROVE TypeOK'
  <2>1. t \in Torrents
    BY <1>6, Handled DEF DownloadStart
  <2>2. MetadataScan(rows[t]) \in 0 .. Size
    BY <2>1, RowType, SizeType DEF TypeOK
  <2>3. jobs' \in [Jobs -> Job]
    BY <1>6, <2>1, <2>2, GoType DEF DownloadStart, TypeOK
  <2>4. reqs' \in [Clients -> Request]
    <3>1. PICK k \in Jobs \cup {None} :
            reqs' = [reqs EXCEPT ![c].op = "mark", ![c].added = FALSE, ![c].job = k]
      BY <1>6 DEF DownloadStart
    <3>2. [reqs[c] EXCEPT !.op = "mark", !.added = FALSE, !.job = k] \in Request
      BY <1>0 DEF Request
    <3>3. QED
      BY <3>1, <3>2 DEF TypeOK
  <2>5. QED
    BY <1>6, <2>1, <2>3, <2>4 DEF DownloadStart, TypeOK, db, passes, bounds
<1>7. ASSUME NEW j \in Jobs, WatchFollow(c, j) PROVE TypeOK'
  <2> DEFINE r == MetadataDownloadByID(rows[t])
  <2>1. t \in Torrents
    BY <1>7, Handled DEF WatchFollow, Step
  <2>2. r \in Row /\ MetadataScan(r) \in 0 .. Size
    BY <2>1, RowType, SizeType DEF TypeOK
  <2>3. Update(t, r) /\ Go(t, j, MetadataScan(r)) /\ Step(c, "follow", "idle")
    BY <1>7 DEF WatchFollow
  <2> HIDE DEF r
  <2>4. jobs' \in [Jobs -> Job]
    BY <2>1, <2>2, <2>3, GoType DEF TypeOK
  <2>5. reqs' \in [Clients -> Request]
    BY <2>3, StepType
  <2>6. rows' \in [Torrents -> Row]
    BY <2>1, <2>2, <2>3 DEF Update, TypeOK
  <2>7. QED
    BY <1>7, <2>4, <2>5, <2>6 DEF WatchFollow, TypeOK, passes, bounds
<1>8. CASE DownloadMark(c)
  <2> DEFINE r == MetadataDownloadByID(rows[t])
             k == reqs[c].job
  <2>1. t \in Torrents
    BY <1>8, Handled DEF DownloadMark, Step
  <2>2. r \in Row /\ MetadataScan(r) \in 0 .. Size
    BY <2>1, RowType, SizeType DEF TypeOK
  <2>3. /\ Update(t, r) /\ Step(c, "mark", "idle")
        /\ jobs' = [j \in Jobs |-> IF j = k /\ jobs[j].t = t
                      THEN [jobs[j] EXCEPT !.md = MetadataScan(r)] ELSE jobs[j]]
    BY <1>8 DEF DownloadMark
  <2> HIDE DEF r, k
  <2>4. jobs' \in [Jobs -> Job]
    BY <2>2, <2>3, JobType DEF TypeOK
  <2>5. reqs' \in [Clients -> Request]
    BY <2>3, StepType
  <2>6. rows' \in [Torrents -> Row]
    BY <2>1, <2>2, <2>3 DEF Update, TypeOK
  <2>7. QED
    BY <1>8, <2>4, <2>5, <2>6 DEF DownloadMark, TypeOK, passes, bounds
<1>9. CASE WatchInsert(c)
  <2>1. t \in Torrents
    BY <1>9, Handled DEF WatchInsert, Step
  <2>2. NewMetadata(Size, 0, FALSE) \in Row
    BY SizeType, NewRowType
  <2>3. listed' \subseteq Torrents /\ rows' \in [Torrents -> Row]
    BY <1>9, <2>1, <2>2, InsertType DEF WatchInsert, TypeOK
  <2>4. reqs' \in [Clients -> Request]
    BY <1>9, StepType DEF WatchInsert
  <2>5. QED
    BY <1>9, <2>3, <2>4 DEF WatchInsert, TypeOK, passes, bounds
<1>10. CASE PauseMark(c) \/ DeleteRow(c)
  <2>1. t \in Torrents
    BY <1>10, Handled DEF PauseMark, DeleteRow, Step
  <2>2. MetadataPausedByID(rows[t]) \in Row /\ MetadataTombstoneByID(rows[t]) \in Row
    BY <2>1, RowType, SizeType DEF TypeOK
  <2>3. rows' \in [Torrents -> Row]
    BY <1>10, <2>1, <2>2 DEF PauseMark, DeleteRow, Update, TypeOK
  <2>4. reqs' \in [Clients -> Request]
    BY <1>10, StepType DEF PauseMark, DeleteRow
  <2>5. QED
    BY <1>10, <2>3, <2>4 DEF PauseMark, DeleteRow, TypeOK, passes, bounds
<1>11. CASE DeleteLibrary(c)
  <2>1. reqs' \in [Clients -> Request]
    BY <1>11, StepType DEF DeleteLibrary
  <2>2. library' \in [Torrents -> {"none", "live", "tombstoned"}]
    BY <1>11 DEF DeleteLibrary, TypeOK
  <2>3. QED
    BY <1>11, <2>1, <2>2 DEF DeleteLibrary, TypeOK, db, passes, bounds
<1>12. CASE Return(c)
  <2>1. faults' \in 0 .. MaxFaults /\ inputs' = inputs
    BY <1>12, TorrentsAssumption DEF Return, Fault, TypeOK
  <2>2. t \in Torrents
    BY <1>12 DEF Return, RequestsTyped
  <2>3. QED
    BY <1>12, <2>1, <2>2, NoRequestType DEF Return, TypeOK, db, passes
<1>13. QED
  BY <1>1, <1>2, <1>3, <1>4, <1>5, <1>6, <1>7, <1>8, <1>9, <1>10, <1>11, <1>12
  DEF Handlers
LEMMA ResumeTypes ==
    ASSUME TypeOK, NEW r \in Resumers, ResumeDownloads(r)
    PROVE  TypeOK'
<1> DEFINE t == resume[r].t
<1>0. resume[r] \in Resume /\ Passive \in Resume
  BY DEF TypeOK, Passive, Resume
<1>1. CASE ResumeQuery(r)
  <2>1. MetadataSearch(Resumable) \subseteq Torrents
    BY DEF MetadataSearch, TypeOK
  <2>2. [Passive EXCEPT !.todo = MetadataSearch(Resumable)] \in Resume
    BY <2>1 DEF Passive, Resume
  <2>3. QED
    BY <1>1, <2>2 DEF ResumeQuery, TypeOK, db, bounds
<1>2. ASSUME NEW x \in Torrents, ResumeFind(r, x) PROVE TypeOK'
  <2> DEFINE n == [resume[r] EXCEPT !.todo = @ \ {x}, !.t = x, !.added = (x \notin running)]
  <2>1. resume' = [resume EXCEPT ![r] = n] /\ Begins(x)
    BY <1>2 DEF ResumeFind
  <2>2. n \in Resume
    BY <1>0 DEF Resume
  <2> HIDE DEF n
  <2>3. resume' \in [Resumers -> Resume] /\ excused' \subseteq Torrents
    BY <2>1, <2>2 DEF Begins, TypeOK
  <2>4. QED
    BY <1>2, <2>3 DEF ResumeFind, TypeOK, db, bounds
<1>3. ASSUME NEW j \in Jobs, ResumeStart(r, j) PROVE TypeOK'
  <2> DEFINE n == [resume[r] EXCEPT !.t = None, !.added = FALSE]
  <2>1. resume' = [resume EXCEPT ![r] = n] /\ t # None
    BY <1>3 DEF ResumeStart
  <2>2. n \in Resume /\ t \in Torrents
    BY <1>0, <2>1 DEF Resume
  <2> HIDE DEF n
  <2>3. MetadataScan(rows[t]) \in 0 .. Size
    BY <2>2, RowType, SizeType DEF TypeOK
  <2>4. jobs' \in [Jobs -> Job]
    BY <1>3, <2>2, <2>3, GoType DEF ResumeStart, TypeOK
  <2>5. QED
    BY <1>3, <2>1, <2>2, <2>4 DEF ResumeStart, TypeOK, db, bounds
<1>4. CASE ResumeFails(r)
  <2> DEFINE n == [resume[r] EXCEPT !.t = None, !.added = FALSE]
  <2>1. /\ resume' \in {[resume EXCEPT ![r] = n], [resume EXCEPT ![r] = Passive]}
        /\ excused' \subseteq excused \cup {t} \cup resume[r].todo
        /\ t # None
    BY <1>4 DEF ResumeFails
  <2>2. n \in Resume /\ t \in Torrents /\ resume[r].todo \subseteq Torrents
    BY <1>0, <2>1 DEF Resume
  <2> HIDE DEF n
  <2>3. faults' \in 0 .. MaxFaults /\ inputs' = inputs
    BY <1>4, TorrentsAssumption DEF ResumeFails, Fault, TypeOK
  <2>4. resume' \in [Resumers -> Resume] /\ excused' \subseteq Torrents
    BY <1>0, <2>1, <2>2 DEF TypeOK
  <2>5. QED
    BY <1>4, <2>3, <2>4 DEF ResumeFails, TypeOK, db
<1>5. QED
  BY <1>1, <1>2, <1>3, <1>4 DEF ResumeDownloads

LEMMA FeedTypes ==
    ASSUME TypeOK, FeedMark \/ FeedFails \/ \E t \in Torrents : FeedItem(t)
    PROVE  TypeOK'
<1>0. resume["feed"] \in Resume /\ "feed" \in Resumers
  BY DEF TypeOK, Resumers
<1>r. \A b \in BOOLEAN : [resume["feed"] EXCEPT !.due = b] \in Resume
  BY <1>0 DEF Resume
<1>1. ASSUME NEW t \in Torrents, FeedItem(t) PROVE TypeOK'
  <2>1. listed' \subseteq Torrents /\ rows' \in [Torrents -> Row]
    <3>1. PICK b \in {0, Size} : MetadataInsertWithDefaults(t, NewMetadata(b, 0, FALSE))
      BY <1>1 DEF FeedItem
    <3>2. NewMetadata(b, 0, FALSE) \in Row
      BY SizeType, NewRowType
    <3>3. QED
      BY <3>1, <3>2, InsertType DEF TypeOK
  <2>2. resume' \in [Resumers -> Resume]
    BY <1>1, <1>r DEF FeedItem, TypeOK
  <2>3. inputs' \in 0 .. MaxInputs /\ faults' = faults
    BY <1>1, TorrentsAssumption DEF FeedItem, Input, TypeOK
  <2>4. feed' \in Torrents \cup {None} /\ excused' \subseteq Torrents
    BY <1>1 DEF FeedItem, Begins, TypeOK
  <2>5. QED
    BY <1>1, <2>1, <2>2, <2>3, <2>4 DEF FeedItem, TypeOK
<1>2. CASE FeedMark
  <2>1. feed \in Torrents
    BY <1>2 DEF FeedMark, TypeOK
  <2>2. MetadataAutoDownloadByID(rows[feed]) \in Row
    BY <2>1, RowType, SizeType DEF TypeOK
  <2>3. rows' \in [Torrents -> Row]
    BY <1>2, <2>1, <2>2 DEF FeedMark, Update, TypeOK
  <2>4. QED
    BY <1>2, <2>3 DEF FeedMark, TypeOK, bounds
<1>3. CASE FeedFails
  <2>1. resume' \in [Resumers -> Resume]
    BY <1>3, <1>r DEF FeedFails, TypeOK
  <2>2. faults' \in 0 .. MaxFaults /\ inputs' = inputs
    BY <1>3, TorrentsAssumption DEF FeedFails, Fault, TypeOK
  <2>3. QED
    BY <1>3, <2>1, <2>2 DEF FeedFails, TypeOK, db
<1>4. QED
  BY <1>1, <1>2, <1>3

LEMMA VerifyTypes ==
    ASSUME TypeOK, VerifyQuery \/ VerifyRecord \/ \E t \in Torrents : VerifyStart(t)
    PROVE  TypeOK'
<1> DEFINE V == [due : BOOLEAN, todo : SUBSET Torrents, t : Torrents \cup {None}]
<1>0. verify \in V
  BY DEF TypeOK
<1>1. CASE VerifyQuery
  <2>1. MetadataSearch(Unverified) \subseteq Torrents
    BY DEF MetadataSearch, TypeOK
  <2>2. verify' \in V
    BY <1>1, <2>1 DEF VerifyQuery
  <2>3. QED
    BY <1>1, <2>2 DEF VerifyQuery, TypeOK, db, bounds
<1>2. ASSUME NEW t \in Torrents, VerifyStart(t) PROVE TypeOK'
  <2>1. verify' \in V
    BY <1>0, <1>2 DEF VerifyStart
  <2>2. QED
    BY <1>2, <2>1 DEF VerifyStart, TypeOK, db, bounds
<1>3. CASE VerifyRecord
  <2>1. verify' \in V
    BY <1>0, <1>3 DEF VerifyRecord
  <2>2. verify.t \in Torrents
    BY <1>0, <1>3 DEF VerifyRecord
  <2>3. MetadataVerifyByID(rows[verify.t], have[verify.t]) \in Row
    BY <2>2, RowType DEF TypeOK
  <2>4. rows' \in [Torrents -> Row]
    BY <1>3, <2>2, <2>3 DEF VerifyRecord, Update, TypeOK
  <2>5. QED
    BY <1>3, <2>1, <2>4 DEF VerifyRecord, TypeOK, bounds
<1>4. QED
  BY <1>1, <1>2, <1>3

LEMMA RestartType ==
    ASSUME TypeOK, Restart
    PROVE  TypeOK'
<1>1. faults' \in 0 .. MaxFaults /\ inputs' = inputs
  BY TorrentsAssumption DEF Restart, Fault, TypeOK
<1>2. \A b \in BOOLEAN : [Passive EXCEPT !.due = b] \in Resume
  BY DEF Passive, Resume
<1>3. /\ jobs' \in [Jobs -> Job] /\ reqs' \in [Clients -> Request]
      /\ resume' \in [Resumers -> Resume]
  BY <1>2, NoJobType, NoRequestType DEF Restart, Booted
<1>4. /\ verify' \in [due : BOOLEAN, todo : SUBSET Torrents, t : Torrents \cup {None}]
      /\ running' = {} /\ feed' = None
  BY DEF Restart, Booted
<1>5. QED
  BY <1>1, <1>3, <1>4 DEF Restart, TypeOK, db

LEMMA RequestsNamed ==
    ASSUME TypeOK, RequestsTyped, [Next]_vars
    PROVE  RequestsTyped'
<1>0. RequestsTyped
  OBVIOUS
<1>1. ASSUME NEW c \in Clients, NEW t \in Torrents, NEW a \in BOOLEAN,
             NEW op \in {"start", "download", "watched", "pause", "shelf"},
             Enter(c, t, op, a)
      PROVE  RequestsTyped'
  BY <1>1 DEF Enter, RequestsTyped, TypeOK
<1>2. ASSUME NEW c \in Clients, NEW from, NEW to \in {"idle", "follow", "delete"},
             Step(c, from, to), from # "idle"
      PROVE  RequestsTyped'
  <2>1. reqs[c].t \in Torrents /\ reqs[c] \in Request
    BY <1>2, Handled DEF Step, TypeOK
  <2>2. reqs'[c] = NoRequest \/ (reqs'[c].op = to /\ to # "idle" /\ reqs'[c].t = reqs[c].t)
    BY <1>2, <2>1 DEF Step, Request, TypeOK
  <2>3. \A d \in Clients \ {c} : reqs'[d] = reqs[d]
    BY <1>2 DEF Step, TypeOK
  <2>4. QED
    BY <2>1, <2>2, <2>3 DEF RequestsTyped
<1>3. ASSUME NEW c \in Clients, NEW j \in Jobs, DownloadStart(c, j) PROVE RequestsTyped'
  <2>1. reqs[c].t \in Torrents /\ reqs[c] \in Request
    BY <1>3, Handled DEF DownloadStart, TypeOK
  <2>2. reqs'[c].op = "mark" /\ reqs'[c].t = reqs[c].t
    BY <1>3, <2>1 DEF DownloadStart, Request, TypeOK
  <2>3. \A d \in Clients \ {c} : reqs'[d] = reqs[d]
    BY <1>3 DEF DownloadStart, TypeOK
  <2>4. QED
    BY <2>1, <2>2, <2>3 DEF RequestsTyped
<1>4. ASSUME NEW c \in Clients, Return(c) PROVE RequestsTyped'
  BY <1>4 DEF Return, RequestsTyped, TypeOK
<1>5. CASE Restart
  BY <1>5 DEF Restart, Booted, RequestsTyped
<1>6. CASE UNCHANGED reqs
  BY <1>6 DEF RequestsTyped
<1>7. ASSUME NEW c \in Clients, Handlers(c) PROVE RequestsTyped'
  <2>1. ASSUME NEW t \in Torrents,
               \/ Add(c, t) \/ DownloadFind(c, t) \/ WatchStart(c, t)
               \/ PauseStop(c, t) \/ DeleteStop(c, t)
        PROVE  RequestsTyped'
    BY <1>1, <2>1 DEF Add, DownloadFind, WatchStart, PauseStop, DeleteStop
  <2>2. ASSUME \/ DownloadMark(c) \/ WatchInsert(c) \/ PauseMark(c) \/ DeleteLibrary(c)
               \/ DeleteRow(c) \/ \E j \in Jobs : AddStart(c, j) \/ WatchFollow(c, j)
        PROVE  RequestsTyped'
    BY <1>2, <2>2 DEF DownloadMark, WatchInsert, PauseMark, DeleteLibrary, DeleteRow,
                      AddStart, WatchFollow
  <2>3. ASSUME NEW t \in Torrents, Publish(c, t) PROVE RequestsTyped'
    BY <1>6, <2>3 DEF Publish
  <2>4. QED
    BY <1>3, <1>4, <1>7, <2>1, <2>2, <2>3 DEF Handlers
<1>8. QED
  BY <1>5, <1>6, <1>7
  DEF Next, Receive, Lose, FeedItem, VerifyStart, DownloadJob, DownloadProgress,
      Downloaded, Transfer, Complete, JobFails, ResumeDownloads, ResumeQuery, ResumeFind,
      ResumeStart, ResumeFails, FeedMark, FeedFails, VerifyQuery, VerifyRecord, vars

LEMMA TypeNext ==
    TypeOK /\ RequestsTyped /\ [Next]_vars => TypeOK' /\ RequestsTyped'
<1> SUFFICES ASSUME TypeOK, RequestsTyped, [Next]_vars PROVE TypeOK'
  BY RequestsNamed
<1>1. ASSUME NEW t \in Torrents, Receive(t) PROVE TypeOK'
  <2>1. have' \in [Torrents -> 0 .. Size]
    BY <1>1, TorrentsAssumption DEF Receive, TypeOK
  <2>2. QED
    BY <1>1, <2>1 DEF Receive, TypeOK, db, passes, bounds
<1>2. ASSUME NEW t \in Torrents, Lose(t) PROVE TypeOK'
  <2>1. have' \in [Torrents -> 0 .. Size]
    BY <1>2, SizeType DEF Lose, TypeOK
  <2>2. faults' \in 0 .. MaxFaults /\ inputs' = inputs
    BY <1>2, TorrentsAssumption DEF Lose, Fault, TypeOK
  <2>3. QED
    BY <1>2, <2>1, <2>2 DEF Lose, TypeOK, db, passes
<1>3. CASE UNCHANGED vars
  BY <1>3 DEF vars, TypeOK
<1>4. QED
  BY <1>1, <1>2, <1>3, HandlerTypes, JobTypes, ResumeTypes, FeedTypes, VerifyTypes,
     RestartType
  DEF Next

\* The rows, the goroutines and the passes have their types: counts stay within a
\* torrent's size and no more inputs and faults are taken than there are.
THEOREM TypeCorrect == Spec => []TypeOK
  BY TypeInit, TypeNext, PTL DEF Spec
-----------------------------------------------------------------------------
(* What a row says of a torrent that is done *)

\* a job that is about to complete its torrent has put it into the library
CompletesShelved ==
    \A j \in Jobs : jobs[j].step = "complete" /\ jobs[j].t \in Torrents
                      => library[jobs[j].t] # "none"

DoneInv == CompletesShelved /\ DoneIsDone

\* the rows that the steps leave alone or write
LEMMA RowWrites ==
    ASSUME NEW r \in Row, NEW n \in 0 .. Size,
           r.seeding => r.downloaded = r.bytes
    PROVE  /\ LET x == MetadataProgressByID(r, n)
              IN  (x.seeding => x.downloaded = x.bytes) /\ (x.verify => r.verify)
           /\ LET x == MetadataVerifyByID(r, n)
              IN  (x.seeding => x.downloaded = x.bytes) /\ ~x.verify
           /\ LET x == MetadataCompleteByID(r, n)
              IN  x.seeding => x.downloaded = x.bytes
           /\ \A x \in {MetadataPausedByID(r), MetadataDownloadByID(r),
                       MetadataAutoDownloadByID(r), MetadataTombstoneByID(r)} :
                (x.seeding => x.downloaded = x.bytes) /\ (x.verify => r.verify)
  BY DEF Row, MetadataProgressByID, MetadataVerifyByID, MetadataCompleteByID,
         MetadataPausedByID, MetadataDownloadByID, MetadataAutoDownloadByID,
         MetadataTombstoneByID

\* a step that rewrites one row and takes nothing from the library
LEMMA DoneUpdate ==
    ASSUME TypeOK, DoneIsDone, NEW t \in Torrents, NEW r, Update(t, r),
           library' = library,
           r.seeding => r.downloaded = r.bytes,
           r.verify => rows[t].verify \/ library[t] # "none"
    PROVE  DoneIsDone'
<1>1. rows'[t] = r /\ \A x \in Torrents \ {t} : rows'[x] = rows[x]
  BY DEF Update, TypeOK
<1>2. QED
  BY <1>1 DEF DoneIsDone, SeedingIsComplete, CompletedIsShelved

LEMMA DoneInsert ==
    ASSUME TypeOK, DoneIsDone, NEW t \in Torrents, NEW b, NEW d, NEW s \in BOOLEAN,
           s => b = d, MetadataInsertWithDefaults(t, NewMetadata(b, d, s)),
           library' = library
    PROVE  DoneIsDone'
<1>1. CASE t \in listed
  <2>1. rows' = rows
    BY <1>1 DEF MetadataInsertWithDefaults, TypeOK
  <2>2. QED
    BY <2>1 DEF DoneIsDone, SeedingIsComplete, CompletedIsShelved
<1>2. CASE t \notin listed
  <2> DEFINE r == NewMetadata(b, d, s)
  <2>1. Update(t, r)
    BY <1>2 DEF MetadataInsertWithDefaults, Update
  <2>2. r.seeding = s /\ r.bytes = b /\ r.downloaded = d /\ ~r.verify
    BY DEF NewMetadata
  <2> HIDE DEF r
  <2>3. QED
    BY <2>1, <2>2, DoneUpdate
<1>3. QED
  BY <1>1, <1>2

LEMMA DoneJobs ==
    ASSUME TypeOK, DoneInv, NEW j \in Jobs, DownloadJob(j)
    PROVE  DoneInv'
<1> DEFINE t == jobs[j].t
<1>0. jobs[j] \in Job
  BY DEF TypeOK
<1>n. NoJob.step = "idle"
  BY DEF NoJob
<1>1. CASE DownloadProgress(j)
  <2> DEFINE n == BytesCompleted(jobs[j])
             r == MetadataProgressByID(rows[t], n)
             js == [jobs EXCEPT ![j].md = MetadataScan(r)]
  <2>1. t # None /\ Update(t, r) /\ jobs' = Tidy(js) /\ library' = library
    BY <1>1 DEF DownloadProgress
  <2>2. t \in Torrents
    BY <1>0, <2>1, JobType, SizeType
  <2>3. n \in 0 .. Size
    BY <1>0, <2>2, JobType, SizeType DEF BytesCompleted, TypeOK
  <2>4. (r.seeding => r.downloaded = r.bytes) /\ (r.verify => rows[t].verify)
    BY <2>2, <2>3, RowWrites DEF TypeOK, DoneInv, DoneIsDone, SeedingIsComplete
  <2> HIDE DEF r, n
  <2>5. DoneIsDone'
    BY <2>1, <2>2, <2>4, DoneUpdate DEF DoneInv
  <2>6. \A i \in Jobs : js[i].step = jobs[i].step /\ js[i].t = jobs[i].t
    BY <1>0 DEF Job, TypeOK
  <2>7. \A i \in Jobs : jobs'[i] = NoJob
                        \/ (jobs'[i].step = jobs[i].step /\ jobs'[i].t = jobs[i].t)
    BY <2>1, <2>6 DEF Tidy
  <2>8. QED
    BY <1>n, <2>1, <2>5, <2>7 DEF DoneInv, CompletesShelved
<1>2. CASE Downloaded(j)
  <2>1. /\ \A i \in Jobs \ {j} : jobs'[i] = jobs[i]
        /\ jobs'[j].step = "import"
        /\ UNCHANGED <<rows, library>>
    BY <1>0, <1>2 DEF Downloaded, TypeOK, Job, db
  <2>2. QED
    BY <2>1 DEF DoneInv, CompletesShelved, DoneIsDone, SeedingIsComplete, CompletedIsShelved
<1>3. CASE Transfer(j)
  <2>1. /\ \A i \in Jobs : jobs'[i].t = jobs[i].t
        /\ \A i \in Jobs \ {j} : jobs'[i] = jobs[i]
        /\ UNCHANGED rows
    BY <1>0, <1>3 DEF Transfer, TypeOK, Job, db
  <2>2. /\ \A x \in Torrents : library[x] # "none" => library'[x] # "none"
        /\ t \in Torrents => library'[t] # "none"
    BY <1>3 DEF Transfer, TypeOK
  <2>3. QED
    BY <2>1, <2>2 DEF DoneInv, CompletesShelved, DoneIsDone, SeedingIsComplete,
                      CompletedIsShelved
<1>4. CASE Complete(j)
  <2> DEFINE r == MetadataCompleteByID(rows[t], Size)
  <2>1. /\ jobs[j].step = "complete" /\ Update(t, r) /\ library' = library
        /\ jobs' = [jobs EXCEPT ![j] = NoJob]
    BY <1>4 DEF Complete
  <2>2. CompletesShelved'
    BY <1>n, <2>1 DEF DoneInv, CompletesShelved, TypeOK
  <2>3. CASE t \in Torrents
    <3>1. r.seeding => r.downloaded = r.bytes
      BY <2>3, RowWrites, SizeType DEF TypeOK, DoneInv, DoneIsDone, SeedingIsComplete
    <3>2. library[t] # "none"
      BY <2>1, <2>3 DEF DoneInv, CompletesShelved
    <3> HIDE DEF r
    <3>3. QED
      BY <2>1, <2>2, <2>3, <3>1, <3>2, DoneUpdate DEF DoneInv
  <2>4. CASE t \notin Torrents
    <3>1. rows' = rows
      BY <2>1, <2>4 DEF Update, TypeOK
    <3>2. QED
      BY <2>1, <2>2, <3>1 DEF DoneInv, DoneIsDone, SeedingIsComplete, CompletedIsShelved
  <2>5. QED
    BY <2>3, <2>4
<1>5. CASE JobFails(j)
  BY <1>5, <1>n DEF JobFails, TypeOK, DoneInv, CompletesShelved, DoneIsDone,
                    SeedingIsComplete, CompletedIsShelved, db
<1>6. QED
  BY <1>1, <1>2, <1>3, <1>4, <1>5 DEF DownloadJob
\* no job gets further by what the rest of the program does to the jobs
NoneCompletes ==
    \A i \in Jobs : jobs'[i].step = "complete" =>
                       jobs[i].step = "complete" /\ jobs'[i].t = jobs[i].t

LEMMA StopKeeps == ASSUME TypeOK, NEW t \in Torrents, Stop(t) PROVE NoneCompletes
<1> DEFINE js == [j \in Jobs |-> IF jobs[j].t = t /\ jobs[j].live
                                 THEN [jobs[j] EXCEPT !.live = FALSE, !.at = have[t]]
                                 ELSE jobs[j]]
<1>1. \A i \in Jobs : js[i].step = jobs[i].step /\ js[i].t = jobs[i].t
  BY DEF TypeOK, Job
<1>2. jobs' = Tidy(js) /\ NoJob.step = "idle"
  BY DEF Stop, NoJob
<1>3. QED
  BY <1>1, <1>2 DEF Tidy, NoneCompletes

LEMMA GoKeeps ==
    ASSUME TypeOK, NEW t, NEW md, NEW j \in Jobs, Go(t, j, md) \/ UNCHANGED jobs
    PROVE  NoneCompletes
  BY DEF Go, TypeOK, NoneCompletes

LEMMA DoneHandlers ==
    ASSUME TypeOK, RequestsTyped, DoneInv, NEW c \in Clients, Handlers(c)
    PROVE  DoneInv'
<1> DEFINE t == reqs[c].t
<1>s. ASSUME NoneCompletes, DoneIsDone',
             \A x \in Torrents : library[x] # "none" => library'[x] # "none"
      PROVE  DoneInv'
  BY <1>s DEF NoneCompletes, DoneInv, CompletesShelved
<1>u. ASSUME UNCHANGED <<rows, library>> PROVE DoneIsDone'
  BY <1>u DEF DoneInv, DoneIsDone, SeedingIsComplete, CompletedIsShelved
<1>j. ASSUME UNCHANGED jobs PROVE NoneCompletes
  BY <1>j DEF NoneCompletes
<1>1. ASSUME NEW x \in Torrents, Add(c, x) PROVE DoneInv'
  <2>1. PICK b \in {0, Size} : MetadataInsertWithDefaults(x, NewMetadata(b, 0, FALSE))
    BY <1>1 DEF Add
  <2>2. UNCHANGED <<jobs, library>>
    BY <1>1 DEF Add
  <2>3. DoneIsDone'
    BY <2>1, <2>2, DoneInsert DEF DoneInv
  <2>4. QED
    BY <1>s, <1>j, <2>2, <2>3
<1>2. ASSUME NEW x \in Torrents, Publish(c, x) PROVE DoneInv'
  <2>1. /\ MetadataInsertWithDefaults(x, NewMetadata(Size, Size, TRUE))
        /\ UNCHANGED <<jobs, library>>
    BY <1>2 DEF Publish
  <2>2. DoneIsDone'
    BY <2>1, DoneInsert DEF DoneInv
  <2>3. QED
    BY <1>s, <1>j, <2>1, <2>2
<1>3. ASSUME NEW x \in Torrents, DownloadFind(c, x) \/ WatchStart(c, x) PROVE DoneInv'
  BY <1>3, <1>s, <1>j, <1>u DEF DownloadFind, WatchStart, db
<1>4. ASSUME NEW x \in Torrents, PauseStop(c, x) \/ DeleteStop(c, x) PROVE DoneInv'
  BY <1>4, <1>s, <1>u, StopKeeps DEF PauseStop, DeleteStop, db
<1>5. ASSUME NEW j \in Jobs, AddStart(c, j) \/ DownloadStart(c, j) PROVE DoneInv'
  <2>1. /\ UNCHANGED <<rows, library>>
        /\ Go(t, j, MetadataScan(rows[t])) \/ UNCHANGED jobs
    BY <1>5 DEF AddStart, DownloadStart, db
  <2>2. NoneCompletes
    BY <2>1, GoKeeps
  <2>3. QED
    BY <1>s, <1>u, <2>1, <2>2
<1>6. ASSUME \/ DownloadMark(c) \/ PauseMark(c) \/ DeleteRow(c)
             \/ \E j \in Jobs : WatchFollow(c, j)
      PROVE  DoneInv'
  <2>1. t \in Torrents
    BY <1>6, Handled DEF DownloadMark, PauseMark, DeleteRow, WatchFollow, Step
  <2>2. PICK r \in {MetadataPausedByID(rows[t]), MetadataDownloadByID(rows[t]),
                    MetadataAutoDownloadByID(rows[t]), MetadataTombstoneByID(rows[t])} :
          Update(t, r)
    BY <1>6 DEF DownloadMark, PauseMark, DeleteRow, WatchFollow
  <2>3. (r.seeding => r.downloaded = r.bytes) /\ (r.verify => rows[t].verify)
    BY <2>1, <2>2, RowWrites, SizeType DEF TypeOK, DoneInv, DoneIsDone, SeedingIsComplete
  <2>4. library' = library
    BY <1>6 DEF DownloadMark, PauseMark, DeleteRow, WatchFollow
  <2>5. DoneIsDone'
    BY <2>1, <2>2, <2>3, <2>4, DoneUpdate DEF DoneInv
  <2>6. NoneCompletes
    <3>1. CASE DownloadMark(c)
      <4>1. \A i \in Jobs : jobs'[i].step = jobs[i].step /\ jobs'[i].t = jobs[i].t
        BY <3>1 DEF DownloadMark, TypeOK, Job
      <4>2. QED
        BY <4>1 DEF NoneCompletes
    <3>2. CASE PauseMark(c) \/ DeleteRow(c)
      BY <1>j, <3>2 DEF PauseMark, DeleteRow
    <3>3. ASSUME NEW j \in Jobs, WatchFollow(c, j) PROVE NoneCompletes
      BY <3>3, GoKeeps DEF WatchFollow
    <3>4. QED
      BY <1>6, <3>1, <3>2, <3>3
  <2>7. QED
    BY <1>s, <2>4, <2>5, <2>6
<1>7. CASE WatchInsert(c)
  <2>1. t \in Torrents
    BY <1>7, Handled DEF WatchInsert, Step
  <2>2. /\ MetadataInsertWithDefaults(t, NewMetadata(Size, 0, FALSE))
        /\ UNCHANGED <<jobs, library>>
    BY <1>7 DEF WatchInsert
  <2>3. DoneIsDone'
    BY <2>1, <2>2, DoneInsert DEF DoneInv
  <2>4. QED
    BY <1>s, <1>j, <2>2, <2>3
<1>8. CASE DeleteLibrary(c)
  <2>1. /\ \A x \in Torrents : library[x] # "none" => library'[x] # "none"
        /\ UNCHANGED <<rows, jobs>>
    BY <1>8 DEF DeleteLibrary, TypeOK, db
  <2>2. DoneIsDone'
    BY <2>1 DEF DoneInv, DoneIsDone, SeedingIsComplete, CompletedIsShelved
  <2>3. QED
    BY <1>s, <1>j, <2>1, <2>2
<1>9. CASE Return(c)
  BY <1>9, <1>s, <1>j, <1>u DEF Return, db
<1>10. QED
  BY <1>1, <1>2, <1>3, <1>4, <1>5, <1>6, <1>7, <1>8, <1>9 DEF Handlers

LEMMA DoneNext == TypeOK /\ RequestsTyped /\ DoneInv /\ [Next]_vars => DoneInv'
<1> SUFFICES ASSUME TypeOK, RequestsTyped, DoneInv, [Next]_vars PROVE DoneInv'
  OBVIOUS
<1>s. ASSUME NoneCompletes, DoneIsDone', UNCHANGED library PROVE DoneInv'
  BY <1>s DEF NoneCompletes, DoneInv, CompletesShelved
<1>u. ASSUME UNCHANGED <<rows, library>> PROVE DoneIsDone'
  BY <1>u DEF DoneInv, DoneIsDone, SeedingIsComplete, CompletedIsShelved
<1>j. ASSUME UNCHANGED jobs PROVE NoneCompletes
  BY <1>j DEF NoneCompletes
<1>1. ASSUME NEW t \in Torrents, FeedItem(t) PROVE DoneInv'
  <2>1. PICK b \in {0, Size} : MetadataInsertWithDefaults(t, NewMetadata(b, 0, FALSE))
    BY <1>1 DEF FeedItem
  <2>2. UNCHANGED <<jobs, library>>
    BY <1>1 DEF FeedItem
  <2>3. DoneIsDone'
    BY <2>1, <2>2, DoneInsert DEF DoneInv
  <2>4. QED
    BY <1>s, <1>j, <2>2, <2>3
<1>2. CASE FeedMark
  <2> DEFINE r == MetadataAutoDownloadByID(rows[feed])
  <2>1. feed \in Torrents /\ Update(feed, r) /\ UNCHANGED <<jobs, library>>
    BY <1>2 DEF FeedMark, TypeOK
  <2>2. (r.seeding => r.downloaded = r.bytes) /\ (r.verify => rows[feed].verify)
    BY <2>1, RowWrites, SizeType DEF TypeOK, DoneInv, DoneIsDone, SeedingIsComplete
  <2> HIDE DEF r
  <2>3. QED
    BY <1>s, <1>j, <2>1, <2>2, DoneUpdate DEF DoneInv
<1>3. CASE VerifyRecord
  <2> DEFINE t == verify.t
             r == MetadataVerifyByID(rows[t], have[t])
  <2>1. /\ t \in Torrents
        /\ Update(t, r) \/ UNCHANGED rows
        /\ UNCHANGED <<jobs, library>>
    BY <1>3 DEF VerifyRecord, TypeOK
  <2>2. (r.seeding => r.downloaded = r.bytes) /\ ~r.verify
    BY <2>1, RowWrites DEF TypeOK, DoneInv, DoneIsDone, SeedingIsComplete
  <2> HIDE DEF r
  <2>3. QED
    BY <1>s, <1>j, <1>u, <2>1, <2>2, DoneUpdate DEF DoneInv
<1>4. ASSUME NEW r \in Resumers, ResumeDownloads(r) PROVE DoneInv'
  <2>1. ASSUME NEW j \in Jobs, ResumeStart(r, j) PROVE NoneCompletes
    BY <2>1, GoKeeps DEF ResumeStart
  <2>2. NoneCompletes /\ UNCHANGED <<rows, library>>
    BY <1>4, <1>j, <2>1 DEF ResumeDownloads, ResumeQuery, ResumeFind, ResumeStart,
                            ResumeFails, db
  <2>3. QED
    BY <1>s, <1>u, <2>2
<1>5. CASE Restart
  <2>1. NoneCompletes /\ UNCHANGED <<rows, library>>
    BY <1>5 DEF Restart, Booted, NoneCompletes, NoJob, db
  <2>2. QED
    BY <1>s, <1>u, <2>1
<1>6. CASE UNCHANGED <<rows, library, jobs>>
  BY <1>6, <1>s, <1>u, <1>j
<1>7. QED
  BY <1>1, <1>2, <1>3, <1>4, <1>5, <1>6, DoneHandlers, DoneJobs
  DEF Next, Receive, Lose, VerifyStart, FeedFails, VerifyQuery, vars, db

\* A row says seeding only of what is whole and was completed only when it is in the
\* library, wherever the writes of any number of Download goroutines, handlers,
\* passes and restarts come between one another.
THEOREM DoneStaysDone == Spec => []DoneIsDone
<1>1. Init => DoneInv
  BY DEF Init, DoneInv, CompletesShelved, DoneIsDone, SeedingIsComplete,
         CompletedIsShelved, NewMetadata, NoJob
<1>2. DoneInv => DoneIsDone
  BY DEF DoneInv
<1>3. QED
  BY <1>1, <1>2, TypeInit, TypeNext, DoneNext, PTL DEF Spec
-----------------------------------------------------------------------------
(* The shelf's promise *)

LEMMA ShelfStep ==
    TypeOK /\ RequestsTyped /\ [Next]_vars => [Promise!ShelfNext]_<<have, library>>
<1> SUFFICES ASSUME TypeOK, RequestsTyped, Next
             PROVE  Promise!ShelfNext \/ UNCHANGED <<have, library>>
  BY DEF vars
<1>c. ASSUME NEW t \in Torrents, NEW n \in 0 .. Size, have' = [have EXCEPT ![t] = n],
             UNCHANGED library
      PROVE  Promise!ShelfNext
  BY <1>c DEF Promise!ShelfNext, Promise!Change
<1>1. ASSUME NEW t \in Torrents, Receive(t) \/ Lose(t) PROVE Promise!ShelfNext
  <2>1. have[t] \in 0 .. Size
    BY DEF TypeOK
  <2>2. PICK n \in 0 .. Size : have' = [have EXCEPT ![t] = n]
    BY <1>1, <2>1, TorrentsAssumption DEF Receive, Lose
  <2>3. QED
    BY <1>c, <1>1, <2>2 DEF Receive, Lose
<1>2. ASSUME NEW c \in Clients, NEW t \in Torrents, Publish(c, t) PROVE Promise!ShelfNext
  BY <1>c, <1>2, SizeType DEF Publish
<1>3. ASSUME NEW j \in Jobs, Transfer(j)
      PROVE  Promise!ShelfNext \/ UNCHANGED <<have, library>>
  <2> DEFINE t == jobs[j].t
  <2>1. /\ have[t] = Size /\ UNCHANGED have
        /\ library' = [library EXCEPT ![t] = IF @ = "none" THEN "live" ELSE @]
    BY <1>3 DEF Transfer
  <2>2. CASE t \in Torrents /\ library[t] = "none"
    <3>1. Promise!Put(t)
      BY <2>1, <2>2 DEF Promise!Put
    <3>2. QED
      BY <2>2, <3>1 DEF Promise!ShelfNext
  <2>3. CASE ~(t \in Torrents /\ library[t] = "none")
    BY <2>1, <2>3 DEF TypeOK
  <2>4. QED
    BY <2>2, <2>3
<1>4. ASSUME NEW c \in Clients, DeleteLibrary(c)
      PROVE  Promise!ShelfNext \/ UNCHANGED <<have, library>>
  <2> DEFINE t == reqs[c].t
  <2>1. /\ t \in Torrents /\ UNCHANGED have
        /\ library' = [library EXCEPT ![t] = IF @ = "live" THEN "tombstoned" ELSE @]
    BY <1>4, Handled DEF DeleteLibrary, Step
  <2>2. CASE library[t] = "live"
    <3>1. Promise!Remove(t)
      BY <2>1, <2>2 DEF Promise!Remove
    <3>2. QED
      BY <2>1, <3>1 DEF Promise!ShelfNext
  <2>3. CASE library[t] # "live"
    BY <2>1, <2>3 DEF TypeOK
  <2>4. QED
    BY <2>2, <2>3
<1>5. CASE \E t \in Torrents : Receive(t) \/ Lose(t) \/ FeedItem(t) \/ VerifyStart(t)
  BY <1>1, <1>5 DEF FeedItem, VerifyStart
<1>6. ASSUME NEW c \in Clients, Handlers(c)
      PROVE  Promise!ShelfNext \/ UNCHANGED <<have, library>>
  BY <1>2, <1>4, <1>6
  DEF Handlers, Add, DownloadFind, WatchStart, PauseStop, DeleteStop, AddStart,
      DownloadStart, WatchFollow, DownloadMark, WatchInsert, PauseMark, DeleteRow, Return
<1>7. ASSUME NEW j \in Jobs, DownloadJob(j)
      PROVE  Promise!ShelfNext \/ UNCHANGED <<have, library>>
  BY <1>3, <1>7 DEF DownloadJob, DownloadProgress, Downloaded, Complete, JobFails
<1>8. CASE \/ \E r \in Resumers : ResumeDownloads(r)
           \/ FeedMark \/ FeedFails \/ VerifyQuery \/ VerifyRecord \/ Restart
  BY <1>8 DEF ResumeDownloads, ResumeQuery, ResumeFind, ResumeStart, ResumeFails,
      FeedMark, FeedFails, VerifyQuery, VerifyRecord, Restart
<1>9. QED
  BY <1>5, <1>6, <1>7, <1>8 DEF Next

\* Torrents implement Shelf, for any number of torrents, jobs, handlers and faults:
\* content gets to the library only when it is whole, and what a user deleted from
\* it does not come back, although Download goroutines outlive their torrent.
THEOREM ShelfIsKept == Spec => ShelfKept
<1>1. Init => Promise!ShelfInit
  BY DEF Init, Promise!ShelfInit
<1>2. QED
  BY <1>1, ShelfStep, TypeInit, TypeNext, PTL
  DEF Spec, ShelfKept, Promise!ShelfSpec, Promise!shelfVars

-----------------------------------------------------------------------------
(* Who decides what is downloaded *)

\* a step leaves alone what was decided of the torrents, but for x
DecidesOnly(x) ==
    \A t \in listed \ {x} : /\ rows'[t].paused = rows[t].paused
                            /\ rows'[t].initiated = rows[t].initiated

Decisions ==
    \A t \in listed :
        /\ rows'[t].paused # rows[t].paused =>
              \E c \in Clients : reqs[c].t = t /\ reqs'[c] # reqs[c]
        /\ rows'[t].initiated # rows[t].initiated =>
              feed = t \/ \E c \in Clients : reqs[c].t = t /\ reqs'[c] # reqs[c]

LEMMA UpdateDecides ==
    ASSUME TypeOK, NEW x, NEW r, Update(x, r)
    PROVE  DecidesOnly(x)
  BY DEF Update, TypeOK, DecidesOnly

LEMMA InsertDecides ==
    ASSUME TypeOK, NEW x, NEW r, MetadataInsertWithDefaults(x, r)
    PROVE  Decisions
  BY DEF MetadataInsertWithDefaults, TypeOK, Decisions

\* the updates that keep what was decided
LEMMA UpdateKeeps ==
    ASSUME TypeOK, NEW t \in Torrents, NEW r, Update(t, r),
           r.paused = rows[t].paused, r.initiated = rows[t].initiated
    PROVE  Decisions
  BY DEF Update, TypeOK, Decisions

LEMMA RecordsKeep ==
    ASSUME NEW r \in Row, NEW n
    PROVE  \A x \in {MetadataProgressByID(r, n), MetadataVerifyByID(r, n),
                    MetadataCompleteByID(r, n)} :
             x.paused = r.paused /\ x.initiated = r.initiated
  BY DEF Row, MetadataProgressByID, MetadataVerifyByID, MetadataCompleteByID

LEMMA DecisionsStep ==
    TypeOK /\ RequestsTyped /\ [Next]_vars => Decisions \/ UNCHANGED vars
<1> SUFFICES ASSUME TypeOK, RequestsTyped, Next PROVE Decisions
  OBVIOUS
<1>u. ASSUME UNCHANGED rows PROVE Decisions
  BY <1>u DEF Decisions
<1>1. ASSUME NEW c \in Clients, Handlers(c) PROVE Decisions
  <2> DEFINE t == reqs[c].t
  <2>1. CASE \/ \E x \in Torrents : Add(c, x) \/ Publish(c, x)
             \/ WatchInsert(c)
    BY <2>1, InsertDecides DEF Add, Publish, WatchInsert
  <2>2. CASE \/ DownloadMark(c) \/ PauseMark(c) \/ DeleteRow(c)
             \/ \E j \in Jobs : WatchFollow(c, j)
    <3>1. DecidesOnly(t)
      BY <2>2, UpdateDecides DEF DownloadMark, PauseMark, DeleteRow, WatchFollow
    <3>2. reqs'[c] # reqs[c]
      BY <2>2 DEF DownloadMark, PauseMark, DeleteRow, WatchFollow, Step, TypeOK, NoRequest
    <3>3. QED
      BY <3>1, <3>2 DEF DecidesOnly, Decisions
  <2>3. CASE UNCHANGED rows
    BY <1>u, <2>3
  <2>4. QED
    BY <1>1, <2>1, <2>2, <2>3
    DEF Handlers, DownloadFind, WatchStart, PauseStop, DeleteStop, AddStart,
        DownloadStart, DeleteLibrary, Return, db
<1>2. ASSUME NEW j \in Jobs, DownloadProgress(j) PROVE Decisions
  <2>1. jobs[j].t \in Torrents
    BY <1>2, JobType, SizeType DEF DownloadProgress, TypeOK
  <2>2. PICK n : Update(jobs[j].t, MetadataProgressByID(rows[jobs[j].t], n))
    BY <1>2 DEF DownloadProgress
  <2>3. QED
    BY <2>1, <2>2, RecordsKeep, UpdateKeeps DEF TypeOK
<1>3. ASSUME NEW j \in Jobs, Complete(j) PROVE Decisions
  <2> DEFINE t == jobs[j].t
  <2>1. Update(t, MetadataCompleteByID(rows[t], Size))
    BY <1>3 DEF Complete
  <2>2. CASE t \in Torrents
    BY <2>1, <2>2, RecordsKeep, UpdateKeeps DEF TypeOK
  <2>3. CASE t \notin Torrents
    BY <1>u, <2>1, <2>3 DEF Update, TypeOK
  <2>4. QED
    BY <2>2, <2>3
<1>4. CASE VerifyRecord
  <2>1. verify.t \in Torrents
    BY <1>4 DEF VerifyRecord, TypeOK
  <2>2. \/ Update(verify.t, MetadataVerifyByID(rows[verify.t], have[verify.t]))
        \/ UNCHANGED rows
    BY <1>4 DEF VerifyRecord
  <2>3. QED
    BY <1>u, <2>1, <2>2, RecordsKeep, UpdateKeeps DEF TypeOK
<1>5. CASE FeedMark
  <2> DEFINE r == MetadataAutoDownloadByID(rows[feed])
  <2>1. feed \in Torrents /\ Update(feed, r)
    BY <1>5 DEF FeedMark, TypeOK
  <2>2. r.paused = rows[feed].paused
    BY <2>1 DEF MetadataAutoDownloadByID, TypeOK, Row
  <2> HIDE DEF r
  <2>3. QED
    BY <2>1, <2>2 DEF Update, TypeOK, Decisions
<1>6. ASSUME NEW t \in Torrents, FeedItem(t) PROVE Decisions
  BY <1>6, InsertDecides DEF FeedItem
<1>7. CASE UNCHANGED rows
  BY <1>u, <1>7
<1>8. QED
  BY <1>1, <1>2, <1>3, <1>4, <1>5, <1>6, <1>7
  DEF Next, Receive, Lose, DownloadJob, Downloaded, Transfer, JobFails, ResumeDownloads,
      ResumeQuery, ResumeFind, ResumeStart, ResumeFails, FeedFails, VerifyStart,
      VerifyQuery, Restart, db

\* Whatever runs in the background, only a handler of a request or of a watched file
\* pauses a torrent or takes a pause back, and only these and a feed initiate it.
THEOREM UsersDecide == Spec => DecisionsAreTheUsers
  BY TypeInit, TypeNext, DecisionsStep, PTL DEF Spec, DecisionsAreTheUsers, Decisions
-----------------------------------------------------------------------------
(* What is wanted is downloading *)

Handles(c, t, ops) == reqs[c].t = t /\ reqs[c].op \in ops

\* handlers of one torrent exclude one another and the resumers, or it is excused
Alone(t) ==
    \A c \in Clients : reqs[c].t = t =>
        /\ \A d \in Clients : reqs[d].t = t => c = d
        /\ \A r \in Resumers : resume[r].t # t

\* the job that a download handler started and is about to mark was not dropped
MarkedLives(t) ==
    \A c \in Clients : Handles(c, t, {"mark"}) =>
        \A j \in Jobs : reqs[c].job = j /\ jobs[j].t = t => jobs[j].live

NoneForgotten(t) == \A j \in Jobs : jobs[j].t = t => ~Forgotten(jobs[j])

\* a torrent in the client that no job follows is whole, or just being added
FollowedOrWhole(t) ==
    t \in running /\ ~HasJob(t) =>
        \/ ~MetadataQueryIncomplete(rows[t])
        \/ \E c \in Clients : Handles(c, t, {"watched", "follow"})

RunningIsListed(t) ==
    t \in running /\ t \notin listed => \E c \in Clients : Handles(c, t, {"watched"})

\* who found the torrent in the client will find it there
FoundStays(t) ==
    /\ \A c \in Clients : Handles(c, t, {"mark"}) => t \in running
    /\ \A c \in Clients : Handles(c, t, {"download"}) /\ ~reqs[c].added => t \in running
    /\ \A r \in Resumers : resume[r].t = t /\ ~resume[r].added => t \in running

\* someone is about to give the torrent a job, or to say that it is not wanted
Awaited(t) ==
    \/ \E r \in Resumers : \/ resume[r].due
                           \/ t \in resume[r].todo
                           \/ (resume[r].t = t /\ resume[r].added)
    \/ \E c \in Clients :
          \/ Handles(c, t, {"start", "watched", "follow", "pause", "shelf", "delete"})
          \/ (Handles(c, t, {"download"}) /\ reqs[c].added)

WantedIsAwaited(t) ==
    t \in listed /\ Wanted(rows[t]) /\ ~HasJob(t) => Awaited(t)

Good(t) ==
    /\ verify.t # t
    /\ Alone(t)
    /\ MarkedLives(t)
    /\ NoneForgotten(t)
    /\ FollowedOrWhole(t)
    /\ RunningIsListed(t)
    /\ FoundStays(t)
    /\ WantedIsAwaited(t)

\* what holds of excused torrents too
PassesInv ==
    /\ feed # None => resume["feed"].due
    /\ \A r \in Resumers : /\ resume[r].due => (resume[r].todo = {} /\ resume[r].t = None)
                           /\ resume[r].todo \subseteq listed
                           /\ resume[r].t \in listed \cup {None}
    /\ \A c \in Clients : reqs[c].op \notin {"idle", "watched"} => reqs[c].t \in listed

WantedInv == PassesInv /\ \A t \in Torrents \ excused : Good(t)
-----------------------------------------------------------------------------
\* a torrent of which nothing changed
SameRequests(t) ==
    \A c \in Clients : reqs'[c] = reqs[c] \/ (reqs[c].t # t /\ reqs'[c].t # t)
SameJobs(t) ==
    \A j \in Jobs : jobs'[j] = jobs[j] \/ (jobs[j].t # t /\ jobs'[j].t # t)
SameResume(t) ==
    \A r \in Resumers :
        /\ resume'[r].t = t <=> resume[r].t = t
        /\ resume[r].t = t => resume'[r].added = resume[r].added
        /\ (resume[r].due \/ t \in resume[r].todo)
             => (resume'[r].due \/ t \in resume'[r].todo)

LEMMA Untouched ==
    ASSUME NEW t \in Torrents, Good(t), SameRequests(t), SameJobs(t), SameResume(t),
           verify'.t # t, t \in running' <=> t \in running,
           t \in listed' <=> t \in listed, rows'[t] = rows[t]
    PROVE  Good(t)'
<1>1. HasJob(t)' <=> HasJob(t)
  BY DEF SameJobs, HasJob
<1>2. \A c \in Clients : \A ops : Handles(c, t, ops)' <=> Handles(c, t, ops)
  BY DEF SameRequests, Handles
<1>3. Alone(t)'
  BY DEF Good, Alone, SameRequests, SameResume
<1>4. MarkedLives(t)'
  BY DEF Good, MarkedLives, SameRequests, SameJobs, Handles
<1>5. NoneForgotten(t)'
  BY DEF Good, NoneForgotten, SameJobs, Forgotten
<1>6. FollowedOrWhole(t)' /\ RunningIsListed(t)'
  BY <1>1, <1>2 DEF Good, FollowedOrWhole, RunningIsListed
<1>7. FoundStays(t)'
  BY DEF Good, FoundStays, SameRequests, SameResume, Handles
<1>8. WantedIsAwaited(t)'
  <2>1. Awaited(t) => Awaited(t)'
    BY DEF Awaited, SameRequests, SameResume, Handles
  <2>2. QED
    BY <1>1, <2>1 DEF Good, WantedIsAwaited
<1>9. QED
  BY <1>3, <1>4, <1>5, <1>6, <1>7, <1>8 DEF Good

\* a torrent whose jobs change
LEMMA JobsChange ==
    ASSUME NEW t \in Torrents, Good(t),
           UNCHANGED <<reqs, resume, verify, running, listed>>,
           \A j \in Jobs : jobs'[j].t = t =>
               jobs[j].t = t /\ jobs'[j].live = jobs[j].live /\ ~Forgotten(jobs'[j]),
           HasJob(t)' \/ ~MetadataQueryIncomplete(rows'[t])
    PROVE  Good(t)'
<1>1. Alone(t)' /\ RunningIsListed(t)' /\ FoundStays(t)' /\ verify'.t # t
  BY DEF Good, Alone, RunningIsListed, FoundStays, Handles
<1>2. MarkedLives(t)' /\ NoneForgotten(t)'
  BY DEF Good, MarkedLives, NoneForgotten, Handles, Forgotten
<1>3. FollowedOrWhole(t)' /\ WantedIsAwaited(t)'
  BY DEF FollowedOrWhole, WantedIsAwaited, Wanted
<1>4. QED
  BY <1>1, <1>2, <1>3 DEF Good

LEMMA WantedJobs ==
    ASSUME TypeOK, NEW j \in Jobs, DownloadJob(j),
           NEW t \in Torrents \ excused', Good(t)
    PROVE  Good(t)'
<1> DEFINE x == jobs[j].t
<1>0. jobs[j] \in Job /\ t # None /\ NoJob.t = None
  BY TorrentsAssumption DEF TypeOK, NoJob
<1>1. CASE DownloadProgress(j)
  <2> DEFINE n == BytesCompleted(jobs[j])
             r == MetadataProgressByID(rows[x], n)
             js == [jobs EXCEPT ![j].md = MetadataScan(r)]
  <2>1. /\ Update(x, r) /\ jobs' = Tidy(js)
        /\ jobs[j].live \/ x \in excused'
        /\ UNCHANGED <<listed, reqs, resume, verify, running>>
    BY <1>1 DEF DownloadProgress, passes
  <2>2. /\ \A i \in Jobs \ {j} : js[i] = jobs[i]
        /\ js[j].t = x /\ js[j].live = jobs[j].live
    BY <1>0 DEF TypeOK, Job
  <2> HIDE DEF r, js
  <2>3. \A i \in Jobs : jobs'[i] = IF Forgotten(js[i]) THEN NoJob ELSE js[i]
    BY <2>1 DEF Tidy
  <2>4. CASE x # t
    <3>1. SameJobs(t)
      BY <1>0, <2>2, <2>3, <2>4 DEF SameJobs, Good, NoneForgotten
    <3>2. rows'[t] = rows[t]
      BY <2>1, <2>4 DEF Update, TypeOK
    <3>3. QED
      BY <2>1, <3>1, <3>2, Untouched DEF SameRequests, SameResume, Good
  <2>5. CASE x = t
    <3>1. jobs[j].live /\ ~Forgotten(js[j])
      BY <2>1, <2>2, <2>5 DEF Forgotten
    <3>2. HasJob(t)'
      BY <2>2, <2>3, <2>5, <3>1 DEF HasJob
    <3>3. \A i \in Jobs : jobs'[i].t = t =>
            jobs[i].t = t /\ jobs'[i].live = jobs[i].live /\ ~Forgotten(jobs'[i])
      BY <1>0, <2>2, <2>3, <2>5
    <3>4. QED
      BY <2>1, <3>2, <3>3, JobsChange
  <2>6. QED
    BY <2>4, <2>5
<1>2. CASE Downloaded(j) \/ Transfer(j)
  <2>1. /\ \A i \in Jobs \ {j} : jobs'[i] = jobs[i]
        /\ jobs'[j].t = x /\ jobs'[j].live = jobs[j].live /\ jobs'[j].step # "read"
        /\ UNCHANGED <<listed, rows, reqs, resume, verify, running>>
    BY <1>0, <1>2 DEF Downloaded, Transfer, TypeOK, Job, db, passes
  <2>2. CASE x # t
    BY <2>1, <2>2, Untouched DEF SameJobs, SameRequests, SameResume, Good
  <2>3. CASE x = t
    <3>1. HasJob(t)' /\ ~Forgotten(jobs'[j])
      BY <2>1, <2>3 DEF HasJob, Forgotten
    <3>2. QED
      BY <2>1, <2>3, <3>1, JobsChange DEF Good, NoneForgotten
  <2>4. QED
    BY <2>2, <2>3
<1>3. CASE Complete(j)
  <2> DEFINE r == MetadataCompleteByID(rows[x], Size)
  <2>1. /\ Update(x, r) /\ \A i \in Jobs \ {j} : jobs'[i] = jobs[i]
        /\ jobs'[j] = NoJob
        /\ UNCHANGED <<listed, reqs, resume, verify, running>>
    BY <1>3 DEF Complete, TypeOK, passes
  <2> HIDE DEF r
  <2>2. CASE x # t
    <3>1. rows'[t] = rows[t]
      BY <2>1, <2>2 DEF Update, TypeOK
    <3>2. QED
      BY <1>0, <2>1, <2>2, <3>1, Untouched DEF SameJobs, SameRequests, SameResume, Good
  <2>3. CASE x = t
    <3>1. rows'[t] = r
      BY <2>1, <2>3 DEF Update, TypeOK
    <3>2. rows[t] \in Row
      BY DEF TypeOK
    <3>3. ~MetadataQueryIncomplete(r)
      BY <2>3, <3>2, SizeType, TorrentsAssumption
      DEF r, MetadataCompleteByID, MetadataQueryIncomplete, Row
    <3>4. QED
      BY <1>0, <2>1, <3>1, <3>3, JobsChange DEF Good, NoneForgotten
  <2>4. QED
    BY <2>2, <2>3
<1>4. CASE JobFails(j)
  <2>1. /\ \A i \in Jobs \ {j} : jobs'[i] = jobs[i]
        /\ jobs'[j] = NoJob /\ x # t
        /\ UNCHANGED <<listed, rows, reqs, resume, verify, running>>
    BY <1>4 DEF JobFails, TypeOK, db, passes
  <2>2. QED
    BY <1>0, <2>1, Untouched DEF SameJobs, SameRequests, SameResume, Good
<1>5. QED
  BY <1>1, <1>2, <1>3, <1>4 DEF DownloadJob
LEMMA GoJobs ==
    ASSUME TypeOK, NEW x \in Torrents, NEW md, NEW j \in Jobs, Go(x, j, md)
    PROVE  /\ jobs[j] = NoJob
           /\ \A i \in Jobs \ {j} : jobs'[i] = jobs[i]
           /\ jobs'[j].t = x /\ jobs'[j].live
           /\ ~Forgotten(jobs'[j])
           /\ HasJob(x)'
           /\ \A t \in Torrents \ {x} : SameJobs(t)
<1>1. /\ jobs[j] = NoJob
      /\ \A i \in Jobs \ {j} : jobs'[i] = jobs[i]
      /\ jobs'[j] = [t |-> x, step |-> "read", md |-> md, live |-> TRUE, at |-> 0]
  BY DEF Go, TypeOK
<1>2. jobs'[j].t = x /\ jobs'[j].live
  BY <1>1
<1>3. NoJob.t = None /\ None \notin Torrents
  BY TorrentsAssumption DEF NoJob
<1>4. QED
  BY <1>1, <1>2, <1>3 DEF Forgotten, HasJob, SameJobs

\* a torrent that got a job from someone who is done with it
LEMMA Started ==
    ASSUME TypeOK, NEW t \in Torrents, Good(t), t \in listed',
           NEW md, NEW j \in Jobs, Go(t, j, md), UNCHANGED verify,
           \/ t \in running'
           \/ /\ \A c \in Clients : reqs'[c].t # t
              /\ \A r \in Resumers : resume'[r].t # t,
           \A c \in Clients : reqs'[c] = reqs[c] \/ reqs'[c].t # t,
           \A r \in Resumers : resume'[r].t = t => resume[r].t = t
    PROVE  Good(t)'
<1>1. /\ HasJob(t)' /\ jobs'[j].live /\ ~Forgotten(jobs'[j])
      /\ \A i \in Jobs \ {j} : jobs'[i] = jobs[i]
  BY GoJobs
<1>2. Alone(t)'
  BY DEF Good, Alone
<1>3. MarkedLives(t)' /\ NoneForgotten(t)'
  BY <1>1 DEF Good, MarkedLives, NoneForgotten, Handles
<1>4. FollowedOrWhole(t)' /\ RunningIsListed(t)' /\ WantedIsAwaited(t)'
  BY <1>1 DEF FollowedOrWhole, RunningIsListed, WantedIsAwaited
<1>f. FoundStays(t)'
  BY DEF Good, FoundStays, Handles
<1>5. QED
  BY <1>2, <1>3, <1>4, <1>f DEF Good

\* a torrent in the client without a job is whole unless a watched file is handled
LEMMA WholeUnlessWatched ==
    ASSUME NEW t \in Torrents, Good(t), t \in running, ~HasJob(t),
           \A c \in Clients : ~Handles(c, t, {"watched", "follow"})
    PROVE  ~Wanted(rows[t])
  BY DEF Good, FollowedOrWhole, Wanted

LEMMA WantedResumes ==
    ASSUME TypeOK, WantedInv, NEW r \in Resumers, ResumeDownloads(r),
           NEW t \in Torrents \ excused', t \notin excused => Good(t)
    PROVE  Good(t)'
<1>0. /\ resume[r] \in Resume /\ t # None
      /\ \A s \in Resumers : resume[s].due => resume[s].todo = {} /\ resume[s].t = None
  BY TorrentsAssumption DEF TypeOK, WantedInv, PassesInv
<1>p. Passive.t = None /\ ~Passive.due /\ Passive.todo = {} /\ ~Passive.added
  BY DEF Passive
<1>1. CASE ResumeQuery(r)
  <2> DEFINE n == [Passive EXCEPT !.todo = MetadataSearch(Resumable)]
  <2>1. /\ resume'[r] = n /\ \A s \in Resumers \ {r} : resume'[s] = resume[s]
        /\ resume[r].due
        /\ UNCHANGED <<listed, rows, running, jobs, reqs, verify, excused>>
    BY <1>1 DEF ResumeQuery, TypeOK, db
  <2>2. n.t = None /\ n.todo = MetadataSearch(Resumable)
    BY DEF Passive
  <2>3. Good(t)
    BY <2>1
  <2> HIDE DEF n
  <2>4. \A s \in Resumers : resume'[s].t = t => resume'[s] = resume[s]
    BY <1>0, <2>1, <2>2
  <2>5. Alone(t)' /\ FoundStays(t)'
    BY <2>1, <2>3, <2>4 DEF Good, Alone, FoundStays, Handles
  <2>6. WantedIsAwaited(t)'
    <3>1. t \in listed /\ Wanted(rows[t]) => t \in resume'[r].todo
      BY <2>1, <2>2 DEF MetadataSearch, Resumable
    <3>2. QED
      BY <2>1, <3>1 DEF WantedIsAwaited, Awaited
  <2>7. QED
    BY <2>1, <2>3, <2>5, <2>6
    DEF Good, MarkedLives, NoneForgotten, FollowedOrWhole, RunningIsListed, HasJob,
        Handles, Forgotten
<1>2. ASSUME NEW x \in Torrents, ResumeFind(r, x) PROVE Good(t)'
  <2> DEFINE n == [resume[r] EXCEPT !.todo = @ \ {x}, !.t = x, !.added = (x \notin running)]
  <2>1. /\ resume'[r] = n /\ \A s \in Resumers \ {r} : resume'[s] = resume[s]
        /\ resume[r].t = None /\ x \in resume[r].todo
        /\ UNCHANGED <<listed, rows, running, jobs, reqs, verify>>
        /\ excused' = IF Busy(x) THEN excused \cup {x} ELSE excused
    BY <1>2 DEF ResumeFind, Begins, TypeOK, db
  <2>2. n.t = x /\ n.todo = resume[r].todo \ {x} /\ n.due = resume[r].due
        /\ n.added = (x \notin running)
    BY <1>0 DEF Resume
  <2>3. Good(t)
    BY <2>1
  <2> HIDE DEF n
  <2>4. CASE x # t
    <3>1. SameResume(t)
      BY <1>0, <2>1, <2>2, <2>4 DEF SameResume
    <3>2. QED
      BY <2>1, <2>3, <3>1, Untouched DEF SameRequests, SameJobs, Good
  <2>5. CASE x = t
    <3>1. \A c \in Clients : reqs[c].t # t
      BY <2>1, <2>5 DEF Busy
    <3>2. Alone(t)' /\ FoundStays(t)'
      BY <2>1, <2>2, <2>3, <2>5, <3>1 DEF Good, Alone, FoundStays, Handles
    <3>3. WantedIsAwaited(t)'
      <4>1. ASSUME Wanted(rows[t]), ~HasJob(t) PROVE t \notin running
        BY <2>3, <3>1, <4>1, WholeUnlessWatched DEF Handles
      <4>2. HasJob(t)' <=> HasJob(t)
        BY <2>1 DEF HasJob
      <4>3. QED
        BY <2>1, <2>2, <2>5, <4>1, <4>2 DEF WantedIsAwaited, Awaited
    <3>4. QED
      BY <2>1, <2>3, <3>2, <3>3
      DEF Good, MarkedLives, NoneForgotten, FollowedOrWhole, RunningIsListed, HasJob,
          Handles, Forgotten
  <2>6. QED
    BY <2>4, <2>5
<1>3. ASSUME NEW j \in Jobs, ResumeStart(r, j) PROVE Good(t)'
  <2> DEFINE x == resume[r].t
             n == [resume[r] EXCEPT !.t = None, !.added = FALSE]
  <2>1. /\ resume'[r] = n /\ \A s \in Resumers \ {r} : resume'[s] = resume[s]
        /\ x # None /\ running' = running \cup {x}
        /\ resume[r].added => Go(x, j, MetadataScan(rows[x]))
        /\ ~resume[r].added => UNCHANGED jobs
        /\ UNCHANGED <<listed, rows, reqs, verify, excused>>
    BY <1>3 DEF ResumeStart, TypeOK, db
  <2>2. n.t = None /\ n.todo = resume[r].todo /\ n.due = resume[r].due
    BY <1>0 DEF Resume
  <2>3. Good(t) /\ x \in Torrents /\ x \in listed
    <3>1. Good(t)
      BY <2>1
    <3>2. x \in Torrents
      BY <1>0, <2>1 DEF Resume
    <3>3. x \in listed
      <4>1. x \in listed \cup {None}
        BY DEF WantedInv, PassesInv
      <4>2. QED
        BY <2>1, <4>1
    <3>4. QED
      BY <3>1, <3>2, <3>3
  <2> HIDE DEF n
  <2>4. CASE x # t
    <3>1. SameResume(t)
      BY <1>0, <2>1, <2>2, <2>4 DEF SameResume
    <3>2. SameJobs(t)
      BY <2>1, <2>3, <2>4, GoJobs DEF SameJobs
    <3>3. QED
      BY <2>1, <2>3, <2>4, <3>1, <3>2, Untouched DEF SameRequests, Good
  <2>5. CASE x = t /\ resume[r].added
    BY <1>0, <2>1, <2>2, <2>3, <2>5, Started
  <2>6. CASE x = t /\ ~resume[r].added
    <3>1. t \in running /\ running' = running
      BY <2>1, <2>3, <2>6 DEF Good, FoundStays
    <3>2. ~HasJob(t) => ~Wanted(rows[t])
      BY <2>3, <2>6, <3>1, WholeUnlessWatched DEF Good, Alone, Handles
    <3>3. Alone(t)' /\ FoundStays(t)'
      BY <1>0, <2>1, <2>2, <2>3, <3>1 DEF Good, Alone, FoundStays, Handles
    <3>4. QED
      BY <2>1, <2>3, <2>6, <3>1, <3>2, <3>3
      DEF Good, MarkedLives, NoneForgotten, FollowedOrWhole, RunningIsListed, HasJob,
          Handles, Forgotten, WantedIsAwaited
  <2>7. QED
    BY <2>4, <2>5, <2>6
<1>4. CASE ResumeFails(r)
  <2> DEFINE x == resume[r].t
             n == [resume[r] EXCEPT !.t = None, !.added = FALSE]
  <2>1. /\ \A s \in Resumers \ {r} : resume'[s] = resume[s]
        /\ x # None /\ x \in excused'
        /\ excused \subseteq excused'
        /\ \/ resume'[r] = n
           \/ resume'[r] = Passive /\ resume[r].todo \subseteq excused'
        /\ UNCHANGED <<listed, rows, running, jobs, reqs, verify>>
    <3>1. CASE /\ resume' = [resume EXCEPT ![r] = n]
               /\ excused' = excused \cup {x}
      BY <1>4, <3>1 DEF ResumeFails, TypeOK, db
    <3>2. CASE /\ resume' = [resume EXCEPT ![r] = Passive]
               /\ excused' = excused \cup {x} \cup resume[r].todo
      BY <1>4, <3>2 DEF ResumeFails, TypeOK, db
    <3>3. QED
      BY <1>4, <3>1, <3>2 DEF ResumeFails
  <2>2. n.t = None /\ n.todo = resume[r].todo /\ n.due = resume[r].due
    BY <1>0 DEF Resume
  <2>3. Good(t) /\ x # t /\ ~resume[r].due
    BY <1>0, <2>1
  <2> HIDE DEF n
  <2>4. SameResume(t)
    BY <1>0, <1>p, <2>1, <2>2, <2>3 DEF SameResume
  <2>5. QED
    BY <2>1, <2>3, <2>4, Untouched DEF SameRequests, SameJobs, Good
<1>5. QED
  BY <1>1, <1>2, <1>3, <1>4 DEF ResumeDownloads
LEMMA EnterFacts ==
    ASSUME TypeOK, NEW c \in Clients, NEW x \in Torrents, NEW op, NEW a, Enter(c, x, op, a)
    PROVE  /\ reqs[c].t = None
           /\ reqs'[c].t = x /\ reqs'[c].op = op /\ reqs'[c].added = a
           /\ \A d \in Clients \ {c} : reqs'[d] = reqs[d]
           /\ excused' = IF Busy(x) THEN excused \cup {x} ELSE excused
           /\ \A t \in Torrents \ {x} : SameRequests(t)
<1>1. /\ reqs[c] = NoRequest
      /\ reqs'[c] = [op |-> op, t |-> x, added |-> a, job |-> None]
      /\ \A d \in Clients \ {c} : reqs'[d] = reqs[d]
      /\ excused' = IF Busy(x) THEN excused \cup {x} ELSE excused
  BY DEF Enter, Free, Begins, TypeOK
<1>2. NoRequest.t = None /\ None \notin Torrents
  BY TorrentsAssumption DEF NoRequest
<1>3. QED
  BY <1>1, <1>2 DEF SameRequests

\* what begins finds nobody else with its torrent, or excuses it
LEMMA Begun ==
    ASSUME TypeOK, NEW c \in Clients, NEW x \in Torrents, NEW op, NEW a, Enter(c, x, op, a),
           x \notin excused', Good(x), UNCHANGED <<resume, verify>>
    PROVE  /\ \A d \in Clients : reqs[d].t # x
           /\ \A d \in Clients \ {c} : reqs'[d].t # x
           /\ Alone(x)'
           /\ op # "mark" => MarkedLives(x)'
           /\ op \notin {"mark", "download"} => FoundStays(x)'
<1>1. /\ reqs'[c].t = x /\ reqs'[c].op = op /\ reqs'[c].added = a
      /\ \A d \in Clients \ {c} : reqs'[d] = reqs[d]
      /\ excused' = IF Busy(x) THEN excused \cup {x} ELSE excused
  BY EnterFacts
<1>2. (\A d \in Clients : reqs[d].t # x) /\ \A r \in Resumers : resume[r].t # x
  BY <1>1 DEF Busy
<1>3. QED
  BY <1>1, <1>2 DEF Alone, MarkedLives, FoundStays, Handles

LEMMA InsertFacts ==
    ASSUME TypeOK, NEW x \in Torrents, NEW r, MetadataInsertWithDefaults(x, r)
    PROVE  /\ listed' = listed \cup {x}
           /\ x \in listed => rows' = rows
           /\ \A t \in Torrents \ {x} : rows'[t] = rows[t]
           /\ x \notin listed => rows'[x] = r
  BY DEF MetadataInsertWithDefaults, TypeOK

LEMMA StepFacts ==
    ASSUME TypeOK, RequestsTyped, NEW c \in Clients, NEW from, from # "idle", NEW to,
           Step(c, from, to)
    PROVE  /\ reqs[c].op = from /\ reqs[c].t \in Torrents
           /\ \A d \in Clients \ {c} : reqs'[d] = reqs[d]
           /\ to = "idle" => reqs'[c].t = None /\ reqs'[c].op = "idle"
           /\ to # "idle" => reqs'[c].t = reqs[c].t /\ reqs'[c].op = to
           /\ \A t \in Torrents \ {reqs[c].t} : SameRequests(t)
<1>1. reqs[c] \in Request /\ reqs[c].t \in Torrents /\ reqs[c].op = from
  BY Handled DEF Step, TypeOK
<1>2. /\ \A d \in Clients \ {c} : reqs'[d] = reqs[d]
      /\ to = "idle" => reqs'[c] = NoRequest
      /\ to # "idle" => reqs'[c] = [reqs[c] EXCEPT !.op = to]
  BY DEF Step, TypeOK
<1>3. /\ to = "idle" => reqs'[c].t = None /\ reqs'[c].op = "idle"
      /\ to # "idle" => reqs'[c].t = reqs[c].t /\ reqs'[c].op = to
  BY <1>1, <1>2 DEF NoRequest, Request
<1>4. None \notin Torrents
  BY TorrentsAssumption
<1>5. QED
  BY <1>1, <1>2, <1>3, <1>4 DEF SameRequests

LEMMA StepEnds ==
    ASSUME TypeOK, RequestsTyped, NEW c \in Clients, NEW from, from # "idle",
           Step(c, from, "idle"), NEW t \in Torrents
    PROVE  /\ reqs[c].op = from /\ reqs'[c].t = None
           /\ \A d \in Clients \ {c} : reqs'[d] = reqs[d]
           /\ reqs[c].t # t => SameRequests(t)
  BY StepFacts

LEMMA StepGoes ==
    ASSUME TypeOK, RequestsTyped, NEW c \in Clients, NEW from, from # "idle",
           NEW to, to # "idle", Step(c, from, to), NEW t \in Torrents
    PROVE  /\ reqs[c].op = from
           /\ reqs'[c].t = reqs[c].t /\ reqs'[c].op = to
           /\ \A d \in Clients \ {c} : reqs'[d] = reqs[d]
           /\ reqs[c].t # t => SameRequests(t)
  BY StepFacts

LEMMA StopJobs ==
    ASSUME TypeOK, NEW x \in Torrents, Stop(x)
    PROVE  /\ running' = running \ {x}
           /\ NoneForgotten(x)'
           /\ \A t \in Torrents \ {x} : NoneForgotten(t) => SameJobs(t)
<1> DEFINE js == [j \in Jobs |-> IF jobs[j].t = x /\ jobs[j].live
                                 THEN [jobs[j] EXCEPT !.live = FALSE, !.at = have[x]]
                                 ELSE jobs[j]]
<1>1. jobs' = Tidy(js) /\ running' = running \ {x}
  BY DEF Stop
<1>2. \A j \in Jobs : js[j].t = jobs[j].t /\ (jobs[j].t # x => js[j] = jobs[j])
  BY DEF TypeOK, Job
<1> HIDE DEF js
<1>3. \A j \in Jobs : jobs'[j] = IF Forgotten(js[j]) THEN NoJob ELSE js[j]
  BY <1>1 DEF Tidy
<1>4. NoJob.t = None /\ None \notin Torrents
  BY TorrentsAssumption DEF NoJob
<1>5. NoneForgotten(x)'
  BY <1>3, <1>4 DEF NoneForgotten, Forgotten
<1>6. \A t \in Torrents \ {x} : NoneForgotten(t) => SameJobs(t)
  BY <1>2, <1>3, <1>4 DEF NoneForgotten, SameJobs
<1>7. QED
  BY <1>1, <1>5, <1>6

LEMMA WantedEnters ==
    ASSUME TypeOK, NEW c \in Clients, NEW x \in Torrents,
           \/ Add(c, x) \/ Publish(c, x) \/ DownloadFind(c, x) \/ WatchStart(c, x)
           \/ PauseStop(c, x) \/ DeleteStop(c, x),
           NEW t \in Torrents \ excused', t \notin excused => Good(t)
    PROVE  Good(t)'
<1>0. UNCHANGED <<resume, verify>>
  BY DEF Add, Publish, DownloadFind, WatchStart, PauseStop, DeleteStop, passes
<1>g. Good(t)
  BY DEF Add, Publish, DownloadFind, WatchStart, PauseStop, DeleteStop, Enter, Begins
<1>1. CASE Add(c, x)
  <2>1. /\ Enter(c, x, "start", FALSE)
        /\ \E b : MetadataInsertWithDefaults(x, NewMetadata(b, 0, FALSE))
        /\ UNCHANGED <<running, jobs>>
    BY <1>1 DEF Add
  <2>2. /\ listed' = listed \cup {x} /\ (x \in listed => rows' = rows)
        /\ \A y \in Torrents \ {x} : rows'[y] = rows[y]
    BY <2>1, InsertFacts
  <2>3. CASE x # t
    <3>1. SameRequests(t) /\ SameJobs(t) /\ SameResume(t)
      BY <1>0, <2>1, <2>3, EnterFacts DEF SameJobs, SameResume
    <3>2. verify'.t # t /\ running' = running /\ rows'[t] = rows[t]
      BY <1>0, <1>g, <2>1, <2>2, <2>3 DEF Good
    <3>3. t \in listed' <=> t \in listed
      BY <2>2, <2>3
    <3>4. QED
      BY <1>g, <3>1, <3>2, <3>3, Untouched
  <2>4. CASE x = t
    <3>o. "start" \notin {"mark", "download"}
      OBVIOUS
    <3>1. /\ \A d \in Clients : reqs[d].t # t
          /\ Alone(t)' /\ MarkedLives(t)' /\ FoundStays(t)'
      BY <1>0, <1>g, <2>1, <2>4, <3>o, Begun, Zenon
    <3>2. t \in running => t \in listed
      BY <1>g, <3>1 DEF Good, RunningIsListed, Handles
    <3>3. FollowedOrWhole(t)' /\ RunningIsListed(t)'
      <4>1. RunningIsListed(t)'
        BY <2>2, <2>4 DEF RunningIsListed
      <4>2. HasJob(t)' <=> HasJob(t)
        BY <2>1 DEF HasJob
      <4>3. t \in running => rows'[t] = rows[t]
        BY <2>2, <2>4, <3>2
      <4>4. t \in running /\ ~HasJob(t) => ~MetadataQueryIncomplete(rows[t])
        BY <1>g, <3>1 DEF Good, FollowedOrWhole, Handles
      <4>5. QED
        BY <2>1, <4>1, <4>2, <4>3, <4>4 DEF FollowedOrWhole
    <3>4. Awaited(t)'
      <4>1. reqs'[c].t = t /\ reqs'[c].op = "start"
        BY <2>1, <2>4, EnterFacts
      <4>2. QED
        BY <4>1 DEF Awaited, Handles
    <3>5. QED
      BY <1>0, <1>g, <2>1, <3>1, <3>3, <3>4
      DEF Good, NoneForgotten, Forgotten, WantedIsAwaited
  <2>5. QED
    BY <2>3, <2>4
<1>2. CASE Publish(c, x)
  <2> DEFINE r == NewMetadata(Size, Size, TRUE)
  <2>1. /\ MetadataInsertWithDefaults(x, r)
        /\ excused' = IF Busy(x) THEN excused \cup {x} ELSE excused
        /\ UNCHANGED <<running, jobs, reqs>>
    BY <1>2 DEF Publish, Begins
  <2>2. ~r.initiated
    BY DEF NewMetadata
  <2> HIDE DEF r
  <2>3. /\ listed' = listed \cup {x} /\ (x \in listed => rows' = rows)
        /\ \A y \in Torrents \ {x} : rows'[y] = rows[y]
        /\ x \notin listed => rows'[x] = r
    BY <2>1, InsertFacts
  <2>4. CASE x # t
    BY <1>0, <1>g, <2>1, <2>3, <2>4, Untouched
    DEF SameJobs, SameRequests, SameResume, Good
  <2>5. CASE x = t
    <3>1. \A d \in Clients : reqs[d].t # t
      BY <2>1, <2>5 DEF Busy
    <3>2. t \in running => t \in listed
      BY <1>g, <3>1 DEF Good, RunningIsListed, Handles
    <3>3. CASE t \in listed
      BY <1>0, <1>g, <2>1, <2>3, <2>5, <3>3, Untouched
      DEF SameJobs, SameRequests, SameResume, Good
    <3>4. CASE t \notin listed
      <4>1. ~Wanted(rows'[t]) /\ t \notin running
        BY <2>2, <2>3, <2>5, <3>2, <3>4 DEF Wanted, MetadataQueryInitiated
      <4>2. QED
        BY <1>0, <1>g, <2>1, <4>1
        DEF Good, Alone, MarkedLives, NoneForgotten, Forgotten, FollowedOrWhole,
            RunningIsListed, FoundStays, WantedIsAwaited, Handles
    <3>5. QED
      BY <3>3, <3>4
  <2>6. QED
    BY <2>4, <2>5
<1>3. CASE DownloadFind(c, x)
  <2>1. /\ Enter(c, x, "download", x \notin running)
        /\ UNCHANGED <<listed, rows, running, jobs>>
    BY <1>3 DEF DownloadFind, db
  <2>2. CASE x # t
    BY <1>0, <1>g, <2>1, <2>2, EnterFacts, Untouched DEF SameJobs, SameResume, Good
  <2>3. CASE x = t
    <3>1. /\ \A d \in Clients : reqs[d].t # t
          /\ \A d \in Clients \ {c} : reqs'[d].t # t
          /\ Alone(t)' /\ MarkedLives(t)'
      BY <1>0, <1>g, <2>1, <2>3, Begun
    <3>2. reqs'[c].op = "download" /\ reqs'[c].added = (t \notin running)
      BY <2>1, <2>3, EnterFacts
    <3>3. FoundStays(t)'
      BY <1>0, <1>g, <2>1, <3>1, <3>2 DEF Good, FoundStays, Handles
    <3>h. HasJob(t)' <=> HasJob(t)
      BY <2>1 DEF HasJob
    <3>4. FollowedOrWhole(t)' /\ RunningIsListed(t)' /\ NoneForgotten(t)'
      <4>1. FollowedOrWhole(t)'
        BY <1>g, <2>1, <3>1, <3>h DEF Good, FollowedOrWhole, Handles
      <4>2. RunningIsListed(t)'
        BY <1>g, <2>1, <3>1 DEF Good, RunningIsListed, Handles
      <4>3. NoneForgotten(t)'
        BY <1>g, <2>1 DEF Good, NoneForgotten, Forgotten
      <4>4. QED
        BY <4>1, <4>2, <4>3
    <3>5. WantedIsAwaited(t)'
      <4>1. Awaited(t) => Awaited(t)'
        BY <1>0, <3>1 DEF Awaited, Handles
      <4>2. QED
        BY <1>g, <2>1, <3>h, <4>1 DEF Good, WantedIsAwaited
    <3>6. QED
      BY <1>0, <1>g, <3>1, <3>3, <3>4, <3>5 DEF Good
  <2>4. QED
    BY <2>2, <2>3
<1>4. CASE WatchStart(c, x)
  <2>1. /\ Enter(c, x, "watched", FALSE)
        /\ running' = running \cup {x}
        /\ UNCHANGED <<listed, rows, jobs>>
    BY <1>4 DEF WatchStart, db
  <2>2. CASE x # t
    BY <1>0, <1>g, <2>1, <2>2, EnterFacts, Untouched DEF SameJobs, SameResume, Good
  <2>3. CASE x = t
    <3>o. "watched" \notin {"mark", "download"}
      OBVIOUS
    <3>1. Alone(t)' /\ MarkedLives(t)' /\ FoundStays(t)'
      BY <1>0, <1>g, <2>1, <2>3, <3>o, Begun, Zenon
    <3>2. Handles(c, t, {"watched"})' /\ Handles(c, t, {"watched", "follow"})'
      BY <2>1, <2>3, EnterFacts DEF Handles
    <3>3. Awaited(t)'
      <4>1. reqs'[c].t = t /\ reqs'[c].op = "watched"
        BY <2>1, <2>3, EnterFacts
      <4>2. QED
        BY <4>1 DEF Awaited, Handles
    <3>4. FollowedOrWhole(t)' /\ RunningIsListed(t)' /\ WantedIsAwaited(t)'
      BY <3>2, <3>3 DEF FollowedOrWhole, RunningIsListed, WantedIsAwaited
    <3>5. NoneForgotten(t)' /\ verify'.t # t
      BY <1>0, <1>g, <2>1 DEF Good, NoneForgotten, Forgotten
    <3>6. QED
      BY <3>1, <3>4, <3>5 DEF Good
  <2>4. QED
    BY <2>2, <2>3
<1>5. CASE PauseStop(c, x) \/ DeleteStop(c, x)
  <2>1. PICK op \in {"pause", "shelf"} : Enter(c, x, op, FALSE)
    BY <1>5 DEF PauseStop, DeleteStop
  <2>2. Stop(x) /\ UNCHANGED <<listed, rows>>
    BY <1>5 DEF PauseStop, DeleteStop, db
  <2>3. CASE x # t
    <3>1. SameJobs(t) /\ (t \in running' <=> t \in running)
      BY <1>g, <2>2, <2>3, StopJobs DEF Good
    <3>2. QED
      BY <1>0, <1>g, <2>1, <2>2, <2>3, <3>1, EnterFacts, Untouched DEF SameResume, Good
  <2>4. CASE x = t
    <3>1. Alone(t)' /\ MarkedLives(t)' /\ FoundStays(t)'
      BY <1>0, <1>g, <2>1, <2>4, Begun
    <3>2. t \notin running' /\ NoneForgotten(t)'
      BY <2>2, <2>4, StopJobs
    <3>3. Awaited(t)'
      <4>1. reqs'[c].t = t /\ reqs'[c].op = op
        BY <2>1, <2>4, EnterFacts
      <4>2. QED
        BY <4>1 DEF Awaited, Handles
    <3>4. QED
      BY <1>0, <1>g, <3>1, <3>2, <3>3
      DEF Good, FollowedOrWhole, RunningIsListed, WantedIsAwaited
  <2>5. QED
    BY <2>3, <2>4
<1>6. QED
  BY <1>1, <1>2, <1>3, <1>4, <1>5

\* the handlers that give their torrent a job
LEMMA WantedFollows ==
    ASSUME TypeOK, RequestsTyped, PassesInv, NEW c \in Clients, NEW j \in Jobs,
           AddStart(c, j) \/ DownloadStart(c, j) \/ WatchFollow(c, j),
           NEW t \in Torrents, Good(t)
    PROVE  Good(t)'
<1> DEFINE x == reqs[c].t
<1>0. reqs[c].op \in {"start", "download", "follow"} /\ UNCHANGED <<resume, verify, listed>>
  BY DEF AddStart, DownloadStart, WatchFollow, Step, passes, db
<1>1. x \in listed /\ x \in Torrents
  BY <1>0, Handled DEF PassesInv
<1>n. t # None
  BY TorrentsAssumption
<1>2. CASE AddStart(c, j)
  <2>1. /\ Step(c, "start", "idle") /\ running' = running \cup {x}
        /\ Go(x, j, MetadataScan(rows[x])) /\ UNCHANGED rows
    BY <1>2 DEF AddStart, db
  <2>2. /\ \A d \in Clients : reqs'[d] = reqs[d] \/ reqs'[d].t = None
        /\ x # t => SameRequests(t)
    BY <2>1, StepEnds
  <2>3. CASE x # t
    <3>1. SameJobs(t) /\ SameResume(t)
      BY <1>0, <1>1, <2>1, <2>3, GoJobs DEF SameResume
    <3>2. QED
      BY <1>0, <2>1, <2>2, <2>3, <3>1, Untouched DEF Good
  <2>4. CASE x = t
    BY <1>0, <1>1, <1>n, <2>1, <2>2, <2>4, Started
  <2>5. QED
    BY <2>3, <2>4
<1>3. CASE WatchFollow(c, j)
  <2> DEFINE r == MetadataDownloadByID(rows[x])
  <2>1. /\ Step(c, "follow", "idle") /\ running' = running
        /\ Go(x, j, MetadataScan(r)) /\ Update(x, r)
    BY <1>3 DEF WatchFollow
  <2>2. /\ \A d \in Clients \ {c} : reqs'[d] = reqs[d]
        /\ reqs'[c].t = None
        /\ x # t => SameRequests(t)
    BY <2>1, StepEnds
  <2> HIDE DEF r
  <2>3. CASE x # t
    <3>1. SameJobs(t) /\ SameResume(t)
      BY <1>0, <1>1, <2>1, <2>3, GoJobs DEF SameResume
    <3>2. rows'[t] = rows[t]
      BY <2>1, <2>3 DEF Update, TypeOK
    <3>3. QED
      BY <1>0, <2>1, <2>2, <2>3, <3>1, <3>2, Untouched DEF Good
  <2>4. CASE x = t
    <3>1. (\A d \in Clients : reqs'[d].t # t) /\ \A s \in Resumers : resume'[s].t # t
      BY <1>0, <1>n, <2>2, <2>4 DEF Good, Alone
    <3>2. QED
      BY <1>0, <1>1, <2>1, <2>4, <3>1, Started
  <2>5. QED
    BY <2>3, <2>4
<1>4. CASE DownloadStart(c, j)
  <2> DEFINE a == reqs[c].added
             n == [reqs[c] EXCEPT !.op = "mark", !.added = FALSE, !.job = IF a THEN j ELSE None]
  <2>1. /\ reqs[c].op = "download" /\ running' = running \cup {x}
        /\ a => Go(x, j, MetadataScan(rows[x]))
        /\ ~a => UNCHANGED jobs
        /\ reqs'[c] = n /\ \A d \in Clients \ {c} : reqs'[d] = reqs[d]
        /\ UNCHANGED rows
    BY <1>4 DEF DownloadStart, TypeOK, db
  <2>2. n.t = x /\ n.op = "mark" /\ ~n.added /\ n.job = IF a THEN j ELSE None
    BY DEF TypeOK, Request
  <2> HIDE DEF n
  <2>3. CASE x # t
    <3>1. SameJobs(t) /\ SameResume(t) /\ SameRequests(t)
      BY <1>0, <1>1, <2>1, <2>2, <2>3, GoJobs DEF SameResume, SameRequests, SameJobs
    <3>2. QED
      BY <1>0, <2>1, <2>3, <3>1, Untouched DEF Good
  <2>4. CASE x = t
    <3>1. Alone(t)' /\ FoundStays(t)' /\ RunningIsListed(t)'
      BY <1>0, <1>1, <2>1, <2>2, <2>4 DEF Good, Alone, FoundStays, RunningIsListed
    <3>2. \A d \in Clients : reqs'[d].t = t => d = c
      BY <2>1, <2>4 DEF Good, Alone
    <3>3. CASE a
      <4>1. /\ HasJob(t)' /\ jobs'[j].live /\ ~Forgotten(jobs'[j])
            /\ \A i \in Jobs \ {j} : jobs'[i] = jobs[i]
        BY <1>1, <2>1, <2>4, <3>3, GoJobs
      <4>2. MarkedLives(t)'
        BY <2>1, <2>2, <3>2, <3>3, <4>1 DEF MarkedLives, Handles
      <4>3. NoneForgotten(t)'
        BY <4>1 DEF Good, NoneForgotten, Forgotten
      <4>4. FollowedOrWhole(t)' /\ WantedIsAwaited(t)'
        BY <4>1 DEF FollowedOrWhole, WantedIsAwaited
      <4>5. QED
        BY <1>0, <3>1, <4>2, <4>3, <4>4 DEF Good
    <3>4. CASE ~a
      <4>1. t \in running /\ UNCHANGED <<running, jobs>>
        BY <2>1, <2>4, <3>4 DEF Good, FoundStays, Handles
      <4>2. MarkedLives(t)'
        BY <2>1, <2>2, <3>2, <3>4, TorrentsAssumption DEF MarkedLives, Handles
      <4>3. NoneForgotten(t)' /\ (HasJob(t)' <=> HasJob(t))
        BY <4>1 DEF Good, NoneForgotten, Forgotten, HasJob
      <4>4. ~HasJob(t) => ~MetadataQueryIncomplete(rows[t])
        BY <2>1, <2>4, <4>1 DEF Good, FollowedOrWhole, Alone, Handles
      <4>5. FollowedOrWhole(t)' /\ WantedIsAwaited(t)'
        BY <2>1, <4>3, <4>4 DEF FollowedOrWhole, WantedIsAwaited, Wanted
      <4>6. QED
        BY <1>0, <3>1, <4>2, <4>3, <4>5 DEF Good
    <3>5. QED
      BY <3>3, <3>4
  <2>5. QED
    BY <2>3, <2>4
<1>5. QED
  BY <1>2, <1>3, <1>4

\* the handlers that write a row, or go on to their next write
LEMMA WantedMarks ==
    ASSUME TypeOK, RequestsTyped, PassesInv, NEW c \in Clients,
           \/ DownloadMark(c) \/ WatchInsert(c) \/ PauseMark(c)
           \/ DeleteLibrary(c) \/ DeleteRow(c),
           NEW t \in Torrents, Good(t)
    PROVE  Good(t)'
<1> DEFINE x == reqs[c].t
<1>0. /\ reqs[c].op \in {"mark", "watched", "pause", "shelf", "delete"}
      /\ UNCHANGED <<resume, verify, running>>
  BY DEF DownloadMark, WatchInsert, PauseMark, DeleteLibrary, DeleteRow, Step, passes, db
<1>1. x \in Torrents /\ (reqs[c].op # "watched" => x \in listed) /\ t # None
  BY <1>0, Handled, TorrentsAssumption DEF PassesInv
<1>r. rows[t] \in Row
  BY DEF TypeOK
<1>2. CASE DownloadMark(c)
  <2> DEFINE r == MetadataDownloadByID(rows[x])
  <2>1. /\ Step(c, "mark", "idle") /\ Update(x, r) /\ UNCHANGED listed
        /\ jobs' = [j \in Jobs |-> IF j = reqs[c].job /\ jobs[j].t = x
                                   THEN [jobs[j] EXCEPT !.md = MetadataScan(r)] ELSE jobs[j]]
    BY <1>2 DEF DownloadMark
  <2>2. \A j \in Jobs : /\ jobs'[j].t = jobs[j].t /\ jobs'[j].live = jobs[j].live
                        /\ \/ jobs'[j] = jobs[j]
                           \/ jobs[j].t = x /\ j = reqs[c].job
    BY <2>1 DEF TypeOK, Job
  <2>3. /\ reqs[c].op = "mark" /\ reqs'[c].t = None
        /\ \A d \in Clients \ {c} : reqs'[d] = reqs[d]
        /\ x # t => SameRequests(t)
    BY <2>1, StepEnds
  <2>4. CASE x # t
    <3>1. SameJobs(t) /\ SameResume(t)
      BY <1>0, <2>2, <2>4 DEF SameJobs, SameResume
    <3>2. rows'[t] = rows[t]
      BY <2>1, <2>4 DEF Update, TypeOK
    <3>3. QED
      BY <1>0, <2>1, <2>3, <2>4, <3>1, <3>2, Untouched DEF Good
  <2>5. CASE x = t
    <3>1. /\ \A d \in Clients : reqs[d].t = t => d = c
          /\ \A d \in Clients : reqs'[d].t # t
          /\ \A s \in Resumers : resume'[s].t # t
      BY <1>0, <1>1, <2>3, <2>5 DEF Good, Alone
    <3>2. Alone(t)' /\ FoundStays(t)' /\ MarkedLives(t)'
      BY <3>1 DEF Alone, FoundStays, MarkedLives, Handles
    <3>3. NoneForgotten(t)'
      <4>1. ASSUME NEW j \in Jobs, jobs'[j].t = t PROVE ~Forgotten(jobs'[j])
        <5>1. CASE jobs'[j] = jobs[j]
          BY <4>1, <5>1 DEF Good, NoneForgotten
        <5>2. CASE jobs[j].t = x /\ j = reqs[c].job
          BY <2>2, <2>3, <2>5, <5>2 DEF Good, MarkedLives, Handles, Forgotten
        <5>3. QED
          BY <2>2, <5>1, <5>2
      <4>2. QED
        BY <4>1 DEF NoneForgotten, Forgotten
    <3>4. t \in running
      BY <2>3, <2>5 DEF Good, FoundStays, Handles
    <3>5. HasJob(t)' <=> HasJob(t)
      BY <2>2 DEF HasJob
    <3>6. ~HasJob(t) => ~MetadataQueryIncomplete(rows[t])
      BY <2>3, <3>1, <3>4 DEF Good, FollowedOrWhole, Handles
    <3>7. MetadataQueryIncomplete(rows'[t]) <=> MetadataQueryIncomplete(rows[t])
      <4>1. rows'[t] = MetadataDownloadByID(rows[t])
        BY <2>1, <2>5 DEF Update, TypeOK
      <4>2. QED
        BY <1>r, <4>1 DEF MetadataDownloadByID, MetadataQueryIncomplete, Row
    <3>8. FollowedOrWhole(t)' /\ WantedIsAwaited(t)'
      BY <3>5, <3>6, <3>7 DEF FollowedOrWhole, WantedIsAwaited, Wanted
    <3>9. RunningIsListed(t)'
      BY <1>1, <2>1, <2>3, <2>5 DEF RunningIsListed
    <3>10. QED
      BY <1>0, <3>2, <3>3, <3>8, <3>9 DEF Good
  <2>6. QED
    BY <2>4, <2>5
<1>3. CASE WatchInsert(c)
  <2>1. /\ Step(c, "watched", "follow") /\ UNCHANGED jobs
        /\ MetadataInsertWithDefaults(x, NewMetadata(Size, 0, FALSE))
    BY <1>3 DEF WatchInsert
  <2>2. /\ reqs[c].op = "watched" /\ reqs'[c].t = x /\ reqs'[c].op = "follow"
        /\ \A d \in Clients \ {c} : reqs'[d] = reqs[d]
        /\ x # t => SameRequests(t)
    BY <2>1, StepGoes
  <2>3. listed' = listed \cup {x} /\ \A y \in Torrents \ {x} : rows'[y] = rows[y]
    BY <1>1, <2>1, InsertFacts
  <2>4. CASE x # t
    <3>1. SameJobs(t) /\ SameResume(t) /\ SameRequests(t)
      BY <1>0, <2>1, <2>2, <2>4 DEF SameJobs, SameResume
    <3>2. rows'[t] = rows[t] /\ (t \in listed' <=> t \in listed)
      BY <2>3, <2>4
    <3>3. QED
      BY <1>0, <3>1, <3>2, Untouched DEF Good
  <2>5. CASE x = t
    <3>1. Handles(c, t, {"watched", "follow"})'
      BY <2>2, <2>5 DEF Handles
    <3>2. Awaited(t)'
      BY <2>2, <2>5 DEF Awaited, Handles
    <3>3. FollowedOrWhole(t)' /\ WantedIsAwaited(t)' /\ RunningIsListed(t)'
      BY <2>3, <2>5, <3>1, <3>2 DEF FollowedOrWhole, WantedIsAwaited, RunningIsListed
    <3>4. Alone(t)' /\ MarkedLives(t)' /\ FoundStays(t)'
      BY <1>0, <2>1, <2>2, <2>5 DEF Good, Alone, MarkedLives, FoundStays, Handles
    <3>5. NoneForgotten(t)'
      BY <2>1 DEF Good, NoneForgotten, Forgotten
    <3>6. QED
      BY <1>0, <3>3, <3>4, <3>5 DEF Good
  <2>6. QED
    BY <2>4, <2>5
<1>4. CASE DeleteLibrary(c)
  <2>1. Step(c, "shelf", "delete") /\ UNCHANGED <<listed, rows, jobs>>
    BY <1>4 DEF DeleteLibrary, db
  <2>2. /\ reqs[c].op = "shelf" /\ reqs'[c].t = x /\ reqs'[c].op = "delete"
        /\ \A d \in Clients \ {c} : reqs'[d] = reqs[d]
        /\ x # t => SameRequests(t)
    BY <2>1, StepGoes
  <2>3. CASE x # t
    <3>1. SameJobs(t) /\ SameResume(t) /\ SameRequests(t)
      BY <1>0, <2>1, <2>2, <2>3 DEF SameJobs, SameResume
    <3>2. QED
      BY <1>0, <2>1, <3>1, Untouched DEF Good
  <2>4. CASE x = t
    <3>1. Alone(t)' /\ MarkedLives(t)' /\ FoundStays(t)'
      BY <1>0, <2>1, <2>2, <2>4 DEF Good, Alone, MarkedLives, FoundStays, Handles
    <3>2. Awaited(t)'
      BY <2>2, <2>4 DEF Awaited, Handles
    <3>3. NoneForgotten(t)' /\ (HasJob(t)' <=> HasJob(t))
      BY <2>1 DEF Good, NoneForgotten, Forgotten, HasJob
    <3>4. \A d \in Clients : \A ops \in {{"watched"}, {"watched", "follow"}} :
             Handles(d, t, ops)' <=> Handles(d, t, ops)
      BY <2>2, <2>4 DEF Handles
    <3>5. FollowedOrWhole(t)' /\ RunningIsListed(t)'
      BY <1>0, <2>1, <3>3, <3>4 DEF Good, FollowedOrWhole, RunningIsListed
    <3>6. QED
      BY <1>0, <3>1, <3>2, <3>3, <3>5 DEF Good, WantedIsAwaited
  <2>5. QED
    BY <2>3, <2>4
<1>5. CASE PauseMark(c) \/ DeleteRow(c)
  <2>1. /\ Step(c, "pause", "idle") \/ Step(c, "delete", "idle")
        /\ Update(x, MetadataPausedByID(rows[x])) \/ Update(x, MetadataTombstoneByID(rows[x]))
        /\ UNCHANGED <<listed, jobs>>
    BY <1>5 DEF PauseMark, DeleteRow
  <2>2. /\ reqs[c].op \in {"pause", "delete"} /\ reqs'[c].t = None
        /\ \A d \in Clients \ {c} : reqs'[d] = reqs[d]
        /\ x # t => SameRequests(t)
    BY <2>1, StepEnds
  <2>3. CASE x # t
    <3>1. SameJobs(t) /\ SameResume(t) /\ SameRequests(t)
      BY <1>0, <2>1, <2>2, <2>3 DEF SameJobs, SameResume
    <3>2. rows'[t] = rows[t]
      BY <2>1, <2>3 DEF Update, TypeOK
    <3>3. QED
      BY <1>0, <2>1, <3>1, <3>2, Untouched DEF Good
  <2>4. CASE x = t
    <3>1. /\ ~rows'[t].initiated
          /\ MetadataQueryIncomplete(rows'[t]) <=> MetadataQueryIncomplete(rows[t])
      <4>1. CASE rows'[t] = MetadataPausedByID(rows[t])
        BY <1>r, <4>1 DEF MetadataPausedByID, MetadataQueryIncomplete, Row
      <4>2. CASE rows'[t] = MetadataTombstoneByID(rows[t])
        BY <1>r, <4>2 DEF MetadataTombstoneByID, MetadataQueryIncomplete, Row
      <4>3. QED
        BY <2>1, <2>4, <4>1, <4>2 DEF Update, TypeOK
    <3>2. /\ \A d \in Clients : reqs[d].t = t => d = c
          /\ \A d \in Clients : reqs'[d].t # t
          /\ \A s \in Resumers : resume'[s].t # t
      BY <1>0, <1>1, <2>2, <2>4 DEF Good, Alone
    <3>3. Alone(t)' /\ FoundStays(t)' /\ MarkedLives(t)'
      BY <3>2 DEF Alone, FoundStays, MarkedLives, Handles
    <3>4. NoneForgotten(t)' /\ (HasJob(t)' <=> HasJob(t))
      BY <2>1 DEF Good, NoneForgotten, Forgotten, HasJob
    <3>5. FollowedOrWhole(t)'
      BY <1>0, <2>2, <3>1, <3>2, <3>4 DEF Good, FollowedOrWhole, Handles
    <3>6. RunningIsListed(t)' /\ WantedIsAwaited(t)'
      BY <1>1, <2>1, <2>2, <2>4, <3>1
      DEF RunningIsListed, WantedIsAwaited, Wanted, MetadataQueryInitiated
    <3>7. QED
      BY <1>0, <3>3, <3>4, <3>5, <3>6 DEF Good
  <2>5. QED
    BY <2>3, <2>4
<1>6. QED
  BY <1>2, <1>3, <1>4, <1>5

\* feeds, and requests that are given up
LEMMA WantedFeeds ==
    ASSUME TypeOK, PassesInv, NEW t \in Torrents \ excused', t \notin excused => Good(t),
           \/ \E x \in Torrents : FeedItem(x)
           \/ FeedMark \/ FeedFails \/ \E c \in Clients : Return(c)
    PROVE  Good(t)'
<1>1. CASE \E x \in Torrents : FeedItem(x)
  <2>1. PICK x \in Torrents : FeedItem(x)
    BY <1>1
  <2>2. /\ \E b : MetadataInsertWithDefaults(x, NewMetadata(b, 0, FALSE))
        /\ excused' = IF Busy(x) THEN excused \cup {x} ELSE excused
        /\ UNCHANGED <<running, jobs, reqs, verify>>
    BY <2>1 DEF FeedItem, Begins
  <2>3. /\ listed' = listed \cup {x} /\ (x \in listed => rows' = rows)
        /\ \A y \in Torrents \ {x} : rows'[y] = rows[y]
    BY <2>2, InsertFacts
  <2>4. /\ resume'["feed"].due
        /\ resume'["feed"].t = resume["feed"].t /\ resume'["feed"].added = resume["feed"].added
        /\ resume'["boot"] = resume["boot"]
    BY <2>1 DEF FeedItem, Resumers, TypeOK, Resume, Passive
  <2>5. SameResume(t) /\ Awaited(t)'
    BY <2>4 DEF SameResume, Awaited, Resumers
  <2>6. Good(t)
    BY <2>2
  <2>7. CASE x # t
    <3>1. t \in listed' <=> t \in listed
      BY <2>3, <2>7
    <3>2. QED
      BY <2>2, <2>3, <2>5, <2>6, <2>7, <3>1, Untouched DEF SameJobs, SameRequests, Good
  <2>8. CASE x = t
    <3>1. (\A c \in Clients : reqs[c].t # t) /\ \A r \in Resumers : resume[r].t # t
      BY <2>2, <2>8 DEF Busy
    <3>2. Alone(t)' /\ MarkedLives(t)' /\ FoundStays(t)'
      BY <2>2, <2>5, <3>1 DEF Alone, MarkedLives, FoundStays, Handles, SameResume
    <3>3. NoneForgotten(t)' /\ (HasJob(t)' <=> HasJob(t))
      BY <2>2, <2>6 DEF Good, NoneForgotten, Forgotten, HasJob
    <3>4. t \in running => rows'[t] = rows[t]
      BY <2>3, <2>6, <2>8, <3>1 DEF Good, RunningIsListed, Handles
    <3>5. t \in running /\ ~HasJob(t) => ~MetadataQueryIncomplete(rows[t])
      BY <2>6, <3>1 DEF Good, FollowedOrWhole, Handles
    <3>6. FollowedOrWhole(t)' /\ RunningIsListed(t)'
      BY <2>2, <2>3, <2>8, <3>3, <3>4, <3>5 DEF FollowedOrWhole, RunningIsListed
    <3>7. QED
      BY <2>2, <2>5, <2>6, <3>2, <3>3, <3>6 DEF Good, WantedIsAwaited
  <2>9. QED
    BY <2>7, <2>8
<1>2. CASE FeedMark
  <2>1. /\ feed # None /\ Update(feed, MetadataAutoDownloadByID(rows[feed]))
        /\ UNCHANGED <<listed, running, jobs, reqs, resume, verify, excused>>
    BY <1>2 DEF FeedMark
  <2>2. Good(t) /\ resume["feed"].due
    BY <2>1 DEF PassesInv
  <2>3. SameJobs(t) /\ SameRequests(t) /\ SameResume(t) /\ verify'.t # t
    BY <2>1, <2>2 DEF SameJobs, SameRequests, SameResume, Good
  <2>4. CASE feed # t
    <3>1. rows'[t] = rows[t]
      BY <2>1, <2>4 DEF Update, TypeOK
    <3>2. QED
      BY <2>1, <2>2, <2>3, <3>1, Untouched
  <2>5. CASE feed = t
    <3>1. MetadataQueryIncomplete(rows'[t]) <=> MetadataQueryIncomplete(rows[t])
      <4>1. rows'[t] = MetadataAutoDownloadByID(rows[t]) /\ rows[t] \in Row
        BY <2>1, <2>5 DEF Update, TypeOK
      <4>2. QED
        BY <4>1 DEF MetadataAutoDownloadByID, MetadataQueryIncomplete, Row
    <3>2. Awaited(t)'
      BY <2>1, <2>2 DEF Awaited, Resumers
    <3>3. FollowedOrWhole(t)' /\ RunningIsListed(t)'
      BY <2>1, <2>2, <3>1 DEF Good, FollowedOrWhole, RunningIsListed, HasJob, Handles
    <3>4. Alone(t)' /\ MarkedLives(t)' /\ FoundStays(t)' /\ NoneForgotten(t)'
      BY <2>1, <2>2
      DEF Good, Alone, MarkedLives, FoundStays, NoneForgotten, Forgotten, Handles
    <3>5. QED
      BY <2>3, <3>2, <3>3, <3>4 DEF Good, WantedIsAwaited
  <2>6. QED
    BY <2>4, <2>5
<1>3. CASE FeedFails
  <2>1. /\ resume["feed"].due /\ resume' = [resume EXCEPT !["feed"].due = FALSE]
        /\ excused' = excused \cup listed
        /\ UNCHANGED <<listed, rows, running, jobs, reqs, verify>>
    BY <1>3 DEF FeedFails, db
  <2>2. Good(t) /\ t \notin listed
    BY <2>1
  <2>3. \A r \in Resumers : resume'[r].t = resume[r].t /\ resume'[r].added = resume[r].added
    BY <2>1 DEF TypeOK, Resume, Resumers
  <2>4. WantedIsAwaited(t)'
    BY <2>1, <2>2 DEF WantedIsAwaited
  <2>5. Alone(t)' /\ MarkedLives(t)' /\ FoundStays(t)' /\ NoneForgotten(t)'
    BY <2>1, <2>2, <2>3
    DEF Good, Alone, MarkedLives, FoundStays, NoneForgotten, Forgotten, Handles
  <2>6. FollowedOrWhole(t)' /\ RunningIsListed(t)' /\ verify'.t # t
    BY <2>1, <2>2 DEF Good, FollowedOrWhole, RunningIsListed, HasJob, Handles
  <2>7. QED
    BY <2>4, <2>5, <2>6 DEF Good
<1>4. CASE \E c \in Clients : Return(c)
  <2>1. PICK c \in Clients : Return(c)
    BY <1>4
  <2>2. /\ reqs'[c] = NoRequest /\ \A d \in Clients \ {c} : reqs'[d] = reqs[d]
        /\ reqs[c].t # t /\ excused \subseteq excused'
        /\ UNCHANGED <<listed, rows, running, jobs, resume, verify>>
    BY <2>1 DEF Return, TypeOK, db, passes
  <2>3. Good(t) /\ NoRequest.t # t
    BY <2>2, TorrentsAssumption DEF NoRequest
  <2>4. SameRequests(t)
    BY <2>2, <2>3 DEF SameRequests
  <2>5. QED
    BY <2>2, <2>3, <2>4, Untouched DEF SameJobs, SameResume, Good
<1>5. QED
  BY <1>1, <1>2, <1>3, <1>4

\* verification, peers, the disk and a restart
LEMMA WantedRest ==
    ASSUME TypeOK, NEW t \in Torrents \ excused', t \notin excused => Good(t),
           \/ \E x \in Torrents : Receive(x) \/ Lose(x) \/ VerifyStart(x)
           \/ VerifyQuery \/ VerifyRecord \/ Restart \/ UNCHANGED vars
    PROVE  Good(t)'
<1>n. t # None
  BY TorrentsAssumption
<1>1. CASE (\E x \in Torrents : Receive(x) \/ Lose(x)) \/ UNCHANGED vars
  <2>1. UNCHANGED <<listed, rows, running, jobs, reqs, resume, verify, excused>>
    BY <1>1 DEF Receive, Lose, vars, db, passes
  <2>2. QED
    BY <2>1, Untouched DEF SameJobs, SameRequests, SameResume, Good
<1>2. ASSUME NEW x \in Torrents, VerifyStart(x) PROVE Good(t)'
  <2>1. /\ running' = running \cup {x} /\ verify'.t = x /\ excused' = excused \cup {x}
        /\ UNCHANGED <<listed, rows, jobs, reqs, resume>>
    BY <1>2 DEF VerifyStart, TypeOK, db
  <2>2. QED
    BY <2>1, Untouched DEF SameJobs, SameRequests, SameResume
<1>3. CASE VerifyQuery
  <2>1. /\ verify'.t = None
        /\ UNCHANGED <<listed, rows, running, jobs, reqs, resume, excused>>
    BY <1>3 DEF VerifyQuery, db
  <2>2. QED
    BY <1>n, <2>1, Untouched DEF SameJobs, SameRequests, SameResume
<1>4. CASE VerifyRecord
  <2>1. /\ verify'.t = None
        /\ \/ Update(verify.t, MetadataVerifyByID(rows[verify.t], have[verify.t]))
           \/ UNCHANGED rows
        /\ UNCHANGED <<listed, running, jobs, reqs, resume, excused>>
    BY <1>4 DEF VerifyRecord, TypeOK
  <2>2. Good(t) /\ verify.t # t
    BY <2>1 DEF Good
  <2>3. rows'[t] = rows[t]
    BY <2>1, <2>2 DEF Update, TypeOK
  <2>4. QED
    BY <1>n, <2>1, <2>2, <2>3, Untouched DEF SameJobs, SameRequests, SameResume
<1>5. CASE Restart
  <2>1. /\ running' = {} /\ verify'.t = None
        /\ \A j \in Jobs : jobs'[j] = NoJob
        /\ \A c \in Clients : reqs'[c] = NoRequest
        /\ \A r \in Resumers : resume'[r] = [Passive EXCEPT !.due = (r = "boot")]
    BY <1>5 DEF Restart, Booted
  <2>2. NoJob.t = None /\ NoRequest.t = None
    BY DEF NoJob, NoRequest
  <2>3. \A r \in Resumers : resume'[r].t = None
    BY <2>1 DEF Passive
  <2>4. resume'["boot"].due
    BY <2>1 DEF Passive, Resumers
  <2>5. \A c \in Clients : reqs'[c].t # t
    BY <1>n, <2>1, <2>2
  <2>6. Alone(t)' /\ MarkedLives(t)' /\ FoundStays(t)'
    BY <1>n, <2>3, <2>5 DEF Alone, MarkedLives, FoundStays, Handles
  <2>7. NoneForgotten(t)'
    BY <1>n, <2>1, <2>2 DEF NoneForgotten
  <2>8. Awaited(t)'
    BY <2>4 DEF Awaited, Resumers
  <2>9. FollowedOrWhole(t)' /\ RunningIsListed(t)' /\ WantedIsAwaited(t)'
    BY <2>1, <2>8 DEF FollowedOrWhole, RunningIsListed, WantedIsAwaited
  <2>10. QED
    BY <1>n, <2>1, <2>6, <2>7, <2>9 DEF Good
<1>6. QED
  BY <1>1, <1>2, <1>3, <1>4, <1>5

LEMMA PassesHandlers ==
    ASSUME TypeOK, RequestsTyped, PassesInv, NEW c \in Clients, Handlers(c)
    PROVE  PassesInv'
<1> DEFINE Kept == listed \subseteq listed' /\ UNCHANGED <<resume, feed>>
           Known(x) == x \in listed' \/ reqs'[c].op \in {"idle", "watched"}
<1>s. ASSUME Kept, \A d \in Clients \ {c} : reqs'[d] = reqs[d], Known(reqs'[c].t)
      PROVE  PassesInv'
  BY <1>s DEF PassesInv
<1>1. ASSUME NEW x \in Torrents,
             \/ Add(c, x) \/ Publish(c, x) \/ DownloadFind(c, x) \/ WatchStart(c, x)
             \/ PauseStop(c, x) \/ DeleteStop(c, x)
      PROVE  PassesInv'
  <2>1. CASE Add(c, x)
    <3>1. Kept /\ x \in listed' /\ Enter(c, x, "start", FALSE)
      BY <2>1 DEF Add, MetadataInsertWithDefaults, passes
    <3>2. QED
      BY <1>s, <3>1, EnterFacts
  <2>2. CASE Publish(c, x)
    BY <2>2 DEF Publish, MetadataInsertWithDefaults, passes, PassesInv
  <2>3. CASE DownloadFind(c, x)
    <3>1. Kept /\ x \in listed' /\ Enter(c, x, "download", x \notin running)
      BY <2>3 DEF DownloadFind, passes, db
    <3>2. QED
      BY <1>s, <3>1, EnterFacts
  <2>4. CASE WatchStart(c, x)
    <3>1. Kept /\ Enter(c, x, "watched", FALSE)
      BY <2>4 DEF WatchStart, passes, db
    <3>2. QED
      BY <1>s, <3>1, EnterFacts
  <2>5. CASE PauseStop(c, x) \/ DeleteStop(c, x)
    <3>1. Kept /\ x \in listed' /\ \E op : Enter(c, x, op, FALSE)
      BY <2>5 DEF PauseStop, DeleteStop, passes, db
    <3>2. QED
      BY <1>s, <3>1, EnterFacts
  <2>6. QED
    BY <1>1, <2>1, <2>2, <2>3, <2>4, <2>5
<1>2. ASSUME NEW j \in Jobs, AddStart(c, j) \/ WatchFollow(c, j) PROVE PassesInv'
  <2>1. Kept /\ (Step(c, "start", "idle") \/ Step(c, "follow", "idle"))
    BY <1>2 DEF AddStart, WatchFollow, passes, db
  <2>2. QED
    BY <1>s, <2>1, StepFacts
<1>3. ASSUME NEW j \in Jobs, DownloadStart(c, j) PROVE PassesInv'
  <2>1. Kept /\ reqs[c].op = "download" /\ \A d \in Clients \ {c} : reqs'[d] = reqs[d]
    BY <1>3 DEF DownloadStart, TypeOK, passes, db
  <2>2. reqs'[c].t = reqs[c].t
    BY <1>3 DEF DownloadStart, TypeOK, Request
  <2>3. QED
    BY <1>s, <2>1, <2>2 DEF PassesInv
<1>4. CASE DownloadMark(c) \/ PauseMark(c) \/ DeleteRow(c)
  <2>1. Kept /\ \E from \in {"mark", "pause", "delete"} : Step(c, from, "idle")
    BY <1>4 DEF DownloadMark, PauseMark, DeleteRow, passes
  <2>2. QED
    BY <1>s, <2>1, StepFacts
<1>5. CASE WatchInsert(c)
  <2>1. Kept /\ Step(c, "watched", "follow") /\ reqs[c].t \in listed'
    BY <1>5 DEF WatchInsert, MetadataInsertWithDefaults, passes
  <2>2. QED
    BY <1>s, <2>1, StepFacts
<1>6. CASE DeleteLibrary(c)
  <2>1. Kept /\ Step(c, "shelf", "delete")
    BY <1>6 DEF DeleteLibrary, passes, db
  <2>2. reqs[c].op = "shelf" => reqs[c].t \in listed
    BY DEF PassesInv
  <2>3. QED
    BY <1>s, <2>1, <2>2, StepFacts
<1>7. CASE Return(c)
  <2>1. Kept /\ reqs'[c] = NoRequest /\ \A d \in Clients \ {c} : reqs'[d] = reqs[d]
    BY <1>7 DEF Return, TypeOK, passes, db
  <2>2. QED
    BY <1>s, <2>1 DEF NoRequest
<1>8. QED
  BY <1>1, <1>2, <1>3, <1>4, <1>5, <1>6, <1>7 DEF Handlers

LEMMA PassesNext ==
    ASSUME TypeOK, RequestsTyped, PassesInv, [Next]_vars
    PROVE  PassesInv'
<1>1. ASSUME NEW r \in Resumers, ResumeDownloads(r) PROVE PassesInv'
  <2>0. /\ resume[r] \in Resume /\ UNCHANGED <<listed, reqs, feed>>
        /\ \A s \in Resumers \ {r} : resume'[s] = resume[s]
    BY <1>1 DEF ResumeDownloads, ResumeQuery, ResumeFind, ResumeStart, ResumeFails,
                TypeOK, db
  <2>1. CASE ResumeQuery(r)
    <3>1. /\ r = "feed" => feed = None
          /\ resume'[r] = [Passive EXCEPT !.todo = MetadataSearch(Resumable)]
      BY <2>1 DEF ResumeQuery, TypeOK
    <3>2. resume'[r].todo \subseteq listed /\ resume'[r].t = None /\ ~resume'[r].due
      BY <3>1 DEF Passive, MetadataSearch
    <3>3. QED
      BY <2>0, <3>1, <3>2 DEF PassesInv, Resumers
  <2>2. ASSUME NEW x \in Torrents, ResumeFind(r, x) PROVE PassesInv'
    <3>1. /\ resume'[r].t = x /\ resume'[r].todo = resume[r].todo \ {x}
          /\ resume'[r].due = resume[r].due /\ x \in resume[r].todo
      BY <2>0, <2>2 DEF ResumeFind, TypeOK, Resume
    <3>2. QED
      BY <2>0, <3>1 DEF PassesInv, Resumers
  <2>3. ASSUME resume' = [resume EXCEPT ![r].t = None, ![r].added = FALSE]
        PROVE  PassesInv'
    <3>1. /\ resume'[r].t = None /\ resume'[r].todo = resume[r].todo
          /\ resume'[r].due = resume[r].due
      BY <2>0, <2>3 DEF TypeOK, Resume
    <3>2. QED
      BY <2>0, <3>1 DEF PassesInv, Resumers
  <2>4. ASSUME resume' = [resume EXCEPT ![r] = Passive], resume[r].t # None
        PROVE  PassesInv'
    <3>1. resume'[r].t = None /\ resume'[r].todo = {} /\ ~resume[r].due
      BY <2>0, <2>4 DEF TypeOK, PassesInv, Passive
    <3>2. QED
      BY <2>0, <3>1 DEF PassesInv, Resumers
  <2>5. QED
    BY <1>1, <2>1, <2>2, <2>3, <2>4 DEF ResumeDownloads, ResumeStart, ResumeFails
<1>2. ASSUME NEW x \in Torrents, FeedItem(x) PROVE PassesInv'
  <2>1. /\ resume'["feed"].due /\ resume'["feed"].todo = {} /\ resume'["feed"].t = None
        /\ resume'["boot"] = resume["boot"]
        /\ listed \subseteq listed' /\ UNCHANGED reqs
    BY <1>2 DEF FeedItem, MetadataInsertWithDefaults, TypeOK, Resumers, Passive
  <2>2. QED
    BY <2>1 DEF PassesInv, Resumers
<1>3. CASE FeedFails
  <2>1. /\ feed' = None /\ UNCHANGED <<listed, reqs>>
        /\ resume'["boot"] = resume["boot"]
        /\ resume'["feed"].t = resume["feed"].t /\ resume'["feed"].todo = resume["feed"].todo
        /\ ~resume'["feed"].due
    BY <1>3 DEF FeedFails, TypeOK, Resume, Resumers, db
  <2>2. QED
    BY <2>1 DEF PassesInv, Resumers
<1>4. CASE Restart
  <2>1. /\ feed' = None /\ UNCHANGED listed
        /\ \A c \in Clients : reqs'[c] = NoRequest
        /\ \A r \in Resumers : resume'[r] = [Passive EXCEPT !.due = (r = "boot")]
    BY <1>4 DEF Restart, Booted, db
  <2>2. \A r \in Resumers : resume'[r].t = None /\ resume'[r].todo = {}
    BY <2>1 DEF Passive
  <2>3. QED
    BY <2>1, <2>2 DEF PassesInv, NoRequest
<1>5. CASE \/ \E x \in Torrents : Receive(x) \/ Lose(x) \/ VerifyStart(x)
           \/ \E j \in Jobs : DownloadJob(j)
           \/ FeedMark \/ VerifyQuery \/ VerifyRecord \/ UNCHANGED vars
  <2>1. UNCHANGED <<listed, reqs, resume>> /\ feed' \in {feed, None}
    BY <1>5 DEF Receive, Lose, VerifyStart, DownloadJob, DownloadProgress, Downloaded,
                Transfer, Complete, JobFails, FeedMark, VerifyQuery, VerifyRecord, vars,
                passes, db
  <2>2. QED
    BY <2>1 DEF PassesInv
<1>6. QED
  BY <1>1, <1>2, <1>3, <1>4, <1>5, PassesHandlers DEF Next

LEMMA WantedInit == Init => WantedInv
<1> SUFFICES ASSUME Init PROVE WantedInv
  OBVIOUS
<1>1. /\ \A r \in Resumers : resume[r].t = None /\ ~resume[r].due /\ resume[r].todo = {}
      /\ \A c \in Clients : reqs[c].t = None /\ reqs[c].op = "idle"
      /\ \A j \in Jobs : jobs[j].t = None
      /\ verify.t = None /\ feed = None /\ running = {} /\ listed = {}
  BY DEF Init, Passive, NoRequest, NoJob
<1>2. PassesInv
  BY <1>1 DEF PassesInv
<1>3. ASSUME NEW t \in Torrents PROVE Good(t)
  BY <1>1, TorrentsAssumption
  DEF Good, Alone, MarkedLives, NoneForgotten, FollowedOrWhole, RunningIsListed,
      FoundStays, WantedIsAwaited, Handles
<1>4. QED
  BY <1>2, <1>3 DEF WantedInv

LEMMA WantedNext == TypeOK /\ RequestsTyped /\ WantedInv /\ [Next]_vars => WantedInv'
<1> SUFFICES ASSUME TypeOK, RequestsTyped, WantedInv, [Next]_vars PROVE WantedInv'
  OBVIOUS
<1>0. PassesInv /\ \A t \in Torrents \ excused : Good(t)
  BY DEF WantedInv
<1> SUFFICES ASSUME NEW t \in Torrents \ excused' PROVE Good(t)'
  BY <1>0, PassesNext DEF WantedInv
<1>g. t \notin excused => Good(t)
  BY <1>0
<1>1. ASSUME NEW c \in Clients, Handlers(c) PROVE Good(t)'
  <2>1. ASSUME NEW x \in Torrents,
               \/ Add(c, x) \/ Publish(c, x) \/ DownloadFind(c, x) \/ WatchStart(c, x)
               \/ PauseStop(c, x) \/ DeleteStop(c, x)
        PROVE  Good(t)'
    BY <1>g, <2>1, WantedEnters
  <2>2. ASSUME NEW j \in Jobs, AddStart(c, j) \/ DownloadStart(c, j) \/ WatchFollow(c, j)
        PROVE  Good(t)'
    <3>1. UNCHANGED excused
      BY <2>2 DEF AddStart, DownloadStart, WatchFollow
    <3>2. QED
      BY <1>0, <1>g, <2>2, <3>1, WantedFollows
  <2>3. CASE \/ DownloadMark(c) \/ WatchInsert(c) \/ PauseMark(c)
             \/ DeleteLibrary(c) \/ DeleteRow(c)
    <3>1. UNCHANGED excused
      BY <2>3 DEF DownloadMark, WatchInsert, PauseMark, DeleteLibrary, DeleteRow
    <3>2. QED
      BY <1>0, <1>g, <2>3, <3>1, WantedMarks
  <2>4. CASE Return(c)
    BY <1>0, <1>g, <2>4, WantedFeeds
  <2>5. QED
    BY <1>1, <2>1, <2>2, <2>3, <2>4 DEF Handlers
<1>2. ASSUME NEW j \in Jobs, DownloadJob(j) PROVE Good(t)'
  <2>1. excused \subseteq excused'
    BY <1>2 DEF DownloadJob, DownloadProgress, Downloaded, Transfer, Complete, JobFails
  <2>2. QED
    BY <1>g, <1>2, <2>1, WantedJobs
<1>3. ASSUME NEW r \in Resumers, ResumeDownloads(r) PROVE Good(t)'
  BY <1>g, <1>3, WantedResumes
<1>4. CASE (\E x \in Torrents : FeedItem(x)) \/ FeedMark \/ FeedFails
  BY <1>0, <1>g, <1>4, WantedFeeds
<1>5. CASE \/ \E x \in Torrents : Receive(x) \/ Lose(x) \/ VerifyStart(x)
           \/ VerifyQuery \/ VerifyRecord \/ Restart \/ UNCHANGED vars
  BY <1>g, <1>5, WantedRest
<1>6. QED
  BY <1>1, <1>2, <1>3, <1>4, <1>5 DEF Next

LEMMA AwaitedIsUnsettled ==
    ASSUME NEW t \in Torrents, Awaited(t)
    PROVE  ~Settled(t)
  BY DEF Awaited, Settled, Busy, Handles

\* A torrent listed as downloading has its Download whenever no request, feed, pass
\* or verification is under way for it, however these interleaved, unless a failure
\* or an overlap hit the torrent since the last start.
THEOREM WantedIsFollowed == Spec => []WantedIsDownloading
<1>1. TypeOK /\ WantedInv => WantedIsDownloading
  BY AwaitedIsUnsettled
  DEF TypeOK, WantedInv, Good, WantedIsAwaited, WantedIsDownloading
<1>2. QED
  BY <1>1, TypeInit, TypeNext, WantedInit, WantedNext, PTL DEF Spec
=============================================================================

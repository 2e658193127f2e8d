# Specifications of retrovibed

TLA+ specifications of the library core of retrovibed (`src/shallows`, Go):
where the content of a media library is kept, how it moves between peers, disk
and the archive service, and the goroutines that move it. The specifications
are checked with TLC on small instances, and their main invariants are proved
with TLAPS for every instance. `PROJECT.json` lists the components, the runs,
which lines of the source every definition stands for, the hazards the
properties are aimed at, the findings and the theorems.

Paths below are relative to `src/shallows`.

## The system

retrovibed is a daemon and a set of commands around a BitTorrent client. It
finds torrents (DHT sampling, RSS feeds, magnets, a watched directory),
downloads them into a directory of 32 MiB block files per torrent, imports
their files into a library, serves the library over HTTP, archives it,
encrypted, with a remote service (deeppool), and reclaims the disk of what is
archived: blocks that are missing later are fetched back on demand.

| Component | State | Operations | Interacts with | What is hard |
|---|---|---|---|---|
| Async wakeup (`library/disk.quota.go`) | two condition variables, a channel of capacity 1 | Broadcast, Close, the waker, PeriodicWakeup | worker loops, import command | lost broadcasts, closing while others send or wait |
| Archive and reclaim passes (`library/disk.quota.go`, `library/archiver.go`) | a snapshot of rows | Archive, Reclaim | library rows, media links, torrent directories, deeppool | stale snapshots, a crash between upload and record, shared directories |
| Library rows and files (`library`, `media/http.library.go`, `tracking/metadata.go`) | `library_metadata`, `media/<id>`, `torrent/<infohash>` | import, upload, patch, delete, read | everything above | one row per content, several torrents per content |
| Torrent cache (`library/deeppool.torrent.cache.go`, `library/deeppool.reader.at.cache.go`, `blockcache`) | block files, a mutex, `cacheblocked` | ReadAt, downloadChunk, WriteAt | torrent client, HTTP readers, deeppool, Reclaim | readers, peers and removal on the same files; partial downloads; refusals |
| Worker pool (`internal/asynccompute`) | a queue, workers, the first outcome | Run, Close, Shutdown | import command, importer | cancellation against graceful shutdown |
| Filesystem importer (`library/import.filesystem.go`) | result channel, captured error | Import | pool, import operation, consumer | closing the channel under a sender; lost errors |
| Torrent lifecycle (`tracking/metadata.go`, `media/http.discovered.go`, `daemons/torrent.resume.go`) | `torrents_metadata`, the client's torrents, the jobs that follow them | magnet, upload, publish, download, pause, delete, resume, verify, progress, complete | torrent client, importer, library, feeds | a row written by several goroutines; crashes between progress, import and completion; overlapping requests |
| Announcements (`daemons/torrent.resume.go`) | `next_announce_at`, a pool | find due torrents, announce, record, sleep | DHT, trackers, pool | rows found due while the pool still has them; sleeping past a due row |
| Watched directory (`downloads`) | inotify watch | create, move | torrent lifecycle | a second start of a torrent that runs |
| RSS (`daemons/torrent.rss.go`, `media/http.rss.feeds.go`) | `torrents_feed_rss` | poll, record items, cool down, defaults of a start, create, delete | torrent lifecycle | a row read, used and written back later; one failing feed among others |
| Discovery (`daemons/torrent.sampling.go`) | `torrents_unknown_infohashes`, `torrents_peers`, two bounded channels | locate peers, sample, look up metadata, cool down | DHT, torrent client | stale structs in queues, time-outs, two workers on one hash |
| Identification (`daemons/torrent.media.*.go`, `library/known.go`) | `library_known_media`, `known_media_id` of torrents and library rows | identify, import archives, assign by hand | pool, library | a mark that precedes the work; passes against users |
| Access (`authn`, `metaapi`, `meta/identityssh`) | profiles, identities, authz rows, one-time states, tokens | import a key, code flow, authz token, grant, revoke | every handler, daemon start | lost answers and retries; tokens that outlive a permission |
| VPN (`daemons/vpn.monitor.go`, `metaapi/http.wireguard.go`) | configuration files, the link to the current one, the watch | upload, touch, delete, reload | torrent client | a link replaced in two steps; a watch on what it led to |
| Port mapping (`internal/natpmp`, `internal/torrentx`) | the announced pair, sockets | ask for the address, map the port, sleep | gateway, torrent client | lost, late and foreign packets |
| Virtual filesystem (`blockcache/filesystem.go`) | a tree, handles with an index | NewFS, Open, ReadDir, Read, Seek, Write | importer, blocks | offsets of several files in shared blocks |
| Retry (`internal/httpx/roundtrip.go`, `internal/backoffx`) | transports around a client, a body's buffer | RoundTrip, Backoff | every call to the outside | consumed bodies, repeated binding, overflow |
| Generated statements (`*/genieql.gen.go`, `internal/sqlx`) | one row per table, its callers' structs | insert, update, scan, iterate, batch | all tables | column order, conflict clauses, errors in a loop over rows |
| Process (`cmd/cmdglobalmain`, `cmd/cmdopts/cleanup.go`, `daemons/cmd.daemon.go`) | two contexts, a wait group, the socket, the database | start step by step, serve, stop | everything | some fifteen early returns with their deferred functions; signals at any of them; goroutines nobody waits for |

What makes the core correct: content is never lost by reclaiming; what a read
returns is the content; what a row says about the archive is true; wakeups and
failures are not lost; shutting down waits for what was accepted, and returns;
what users decided (pause, delete, a title, a permission, a VPN) is changed by
users only, whatever the passes and restarts do; what was started goes on after
a restart.

## The modules

`X.tla` is a component, `MCX.tla` with its `.cfg` files an instance of it for
TLC, `XProofs.tla` its theorems. Mutated actions (`\* Mutant of ...`) stand
beside the action they mutate; they are part of no specification and serve to
show that each property can fail.

### AsyncWakeup

One action per step of the four goroutines that share an `AsyncWakeup`.
`q`/`qclosed` are the channel, `waker`, `worker`, `closer` and `importer` the
places the goroutines are at. `Woken` and `DoneWoken` are `sync.Cond.Broadcast`:
they wake a goroutine that is in `Wait` and do nothing otherwise, which is the
whole difficulty. A row is identified with the workload that stored it, and
`dirty` is the set of rows no pass has selected since they were stored. A
select with several ready cases is a disjunction, a send on a closed channel
panics and ends the process (`Running`).

The import command calls Close when `asynccompute.Shutdown` has returned:
normally after the last workload, but also at once when the context is
cancelled, with workloads still running; `CloseBegin` allows both. The archive
worker of that command is started with the value of `--reclaim`, not of
`--archive`, as its `archivedisk` flag (`cmd/cmdtorrent/cmd.import.peer.go:135`),
so with `--archive` alone a pass selects rows and uploads nothing: the
properties here speak of selection.

### Archival

The library's rows (`row`, `owner`, `tombstoned`), the media directory
(`link`), the torrent directories (`dirs`, `have`), the archive (`cloud`), and
the two passes with the rows they still hold from their query (`archiver`,
`reclaimer`). A file *is* its content, since the id of a row is the digest of
the content. `archive_id` is Nil, Max (archivable) or an archive's id.
`link[f]` is what `media/<id>` is: a link to a torrent's directory, an
uploaded file, an empty directory, a directory with blocks, or nothing; the
code tells these apart by which system calls fail (`Exists`, `CacheOpens`).

`ImportUnlink` and `ImportSymlink` are the two halves of
`tracking.ImportSymlink`, whose mutex is that of one download only.
`LibraryPatch` writes whatever archive id the client sends; `unarchived`
remembers for which files it took an id away, and the properties except those.
`Restart` drops the passes and imports under way at any point.

### TorrentCache

`fallback.ReadAt` (torrent readers, one mutex for all torrents) and
`DeeppoolReaderAtCache.ReadAt` (media readers, a mutex per open file) over one
torrent directory, step by step: look at the disk, check the flag, lock, look
again, query, download, read again. A block is a sequence of cells, the pieces
in which `io.Copy` writes a response; every write opens the file by path, so
`RemoveAll`, which lists and then removes, may come between any two. A cell
that was not written and lies below the end of the file reads as zero; a read
past the end is `io.EOF`. Downloads fail at any point, are refused (401, 403)
before their first byte, or end the process (a missing response is
dereferenced, `deeppool/deeppool.go:124`).

`exposed` and `late` are history variables for the properties. The torrent has
one file: for the others archive offsets and directory offsets differ, and the
code adds the disk offset twice (`library/deeppool.reader.at.cache.go:76`).

### AsyncCompute, Importer

`AsyncCompute` is the pool with an unspecified workload: `WorkloadReturn(w, res)`.
`Importer` instantiates it (`P == INSTANCE AsyncCompute`) with the closure of
`importer.Import` as its workload and the walker as its caller, and adds the
result channel and the consumer. It is shown to implement the pool
(`PoolSpec == P!Spec`), so that what is proved of the pool holds of it.
Both `Run` and the workload take the same context. Which path the walker comes
to next, and whether it fails, is left open. `sending[w]` is the select that
offers a result; the rendezvous with the consumer is one step.

### Announce, Daemon

`Announce` is `AnnounceSeeded`: the loop (`sweep`) with the rows it has still to
send, the queue and the workers of its pool, and `nextAt`, which is in the past,
in the future or infinity. The loop does not wait for the pool, so that a row
may be with a worker and be sent again; a statement may fail, and a restart
drops loop and pool.

`Daemon` is the process: `at` goes through the steps of `Command.Run` in their
order, each of which may fail where the code returns an error, then through
what was deferred up to there, and through the rest of `Main`. A signal cancels
`gctx` and with it `dctx`; a goroutine closes the socket with `dctx`; after that
signals have their default effect again. Of the goroutines Run starts only
those are there whose end the process feels; what the others do is in the other
modules, where a stop is a crash, since nobody waits for them.

### BlockRange

The arithmetic the cache rests on, as operators, and the loop of
`DirCache.ReadAt`/`WriteAt` as a state machine. Unsigned subtraction wraps
modulo `Word`.

### Torrents, Shelf

A torrent's row (`rows`, with timestamps as Booleans: set or `'infinity'`), the
client's torrents (`running`), the bytes on disk (`have`), the library and the
`Download` goroutines (`jobs`). Handlers are sequences of actions with a place
(`reqs[c]`), so that two of them overlap as two HTTP requests do: pause stops
the torrent and then marks the row, download marks and then starts, delete
stops the torrent, then drops the library rows, then the torrent's row. A job reads progress from a copy
of the row that may be out of date, imports, and completes; its torrent may be
dropped under it. `ResumeDownloads` and `VerifyTorrents` run once per start,
side by side; `Restart` ends everything but rows, bytes and library.
`excused` remembers since the last restart which torrents had overlapping
requests or a step that failed: `WantedIsDownloading` names the exceptions
instead of hiding them.

`Shelf` is the abstract specification: content arrives and may be lost, it is
put on the shelf once and only when whole, and what was removed stays removed.
`ShelfKept` is the refinement (`content <- have, shelf <- library`).

### Discovery

The loop over due feeds (`pass`, with the row as it was read), the handlers
that create and delete feeds, the default feeds of a start, and, with
`--auto-discovery`, the peers and their samplers, the bounded channels of peers
and hashes, and the metadata workers (`finder`). Structs in `hashq` and in the
workers are copies of rows that may since have changed. `tclient.Stop` stops a
torrent whoever started it. `missed` are the items that failed by themselves,
`choice` what the user last asked of a feed. A feed of `Broken` never parses
and stays due for ever, as in the code (`daemons/torrent.rss.go:129`).

### Access, Vpn, Identification

`Access`: keys with their profiles, identities and authz rows; the steps of
`ImportParsed`, which a fault may end after any of them; the SSH code flow with
its one-time state, lost answers and retries; tokens (`bearers`), which are
checked without the row they came from. `Vpn`: the link `current` and the file
it leads to, removed and linked again in two steps by any number of touches,
uploads that a crash leaves behind, and the watch, which follows the link
(`watch`) and so never sees it move. `Identification`: titles of torrents
and library rows, written by the pass over its snapshot, by users and by
downloads; the import of archives over two pools, with the mark set before the
inserting pool is drained, the early returns that abandon the pools
(`work["abandoned"]`), and restarts, whose losses are in `lost`.

### VirtualFiles, Retry, Backoff, PortMapping

`VirtualFiles` has the offsets of several files: the tree `NewFS` builds, a
handle whose reads, seeks and writes meet block boundaries, and the import that
walks and copies. Offsets and the tree are recursive functions over the files of
the torrent, in order; past the blocks the model keeps, `BlockSize` finds no
file. `Retry` is `RetryTransport` bound any number of times around
one client, each level with the buffer of what was read through it. `Backoff`
computes delays in integers of a given width. `PortMapping` is the NAT-PMP
client over a network that loses, repeats, delays and reorders, with a gateway
that changes its address.

### Rows, Results

The generated statements as data: for each table the columns, the field each
scanner fills from each column, and for each insert the fields bound to its
parameters and its conflict clause, beside what `00.genieql.go` declares. The
machine runs any of them over a row two callers share. `Results` is how rows
reach a loop: `Next`, `Scan`, `Err` and `Close` of the scanners, `sqlx.Scan`,
`sqlxx`, and the batch insert, with a database that may refuse or break off.

## The runs

| Run | Instance | Shows |
|---|---|---|
| `wakeup` | 2 workloads, failures and cancellation | `CloseIsSafe`, `RowsEventuallySelected`, `CloseEnds` |
| `close_race` | 1 workload, no failure, no cancellation | `CloseReturns` is **violated** |
| `archival` | 1 content in 2 torrents, one archivable, restarts | `ContentKept`, `ArchiveIdKept`, `EventuallyArchived` |
| `reclaim_sibling` | 2 files in 1 torrent | `ReclaimOnlyArchived` is **violated** |
| `cache_safety` | a torrent and a media reader, 2 blocks, reads across the boundary, peers, reclaim, crash | `HolesExplained` |
| `cache_restore` | 2 torrent readers, 1 block, reclaim, crash | `BlockedNeverDownloads`, `RestoredOnce`, `ReadsReturn` |
| `process` | a pool of 2 workers, 4 workloads, queue of 1, cancellation; or 2 seeded torrents, 2 workers, queue of 1, 2 pauses, 1 fault; or a daemon with any switches | `ShutdownComplete`, `FailureReported`, `CallsReturn`, `SeededIsAnnounced`, `StopsAreReported` |
| `importer` | 2 workers, 2 files, 1 directory, queue of 1, cancellation, a consumer that leaves | `NoSendOnClosed`, `ResultsComplete`, `PoolSpec` (refinement), `SequenceEnds` |
| `torrents` | 1 torrent of 2 bytes, 2 clients, 2 jobs, 3 inputs, 1 fault | `DoneIsDone`, `WantedIsDownloading`, `DecisionsAreTheUsers`, `ShelfKept` (refinement), `ResumedAfterRestart` |
| `discovery` | 2 feeds (one default, one broken), 2 builds; or 1 hash, 2 workers, 1 sampler, channels of 1 | `FoundIsRecorded`, `ChoicesKept`, `DueIsDone` |
| `services` | 2 keys, 3 starts; or 2 configurations, 2 touches, 2 cuts; or 1 torrent, 1 archive, 2 titles, 1 stop | `ImportsAreSafe`, `RevocationTakesEffect`, `SwitchIsSafe`, `MarkedIsImported`, `PatchedTitleStays` |
| `layers` | the seven layers below the daemons, one at a time | `BlocksAreCut`, `FilesAreRead`, `RetriesAreSound`, `DelaysAreExact`, `AnnouncedIsGranted`, `ReadBack`, `StatementsAreDeclared`, `NothingLost` |

`process`, `services` and `layers` join components that share no state: a
behaviour belongs to one of them, chosen in the initial state, and the others
rest. In `process`, where each has liveness properties, they rest where nothing
is enabled that fairness would ask for.
Likewise `discovery` has feeds or sampling, which meet only in
`torrents_metadata`, where `Add` stands for the other side.

**Bounds.** Two workloads are enough for one to be selected and the other to
be stored afterwards. Two torrents sharing a content, of which one is
archivable, give every order of import, reclaim and relink; two files in a
torrent give siblings. Two readers, of either kind, give every race for the
mutex and for a file; two blocks of two and one cells give a partial block, a
last block and a read across. Four workloads over two workers and a queue of
one fill the queue with the caller blocked. Two torrents, one of which its
tracker does not know, two workers and a queue of one let a torrent be sent
again while a worker has it and the loop wait for a place. The daemon has no
bound: its steps and switches are all there. Blocks of 1 to 4 bytes in files of
up to 9 give aligned, unaligned, short and exactly full last blocks and
accesses over three blocks. One torrent is enough since torrents share neither
row nor content nor job; two bytes let a recorded progress be older than the
disk, two clients and two jobs overlap in every way, and three inputs allow
start, pause or delete, and start again around a crash (`MaxInputs`,
`MaxFaults`). Two builds give a feed that changes between query and mark; two
metadata workers meet on one hash through a channel of one. Three starts of the
daemon give an import before and after a grant and a revocation. Three files in
nested directories over blocks of 2 and 3 bytes give files that begin and end
inside, at and across blocks, and empty ones. Two transports around a client
are a client that was bound twice; eight bits overflow within twelve attempts.
Two callers and three statements are a stale struct inserted over an update. A
batch of twelve passes the limit of ten. What the instances leave open the
proofs cover, where there is one.

**Fairness.** Goroutines run (weak fairness of each). Strong fairness is used
three times. `CloseSend`: the Go runtime serves blocked senders of a channel
first in, first out, so the close error gets the slot as soon as the worker
empties it. `Lock`: `sync.Mutex` hands over to a waiter that has starved for a
millisecond. The archive pass (`ArchiveScan`, `ArchiveUpload`,
`ArchiveRecord`): `PeriodicWakeup` repeats the pass every hour, a restart
begins with one, and the archive service is assumed not to refuse the same
content for ever. A download ends, since `TimeoutWriter` cancels it when
nothing was written for 3 seconds. Workloads return. The resume pass and a
feed's mark go on (`Torrents`); the feed loop, the lookups with their deadlines
and the passing of time go on (`Discovery`); tokens expire (`Access`); the loop
and the workers of the announcements go on, with trackers that answer or time
out (`Announce`); the steps of a start return, but for the call of `PublicIP`
and, until its context is cancelled, that of the archive's client, and a server
need not stop (`Daemon`). Nobody
is obliged to cancel, to fail, to call Close, to ask for a read, to send a
request, or, as peer, server or gateway, to answer.

**Deadlock.** It is checked except where the system may stop: the wakeup after
a panic or a hanging Close, the importer after its sequence has ended or its
consumer has left, an access, a request or a loop that is done, and the
instances whose inputs, faults and starts are used up.

## What the violations show

* `close_race`. The worker's deferred broadcast may precede cleanup's `Wait`;
  nothing broadcasts again and Close hangs. `CloseEnds` says what does hold:
  the worker always ends, and a Close that waits in time returns.
* `reclaim_sibling`. The media link leads to the directory of the whole
  torrent, so reclaiming one archived file removes its siblings, archived or
  not. `ContentKept` is therefore stated of files that are alone in their
  torrents.

## What else modelling showed

These follow from the models but contradict no sentence of the repository, or
are behind an exception a property names.

* A block removed between two writes of its restore is created again with a
  hole (`blockcache/blockcache.go:96` opens by path), and what a failed
  download wrote is served later (`library/deeppool.torrent.cache.go:147`).
  `HolesExplained` says that these and peers are the only ways to a hole, and
  that a failed download leaves a prefix.
* A magnet's or an upload's row is never initiated, so a crash leaves it out of
  the listing and of the resume. Pause against download may leave a row wanted
  and the torrent stopped. A job that failed leaves its torrent in the client,
  so that a later download request finds it present and starts no job.
  `VerifyTorrents` starts torrents `ResumeDownloads` then skips. A feed
  initiates a deleted torrent again. (`excused`, in `Torrents`.)
* A feed that does not parse gets no cooldown and is fetched without pause
  (`daemons/torrent.rss.go:129`); an item that failed is retried only with the
  next build (`:284`); adopting a channel's title writes an older struct over a
  user's change (`:299`, the exception of `ChoicesKept`). A lookup stops a
  torrent a user is downloading (`daemons/torrent.sampling.go:302`).
* `authz_meta.profile_id` is unique, and the import's conflict clause names
  only the id: after a revocation and a grant the daemon's next start fails
  (`refused`). A start gives the daemon's own key its permission again when its
  row was revoked away. A denial of every administrator is final.
* `touch` removes the link before it makes the new one: a crash in between
  loses the choice of a VPN. The watch is on the old target, so switching gives
  no event. A cut upload leaves a file in the directory.
* The import of a file that is not the last of its torrent copies the files
  after it too, since `File.ReadAt` ignores the length
  (`blockcache/filesystem.go:124`); `WriteAt` ignores the offset (`:134`);
  `ReadDir(n)` always starts at the first entry (`:190`); nested directories
  are listed once per file.
* Only the first record of each file of a media archive is imported
  (`daemons/torrent.media.metadata.import.go:78`), and an archive is marked
  before its records are inserted (`:92`), so a crash loses them.
* Each pass over the feeds wraps `http.DefaultClient` once more
  (`daemons/torrent.rss.go:108`), and attempts double with each;
  `RetriesAreSound` has the bound 2^n. The jitter panics on delays it rounds to
  zero.
* The port mapping lapses at every renewal, since the whole lifetime is slept
  (`internal/torrentx/torrentx.go:156`), and only TCP is mapped.
* A start asks for its public address without context or deadline
  (`daemons/vpn.monitor.go:45`), and a daemon that waits there ignores the first
  signal: the exception of `StopsAreReported`. With `--auto-discovery` a stop may
  end in a panic, since the lookup returns the error of its context and its
  goroutine panics on every error (`daemons/torrent.sampling.go:440`). The
  database is closed before `dctx` is cancelled when a step fails, and Main waits
  for Run only, though `cmd/cmdopts/cleanup.go:13` says that it "waits for
  everything to finish". `asyncfailure` is never given a failure.
* A torrent its tracker does not know is disabled (`daemons/torrent.resume.go:168`)
  and given a new time by the same worker (`:180`), so that it is announced again
  and again. A query for due torrents that fails is repeated without pause (`:217`).
* A batch insert of more than nine rows drops the rest without an error; it is
  not used.

## What is proved

For every set of workloads, files, torrents, readers, workers, and every block
size (the assumptions are the named `ASSUME`s of the modules, which TLC checks
on every instance):

* **ArchivalProofs.** `NothingLost` and `ArchiveBacked`, together `ContentSafe`,
  and `ArchiveIdStays`. That content is kept is not inductive alone. `IInv`
  adds that the rows a reclaim pass holds are still archived or were patched,
  that an archived row, and the row about to be recorded, is uploaded, that
  links and imports stay within the torrent, and that a file whose link is
  being replaced still has the blocks that were hashed. The step that matters
  is `Reclaim`: a sole file linked to the removed directory is the reclaimed
  row itself.
* **TorrentCacheProofs.** `BlockedIsFinal`, `NoHoles`. The invariant says that
  what a running download has written is there up to its position, and that
  what is written of an unexposed block is a prefix. `RestoresOnce`: what the
  second look at the disk found missing is still missing when the download
  begins, since only the holder of the mutex writes (`OnceInv`).
* **AsyncComputeProofs.** `GracefulShutdown`. Every accepted workload is in the
  queue, with a worker, or has returned; a worker that ended found the queue
  closed and empty; Close returns after all workers ended. `FailuresReported`:
  a workload is in one place at a time (`Single`), its outcome is on the way to
  the pointer or the pointer is set, to some workload's outcome (`Reported`).
* **ImporterProofs.** `ImplementsPool`: every step of the importer is a step of
  the pool or leaves it unchanged. From it `ImportShutdownComplete`, by the
  pool's own theorem, and `SendsAreSafe`: the channel is closed after Shutdown
  returned, hence, without cancellation, after all workers ended.
  `ResultsAreComplete` takes from the pool's theorem that every accepted path
  was processed, and adds that what was processed without a failure was yielded,
  that a walker through without an error has handed over every path, and that a
  captured failure is in `err` and was told to the consumer (`Complete`).
* **TorrentsProofs.** `DoneStaysDone`, with the invariant that a job about to
  complete its torrent has put it on the shelf; `UsersDecide`, action by action;
  `ShelfIsKept`, the refinement of `Shelf`; and `WantedIsFollowed`. For the last
  one `WantedInv` names, for a torrent that is wanted and has no job, the
  request or pass that is about to give it one (`Awaited`), and what keeps that
  promise from being broken in between: no second request for the torrent
  (`Alone`), the started job was not dropped (`MarkedLives`), what a handler
  found in the client stays there (`FoundStays`). It says nothing of excused
  torrents, and `PassesInv` says of all torrents that a pass has either not
  begun or holds listed rows, since a restart excuses none.
* **DiscoveryProofs.** `FoundStaysRecorded` and `ChoicesStay`. `FeedInv` says
  of every build in a row, and in the structs a pass still holds, that it was
  read and is not newer than what is published, and that the items no longer to
  do are recorded or missed; `TrackInv` that a worker about to delete a hash has
  recorded its metadata, also when another worker has the same hash.
* **ServicesProofs.** Parts that share no state.
  `SafeClose`, of `ChannelSafe` and `FinalPassCovers`, is about the wakeup. Its
  inductive invariant `Ordered` relates the program counters: cleanup passes its
  Wait only by the worker's last broadcast; the close error is seen only after
  Close began; Close began after the last workload or with the context
  cancelled, in which case no pass selects anything; and so the final selection
  came after every store.
  `ImportingIsSafe`: an import past the profile's insert has the profile
  (`ProfileFirst`), a profile that was denied has a row, so that the import's
  insert does nothing (`DeniedHaveRows`), and a refused start is down behind a
  grant's row (`RefusedIsDown`). `SwitchingIsSafe`: the link is removed only
  while its remover goes on or was cut (`LinkedOrRemoved`), and until it is seen
  to move it leads where it led at the start. `MarkedAreImported`: the records
  of an archive that was handed over are in the catalogue, with one of the
  pools, or lost (`HandedIsKept`). `PatchesStay`: the statements of the passes
  write only where there is no title. `AnnouncingStaysSound`: the queue of the
  announcements keeps its capacity, a disabled torrent is one its tracker does
  not know, and the loop never sleeps without an end (`AnnounceInv`).
* **LayersProofs.** What lies under the services, again without shared state.
  `AnnouncesGranted`: an answer of the gateway that passes the checks of the
  exchange under way was given in this round (`Answered`), and a closed socket
  has none (`Quieted`). `BlocksAreSound`: both range formulas give the same
  range, which is the file's part of the block (`RangeIsFileBlock`,
  `ReaderRangeIsFileBlock`, `FileBlockBytes`, over lemmas on division by a
  variable), and the bytes moved so far are consecutive (`BlockInv`).
  `NoRowIsLost`: while no error came, what the caller has and what the scanner
  still gives are together the statement's rows in order (`Delivered`), and the
  batch inserter's tables, compared column by column, store each struct once
  (`BatchTables`, `BatchSizes`, `BatchStores`).
  `RetriesStaySound`, for a client bound any number of times: of an attempt only
  the set of levels that are at their second try matters, these sets grow in the
  order `Before`, no two attempts have the same one, and there are 2^n of them.
  `DelaysStayExact`, for integers of any width: a doubled delay is the exact
  power until it would overflow, and then the greatest one (`ExponentialIsExact`);
  what the jitter adds stays in its range (`JitterAdds`).
  `FilesStayReadable`: offsets add up, what leads from the root to a file is
  listed (`TreeLeadsToFiles`), and, in `VfsInv`, every file of the torrent is
  copied, has failed, is in the handle or lies ahead in the walk (`Ahead`); a
  copy that ends has reached the end of what it could read (`EndIsReached`,
  `CopyIsWhole`).
* Type correctness of each of these modules but `Importer`, whose pool part
  follows from the refinement, and the parts in `ServicesProofs` and
  `LayersProofs`, where it is a conjunct of the invariants that need it. Types
  are proved and are not in the configurations.

`RestoresOnce` has two hypotheses: no media reader and no peer. They are the
case the property is about: the mutex is the torrent readers' own, a media
reader downloads beside them, and a peer's write is no restore. The instance of
`cache_restore` satisfies both.

The constants' assumptions are those the code gives: capacities and bounds are
natural numbers, concurrency is at least one, the ids that mean "none" are no
configuration and no title, a word holds the end of the last block.

`WantedInv`, the largest of the inductive invariants, was checked with TLC on the
instance of `torrents` before it was proved.

Powers, offsets and counts are recursive functions. The library's induction
theorems take an operator as a parameter and cannot be instantiated here, so the
inductions go over sets: a set of naturals that holds 0 and every successor is
all of them (`SetInduction`, from the well-foundedness of finite sets), and that
a recursive function satisfies its equation follows from iterating its step
(`IterationExists`).

Only model-checked:

* all liveness properties (`RowsEventuallySelected`, `CloseEnds`,
  `EventuallyArchived`, `ReadsReturn`, `CallsReturn`, `SeededIsAnnounced`,
  `SequenceEnds`, `ResumedAfterRestart`, `DueIsDone`, `RevocationTakesEffect`,
  and `StopsAreReported`, which has a leads-to among its conjuncts): fairness
  and ENABLED are outside the prover's reach;
* `Rows`, which is a table of constants, and `Daemon`, which has none: their
  runs visit all there is, and a proof would add nothing to them.

## What is not modelled

* Handlers that only read, and what an announcement tells a tracker.
* Search and the text index, descriptions and quotas; how well a title fits.
* The cipher and its 32-bit offset; torrents of several files in the cache
  together with the archive.
* The cryptography of keys and tokens; TLS and the HTTP server, which only
  starts and ends.
* What the RSS parser makes of a text; the DHT beyond the answers it gives.
* The database's own failures except where the code handles them; the protobuf
  messages, which are generated and carry no state; vendored code; the console.

## Plan

The model and its proofs are complete as far as the two lists above allow.
What a change of the code would ask for first is its action and the conjuncts of
the invariant it disturbs; every proof has one step per action for that reason.

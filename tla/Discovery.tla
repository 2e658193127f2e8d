----------------------------- MODULE Discovery -----------------------------
(***************************************************************************)
(* How torrents are discovered: the loop over the RSS feeds                *)
(* (daemons/torrent.rss.go, media/http.rss.feeds.go) and, with the         *)
(* --auto-discovery flag, the sampling of DHT peers for info hashes and    *)
(* the lookup of what those hashes are (daemons/torrent.sampling.go).      *)
(*                                                                         *)
(* A next_check is due or not; Elapse lets time pass.  A feed's builds are *)
(* numbered, 0 being the time a new row starts with.  Workers take structs *)
(* off bounded channels and use them after the rows may have changed.      *)
(***************************************************************************)
EXTENDS Naturals, Sequences, FiniteSets, FiniteSetsExt

CONSTANTS
    Feeds, Default,   \* the feeds, and the ones of default.feeds.json
    Broken,           \* feeds whose document cannot be parsed
    Items,            \* Items[f][b]: the torrents that build b of feed f lists
    Hashes, Peers,    \* hashes the DHT knows, and peers that answer sample requests
    Samplers, Finders,      \* the workers of the two channels
    PeerQueue, HashQueue,   \* capacities of the channels
    Pending,          \* so many due hashes stop the sampling
    MaxBuild, MaxAttempts, MaxRequests, MaxFaults

ASSUME BuildAssumption == MaxBuild \in Nat \ {0}
ASSUME AttemptsAssumption == MaxAttempts \in Nat

VARIABLES
    flags,      \* autodiscovery: the flag; defaults: the feeds of the file
    feeds,      \* torrents_feed_rss
    published,  \* published[f]: the build its server has
    pass,       \* DiscoverFromRSSFeedsOnce
    choice,     \* choice[f]: the autodownload last asked for
    missed,     \* torrents of feeds that could not be fetched or recorded
    known,      \* hashes with a row in torrents_metadata
    peers,      \* torrents_peers
    peerscan, peerq, sampler,
    unknown,    \* torrents_unknown_infohashes
    hashscan, hashq, finder,
    running,    \* running[h]: who started the torrent in the client
    sampled,    \* hashes that samples contained and a sampler is done with
    requests, faults

feedvars == <<feeds, published, pass, choice, missed>>
peervars == <<peers, peerscan, peerq, sampler>>
hashvars == <<unknown, hashscan, hashq, finder, running>>
vars == <<flags, feedvars, known, peervars, hashvars, sampled, requests, faults>>

NoRow == [row |-> FALSE]
Idle == [at |-> "idle"]

Fault == faults < MaxFaults /\ faults' = faults + 1

-----------------------------------------------------------------------------
(* The feeds *)

FeedRow(auto, described) ==
    [row |-> TRUE, due |-> TRUE, built |-> 0, auto |-> auto, described |-> described]

\* RSSInsertWithDefaults: of an existing row the flags and the description change
RSSInsertWithDefaults(f, r) ==
    feeds' = [feeds EXCEPT ![f] =
                IF @.row THEN [@ EXCEPT !.auto = r.auto, !.described = r.described]
                ELSE [r EXCEPT !.due = TRUE]]

\* Mutant of RSSInsertDefaultFeed: the conflict clause writes the default's choice.
RSSInsertDefaultFeedResets(rows, defaults) ==
    [f \in Feeds |-> IF f \in defaults THEN FeedRow(TRUE, "given") ELSE rows[f]]

\* RSSInsertDefaultFeed: an existing row stays as it is
RSSInsertDefaultFeed(rows, defaults) ==
    [f \in Feeds |-> IF f \in defaults /\ ~rows[f].row THEN FeedRow(TRUE, "given") ELSE rows[f]]

\* RSSCooldownByID: nothing to update once the feed is deleted
RSSCooldownByID(f, built) ==
    feeds' = [feeds EXCEPT ![f] =
                IF @.row THEN [@ EXCEPT !.due = FALSE, !.built = built] ELSE @]

PrepareDefaultFeeds(rows, asked, defaults) ==
    /\ feeds' = RSSInsertDefaultFeed(rows, defaults)
    /\ choice' = [f \in Feeds |-> IF f \in defaults /\ ~rows[f].row THEN TRUE ELSE asked[f]]

Request == requests < MaxRequests /\ requests' = requests + 1

\* POST /: the description may be left blank
create(f, auto, described) ==
    /\ Request
    /\ RSSInsertWithDefaults(f, FeedRow(auto, described))
    /\ choice' = [choice EXCEPT ![f] = auto]
    /\ UNCHANGED <<flags, published, pass, missed, known, peervars, hashvars, sampled, faults>>

delete(f) ==
    /\ Request
    /\ feeds[f].row
    /\ feeds' = [feeds EXCEPT ![f] = NoRow]
    /\ UNCHANGED <<flags, published, pass, choice, missed, known, peervars, hashvars,
                   sampled, faults>>

\* the feed's server publishes
Publish(f) ==
    /\ feeds[f].row /\ published[f] < MaxBuild
    /\ published' = [published EXCEPT ![f] = @ + 1]
    /\ UNCHANGED <<flags, feeds, pass, choice, missed, known, peervars, hashvars, sampled,
                   requests, faults>>

RSSQueryNeedsCheck == {f \in Feeds : feeds[f].row /\ feeds[f].due}

FeedStep(newpass) ==
    /\ pass' = newpass
    /\ UNCHANGED <<flags, published, choice, peervars, hashvars, sampled, requests>>

\* DiscoverFromRSSFeeds sleeps while no feed is due; the rows are selected at once
DiscoverFromRSSFeeds ==
    /\ pass = Idle /\ RSSQueryNeedsCheck # {}
    /\ FeedStep([at |-> "next", rest |-> {<<f, feeds[f]>> : f \in RSSQueryNeedsCheck}])
    /\ UNCHANGED <<feeds, missed, known, faults>>

NextFeed(rest) == IF rest = {} THEN Idle ELSE [at |-> "next", rest |-> rest]

\* the server cannot be reached or refuses
RequestFailed(x) ==
    /\ pass.at = "next" /\ x \in pass.rest
    /\ Fault
    /\ RSSCooldownByID(x[1], x[2].built)
    /\ FeedStep(NextFeed(pass.rest \ {x}))
    /\ UNCHANGED <<missed, known>>

\* no cooldown: the feed stays due
ParseFailed(x) ==
    /\ pass.at = "next" /\ x \in pass.rest
    /\ x[1] \in Broken
    /\ FeedStep(NextFeed(pass.rest \ {x}))
    /\ UNCHANGED <<feeds, missed, known, faults>>

Unchanged(x) ==
    /\ pass.at = "next" /\ x \in pass.rest
    /\ x[1] \notin Broken /\ published[x[1]] <= x[2].built
    /\ RSSCooldownByID(x[1], published[x[1]])
    /\ FeedStep(NextFeed(pass.rest \ {x}))
    /\ UNCHANGED <<missed, known, faults>>

\* Mutant of Changed: the build is marked before its items are recorded.
ChangedCoolsFirst(x) ==
    /\ pass.at = "next" /\ x \in pass.rest
    /\ x[1] \notin Broken /\ published[x[1]] > x[2].built
    /\ RSSCooldownByID(x[1], published[x[1]])
    /\ FeedStep([at |-> "items", rest |-> pass.rest \ {x}, feed |-> x[1], row |-> x[2],
                 build |-> published[x[1]], todo |-> Items[x[1]][published[x[1]]]])
    /\ UNCHANGED <<missed, known, faults>>

Changed(x) ==
    /\ pass.at = "next" /\ x \in pass.rest
    /\ x[1] \notin Broken /\ published[x[1]] > x[2].built
    /\ FeedStep([at |-> "items", rest |-> pass.rest \ {x}, feed |-> x[1], row |-> x[2],
                 build |-> published[x[1]], todo |-> Items[x[1]][published[x[1]]]])
    /\ UNCHANGED <<feeds, missed, known, faults>>

\* handlehttp or handlemagnet: the torrent is recorded, and marked for download
ItemRecorded(h) ==
    /\ pass.at = "items" /\ h \in pass.todo
    /\ known' = known \cup {h}
    /\ FeedStep([pass EXCEPT !.todo = @ \ {h}])
    /\ UNCHANGED <<feeds, missed, faults>>

\* logged, and on to the next item: the build is not read again
ItemFailed(h) ==
    /\ pass.at = "items" /\ h \in pass.todo
    /\ Fault
    /\ missed' = missed \cup {<<pass.feed, h>>}
    /\ FeedStep([pass EXCEPT !.todo = @ \ {h}])
    /\ UNCHANGED <<feeds, known>>

\* Mutant of FeedDone: the cooldown writes the build the row had.
FeedDoneUncooled ==
    /\ pass.at = "items" /\ pass.todo = {}
    /\ IF pass.row.described = "no"
       THEN RSSInsertWithDefaults(pass.feed, [pass.row EXCEPT !.described = "adopted"])
       ELSE RSSCooldownByID(pass.feed, pass.row.built)
    /\ FeedStep(NextFeed(pass.rest))
    /\ UNCHANGED <<missed, known, faults>>

\* a feed without a description takes the channel's title and is read again;
\* otherwise it is marked with the build
FeedDone ==
    /\ pass.at = "items" /\ pass.todo = {}
    /\ IF pass.row.described = "no"
       THEN RSSInsertWithDefaults(pass.feed, [pass.row EXCEPT !.described = "adopted"])
       ELSE RSSCooldownByID(pass.feed, pass.build)
    /\ FeedStep(NextFeed(pass.rest))
    /\ UNCHANGED <<missed, known, faults>>

Rest == IF pass.at = "next" THEN pass.rest ELSE {}
Todo == IF pass.at = "items" THEN pass.todo ELSE {}

PassStep ==
    \/ DiscoverFromRSSFeeds \/ FeedDone
    \/ \E x \in Rest : ParseFailed(x) \/ Unchanged(x) \/ Changed(x)
    \/ \E h \in Todo : ItemRecorded(h)

-----------------------------------------------------------------------------
(* Sampling the DHT *)

PeerStep ==
    UNCHANGED <<flags, feedvars, known, hashscan, hashq, finder, running, requests>>

\* DiscoverDHTBEP51Peers: a peer with hashes is recorded, once
recordinterestingpeer(p) ==
    /\ flags.autodiscovery
    /\ peers[p] = "none"
    /\ peers' = [peers EXCEPT ![p] = "due"]
    /\ PeerStep /\ UNCHANGED <<peerscan, peerq, sampler, unknown, sampled, faults>>

UnknownHashQueryNeedsCheck == {h \in Hashes : unknown[h].row /\ unknown[h].due}

\* a peer stays due until it is sampled, so it may be queued again
querypeers ==
    /\ peerscan = {} /\ Cardinality(UnknownHashQueryNeedsCheck) < Pending
    /\ peerscan' = {p \in Peers : peers[p] = "due"}
    /\ peerscan' # {}
    /\ PeerStep /\ UNCHANGED <<peers, peerq, sampler, unknown, sampled, faults>>

SendPeer(p) ==
    /\ p \in peerscan /\ Len(peerq) < PeerQueue
    /\ peerscan' = peerscan \ {p}
    /\ peerq' = Append(peerq, p)
    /\ PeerStep /\ UNCHANGED <<peers, sampler, unknown, sampled, faults>>

SamplerTake(s) ==
    /\ sampler[s] = Idle /\ peerq # <<>>
    /\ sampler' = [sampler EXCEPT ![s] = [at |-> "query", peer |-> Head(peerq)]]
    /\ peerq' = Tail(peerq)
    /\ PeerStep /\ UNCHANGED <<peers, peerscan, unknown, sampled, faults>>

SamplerStep(s, new) ==
    /\ sampler' = [sampler EXCEPT ![s] = new]
    /\ UNCHANGED <<peerscan, peerq>>
    /\ PeerStep

\* the error that is wrapped is nil: the peer is not marked
QueryFailed(s) ==
    /\ sampler[s].at = "query"
    /\ SamplerStep(s, Idle)
    /\ UNCHANGED <<peers, unknown, sampled, faults>>

Sampled(s, sample) ==
    /\ sampler[s].at = "query"
    /\ SamplerStep(s, [at |-> "samples", peer |-> sampler[s].peer, todo |-> sample])
    /\ UNCHANGED <<peers, unknown, sampled, faults>>

\* MetadataFindByID
SampleKnown(s, h) ==
    /\ sampler[s].at = "samples" /\ h \in sampler[s].todo
    /\ IF h \in known
       THEN /\ SamplerStep(s, [sampler[s] EXCEPT !.todo = @ \ {h}])
            /\ sampled' = sampled \cup {h}
       ELSE /\ SamplerStep(s, [at |-> "insert", peer |-> sampler[s].peer,
                               todo |-> sampler[s].todo \ {h}, hash |-> h])
            /\ UNCHANGED sampled
    /\ UNCHANGED <<peers, unknown, faults>>

\* UnknownHashInsertWithDefaults: an existing row keeps its attempts
SampleInsert(s) ==
    LET h == sampler[s].hash
    IN  /\ sampler[s].at = "insert"
        /\ unknown' = [unknown EXCEPT ![h] =
                         IF @.row THEN @ ELSE [row |-> TRUE, due |-> TRUE, attempts |-> 0]]
        /\ sampled' = sampled \cup {h}
        /\ SamplerStep(s, [at |-> "samples", peer |-> sampler[s].peer, todo |-> sampler[s].todo])
        /\ UNCHANGED <<peers, faults>>

\* PeerMarkNextCheck, after the samples or, deferred, after a database error
SamplerMark(s) ==
    /\ \/ sampler[s].at = "samples" /\ sampler[s].todo = {} /\ UNCHANGED faults
       \/ sampler[s].at \in {"samples", "insert"} /\ Fault
    /\ peers' = [peers EXCEPT ![sampler[s].peer] = "later"]
    /\ SamplerStep(s, Idle)
    /\ UNCHANGED <<unknown, sampled>>

-----------------------------------------------------------------------------
(* Looking up what a hash is *)

HashStep == UNCHANGED <<flags, feedvars, peervars, sampled, requests>>

\* the due hashes; a hash stays due while it is queued or looked up
locatehashed ==
    /\ flags.autodiscovery
    /\ hashscan = {} /\ UnknownHashQueryNeedsCheck # {}
    /\ hashscan' = {[hash |-> h, attempts |-> unknown[h].attempts] :
                      h \in UnknownHashQueryNeedsCheck}
    /\ HashStep /\ UNCHANGED <<known, unknown, hashq, finder, running, faults>>

\* attempts ASC
SendHash(u) ==
    /\ u \in hashscan /\ \A v \in hashscan : u.attempts <= v.attempts
    /\ Len(hashq) < HashQueue
    /\ hashscan' = hashscan \ {u}
    /\ hashq' = Append(hashq, u)
    /\ HashStep /\ UNCHANGED <<known, unknown, finder, running, faults>>

FinderEnds(w) == finder' = [finder EXCEPT ![w] = Idle]

\* defer tclient.Stop: whoever started the torrent
Stop(h) == running' = [running EXCEPT ![h] = "none"]

\* Info refuses a torrent that is running already, which is then stopped
FinderInfo(w) ==
    LET u == Head(hashq)
    IN  /\ finder[w] = Idle /\ hashq # <<>>
        /\ hashq' = Tail(hashq)
        /\ IF running[u.hash] = "none"
           THEN /\ running' = [running EXCEPT ![u.hash] = w]
                /\ finder' = [finder EXCEPT ![w] = [at |-> "wait", hash |-> u.hash,
                                                    attempts |-> u.attempts]]
           ELSE Stop(u.hash) /\ UNCHANGED finder
        /\ HashStep /\ UNCHANGED <<known, unknown, hashscan, faults>>

\* only the torrent that is still running gets its info
Found(w) ==
    /\ finder[w].at = "wait" /\ running[finder[w].hash] = w
    /\ finder' = [finder EXCEPT ![w].at = "insert"]
    /\ Stop(finder[w].hash)
    /\ HashStep /\ UNCHANGED <<known, unknown, hashscan, hashq, faults>>

TimedOut(w) ==
    /\ finder[w].at = "wait"
    /\ finder' = [finder EXCEPT ![w].at = "cooldown"]
    /\ Stop(finder[w].hash)
    /\ HashStep /\ UNCHANGED <<known, unknown, hashscan, hashq, faults>>

\* an insert: the attempts are those of the struct, the row may be gone
UnknownHashCooldown(w) ==
    LET u == finder[w]
    IN  /\ u.at = "cooldown"
        /\ unknown' = [unknown EXCEPT ![u.hash] =
              [row |-> TRUE, due |-> ~@.row \/ u.attempts = 0,
               attempts |-> IF @.row THEN Min({u.attempts + 1, MaxAttempts}) ELSE u.attempts]]
        /\ FinderEnds(w) /\ Stop(u.hash)
        /\ HashStep /\ UNCHANGED <<known, hashscan, hashq, faults>>

FinderInsert(w) ==
    /\ finder[w].at = "insert"
    /\ known' = known \cup {finder[w].hash}
    /\ finder' = [finder EXCEPT ![w].at = "delete"]
    /\ HashStep /\ UNCHANGED <<unknown, hashscan, hashq, running, faults>>

UnknownHashDeleteByID(w) ==
    /\ finder[w].at = "delete"
    /\ unknown' = [unknown EXCEPT ![finder[w].hash] = NoRow]
    /\ FinderEnds(w) /\ Stop(finder[w].hash)
    /\ HashStep /\ UNCHANGED <<known, hashscan, hashq, faults>>

\* Mutant of FinderFailed: a lookup that failed gives the hash up.
FinderFailedDeletes(w) ==
    /\ finder[w].at \in {"cooldown", "insert", "delete"}
    /\ Fault
    /\ finder' = [finder EXCEPT ![w].at = "delete"]
    /\ HashStep /\ UNCHANGED <<known, unknown, hashscan, hashq, running>>

\* a database error: the hash stays due
FinderFailed(w) ==
    /\ finder[w].at \in {"cooldown", "insert", "delete"}
    /\ Fault
    /\ FinderEnds(w) /\ Stop(finder[w].hash)
    /\ HashStep /\ UNCHANGED <<known, unknown, hashscan, hashq>>

\* a handler or a feed adds the torrent and starts it
Add(h) ==
    /\ h \notin known
    /\ known' = known \cup {h}
    /\ running' = [running EXCEPT ![h] = IF @ = "none" THEN "download" ELSE @]
    /\ UNCHANGED <<flags, feedvars, peervars, unknown, hashscan, hashq, finder, sampled, requests,
                   faults>>

-----------------------------------------------------------------------------
\* time passes
Elapse ==
    /\ \/ \E f \in Feeds : /\ feeds[f].row /\ ~feeds[f].due
                           /\ feeds' = [feeds EXCEPT ![f].due = TRUE]
                           /\ UNCHANGED <<peers, unknown>>
       \/ \E p \in Peers : /\ peers[p] = "later"
                           /\ peers' = [peers EXCEPT ![p] = "due"]
                           /\ UNCHANGED <<feeds, unknown>>
       \/ \E h \in Hashes : /\ unknown[h].row /\ ~unknown[h].due
                            /\ unknown' = [unknown EXCEPT ![h].due = TRUE]
                            /\ UNCHANGED <<feeds, peers>>
    /\ UNCHANGED <<flags, published, pass, choice, missed, known, peerscan, peerq, sampler,
                   hashscan, hashq, finder, running, sampled, requests, faults>>

Workers(fs, asked, defaults) ==
    /\ PrepareDefaultFeeds(fs, asked, defaults)
    /\ pass' = Idle
    /\ peerscan' = {} /\ peerq' = <<>> /\ sampler' = [s \in Samplers |-> Idle]
    /\ hashscan' = {} /\ hashq' = <<>> /\ finder' = [w \in Finders |-> Idle]
    /\ running' = [h \in Hashes |-> "none"]

Restart ==
    /\ Fault
    /\ Workers(feeds, choice, flags.defaults)
    /\ UNCHANGED <<flags, published, missed, known, peers, unknown, sampled, requests>>

Init ==
    /\ flags \in [autodiscovery : BOOLEAN, defaults : {{}, Default}]
    /\ feeds = RSSInsertDefaultFeed([f \in Feeds |-> NoRow], flags.defaults)
    /\ choice = [f \in Feeds |-> f \in flags.defaults]
    /\ published = [f \in Feeds |-> 1]
    /\ pass = Idle /\ missed = {} /\ known = {}
    /\ peers = [p \in Peers |-> "none"]
    /\ peerscan = {} /\ peerq = <<>> /\ sampler = [s \in Samplers |-> Idle]
    /\ unknown = [h \in Hashes |-> NoRow]
    /\ hashscan = {} /\ hashq = <<>> /\ finder = [w \in Finders |-> Idle]
    /\ running = [h \in Hashes |-> "none"]
    /\ sampled = {} /\ requests = 0 /\ faults = 0

Sampling(s) ==
    \/ SamplerTake(s) \/ QueryFailed(s) \/ SampleInsert(s) \/ SamplerMark(s)
    \/ \E sample \in SUBSET Hashes : Sampled(s, sample)
    \/ \E h \in Hashes : SampleKnown(s, h)

Finding(w) ==
    FinderInfo(w) \/ TimedOut(w) \/ UnknownHashCooldown(w) \/ FinderInsert(w)
      \/ UnknownHashDeleteByID(w)

Locating == locatehashed \/ \E u \in hashscan : SendHash(u)

Next ==
    \/ PassStep
    \/ \E x \in Rest : RequestFailed(x)
    \/ \E h \in Todo : ItemFailed(h)
    \/ \E h \in Hashes : Add(h)
    \/ \E f \in Feeds : Publish(f) \/ delete(f)
    \/ \E f \in Feeds, auto \in BOOLEAN, d \in {"no", "given"} : create(f, auto, d)
    \/ querypeers \/ \E p \in Peers : recordinterestingpeer(p) \/ SendPeer(p)
    \/ \E s \in Samplers : Sampling(s)
    \/ Locating \/ \E w \in Finders : Finding(w) \/ Found(w) \/ FinderFailed(w)
    \/ Elapse \/ Restart

Spec == Init /\ [][Next]_vars

\* The goroutines of the daemon run, a lookup's deadline passes and so does time;
\* no server and no peer has to answer.
Fairness ==
    /\ WF_vars(PassStep)
    /\ WF_vars(Locating) /\ \A w \in Finders : WF_vars(Finding(w))
    /\ \A f \in Feeds \ Broken : WF_vars(Elapse /\ feeds'[f] # feeds[f])

FairSpec == Spec /\ Fairness

-----------------------------------------------------------------------------
(* Properties *)

\* What the feed's row is marked with has been read: each torrent of that build was
\* recorded, or failed by itself, whatever restarts, deletions and new builds there
\* were since (FeedDone marks after the items, Unchanged with what it compared).
BuildsAreRecorded ==
    \A f \in Feeds : feeds[f].row /\ feeds[f].built > 0 =>
        \A h \in Items[f][feeds[f].built] : h \in known \/ <<f, h>> \in missed

\* The autodownload the user asked for stays, over restarts that insert the default
\* feeds again and over passes with an older struct, unless the feed took its
\* description from its channel: that insert writes the older struct's choice.
ChoicesKept ==
    \A f \in Feeds : feeds[f].row /\ feeds[f].described # "adopted" => feeds[f].auto = choice[f]

\* A hash that a sample contained is not lost: it waits to be looked up or its
\* metadata is recorded, through failures, timeouts and restarts between the insert
\* of the metadata and the deletion of the hash.
SampledIsTracked == \A h \in sampled : h \in known \/ unknown[h].row

\* Whatever was found is recorded or still to be, by either way of finding it.
FoundIsRecorded == BuildsAreRecorded /\ SampledIsTracked

\* A build that stays published is read in the end, whatever other feeds do: one
\* that can never be parsed is due all the time and does not starve the others.
PublishedIsRead ==
    \A f \in Feeds \ Broken, b \in 1..MaxBuild :
        (feeds[f].row /\ published[f] = b)
          ~> (~feeds[f].row \/ published[f] # b \/ feeds[f].built >= b)

\* A due hash is looked up in the end: its row goes or changes.  Lookups of the same
\* hash that stop one another's torrent, and downloads they stop, do not prevent it.
DueIsLookedUp ==
    \A h \in Hashes, a \in 0..MaxAttempts :
        (unknown[h] = [row |-> TRUE, due |-> TRUE, attempts |-> a])
          ~> (unknown[h] # [row |-> TRUE, due |-> TRUE, attempts |-> a])

\* Nothing waits for ever: neither a published build nor a due hash.
DueIsDone == PublishedIsRead /\ DueIsLookedUp
=============================================================================

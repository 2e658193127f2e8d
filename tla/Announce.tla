------------------------------ MODULE Announce ------------------------------
(***************************************************************************)
(* AnnounceSeeded (daemons/torrent.resume.go): a loop that sends the       *)
(* seeding torrents whose announcement is due to a pool, and then sleeps   *)
(* until the earliest of them is due again.  A worker of the pool tells    *)
(* the DHT and the torrent's tracker, and records when it will be due.     *)
(*                                                                         *)
(* The loop does not wait for the pool: rows that are queued or with a     *)
(* worker are still due, and may be found and sent a second time.          *)
(***************************************************************************)
EXTENDS Naturals, Sequences, FiniteSets

CONSTANTS
  Seeds,          \* the torrents
  Unlisted,       \* those a tracker says it does not know
  Announcers,     \* the workers of the pool
  AnnounceQueue,  \* how many torrents wait for a worker
  MaxToggles,     \* how often users pause and unpause
  MaxMisses       \* how many statements fail

VARIABLES
  seeding,    \* the torrents that are seeding and not paused
  nextAt,     \* next_announce_at: past, future, or infinity
  sweep,      \* the loop, the rows it has still to send, how long it sleeps
  annq,       \* the queue of the pool
  announcer,  \* what each worker does, and with which torrent
  toggles, misses

announcevars == <<seeding, nextAt, sweep, annq, announcer, toggles, misses>>

ASSUME AnnounceAssumption ==
  /\ Unlisted \subseteq Seeds
  /\ AnnounceQueue \in Nat \ {0} /\ Announcers # {}
  /\ MaxToggles \in Nat /\ MaxMisses \in Nat

Resting == [at |-> "idle"]
Sweep(at, rows) == [at |-> at, rows |-> rows, until |-> "now"]

AnnounceTypeOK ==
  /\ seeding \subseteq Seeds
  /\ nextAt \in [Seeds -> {"past", "future", "infinity"}]
  /\ sweep.at \in {"query", "send", "earliest", "sleep"} /\ sweep.rows \subseteq Seeds
  /\ sweep.until \in {"now", "minutes", "row", "never"}
  /\ annq \in Seq(Seeds) /\ Len(annq) <= AnnounceQueue
  /\ \A w \in Announcers :
        announcer[w] \in {Resting} \cup [at : {"dht", "tracker", "record"}, seed : Seeds]
  /\ toggles \in 0 .. MaxToggles /\ misses \in 0 .. MaxMisses

\* next_announce_at is created in the past
AnnounceInit ==
  /\ seeding \in SUBSET Seeds
  /\ nextAt = [t \in Seeds |-> "past"]
  /\ sweep = Sweep("query", {})
  /\ annq = <<>>
  /\ announcer = [w \in Announcers |-> Resting]
  /\ toggles = 0 /\ misses = 0

Miss == misses < MaxMisses /\ misses' = misses + 1

-----------------------------------------------------------------------------
(* The loop *)

MetadataQueryNeedsAnnounce == {t \in seeding : nextAt[t] = "past"}

\* Mutant of MetadataQueryAnnounceable: disabled torrents count.
AnnounceableAll == seeding

MetadataQueryAnnounceable == {t \in seeding : nextAt[t] # "infinity"}

SweepQuery ==
  /\ sweep.at = "query"
  /\ sweep' = Sweep("send", MetadataQueryNeedsAnnounce)
  /\ UNCHANGED <<seeding, nextAt, annq, announcer, toggles, misses>>

\* pool.Run blocks while the queue is full
SweepSend(t) ==
  /\ sweep.at = "send" /\ t \in sweep.rows
  /\ Len(annq) < AnnounceQueue
  /\ annq' = Append(annq, t)
  /\ sweep' = Sweep("send", sweep.rows \ {t})
  /\ UNCHANGED <<seeding, nextAt, announcer, toggles, misses>>

SweepSent ==
  /\ sweep.at = "send" /\ sweep.rows = {}
  /\ sweep' = Sweep("earliest", {})
  /\ UNCHANGED <<seeding, nextAt, annq, announcer, toggles, misses>>

\* the query failed, at once or after some rows: it is made again, without a pause
SweepFails ==
  /\ sweep.at = "send" /\ Miss
  /\ sweep' = Sweep("query", {})
  /\ UNCHANGED <<seeding, nextAt, annq, announcer, toggles>>

\* Until the earliest row is due, or for ten minutes when there is none or the
\* query fails, and in both cases some minutes longer.
SweepSleep ==
  /\ sweep.at = "earliest"
  /\ sweep' = [Sweep("sleep", {}) EXCEPT !.until =
                 CASE MetadataQueryAnnounceable = {} -> "minutes"
                   [] \E t \in MetadataQueryAnnounceable : nextAt[t] # "infinity" -> "row"
                   [] OTHER -> "never"]
  /\ UNCHANGED <<seeding, nextAt, annq, announcer, toggles, misses>>

SweepWake ==
  /\ sweep.at = "sleep" /\ sweep.until # "never"
  /\ sweep' = Sweep("query", {})
  /\ UNCHANGED <<seeding, nextAt, annq, announcer, toggles, misses>>

-----------------------------------------------------------------------------
(* The workers *)

AnnouncerTake(w) ==
  /\ announcer[w] = Resting /\ annq # <<>>
  /\ announcer' = [announcer EXCEPT ![w] = [at |-> "dht", seed |-> Head(annq)]]
  /\ annq' = Tail(annq)
  /\ UNCHANGED <<seeding, nextAt, sweep, toggles, misses>>

\* nothing is made of the outcome, and private torrents are passed over
AnnounceDHT(w) ==
  /\ announcer[w].at = "dht"
  /\ announcer' = [announcer EXCEPT ![w].at = "tracker"]
  /\ UNCHANGED <<seeding, nextAt, sweep, annq, toggles, misses>>

\* The tracker answers, fails, or there is none: the delays differ, and all are
\* in the future.  One that does not know the torrent has it disabled.
AnnounceTracker(w) ==
  /\ announcer[w].at = "tracker"
  /\ announcer' = [announcer EXCEPT ![w].at = "record"]
  /\ \/ UNCHANGED nextAt
     \/ /\ announcer[w].seed \in Unlisted
        /\ nextAt' = [nextAt EXCEPT ![announcer[w].seed] = "infinity"]
  /\ UNCHANGED <<seeding, sweep, annq, toggles, misses>>

\* whatever was written since the row was read, a disabled announcement included
MetadataAnnounced(w) ==
  /\ announcer[w].at = "record"
  /\ nextAt' = [nextAt EXCEPT ![announcer[w].seed] = "future"]
  /\ announcer' = [announcer EXCEPT ![w] = Resting]
  /\ UNCHANGED <<seeding, sweep, annq, toggles, misses>>

\* the row stays as it is, and the pool keeps the error
AnnouncedFails(w) ==
  /\ announcer[w].at = "record" /\ Miss
  /\ announcer' = [announcer EXCEPT ![w] = Resting]
  /\ UNCHANGED <<seeding, nextAt, sweep, annq, toggles>>

-----------------------------------------------------------------------------
(* The rest of the daemon *)

\* a download completes, a torrent is paused or goes on
Toggle(t) ==
  /\ toggles < MaxToggles /\ toggles' = toggles + 1
  /\ seeding' = IF t \in seeding THEN seeding \ {t} ELSE seeding \cup {t}
  /\ UNCHANGED <<nextAt, sweep, annq, announcer, misses>>

AnnounceElapse(t) ==
  /\ nextAt[t] = "future" /\ nextAt' = [nextAt EXCEPT ![t] = "past"]
  /\ UNCHANGED <<seeding, sweep, annq, announcer, toggles, misses>>

\* the process ends, and the loop of the next one begins
AnnounceRestart ==
  /\ Miss
  /\ sweep' = Sweep("query", {}) /\ annq' = <<>>
  /\ announcer' = [w \in Announcers |-> Resting]
  /\ UNCHANGED <<seeding, nextAt, toggles>>

SweepStep ==
  SweepQuery \/ (\E t \in sweep.rows : SweepSend(t)) \/ SweepSent \/ SweepSleep \/ SweepWake
AnnouncerStep(w) ==
  AnnouncerTake(w) \/ AnnounceDHT(w) \/ AnnounceTracker(w) \/ MetadataAnnounced(w)

AnnounceNext ==
  \/ SweepStep \/ SweepFails \/ AnnounceRestart
  \/ \E w \in Announcers : AnnouncerStep(w) \/ AnnouncedFails(w)
  \/ \E t \in Seeds : Toggle(t) \/ AnnounceElapse(t)

\* the loop and the workers run; a tracker answers or its timeout passes
AnnounceFairness ==
  WF_announcevars(SweepStep) /\ \A w \in Announcers : WF_announcevars(AnnouncerStep(w))

AnnounceSpec == AnnounceInit /\ [][AnnounceNext]_announcevars /\ AnnounceFairness

-----------------------------------------------------------------------------
(* Properties                                                              *)

\* A seeding torrent whose announcement is due is announced, whatever else is: a
\* full queue, statements that fail, torrents sent twice, and others that were
\* disabled, whose time never comes, do not keep the loop from it.  One that its
\* tracker does not know may be disabled instead.
SeededIsAnnounced == \A t \in Seeds :
  (t \in seeding /\ nextAt[t] = "past")
    ~> (t \notin seeding \/ nextAt[t] = "future" \/ (t \in Unlisted /\ nextAt[t] = "infinity"))
=============================================================================

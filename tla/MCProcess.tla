----------------------------- MODULE MCProcess -----------------------------
(* The process of the daemon, the pool its goroutines use, and the loop that  *)
(* feeds such a pool without end.  They share no state here: a behaviour is a *)
(* behaviour of one of them, chosen at the start, while the others rest where *)
(* no step of theirs is enabled that their fairness would ask for: a pool     *)
(* nobody calls, a loop that sleeps, a process that has ended.                *)
EXTENDS AsyncCompute, Announce, Daemon

VARIABLE part

MCInit ==
  /\ part \in {"pool", "announce", "daemon"}
  /\ Init
  /\ IF part = "announce" THEN AnnounceInit
     ELSE /\ seeding = {} /\ nextAt = [t \in Seeds |-> "past"]
          /\ sweep = [at |-> "sleep", rows |-> {}, until |-> "never"]
          /\ annq = <<>> /\ announcer = [w \in Announcers |-> Resting]
          /\ toggles = 0 /\ misses = 0
  /\ IF part = "daemon" THEN DaemonInit
     ELSE /\ flags = {} /\ at = "signer" /\ gctx = "live" /\ dctx = "live"
          /\ listener = "none" /\ db = "none" /\ cleanup = 0 /\ goroutines = {}
          /\ signals = "caught" /\ status = "killed" /\ asked = FALSE /\ broke = FALSE

\* the process has ended
Ended == status # "running" /\ UNCHANGED daemonvars

MCNext ==
  \/ part = "pool" /\ Next /\ UNCHANGED <<part, announcevars, daemonvars>>
  \/ part = "announce" /\ AnnounceNext /\ UNCHANGED <<part, vars, daemonvars>>
  \/ part = "daemon" /\ (DaemonNext \/ Ended) /\ UNCHANGED <<part, vars, announcevars>>

MCSpec ==
  /\ MCInit /\ [][MCNext]_<<part, vars, announcevars, daemonvars>>
  /\ Fairness /\ AnnounceFairness /\ DaemonFairness
=============================================================================

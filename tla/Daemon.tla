------------------------------- MODULE Daemon -------------------------------
(***************************************************************************)
(* The daemon's process: Main (cmd/cmdglobalmain), the goroutine that      *)
(* waits for signals (cmd/cmdopts/cleanup.go), and Command.Run             *)
(* (cmd/retrovibed/daemons/cmd.daemon.go), which takes one thing after the *)
(* other, starts the goroutines of the other modules, and serves until its *)
(* socket is closed.                                                       *)
(*                                                                         *)
(* Every return of Run is a step that fails, and is followed by what was   *)
(* deferred up to there.  Of the goroutines only those are here whose end  *)
(* is felt by the process: the one that closes the socket and the lookup   *)
(* of sampled hashes, whose error is a panic.  Nobody waits for the        *)
(* others: they are cut off where they are, as by a crash.                 *)
(***************************************************************************)
EXTENDS Naturals, Sequences, SequencesExt

VARIABLES
  flags,      \* the switches of the command that are on
  at,         \* where the goroutine of Main and Run is
  gctx,       \* the context of the process: live or cancelled
  dctx,       \* the context of Run, a child of it
  listener,   \* the socket of the HTTP server
  db,         \* the database
  cleanup,    \* the count of the wait group Main waits for
  goroutines, \* the goroutines that run
  signals,    \* a signal is caught, or has its default effect
  status,     \* how the process ended
  asked,      \* ghost: a signal asked the daemon to stop
  broke       \* ghost: a step of Run failed

daemonvars == <<flags, at, gctx, dctx, listener, db, cleanup, goroutines,
                signals, status, asked, broke>>

Switches == {"auto-archive", "auto-download", "auto-discovery", "no-mdns"}

Steps == <<"signer", "socket", "database", "identity", "directories", "archive",
           "wireguard", "client", "downloads", "daemons", "address", "reload",
           "tls", "mdns", "serve">>
Returning == {"close", "done", "cancel", "main", "wait"}

DaemonTypeOK ==
  /\ flags \subseteq Switches
  /\ at \in ToSet(Steps) \cup Returning
  /\ gctx \in {"live", "cancelled"} /\ dctx \in {"live", "cancelled"}
  /\ listener \in {"none", "open", "closed"} /\ db \in {"none", "open", "closed"}
  /\ cleanup \in 0 .. 1
  /\ goroutines \subseteq {"closer", "lookup"}
  /\ signals \in {"caught", "default"}
  /\ status \in {"running", "ok", "error", "panic", "killed"}
  /\ asked \in BOOLEAN /\ broke \in BOOLEAN

DaemonInit ==
  /\ flags \in SUBSET Switches
  /\ at = "signer"
  /\ gctx = "live" /\ dctx = "live"
  /\ listener = "none" /\ db = "none" /\ cleanup = 0
  /\ goroutines = {} /\ signals = "caught"
  /\ status = "running" /\ asked = FALSE /\ broke = FALSE

-----------------------------------------------------------------------------
(* Command.Run, up to the server *)

Running == status = "running"

\* s succeeds and the step after it is next
Passed(s) ==
  /\ Running /\ at = s
  /\ \E i \in 1 .. Len(Steps) - 1 : Steps[i] = s /\ at' = Steps[i + 1]
  /\ UNCHANGED <<flags, gctx, dctx, signals, status, asked, broke>>

\* the ssh key of the daemon
Signer == Passed("signer") /\ UNCHANGED <<listener, db, cleanup, goroutines>>

\* the socket of the server, and the goroutine that closes it with dctx
Socket ==
  /\ Passed("socket")
  /\ listener' = "open" /\ goroutines' = goroutines \cup {"closer"}
  /\ UNCHANGED <<db, cleanup>>

\* Cleanup.Add comes first, so that it counts also when the database fails
Database ==
  /\ Passed("database")
  /\ cleanup' = 1 /\ db' = "open"
  /\ UNCHANGED <<listener, goroutines>>

\* Steps that fail or leave what is here as it is: the import of the key, the
\* directories and the reclaim, the archive's client, the sockets of a VPN,
\* the torrent client, the watched directory, the watch of the VPN, the
\* certificate and the multicast service.
Prepare(s) ==
  /\ s \in {"identity", "directories", "archive", "wireguard", "client", "downloads",
            "reload", "tls", "mdns"}
  /\ Passed(s)
  /\ UNCHANGED <<listener, db, cleanup, goroutines>>

\* everything that runs beside the server; the first checkpoint is waited for
Daemons ==
  /\ Passed("daemons")
  /\ goroutines' = IF "auto-discovery" \in flags THEN goroutines \cup {"lookup"}
                   ELSE goroutines
  /\ UNCHANGED <<listener, db, cleanup>>

\* PublicIP asks a server, without a context and without a deadline
PublicIP == Passed("address") /\ UNCHANGED <<listener, db, cleanup, goroutines>>

\* the steps whose switch is off cannot fail
Fallible ==
  ToSet(Steps) \ ( {"daemons", "address"}
    \cup (IF "auto-archive" \in flags THEN {} ELSE {"archive"})
    \cup (IF "auto-download" \in flags THEN {} ELSE {"downloads"})
    \cup (IF "no-mdns" \in flags THEN {"mdns"} ELSE {}))

\* A return: the functions deferred so far follow.  Without a database there
\* is nothing to close, and before the socket nothing was deferred.
Fails(s) ==
  /\ Running /\ at = s /\ s \in Fallible
  /\ at' = CASE s = "signer" -> "main"
             [] s = "socket" -> "cancel"
             [] s = "database" -> "done"
             [] OTHER -> "close"
  /\ cleanup' = IF s = "database" THEN 1 ELSE cleanup
  /\ broke' = TRUE
  /\ UNCHANGED <<flags, gctx, dctx, listener, db, goroutines, signals, status, asked>>

\* ServeTLS returns when the socket is closed; what is reported then is the
\* cause of dctx, which only ever is a cancellation and is ignored: neither
\* AutoDiscovery nor DiscoverFromRSSFeeds fails with anything else
Served ==
  /\ Running /\ at = "serve" /\ listener = "closed"
  /\ at' = "close"
  /\ UNCHANGED <<flags, gctx, dctx, listener, db, cleanup, goroutines, signals,
                 status, asked, broke>>

-----------------------------------------------------------------------------
(* What Run deferred, last first, and the rest of Main *)

\* defer db.Close(): the context of whoever uses the database is still live
DeferredClose ==
  /\ Running /\ at = "close" /\ at' = "done"
  /\ db' = "closed"
  /\ UNCHANGED <<flags, gctx, dctx, listener, cleanup, goroutines, signals, status,
                 asked, broke>>

\* Mutant of DeferredDone: the count is given back only when the server stopped.
DeferredDoneOnce ==
  /\ Running /\ at = "done" /\ at' = "cancel"
  /\ cleanup' = IF listener = "closed" THEN cleanup - 1 ELSE cleanup
  /\ UNCHANGED <<flags, gctx, dctx, listener, db, goroutines, signals, status,
                 asked, broke>>

\* defer gctx.Cleanup.Done()
DeferredDone ==
  /\ Running /\ at = "done" /\ at' = "cancel"
  /\ cleanup' = cleanup - 1
  /\ UNCHANGED <<flags, gctx, dctx, listener, db, goroutines, signals, status,
                 asked, broke>>

\* defer asyncfailure(nil)
DeferredCancel ==
  /\ Running /\ at = "cancel" /\ at' = "main"
  /\ dctx' = "cancelled"
  /\ UNCHANGED <<flags, gctx, listener, db, cleanup, goroutines, signals, status,
                 asked, broke>>

\* an error cancels the context of the process
MainShutdown ==
  /\ Running /\ at = "main" /\ at' = "wait"
  /\ gctx' = IF broke THEN "cancelled" ELSE gctx
  /\ dctx' = IF broke THEN "cancelled" ELSE dctx
  /\ UNCHANGED <<flags, listener, db, cleanup, goroutines, signals, status, asked,
                 broke>>

\* Cleanup.Wait and FatalIfErrorf: goroutines that still run are not waited for
MainExit ==
  /\ Running /\ at = "wait" /\ cleanup = 0
  /\ status' = IF broke THEN "error" ELSE "ok"
  /\ UNCHANGED <<flags, at, gctx, dctx, listener, db, cleanup, goroutines, signals,
                 asked, broke>>

-----------------------------------------------------------------------------
(* The other goroutines *)

\* the first signal cancels the context of the process, and with it dctx
Signal ==
  /\ Running /\ signals = "caught" /\ gctx = "live"
  /\ gctx' = "cancelled" /\ dctx' = "cancelled"
  /\ asked' = TRUE
  /\ UNCHANGED <<flags, at, listener, db, cleanup, goroutines, signals, status, broke>>

\* Cleanup stops catching signals once the context is done, for either reason
SignalsDefault ==
  /\ Running /\ gctx = "cancelled" /\ signals = "caught"
  /\ signals' = "default"
  /\ UNCHANGED <<flags, at, gctx, dctx, listener, db, cleanup, goroutines, status,
                 asked, broke>>

\* another signal ends the process at once
SignalKills ==
  /\ Running /\ signals = "default"
  /\ status' = "killed" /\ asked' = TRUE
  /\ UNCHANGED <<flags, at, gctx, dctx, listener, db, cleanup, goroutines, signals,
                 broke>>

\* <-dctx.Done(); httpbind.Close()
CloseSocket ==
  /\ Running /\ "closer" \in goroutines /\ dctx = "cancelled"
  /\ listener' = "closed" /\ goroutines' = goroutines \ {"closer"}
  /\ UNCHANGED <<flags, at, gctx, dctx, db, cleanup, signals, status, asked, broke>>

\* DiscoverDHTMetadata returns the error of its context, and the goroutine that
\* called it panics on every error: a stop may end here, with the database open
LookupPanics ==
  /\ Running /\ "lookup" \in goroutines /\ dctx = "cancelled"
  /\ status' = "panic"
  /\ UNCHANGED <<flags, at, gctx, dctx, listener, db, cleanup, goroutines, signals,
                 asked, broke>>

-----------------------------------------------------------------------------
RunStep ==
  \/ Signer \/ Socket \/ Database \/ Daemons \/ Served
  \/ \E s \in ToSet(Steps) : Prepare(s) \/ Fails(s)

MainStep ==
  DeferredClose \/ DeferredDone \/ DeferredCancel \/ MainShutdown \/ MainExit

DaemonNext ==
  \/ RunStep \/ PublicIP \/ MainStep
  \/ Signal \/ SignalsDefault \/ SignalKills \/ CloseSocket \/ LookupPanics

\* Goroutines run and the steps of Run return, but for the calls over the
\* network: the archive's end with their context, and PublicIP's need not end.
\* A server that serves need not stop.
DaemonFairness ==
  /\ WF_daemonvars(RunStep /\ at \notin {"archive", "serve"})
  /\ WF_daemonvars(RunStep /\ at = "archive" /\ ("auto-archive" \in flags => gctx = "cancelled"))
  /\ WF_daemonvars(Served) /\ WF_daemonvars(MainStep) /\ WF_daemonvars(CloseSocket)

DaemonSpec == DaemonInit /\ [][DaemonNext]_daemonvars /\ DaemonFairness

-----------------------------------------------------------------------------
(* Properties                                                              *)

\* The daemon ends as it was told to.  Status 0 means that a signal asked for it
\* and every step went well, an error that a step failed, and with both the
\* database is closed; a signal and a failing step end the process, wherever the
\* start was, but for a daemon that waits for the answer to PublicIP.
StopsAreReported ==
  /\ [](status = "ok" => asked /\ ~broke)
  /\ [](status = "error" => broke)
  /\ [](status \in {"ok", "error"} => db # "open")
  /\ (asked \/ broke) ~> (status # "running" \/ at = "address")
=============================================================================

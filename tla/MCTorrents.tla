----------------------------- MODULE MCTorrents -----------------------------
(* One torrent of two bytes, two handlers and two Download goroutines.  A    *)
(* torrent's row, jobs and content are touched by no other torrent's, so one *)
(* torrent shows every interleaving; two bytes let a progress be out of date.*)
EXTENDS Torrents

CONSTANTS t1, c1, c2, j1, j2

MCTorrents == {t1}
MCClients == {c1, c2}
MCJobs == {j1, j2}
=============================================================================

----------------------------- MODULE MCArchival -----------------------------
(* Instances of Archival for TLC. *)
EXTENDS Archival, TLC

CONSTANTS f1, f2, t1, t2

\* one content in two torrents, of which one is archivable
SharedContent == (t1 :> {f1}) @@ (t2 :> {f1})
\* a torrent of two files
TwoFiles == t1 :> {f1, f2}
=============================================================================

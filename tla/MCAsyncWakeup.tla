--------------------------- MODULE MCAsyncWakeup ---------------------------
(* Instances of AsyncWakeup for TLC. *)
EXTENDS AsyncWakeup

CONSTANTS i1, i2

\* Two workloads: one row can be stored while a pass over the other runs.
TwoImporters == {i1, i2}
OneImporter == {i1}
=============================================================================

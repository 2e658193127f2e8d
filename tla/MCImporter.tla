----------------------------- MODULE MCImporter -----------------------------
(* Instances of Importer for TLC: a directory and two files in it. *)
EXTENDS Importer

CONSTANTS w1, w2, d1, x1, x2
=============================================================================

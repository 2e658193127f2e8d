---------------------------- MODULE MCDiscovery ----------------------------
(* The feeds and the sampling meet only in torrents_metadata, where Add stands *)
(* for the other side: a behaviour has feeds and requests about them, or the   *)
(* --auto-discovery flag, so that the two need not be interleaved.             *)
EXTENDS Discovery

CONSTANTS f1, f2, h1, h2

MCItems == [f \in Feeds |-> [b \in 1..MaxBuild |-> IF b = 1 THEN {h1} ELSE {h1, h2}]]

\* without feeds, requests only add torrents
MCNext == Next /\ (flags.autodiscovery => \A f \in Feeds : ~feeds'[f].row)
               /\ (~flags.autodiscovery => running' = running)

MCInit == Init /\ (flags.autodiscovery <=> flags.defaults = {})

MCSpec == MCInit /\ [][MCNext]_vars /\ Fairness
=============================================================================

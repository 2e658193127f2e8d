----------------------------- MODULE MCServices -----------------------------
(* Three services that share no state: sign-in and permissions, the wireguard *)
(* configuration, and the identification of media.  A behaviour is a behaviour *)
(* of one of them, chosen at the start.                                        *)
EXTENDS Access, Vpn, Identification

VARIABLE service

CONSTANTS t1, x1, x2, a1

\* one of the titles fits the torrent; the archive has a file that is empty and
\* one with a record after its first
MCFits == [t \in {t1} |-> {x1}]
MCRecordsOf == [a \in {a1} |-> <<<<x1, x2>>, <<>>, <<x2>>>>]

MCInit ==
  /\ service \in {"access", "wireguard", "identify"}
  /\ AccessInit /\ VpnInit /\ IdentInit

MCNext ==
  \/ service = "access" /\ AccessNext /\ UNCHANGED <<service, vpnvars, identvars>>
  \/ service = "wireguard" /\ VpnNext /\ UNCHANGED <<service, accessvars, identvars>>
  \/ service = "identify" /\ IdentNext /\ UNCHANGED <<service, accessvars, vpnvars>>

MCSpec ==
  MCInit /\ [][MCNext]_<<service, accessvars, vpnvars, identvars>> /\ AccessFairness
=============================================================================

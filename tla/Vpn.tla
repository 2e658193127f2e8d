-------------------------------- MODULE Vpn ---------------------------------
(***************************************************************************)
(* The wireguard configurations of metaapi/http.wireguard.go: files named  *)
(* by their hash in one directory, a link named "current" to one of them,  *)
(* the daemon that reads the link when it starts, and VPNReload, which     *)
(* watches it.                                                             *)
(*                                                                         *)
(* The watch follows the link: it is on the file the link led to when the  *)
(* daemon started, and sees that file's attributes change, never the link. *)
(***************************************************************************)
EXTENDS Naturals, FiniteSets

CONSTANTS Configs,   \* configurations that can be uploaded
          Touchers,  \* concurrent requests that switch the configuration
          MaxCuts    \* crashes and failing system calls

ASSUME CutsAssumption == MaxCuts \in Nat

VARIABLES
  files,      \* the directory: configurations, and what a cut upload left
  uploading,  \* an upload is receiving into its temporary file
  link,       \* where "current" leads, which need not exist
  touching,   \* each request's step and the id it switches to
  up,         \* the daemon runs
  net,        \* the configuration the torrent client was bound with, or plain
  watch,      \* the file the watch is on
  event,      \* an event of the watch is waiting
  previous,   \* VPNReload's record of the link
  tclient,    \* the client the other daemons hold
  cuts,       \* faults so far
  chosen,     \* history: a switch has reported success
  broken,     \* history: since the last link was made, a switch was cut or failed
  moved       \* history: since the start, the link was seen to leave net's file

vpnvars == <<files, uploading, link, touching, up, net, watch, event, previous,
             tclient, cuts, chosen, broken, moved>>

Nothing == "none"
Leftover == "retrovibed.upload"    \* a temporary file: not a configuration
Ids == Configs \cup {Leftover}

ASSUME ConfigsAssumption == Nothing \notin Configs

Quiet == [at |-> "idle", id |-> Nothing]

VpnTypeOK ==
  /\ files \subseteq Ids /\ uploading \in BOOLEAN
  /\ link \in Ids \cup {Nothing}
  /\ touching \in [Touchers -> [at : {"idle", "removed", "linked"},
                                id : Ids \cup {Nothing}]]
  /\ up \in BOOLEAN /\ net \in Configs \cup {Nothing}
  /\ watch \in Configs \cup {Nothing} /\ event \in BOOLEAN
  /\ previous \in Ids \cup {Nothing} /\ tclient \in {"open", "closed"}
  /\ cuts \in 0..MaxCuts /\ chosen \in BOOLEAN /\ broken \in BOOLEAN
  /\ moved \in BOOLEAN

VpnInit ==
  /\ files = {} /\ uploading = FALSE /\ link = Nothing
  /\ touching = [r \in Touchers |-> Quiet]
  /\ up = FALSE /\ net = Nothing /\ watch = Nothing /\ event = FALSE
  /\ previous = Nothing /\ tclient = "open" /\ cuts = 0
  /\ chosen = FALSE /\ broken = FALSE /\ moved = FALSE

\* EvalSymlinks: where the link leads, if there is a file.
Target(l, fs) == IF l \in fs THEN l ELSE Nothing

\* What a change of file f's inode tells the watch.
Notice(f) == event' = (event \/ watch = f)

-----------------------------------------------------------------------------
(* The handlers.                                                           *)

\* create: into a temporary file, parsed, renamed to the hash of its bytes.  A
\* file of that name is replaced, and with it the inode a watch was on.
CreateTemp ==
  /\ up /\ ~uploading /\ uploading' = TRUE
  /\ UNCHANGED <<files, link, touching, up, net, watch, event, previous,
                 tclient, cuts, chosen, broken, moved>>

create(c) ==
  /\ uploading /\ uploading' = FALSE
  /\ files' = files \cup {c}
  /\ Notice(c)
  /\ watch' = IF watch = c THEN Nothing ELSE watch
  /\ UNCHANGED <<link, touching, up, net, previous, tclient, cuts, chosen,
                 broken, moved>>

\* What does not parse is removed.
CreateRefused ==
  /\ uploading /\ uploading' = FALSE
  /\ UNCHANGED <<files, link, touching, up, net, watch, event, previous,
                 tclient, cuts, chosen, broken, moved>>

\* touch: the link is removed, then made, then its target is chmodded.  Nothing
\* asks whether the id exists.
TouchRemove(r, id) ==
  /\ up /\ touching[r] = Quiet
  /\ touching' = [touching EXCEPT ![r] = [at |-> "removed", id |-> id]]
  /\ link' = Nothing
  /\ moved' = (moved \/ net # Nothing)
  /\ UNCHANGED <<files, uploading, up, net, watch, event, previous, tclient,
                 cuts, chosen, broken>>

\* As the code would be if it checked the target here, after the removal.
TouchLinkChecked(r) ==
  /\ touching[r].at = "removed" /\ link = Nothing
  /\ IF touching[r].id \in files
     THEN /\ link' = touching[r].id /\ broken' = FALSE
          /\ touching' = [touching EXCEPT ![r].at = "linked"]
     ELSE /\ touching' = [touching EXCEPT ![r] = Quiet]
          /\ UNCHANGED <<link, broken>>
  /\ UNCHANGED <<files, uploading, up, net, watch, event, previous, tclient,
                 cuts, chosen, moved>>

TouchLink(r) ==
  /\ touching[r].at = "removed" /\ link = Nothing
  /\ link' = touching[r].id /\ broken' = FALSE
  /\ touching' = [touching EXCEPT ![r].at = "linked"]
  /\ UNCHANGED <<files, uploading, up, net, watch, event, previous, tclient,
                 cuts, chosen, moved>>

\* Another request made its link in between.
TouchExists(r) ==
  /\ touching[r].at = "removed" /\ link # Nothing
  /\ touching' = [touching EXCEPT ![r] = Quiet]
  /\ UNCHANGED <<files, uploading, link, up, net, watch, event, previous,
                 tclient, cuts, chosen, broken, moved>>

\* The system call fails: the link that was there is gone.
TouchFailed(r) ==
  /\ touching[r].at = "removed" /\ cuts < MaxCuts
  /\ touching' = [touching EXCEPT ![r] = Quiet]
  /\ cuts' = cuts + 1 /\ broken' = TRUE
  /\ UNCHANGED <<files, uploading, link, up, net, watch, event, previous,
                 tclient, chosen, moved>>

TouchChmod(r) ==
  /\ touching[r].at = "linked"
  /\ touching' = [touching EXCEPT ![r] = Quiet]
  /\ IF link \in files THEN Notice(link) ELSE UNCHANGED event
  /\ chosen' = TRUE
  /\ UNCHANGED <<files, uploading, link, up, net, watch, previous, tclient,
                 cuts, broken, moved>>

\* delete parses what it removes, so a leftover stays; it does not ask whether
\* the file is the current one.  The last change of the inode is noticed.
delete(c) ==
  /\ up /\ c \in files \cap Configs
  /\ files' = files \ {c}
  /\ Notice(c)
  /\ watch' = IF watch = c THEN Nothing ELSE watch
  /\ moved' = (moved \/ net = c)
  /\ UNCHANGED <<uploading, link, touching, up, net, previous, tclient, cuts,
                 chosen, broken>>

-----------------------------------------------------------------------------
(* The daemon.                                                             *)

\* A link to nothing is no configuration: the client is bound without one.
\* What does not parse ends the start.
VpnStart ==
  /\ link # Leftover \/ Leftover \notin files
  /\ ~up
  /\ up' = TRUE
  /\ net' = Target(link, files) /\ previous' = Target(link, files)
  /\ watch' = Target(link, files)
  /\ event' = FALSE /\ tclient' = "open" /\ moved' = FALSE
  /\ UNCHANGED <<files, uploading, link, touching, cuts, chosen, broken>>

Cut(counted) ==
  /\ up /\ up' = FALSE
  /\ cuts' = IF counted THEN cuts + 1 ELSE cuts
  /\ files' = IF uploading THEN files \cup {Leftover} ELSE files
  /\ uploading' = FALSE
  /\ touching' = [r \in Touchers |-> Quiet]
  /\ broken' = (broken \/ link = Nothing)
  /\ net' = Nothing /\ watch' = Nothing /\ event' = FALSE /\ tclient' = "open"
  /\ previous' = Nothing /\ moved' = FALSE
  /\ UNCHANGED <<link, chosen>>

\* The process ends with its requests in flight, or after them.
Crash == cuts < MaxCuts /\ Cut(TRUE)

Shutdown ==
  /\ ~uploading /\ \A r \in Touchers : touching[r] = Quiet
  /\ Cut(FALSE)

\* VPNReload's action: the new client is this function's alone, the one the
\* other daemons hold is closed.
VPNReload ==
  /\ up /\ event /\ event' = FALSE
  /\ IF Target(link, files) # previous /\ Target(link, files) \in Configs
     THEN net' = Target(link, files) /\ tclient' = "closed"
     ELSE UNCHANGED <<net, tclient>>
  /\ UNCHANGED <<files, uploading, link, touching, up, watch, previous, cuts,
                 chosen, broken, moved>>

VpnNext ==
  \/ VpnStart \/ Crash \/ Shutdown \/ VPNReload
  \/ CreateTemp \/ CreateRefused
  \/ \E c \in Configs : create(c) \/ delete(c)
  \/ \E r \in Touchers :
       \/ \E id \in Ids : TouchRemove(r, id)
       \/ TouchLink(r) \/ TouchExists(r) \/ TouchFailed(r) \/ TouchChmod(r)

VpnSpec == VpnInit /\ [][VpnNext]_vpnvars

-----------------------------------------------------------------------------
(* Properties                                                              *)

\* Switching, by several requests at once, with every crash in between.  When
\* no request is under way and none was cut off or failed since the last link
\* was made, a configuration that was chosen is still linked: a daemon that
\* starts without one starts so because a switch was cut, or because the file
\* was deleted.  And the client the other daemons hold is closed under them
\* only when the link had left the configuration they were started with.
SwitchIsSafe ==
  /\ chosen /\ ~broken /\ (\A r \in Touchers : touching[r] = Quiet) => link # Nothing
  /\ tclient = "closed" => moved
=============================================================================

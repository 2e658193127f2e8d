--------------------------- MODULE ServicesProofs ---------------------------
(***************************************************************************)
(* Theorems about the daemon's services that share no state: the worker    *)
(* loop a service sleeps in (AsyncWakeup), sign-in and permissions         *)
(* (Access), the wireguard configuration (Vpn), the identification of      *)
(* media (Identification) and the announcements of torrents (Announce).    *)
(*                                                                         *)
(* Each theorem has an inductive invariant of its own: Ordered, which says *)
(* how far Close must be for the channel and the worker to be where they   *)
(* are, AccessInv, VpnInv, ImportInv, PatchesTyped and AnnounceInv.        *)
(***************************************************************************)
EXTENDS AsyncWakeup, Access, Vpn, Identification, Announce, SequenceTheorems, TLAPS

-----------------------------------------------------------------------------
(* AsyncWakeup *)

\* cleanup gets past its Wait only by the worker's deferred broadcast
ClosedByWorker ==
    /\ qclosed => closer = "returned"
    /\ closer \in {"close", "returned"} => worker = "done"

\* errAsyncClosed is on the channel, or was received, only after Close began;
\* Close begins only after the last workload, so no row is stored afterwards,
\* unless the context is cancelled, and then no pass can select rows
ClosedAfterImports ==
    /\ closer # "idle" => ctx \/ \A i \in Importers : importer[i] = "finished"
    /\ q = <<"closed">> => closer # "idle"
    /\ why = "closed" => closer # "idle"
    /\ worker = "final" => why = "closed"

\* a worker that ended because of Close made its final selection after the
\* last workload
FinalSelection ==
    worker \in {"finalupload", "exit", "done"} /\ why = "closed" =>
        dirty = {} /\ \A i \in Importers : importer[i] = "finished"

Ordered == ClosedByWorker /\ ClosedAfterImports /\ FinalSelection

-----------------------------------------------------------------------------
LEMMA TypeInit == Init => TypeOK
  BY DEF Init, TypeOK, WakerState, WorkerState, CloserState

LEMMA TypeStep == TypeOK /\ [Next]_vars => TypeOK'
<1> SUFFICES ASSUME TypeOK, [Next]_vars PROVE TypeOK'
  OBVIOUS
<1> USE DEF TypeOK, WakerState, WorkerState, CloserState
<1>1. CASE Waker
  BY <1>1 DEF Waker, WakerWait, WakerSelect
<1>2. CASE PeriodicWakeup
  BY <1>2 DEF PeriodicWakeup, Woken
<1>3. CASE Worker
  <2>1. CASE WorkerReceive
    BY <2>1 DEF WorkerReceive
  <2>2. CASE WorkerExit
    BY <2>2 DEF WorkerExit, DoneWoken
  <2>3. CASE AutoArchival \/ ArchiveScan \/ ArchiveComplete \/ ArchiveError
    BY <2>3 DEF AutoArchival, ArchiveScan, ArchiveComplete, ArchiveError
  <2>4. QED
    BY <1>3, <2>1, <2>2, <2>3 DEF Worker
<1>4. CASE \E i \in Importers : Importer(i)
  BY <1>4 DEF Importer, ImportStore, ImportBroadcast, Woken
<1>5. CASE Closer
  BY <1>5 DEF Closer, CloseBegin, CloseSend, CloseCancelled, CloseBroadcast,
              CloseWait, CloseChannel, Woken
<1>6. CASE CancelParent
  BY <1>6 DEF CancelParent
<1>7. CASE UNCHANGED vars
  BY <1>7 DEF vars
<1>8. QED
  BY <1>1, <1>2, <1>3, <1>4, <1>5, <1>6, <1>7 DEF Next

\* The state of the wakeup, of its four goroutines and of the channel is well
\* formed in every reachable state of NewAsyncWakeup and its users; in
\* particular the channel never holds more than one value.
THEOREM TypeCorrect == Spec => []TypeOK
  BY TypeInit, TypeStep, PTL DEF Spec

-----------------------------------------------------------------------------
LEMMA OrderedInit == Init => Ordered
  BY DEF Init, Ordered, ClosedByWorker, ClosedAfterImports, FinalSelection

LEMMA OrderedStep == TypeOK /\ Ordered /\ [Next]_vars => Ordered'
<1> SUFFICES ASSUME TypeOK, Ordered, [Next]_vars PROVE Ordered'
  OBVIOUS
<1> USE DEF TypeOK, Ordered, ClosedByWorker, ClosedAfterImports, FinalSelection
<1>1. CASE Waker
  BY <1>1 DEF Waker, WakerWait, WakerSelect
<1>2. CASE PeriodicWakeup
  BY <1>2 DEF PeriodicWakeup
<1>3. CASE Worker
  <2>1. CASE WorkerReceive
    BY <2>1 DEF WorkerReceive
  <2>2. CASE WorkerExit
    BY <2>2 DEF WorkerExit, DoneWoken
  <2>3. CASE AutoArchival
    BY <2>3 DEF AutoArchival
  <2>4. CASE ArchiveScan
    BY <2>4 DEF ArchiveScan
  <2>5. CASE ArchiveComplete
    BY <2>5 DEF ArchiveComplete
  <2>6. CASE ArchiveError
    BY <2>6 DEF ArchiveError
  <2>7. QED
    BY <1>3, <2>1, <2>2, <2>3, <2>4, <2>5, <2>6 DEF Worker
<1>4. CASE \E i \in Importers : Importer(i)
  <2>1. PICK i \in Importers : Importer(i)
    BY <1>4
  <2>2. CASE ImportStore(i)
    \* a workload that has not finished: no final selection was made
    <3>1. ~(worker \in {"finalupload", "exit", "done"} /\ why = "closed")
      BY <2>2 DEF ImportStore
    <3>2. QED
      BY <2>2, <3>1 DEF ImportStore
  <2>3. CASE ImportBroadcast(i)
    BY <2>3 DEF ImportBroadcast
  <2>4. QED
    BY <2>1, <2>2, <2>3 DEF Importer
<1>5. CASE Closer
  BY <1>5 DEF Closer, CloseBegin, CloseSend, CloseCancelled, CloseBroadcast,
              CloseWait, CloseChannel
<1>6. CASE CancelParent
  BY <1>6 DEF CancelParent
<1>7. CASE UNCHANGED vars
  BY <1>7 DEF vars
<1>8. QED
  BY <1>1, <1>2, <1>3, <1>4, <1>5, <1>6, <1>7 DEF Next

THEOREM OrderedInvariant == Spec => []Ordered
  BY TypeCorrect, OrderedInit, OrderedStep, PTL DEF Spec

\* cleanup never closes the channel under a worker that could still receive
\* from it, however Close, the wakeups, failures and cancellation interleave.
THEOREM ChannelSafe == Spec => []ChannelOutlivesWorker
<1>1. Ordered => ChannelOutlivesWorker
  BY DEF Ordered, ClosedByWorker, ChannelOutlivesWorker
<1>2. QED
  BY <1>1, OrderedInvariant, PTL

\* The final pass of NewAutoArchive covers every row of the import command:
\* once Close has returned because the worker stopped for it, no stored row
\* is left that no pass selected.
THEOREM FinalPassCovers == Spec => []CloseArchivesEverything
<1>1. Ordered => CloseArchivesEverything
  BY DEF Ordered, ClosedByWorker, FinalSelection, CloseArchivesEverything
<1>2. QED
  BY <1>1, OrderedInvariant, PTL

\* Close is safe for any set of workloads, however the waker, the periodic
\* wakeup, failures and cancellation interleave with it.
THEOREM SafeClose == Spec => []CloseIsSafe
<1>1. ChannelOutlivesWorker /\ CloseArchivesEverything => CloseIsSafe
  BY DEF CloseIsSafe
<1>2. QED
  BY <1>1, ChannelSafe, FinalPassCovers, PTL

-----------------------------------------------------------------------------
(* Access *)

\* an import is past the insert of the profile
ProfileFirst == importing.at \in {"authz", "identity"} => importing.key \in profiles

\* a profile that was denied has a row, so that no import inserts one
DeniedHaveRows == \A p \in denied : authz[p].id # None /\ ~authz[p].usermanagement

\* the daemon that refused its own key does not run, and nobody can revoke
RefusedIsDown ==
  /\ daemon = "starting" => importing.key = Own
  /\ refused => daemon = "down" /\ authz[Own].id = "generated"

\* a sign-in that is under way has drawn its state
StatesDrawn == \A k \in Keys : client[k].at # "idle" => client[k].state \in 1..MaxStates

AccessTyped == AccessTypeOK /\ StatesDrawn

AccessInv ==
  AccessTyped /\ ImportedSignIn /\ ProfileFirst /\ DeniedHaveRows /\ RefusedIsDown

LEMMA AccessStart == AccessInit => AccessInv
<1> SUFFICES ASSUME AccessInit PROVE AccessInv
  OBVIOUS
<1>1. NoRow \in AuthzRows /\ NoImport \in [key : Keys, at : Steps \cup {None}]
  BY OwnAssumption DEF NoRow, AuthzRows, NoImport
<1>2. Idle \in [at : {"idle", "asking", "registered", "code"}, state : 0..MaxStates,
               retried : BOOLEAN]
  BY BoundsAssumption DEF Idle
<1>3. AccessTypeOK
  <2>1. runs \in 0..MaxRuns /\ states \in 0..MaxStates /\ consumed \subseteq 1..MaxStates
    BY BoundsAssumption DEF AccessInit
  <2>2. QED
    BY <1>1, <1>2, <2>1 DEF AccessInit, AccessTypeOK
<1>4. StatesDrawn /\ ImportedSignIn /\ ProfileFirst /\ DeniedHaveRows /\ RefusedIsDown
  BY DEF AccessInit, StatesDrawn, ImportedSignIn, ProfileFirst, DeniedHaveRows,
         RefusedIsDown, NoImport, Idle, None
<1>5. QED
  BY <1>3, <1>4 DEF AccessInv, AccessTyped

LEMMA AccessTypes == AccessTyped /\ [AccessNext]_accessvars => AccessTypeOK'
<1> SUFFICES ASSUME AccessTypeOK, StatesDrawn, [AccessNext]_accessvars PROVE AccessTypeOK'
  BY DEF AccessTyped
<1> DEFINE C == [at : {"idle", "asking", "registered", "code"}, state : 0..MaxStates,
                 retried : BOOLEAN]
<1>0. /\ NoImport \in [key : Keys, at : Steps \cup {None}]
      /\ Idle \in C /\ NoRow \in AuthzRows
      /\ importing.key \in Keys
  BY OwnAssumption, BoundsAssumption DEF NoImport, Idle, NoRow, AuthzRows, AccessTypeOK
<1>1. CASE Start \/ Stop
  <2>1. CASE Start
    <3>1. runs' \in 0..MaxRuns
      BY <2>1, BoundsAssumption DEF Start, AccessTypeOK
    <3>2. [key |-> Own, at |-> "profile"] \in [key : Keys, at : Steps \cup {None}]
      BY OwnAssumption DEF Steps
    <3>3. QED
      BY <2>1, <3>1, <3>2 DEF Start, AccessTypeOK
  <2>2. CASE Stop
    BY <1>0, <2>2 DEF Stop, AccessTypeOK
  <2>3. QED
    BY <1>1, <2>1, <2>2
<1>2. CASE ProfileInsertWithID \/ ImportRefused \/ IdentityInsertWithDefaults
  BY <1>0, <1>2
  DEF ProfileInsertWithID, ImportRefused, IdentityInsertWithDefaults, AccessTypeOK, Steps
<1>3. CASE ImportAuthz
  <2>1. AuthzInsertWithIDDefaults(authz[importing.key]) \in AuthzRows
    BY <1>0 DEF AuthzInsertWithIDDefaults, AuthzRows, AccessTypeOK
  <2>2. QED
    BY <1>0, <1>3, <2>1 DEF ImportAuthz, AccessTypeOK, Steps
<1>4. ASSUME NEW k \in Keys, ImportPublicKey(k) PROVE AccessTypeOK'
  BY <1>4 DEF ImportPublicKey, AccessTypeOK, Steps
<1>5. ASSUME NEW k \in Keys, SignIn(k) PROVE AccessTypeOK'
  <2>1. states' \in 0..MaxStates
    BY <1>5, BoundsAssumption DEF SignIn, AccessTypeOK
  <2>2. client' \in [Keys -> C]
    BY <1>5, <2>1 DEF SignIn, AccessTypeOK
  <2>3. QED
    BY <1>5, <2>1, <2>2 DEF SignIn, AccessTypeOK
<1>6. ASSUME NEW k \in Keys, auth(k) PROVE AccessTypeOK'
  <2>1. client' \in [Keys -> C]
    BY <1>6 DEF auth, AccessTypeOK
  <2>2. QED
    BY <1>6, <2>1 DEF auth, AccessTypeOK, IdentityInsertZeroWithDefaults
<1>7. ASSUME NEW k \in Keys, ConsumedTokenInsertWithDefaults(k) PROVE AccessTypeOK'
  <2>1. client' \in [Keys -> C]
    <3>1. client[k] \in C /\ [client[k] EXCEPT !.at = "code"] \in C
      BY DEF AccessTypeOK
    <3>2. QED
      BY <1>0, <1>7, <3>1 DEF ConsumedTokenInsertWithDefaults, AccessTypeOK
  <2>2. consumed' \subseteq 1..MaxStates
    BY <1>7 DEF ConsumedTokenInsertWithDefaults, AccessTypeOK, StatesDrawn
  <2>3. QED
    BY <1>7, <2>1, <2>2 DEF ConsumedTokenInsertWithDefaults, AccessTypeOK
<1>8. ASSUME NEW k \in Keys, AnswerLost(k) PROVE AccessTypeOK'
  BY <1>8 DEF AnswerLost, AccessTypeOK
<1>9. ASSUME NEW k \in Keys, token(k) PROVE AccessTypeOK'
  BY <1>0, <1>9 DEF token, AccessTypeOK
<1>10. ASSUME NEW k \in Keys, authorize(k) PROVE AccessTypeOK'
  BY <1>10 DEF authorize, AccessTypeOK, TokenOptionFromAuthz, Tokens, AuthzRows
<1>11. ASSUME NEW k \in Keys, ExpireAccess(k) PROVE AccessTypeOK'
  BY <1>11 DEF ExpireAccess, AccessTypeOK
<1>12. ASSUME NEW k \in Keys, NEW p \in Keys, revoke(k, p) PROVE AccessTypeOK'
  BY <1>0, <1>12 DEF revoke, AccessTypeOK
<1>13. ASSUME NEW k \in Keys, NEW p \in Keys, NEW allow \in BOOLEAN, grant(k, p, allow)
       PROVE  AccessTypeOK'
  BY <1>13 DEF grant, AccessTypeOK, AuthzRows
<1>14. ASSUME NEW t \in Tokens, ExpireBearer(t) PROVE AccessTypeOK'
  BY <1>14 DEF ExpireBearer, AccessTypeOK
<1>15. CASE UNCHANGED accessvars
  BY <1>15 DEF accessvars, AccessTypeOK
<1>16. QED
  BY <1>1, <1>2, <1>3, <1>4, <1>5, <1>6, <1>7, <1>8, <1>9, <1>10, <1>11, <1>12, <1>13,
     <1>14, <1>15
  DEF AccessNext

LEMMA DrawnNext == AccessTyped /\ [AccessNext]_accessvars => StatesDrawn'
<1> SUFFICES ASSUME AccessTypeOK, StatesDrawn, [AccessNext]_accessvars PROVE StatesDrawn'
  BY DEF AccessTyped
<1>1. CASE client' = [k \in Keys |-> Idle] \/ UNCHANGED client
  BY <1>1 DEF StatesDrawn, Idle
<1>2. ASSUME NEW k \in Keys, SignIn(k) PROVE StatesDrawn'
  <2>1. states + 1 \in 1..MaxStates
    BY <1>2, BoundsAssumption DEF SignIn, AccessTypeOK
  <2>2. QED
    BY <1>2, <2>1 DEF SignIn, StatesDrawn, AccessTypeOK
<1>3. ASSUME NEW k \in Keys,
             auth(k) \/ ConsumedTokenInsertWithDefaults(k) \/ AnswerLost(k) \/ token(k)
      PROVE  StatesDrawn'
  <2>1. /\ \A i \in Keys \ {k} : client'[i] = client[i]
        /\ client[k].at # "idle"
        /\ client'[k] = Idle \/ client'[k].state = client[k].state
    BY <1>3 DEF auth, ConsumedTokenInsertWithDefaults, AnswerLost, token, AccessTypeOK
  <2>2. QED
    BY <2>1 DEF StatesDrawn, Idle
<1>4. QED
  BY <1>1, <1>2, <1>3
  DEF AccessNext, Start, Stop, ProfileInsertWithID, ImportAuthz, ImportRefused,
      IdentityInsertWithDefaults, ImportPublicKey, authorize, ExpireAccess, revoke, grant,
      ExpireBearer, accessvars

LEMMA AccessStep == AccessInv /\ [AccessNext]_accessvars => AccessInv'
<1> SUFFICES ASSUME AccessTypeOK, ImportedSignIn, ProfileFirst, DeniedHaveRows, RefusedIsDown,
                    [AccessNext]_accessvars
             PROVE  ImportedSignIn' /\ ProfileFirst' /\ DeniedHaveRows' /\ RefusedIsDown'
  BY AccessTypes, DrawnNext DEF AccessInv, AccessTyped
<1>0. importing.key \in Keys /\ importing.at \in Steps \cup {None}
  BY DEF AccessTypeOK
<1>1. CASE Start \/ Stop \/ \E k \in Keys : ImportPublicKey(k)
  BY <1>1
  DEF Start, Stop, ImportPublicKey, ImportedSignIn, ProfileFirst, DeniedHaveRows,
      RefusedIsDown, NoImport, None
<1>2. CASE ProfileInsertWithID
  BY <1>0, <1>2
  DEF ProfileInsertWithID, ImportedSignIn, ProfileFirst, DeniedHaveRows, RefusedIsDown,
      AccessTypeOK
<1>3. CASE ImportAuthz
  <2>1. /\ \A k \in Keys \ {importing.key} : authz'[k] = authz[k]
        /\ authz[importing.key].id \notin {None, "generated"}
             => authz'[importing.key] = authz[importing.key]
        /\ authz[importing.key].id # "generated"
    BY <1>0, <1>3
    DEF ImportAuthz, AuthzInsertable, AuthzInsertWithIDDefaults, AccessTypeOK
  <2>2. DeniedHaveRows'
    <3>1. denied' = denied /\ denied \subseteq Keys
      BY <1>3 DEF ImportAuthz, AccessTypeOK
    <3>2. QED
      BY <1>0, <2>1, <3>1 DEF DeniedHaveRows
  <2>3. importing'.key = importing.key /\ importing'.at = "identity"
    BY <1>3 DEF ImportAuthz, AccessTypeOK
  <2>4. RefusedIsDown'
    BY <1>3, <2>1, <2>3, OwnAssumption DEF ImportAuthz, RefusedIsDown
  <2>5. ImportedSignIn' /\ ProfileFirst'
    BY <1>3, <2>3 DEF ImportAuthz, ImportedSignIn, ProfileFirst
  <2>6. QED
    BY <2>2, <2>4, <2>5
<1>4. CASE ImportRefused
  <2>1. refused' => authz'[Own].id = "generated"
    BY <1>0, <1>4, OwnAssumption
    DEF ImportRefused, RefusedIsDown, AuthzInsertable, AccessTypeOK
  <2>2. QED
    BY <1>4, <2>1
    DEF ImportRefused, ImportedSignIn, ProfileFirst, DeniedHaveRows, RefusedIsDown,
        NoImport, None
<1>5. CASE IdentityInsertWithDefaults
  <2>1. ImportedSignIn'
    BY <1>0, <1>5
    DEF IdentityInsertWithDefaults, ImportedSignIn, ProfileFirst, AccessTypeOK
  <2>2. QED
    BY <1>5, <2>1
    DEF IdentityInsertWithDefaults, ProfileFirst, DeniedHaveRows, RefusedIsDown,
        NoImport, None
<1>6. ASSUME NEW k \in Keys, auth(k)
      PROVE  ImportedSignIn' /\ ProfileFirst' /\ DeniedHaveRows' /\ RefusedIsDown'
  <2>1. ImportedSignIn'
    BY <1>6 DEF auth, ImportedSignIn, IdentityInsertZeroWithDefaults, AccessTypeOK, None
  <2>2. QED
    BY <1>6, <2>1 DEF auth, ProfileFirst, DeniedHaveRows, RefusedIsDown
<1>7. CASE \/ \E k \in Keys : \/ SignIn(k) \/ ConsumedTokenInsertWithDefaults(k)
                              \/ AnswerLost(k) \/ token(k) \/ authorize(k)
                              \/ ExpireAccess(k)
           \/ \E t \in Tokens : ExpireBearer(t)
           \/ UNCHANGED accessvars
  <2>1. UNCHANGED <<daemon, profiles, authz, identity, importing, imported, refused, denied>>
    BY <1>7
    DEF SignIn, ConsumedTokenInsertWithDefaults, AnswerLost, token, authorize,
        ExpireAccess, ExpireBearer, accessvars
  <2>2. QED
    BY <2>1 DEF ImportedSignIn, ProfileFirst, DeniedHaveRows, RefusedIsDown
<1>8. ASSUME NEW k \in Keys, NEW p \in Keys, revoke(k, p)
      PROVE  ImportedSignIn' /\ ProfileFirst' /\ DeniedHaveRows' /\ RefusedIsDown'
  <2>1. DeniedHaveRows'
    BY <1>8 DEF revoke, DeniedHaveRows, AccessTypeOK
  <2>2. QED
    BY <1>8, <2>1
    DEF revoke, AuthzPermUsermanagement, ImportedSignIn, ProfileFirst, RefusedIsDown
<1>9. ASSUME NEW k \in Keys, NEW p \in Keys, NEW allow \in BOOLEAN, grant(k, p, allow)
      PROVE  ImportedSignIn' /\ ProfileFirst' /\ DeniedHaveRows' /\ RefusedIsDown'
  <2>1. DeniedHaveRows'
    BY <1>9 DEF grant, DeniedHaveRows, AccessTypeOK, None
  <2>2. QED
    BY <1>9, <2>1
    DEF grant, AuthzPermUsermanagement, ImportedSignIn, ProfileFirst, RefusedIsDown
<1>10. QED
  BY <1>1, <1>2, <1>3, <1>4, <1>5, <1>6, <1>7, <1>8, <1>9 DEF AccessNext

\* Whoever imports keys, signs in, grants and revokes, and however often the daemon
\* starts: an imported key keeps its sign-in, a denied profile has no permission, and
\* a start is refused only behind a row that a grant inserted.
THEOREM ImportingIsSafe == AccessSpec => []ImportsAreSafe
<1>1. AccessInv => ImportsAreSafe
  BY DEF AccessInv, ImportsAreSafe, ImportKeepsDecisions, DeniedHaveRows, RefusedIsDown
<1>2. QED
  BY <1>1, AccessStart, AccessStep, PTL DEF AccessSpec

-----------------------------------------------------------------------------
(* Vpn *)

\* a link that was made is there, or a request has just removed it
LinkedOrRemoved ==
  (chosen \/ \E r \in Touchers : touching[r].at = "linked") /\ ~broken =>
      link # Nothing \/ \E r \in Touchers : touching[r].at = "removed"

TouchesKnown == \A r \in Touchers : touching[r].at # "idle" => touching[r].id \in Ids

\* until the link is seen to move, it leads where it led at the start
SameSinceStart ==
  /\ ~moved => net = previous /\ (net # Nothing => link = net /\ net \in files)
  /\ previous = Nothing => watch = Nothing /\ ~event
  /\ tclient = "closed" => moved

VpnInv == VpnTypeOK /\ TouchesKnown /\ LinkedOrRemoved /\ SameSinceStart

LEMMA NothingIsNoId == Nothing \notin Ids
  BY ConfigsAssumption DEF Ids, Nothing, Leftover

LEMMA VpnBegins == VpnInit => VpnInv
<1> SUFFICES ASSUME VpnInit PROVE VpnInv
  OBVIOUS
<1>1. Quiet \in [at : {"idle", "removed", "linked"}, id : Ids \cup {Nothing}]
  BY DEF Quiet
<1>2. VpnTypeOK
  <2>1. cuts \in 0..MaxCuts
    BY CutsAssumption DEF VpnInit
  <2>2. QED
    BY <1>1, <2>1 DEF VpnInit, VpnTypeOK
<1>3. TouchesKnown /\ LinkedOrRemoved /\ SameSinceStart
  BY DEF VpnInit, TouchesKnown, LinkedOrRemoved, SameSinceStart, Quiet
<1>4. QED
  BY <1>2, <1>3 DEF VpnInv

LEMMA VpnTypes == VpnTypeOK /\ [VpnNext]_vpnvars => VpnTypeOK'
<1> SUFFICES ASSUME VpnTypeOK, [VpnNext]_vpnvars PROVE VpnTypeOK'
  OBVIOUS
<1> DEFINE T == [at : {"idle", "removed", "linked"}, id : Ids \cup {Nothing}]
<1>0. Quiet \in T /\ Configs \subseteq Ids /\ Leftover \in Ids
  BY DEF Quiet, Ids
<1>1. CASE CreateTemp \/ CreateRefused
  BY <1>1 DEF CreateTemp, CreateRefused, VpnTypeOK
<1>2. ASSUME NEW c \in Configs, create(c) \/ delete(c) PROVE VpnTypeOK'
  BY <1>0, <1>2 DEF create, delete, Notice, VpnTypeOK
<1>3. ASSUME NEW r \in Touchers, NEW id \in Ids, TouchRemove(r, id) PROVE VpnTypeOK'
  BY <1>3 DEF TouchRemove, VpnTypeOK
<1>4. ASSUME NEW r \in Touchers, TouchLink(r) PROVE VpnTypeOK'
  BY <1>4 DEF TouchLink, VpnTypeOK
<1>5. ASSUME NEW r \in Touchers, TouchExists(r) \/ TouchChmod(r) PROVE VpnTypeOK'
  <2>1. /\ touching' = [touching EXCEPT ![r] = Quiet]
        /\ event' \in BOOLEAN /\ chosen' \in BOOLEAN
        /\ UNCHANGED <<files, uploading, link, up, net, watch, previous, tclient,
                       cuts, broken, moved>>
    BY <1>5 DEF TouchExists, TouchChmod, Notice, VpnTypeOK
  <2>2. QED
    BY <1>0, <2>1 DEF VpnTypeOK
<1>6. ASSUME NEW r \in Touchers, TouchFailed(r) PROVE VpnTypeOK'
  <2>1. cuts' \in 0..MaxCuts
    BY <1>6, CutsAssumption DEF TouchFailed, VpnTypeOK
  <2>2. QED
    BY <1>0, <1>6, <2>1 DEF TouchFailed, VpnTypeOK
<1>7. CASE VpnStart
  BY <1>7 DEF VpnStart, Target, VpnTypeOK, Ids
<1>8. CASE Crash \/ Shutdown
  <2>1. cuts' \in 0..MaxCuts
    BY <1>8, CutsAssumption DEF Crash, Shutdown, Cut, VpnTypeOK
  <2>2. QED
    BY <1>0, <1>8, <2>1 DEF Crash, Shutdown, Cut, VpnTypeOK
<1>9. CASE VPNReload
  BY <1>9 DEF VPNReload, VpnTypeOK
<1>10. CASE UNCHANGED vpnvars
  BY <1>10 DEF vpnvars, VpnTypeOK
<1>11. QED
  BY <1>1, <1>2, <1>3, <1>4, <1>5, <1>6, <1>7, <1>8, <1>9, <1>10 DEF VpnNext

LEMMA VpnStep == VpnInv /\ [VpnNext]_vpnvars => VpnInv'
<1> SUFFICES ASSUME VpnTypeOK, TouchesKnown, LinkedOrRemoved, SameSinceStart,
                    [VpnNext]_vpnvars
             PROVE  TouchesKnown' /\ LinkedOrRemoved' /\ SameSinceStart'
  BY VpnTypes DEF VpnInv
<1> USE NothingIsNoId
<1>q. Quiet.at = "idle"
  BY DEF Quiet
<1>1. CASE CreateTemp \/ CreateRefused \/ UNCHANGED vpnvars
  BY <1>1
  DEF CreateTemp, CreateRefused, vpnvars, TouchesKnown, LinkedOrRemoved, SameSinceStart
<1>2. ASSUME NEW c \in Configs, create(c) \/ delete(c)
      PROVE  TouchesKnown' /\ LinkedOrRemoved' /\ SameSinceStart'
  <2>1. TouchesKnown' /\ LinkedOrRemoved'
    BY <1>2 DEF create, delete, TouchesKnown, LinkedOrRemoved
  <2>2. c # Nothing
    BY ConfigsAssumption
  <2>3. SameSinceStart'
    BY <1>2, <2>2 DEF create, delete, Notice, SameSinceStart
  <2>4. QED
    BY <2>1, <2>3
<1>3. ASSUME NEW r \in Touchers, NEW id \in Ids, TouchRemove(r, id)
      PROVE  TouchesKnown' /\ LinkedOrRemoved' /\ SameSinceStart'
  <2>1. /\ touching'[r].at = "removed" /\ touching'[r].id = id
        /\ \A s \in Touchers \ {r} : touching'[s] = touching[s]
    BY <1>3 DEF TouchRemove, VpnTypeOK
  <2>2. TouchesKnown' /\ LinkedOrRemoved'
    BY <2>1 DEF TouchesKnown, LinkedOrRemoved
  <2>3. SameSinceStart'
    BY <1>3 DEF TouchRemove, SameSinceStart
  <2>4. QED
    BY <2>2, <2>3
<1>4. ASSUME NEW r \in Touchers, TouchLink(r)
      PROVE  TouchesKnown' /\ LinkedOrRemoved' /\ SameSinceStart'
  <2>1. /\ touching'[r].at = "linked" /\ touching'[r].id = touching[r].id
        /\ \A s \in Touchers \ {r} : touching'[s] = touching[s]
        /\ link = Nothing /\ link' = touching[r].id /\ touching[r].id \in Ids
    BY <1>4 DEF TouchLink, VpnTypeOK, TouchesKnown
  <2>2. TouchesKnown' /\ LinkedOrRemoved'
    BY <2>1 DEF TouchesKnown, LinkedOrRemoved
  <2>3. SameSinceStart'
    BY <1>4, <2>1 DEF TouchLink, SameSinceStart
  <2>4. QED
    BY <2>2, <2>3
<1>5. ASSUME NEW r \in Touchers, TouchExists(r) \/ TouchFailed(r) \/ TouchChmod(r)
      PROVE  TouchesKnown' /\ LinkedOrRemoved' /\ SameSinceStart'
  <2>1. /\ touching'[r] = Quiet
        /\ \A s \in Touchers \ {r} : touching'[s] = touching[s]
        /\ UNCHANGED <<link, files, moved, net, previous, watch, tclient>>
    BY <1>5 DEF TouchExists, TouchFailed, TouchChmod, VpnTypeOK
  <2>2. TouchesKnown'
    BY <1>q, <2>1 DEF TouchesKnown
  <2>3. LinkedOrRemoved'
    <3>1. CASE TouchExists(r)
      BY <2>1, <3>1 DEF TouchExists, LinkedOrRemoved
    <3>2. CASE TouchFailed(r)
      BY <3>2 DEF TouchFailed, LinkedOrRemoved
    <3>3. CASE TouchChmod(r)
      <4>1. touching[r].at = "linked" /\ UNCHANGED broken
        BY <3>3 DEF TouchChmod
      <4>2. QED
        BY <2>1, <4>1 DEF LinkedOrRemoved
    <3>4. QED
      BY <1>5, <3>1, <3>2, <3>3
  <2>4. SameSinceStart'
    <3>1. previous = Nothing => ~event'
      BY <1>5 DEF TouchExists, TouchFailed, TouchChmod, Notice, SameSinceStart, VpnTypeOK
    <3>2. QED
      BY <2>1, <3>1 DEF SameSinceStart
  <2>5. QED
    BY <2>2, <2>3, <2>4
<1>6. CASE VpnStart
  <2>1. TouchesKnown' /\ LinkedOrRemoved'
    BY <1>6 DEF VpnStart, TouchesKnown, LinkedOrRemoved
  <2>2. SameSinceStart'
    BY <1>6 DEF VpnStart, Target, SameSinceStart
  <2>3. QED
    BY <2>1, <2>2
<1>7. CASE Crash \/ Shutdown
  <2>1. /\ \A r \in Touchers : touching'[r] = Quiet
        /\ broken' = (broken \/ link = Nothing) /\ link' = link
        /\ net' = Nothing /\ previous' = Nothing /\ watch' = Nothing /\ event' = FALSE
        /\ tclient' = "open"
    BY <1>7 DEF Crash, Shutdown, Cut
  <2>2. TouchesKnown' /\ LinkedOrRemoved'
    BY <1>q, <2>1 DEF TouchesKnown, LinkedOrRemoved
  <2>3. SameSinceStart'
    BY <2>1 DEF SameSinceStart
  <2>4. QED
    BY <2>2, <2>3
<1>8. CASE VPNReload
  <2>1. TouchesKnown' /\ LinkedOrRemoved'
    BY <1>8 DEF VPNReload, TouchesKnown, LinkedOrRemoved
  <2>2. ~moved => Target(link, files) = previous
    BY <1>8 DEF VPNReload, SameSinceStart, Target
  <2>3. SameSinceStart'
    BY <1>8, <2>2 DEF VPNReload, SameSinceStart
  <2>4. QED
    BY <2>1, <2>3
<1>9. QED
  BY <1>1, <1>2, <1>3, <1>4, <1>5, <1>6, <1>7, <1>8 DEF VpnNext

\* However many requests switch the configuration at once: the link that was chosen is
\* missing, when none is under way, only after one of them was cut off or failed; and
\* VPNReload closes the daemons' client only after the link left their configuration.
THEOREM SwitchingIsSafe == VpnSpec => []SwitchIsSafe
<1>1. VpnInv => SwitchIsSafe
  BY DEF VpnInv, SwitchIsSafe, LinkedOrRemoved, SameSinceStart, Quiet
<1>2. QED
  BY <1>1, VpnBegins, VpnStep, PTL DEF VpnSpec

-----------------------------------------------------------------------------
(* Identification *)

Work == [todo : SUBSET Archives, handed : SUBSET Archives, records : SUBSET Titles]

\* an archive that was handed over has its records in the catalogue, with a pool or lost
HandedIsKept ==
  \A a \in importedAt \cup work["pass"].handed \cup work["abandoned"].handed :
    FirstRecords(RecordsOf[a])
      \subseteq catalogue \cup lost \cup work["pass"].records \cup work["abandoned"].records

ImportInv ==
  /\ work \in [Pools -> Work]
  /\ importedAt \subseteq Archives
  /\ import \in [at : {"idle", "archives"}, first : {"none", "ok", "error"}]
  /\ import.at = "idle" => work["pass"] = NoWork
  /\ HandedIsKept

\* an archive that is cut off somewhere has its records before the cut or after it
LEMMA CutRecords ==
    ASSUME NEW s \in Seq(Seq(Titles)), NEW m \in 0..Len(s), m < Len(s)
    PROVE  /\ FirstRecords(s) \subseteq FirstRecords(SubSeq(s, 1, m))
                                          \cup FirstRecords(SubSeq(s, m + 1, Len(s)))
           /\ FirstRecords(SubSeq(s, 1, m)) \subseteq FirstRecords(s)
<1> DEFINE before == SubSeq(s, 1, m)
           after == SubSeq(s, m + 1, Len(s))
<1>1. Len(s) \in Nat /\ DOMAIN s = 1..Len(s)
  OBVIOUS
<1>2. /\ DOMAIN before = 1..m
      /\ \A i \in 1..m : before[i] = s[i]
  BY <1>1, SubSeqProperties
<1>3. /\ DOMAIN after = 1..(Len(s) - m)
      /\ \A i \in 1..(Len(s) - m) : after[i] = s[m + i]
  BY <1>1, SubSeqProperties
<1> HIDE DEF before, after
<1>4. ASSUME NEW i \in DOMAIN s, s[i] # <<>>
      PROVE  Head(s[i]) \in FirstRecords(before) \cup FirstRecords(after)
  <2>1. CASE i <= m
    BY <1>1, <1>2, <1>4, <2>1 DEF FirstRecords
  <2>2. CASE i > m
    <3>1. i \in 1..Len(s)
      BY <1>1
    <3>2. i - m \in 1..(Len(s) - m) /\ m + (i - m) = i
      BY <1>1, <2>2, <3>1
    <3>3. i - m \in DOMAIN after /\ after[i - m] = s[i]
      BY <1>3, <3>2
    <3>4. QED
      BY <1>4, <3>3 DEF FirstRecords
  <2>3. QED
    BY <1>1, <2>1, <2>2
<1>5. FirstRecords(before) \subseteq FirstRecords(s)
  BY <1>1, <1>2 DEF FirstRecords
<1>6. QED
  BY <1>4, <1>5 DEF FirstRecords, before, after

LEMMA RecordsAreTitles ==
    ASSUME NEW s \in Seq(Seq(Titles))
    PROVE  FirstRecords(s) \subseteq Titles
<1>1. ASSUME NEW i \in DOMAIN s, s[i] # <<>> PROVE Head(s[i]) \in Titles
  BY <1>1
<1>2. QED
  BY <1>1 DEF FirstRecords

LEMMA ImportBegins == IdentInit => ImportInv
  BY DEF IdentInit, ImportInv, HandedIsKept, Work, NoWork, Pools, NotImporting

Sources == catalogue \cup lost \cup work["pass"].records \cup work["abandoned"].records

LEMMA ImportStep == ImportInv /\ [IdentNext]_identvars => ImportInv'
<1> SUFFICES ASSUME ImportInv, [IdentNext]_identvars PROVE ImportInv'
  OBVIOUS
<1> DEFINE Record == [at : {"idle", "archives"}, first : {"none", "ok", "error"}]
<1>0. /\ work["pass"] \in Work /\ work["abandoned"] \in Work
      /\ Pools = {"pass", "abandoned"} /\ NoWork \in Work
  BY DEF ImportInv, Pools, NoWork, Work
<1>n. NoWork.todo = {} /\ NoWork.handed = {} /\ NoWork.records = {}
  BY DEF NoWork
<1>a. \A a \in Archives : /\ RecordsOf[a] \in Seq(Seq(Titles))
                          /\ FirstRecords(RecordsOf[a]) \subseteq Titles
  BY IdentificationAssumption, RecordsAreTitles
\* what a step of pool p leaves of its work, and where the records may go
<1>s. ASSUME NEW p \in Pools, NEW w \in Work, work' = [work EXCEPT ![p] = w],
             NEW a \in Archives, work[p] # NoWork,
             importedAt' \subseteq importedAt \cup {a}, import' \in Record,
             import'.at = import.at, Sources \subseteq Sources',
             w.handed \subseteq work[p].handed \cup {a},
             a \in importedAt \cup w.handed \cup importedAt'
               => FirstRecords(RecordsOf[a]) \subseteq Sources'
      PROVE  ImportInv'
  <2>1. work' \in [Pools -> Work] /\ importedAt' \subseteq Archives
    BY <1>s DEF ImportInv
  <2>2. import'.at = "idle" => work'["pass"] = NoWork
    BY <1>0, <1>s DEF ImportInv
  <2>3. HandedIsKept'
    <3>1. ASSUME NEW b \in importedAt' \cup work'["pass"].handed \cup work'["abandoned"].handed
          PROVE  FirstRecords(RecordsOf[b]) \subseteq Sources'
      <4>1. b \in importedAt \cup work["pass"].handed \cup work["abandoned"].handed
              \/ (b = a /\ a \in importedAt \cup w.handed \cup importedAt')
        BY <1>0, <1>s, <3>1 DEF ImportInv
      <4>2. QED
        BY <1>s, <4>1 DEF ImportInv, HandedIsKept, Sources
    <3>2. QED
      BY <3>1 DEF HandedIsKept, Sources
  <2>4. QED
    BY <1>s, <2>1, <2>2, <2>3 DEF ImportInv
<1>1. ASSUME NEW p \in Pools, NEW a \in Archives, ImportArchive(p, a) PROVE ImportInv'
  <2> DEFINE w == [work[p] EXCEPT !.todo = @ \ {a}, !.handed = @ \cup {a},
                                  !.records = @ \cup FirstRecords(RecordsOf[a])]
  <2>1. /\ work' = [work EXCEPT ![p] = w] /\ a \in work[p].todo
        /\ UNCHANGED <<catalogue, lost, import, importedAt>>
    BY <1>1 DEF ImportArchive
  <2>2. /\ w \in Work /\ w.handed = work[p].handed \cup {a}
        /\ w.records = work[p].records \cup FirstRecords(RecordsOf[a])
    BY <1>0, <1>a DEF Work
  <2> HIDE DEF w
  <2>3. Sources \subseteq Sources' /\ FirstRecords(RecordsOf[a]) \subseteq Sources'
    BY <1>0, <2>1, <2>2 DEF Sources, ImportInv
  <2>4. QED
    BY <1>n, <1>s, <2>1, <2>2, <2>3 DEF ImportInv
<1>2. ASSUME NEW p \in Pools, NEW a \in Archives, NEW m \in 0..Len(RecordsOf[a]),
             ImportArchiveCut(p, a, m)
      PROVE  ImportInv'
  <2> DEFINE r == SubSeq(RecordsOf[a], 1, m)
             rest == SubSeq(RecordsOf[a], m + 1, Len(RecordsOf[a]))
             w == [work[p] EXCEPT !.todo = @ \ {a}, !.handed = @ \cup {a},
                                  !.records = @ \cup FirstRecords(r)]
  <2>1. /\ work' = [work EXCEPT ![p] = w] /\ a \in work[p].todo /\ m < Len(RecordsOf[a])
        /\ lost' = lost \cup FirstRecords(rest)
        /\ UNCHANGED <<catalogue, import, importedAt>>
    BY <1>2 DEF ImportArchiveCut
  <2>c. /\ FirstRecords(RecordsOf[a]) \subseteq FirstRecords(r) \cup FirstRecords(rest)
        /\ FirstRecords(r) \subseteq Titles
    BY <1>a, <2>1, CutRecords
  <2> HIDE DEF r, rest
  <2>2. /\ w \in Work /\ w.handed = work[p].handed \cup {a}
        /\ w.records = work[p].records \cup FirstRecords(r)
    BY <1>0, <2>c DEF Work
  <2> HIDE DEF w
  <2>3. Sources \subseteq Sources' /\ FirstRecords(RecordsOf[a]) \subseteq Sources'
    BY <1>0, <2>1, <2>2, <2>c DEF Sources, ImportInv
  <2>4. QED
    BY <1>n, <1>s, <2>1, <2>2, <2>3 DEF ImportInv
<1>3. ASSUME NEW p \in Pools, NEW a \in Archives,
             MetadataImportedByID(p, a) \/ ImportArchiveFails(p, a)
      PROVE  ImportInv'
  <2>1. PICK w \in {[work[p] EXCEPT !.handed = @ \ {a}],
                    [work[p] EXCEPT !.todo = @ \ {a}, !.handed = @ \ {a}]} :
           work' = [work EXCEPT ![p] = w]
    BY <1>3 DEF MetadataImportedByID, ImportArchiveFails
  <2>2. /\ w \in Work /\ w.handed = work[p].handed \ {a} /\ w.records = work[p].records
    <3>1. work[p] \in [todo : SUBSET Archives, handed : SUBSET Archives,
                       records : SUBSET Titles]
      BY <1>0 DEF Work
    <3>2. CASE w = [work[p] EXCEPT !.handed = @ \ {a}]
      BY <3>1, <3>2 DEF Work
    <3>3. CASE w = [work[p] EXCEPT !.todo = @ \ {a}, !.handed = @ \ {a}]
      BY <3>1, <3>3 DEF Work
    <3> QED
      BY <2>1, <3>2, <3>3
  <2>3. /\ a \in work[p].todo \cup work[p].handed
        /\ importedAt' \in {importedAt, importedAt \cup {a}}
        /\ importedAt' # importedAt => a \in work[p].handed
        /\ UNCHANGED <<catalogue, lost>>
        /\ \E o \in {"ok", "error"} : Outcome(p, o)
    BY <1>3 DEF MetadataImportedByID, ImportArchiveFails
  <2>4. import' \in Record /\ import'.at = import.at
    BY <2>3 DEF Outcome, ImportInv
  <2>5. Sources' = Sources
    BY <1>0, <2>1, <2>2, <2>3 DEF Sources, ImportInv
  <2>6. a \in importedAt \cup w.handed \cup importedAt'
          => FirstRecords(RecordsOf[a]) \subseteq Sources'
    BY <1>0, <2>2, <2>3, <2>5 DEF ImportInv, HandedIsKept, Sources
  <2>7. work[p] # NoWork
    BY <1>n, <2>3
  <2>8. QED
    BY <1>s, <2>1, <2>2, <2>3, <2>4, <2>5, <2>6, <2>7
<1>4. ASSUME NEW p \in Pools, NEW x \in Titles, KnownInsert(p, x) \/ KnownInsertFails(p, x)
      PROVE  ImportInv'
  <2> DEFINE w == [work[p] EXCEPT !.records = @ \ {x}]
  <2>1. /\ work' = [work EXCEPT ![p] = w] /\ x \in work[p].records
        /\ catalogue' \cup lost' = catalogue \cup lost \cup {x}
        /\ UNCHANGED <<import, importedAt>>
    BY <1>4 DEF KnownInsert, KnownInsertFails
  <2>2. /\ w \in Work /\ w.handed = work[p].handed /\ w.records = work[p].records \ {x}
    BY <1>0 DEF Work
  <2> HIDE DEF w
  <2>3. Sources \subseteq Sources'
    BY <1>0, <2>1, <2>2 DEF Sources, ImportInv
  <2>4. /\ work'["pass"].handed = work["pass"].handed
        /\ work'["abandoned"].handed = work["abandoned"].handed
    BY <1>0, <2>1, <2>2 DEF ImportInv
  <2>5. HandedIsKept'
    BY <2>1, <2>3, <2>4 DEF ImportInv, HandedIsKept, Sources
  <2>6. work["pass"] = NoWork => work'["pass"] = NoWork
    BY <1>0, <1>n, <2>1 DEF ImportInv
  <2>7. work' \in [Pools -> Work]
    BY <2>1, <2>2 DEF ImportInv
  <2>8. QED
    BY <2>1, <2>5, <2>6, <2>7 DEF ImportInv
<1>5. CASE ImportQuery
  <2> DEFINE w == [work["pass"] EXCEPT !.todo = Archives \ importedAt]
  <2>1. /\ work' = [work EXCEPT !["pass"] = w] /\ import' = [at |-> "archives", first |-> "none"]
        /\ UNCHANGED <<catalogue, lost, importedAt>>
    BY <1>5 DEF ImportQuery
  <2>2. w \in Work /\ w.handed = work["pass"].handed /\ w.records = work["pass"].records
    BY <1>0 DEF Work
  <2> HIDE DEF w
  <2>3. HandedIsKept'
    BY <1>0, <2>1, <2>2 DEF ImportInv, HandedIsKept
  <2>4. work' \in [Pools -> Work]
    BY <1>0, <2>1, <2>2 DEF ImportInv
  <2>5. QED
    BY <2>1, <2>3, <2>4 DEF ImportInv
<1>6. CASE ImportShutdown
  <2>1. /\ work["pass"].todo = {} /\ work["pass"].handed = {} /\ work["pass"].records = {}
        /\ import' = NotImporting
        /\ UNCHANGED <<catalogue, lost, importedAt, work>>
    BY <1>6 DEF ImportShutdown, PoolDone
  <2>2. work["pass"] = NoWork
    BY <1>0, <2>1 DEF Work, NoWork
  <2>3. QED
    BY <2>1, <2>2 DEF ImportInv, HandedIsKept, NotImporting
<1>7. ASSUME NEW enqueued \in SUBSET Archives, ImportAbandoned(enqueued) PROVE ImportInv'
  <2> DEFINE w == [todo |-> work["abandoned"].todo \cup enqueued,
                   handed |-> work["abandoned"].handed \cup work["pass"].handed,
                   records |-> work["abandoned"].records \cup work["pass"].records]
  <2>1. /\ import' = NotImporting
        /\ work'["pass"] = NoWork /\ work'["abandoned"] = w
        /\ work' \in [Pools -> {NoWork, w}]
        /\ UNCHANGED <<catalogue, lost, importedAt>>
    BY <1>0, <1>7 DEF ImportAbandoned
  <2>2. w \in Work
    BY <1>0 DEF Work
  <2>3. HandedIsKept'
    BY <1>n, <2>1 DEF ImportInv, HandedIsKept
  <2>4. QED
    BY <1>0, <2>1, <2>2, <2>3 DEF ImportInv, NotImporting
<1>8. CASE StopAndStart
  <2>1. /\ import' = NotImporting /\ work' = [p \in Pools |-> NoWork]
        /\ lost' = lost \cup UNION {work[p].records : p \in Pools}
        /\ UNCHANGED <<catalogue, importedAt>>
    BY <1>8 DEF StopAndStart
  <2>2. work["pass"].records \cup work["abandoned"].records \subseteq lost'
    BY <1>0, <2>1
  <2>3. HandedIsKept'
    BY <1>0, <1>n, <2>1, <2>2 DEF ImportInv, HandedIsKept
  <2>4. QED
    BY <1>0, <2>1, <2>3 DEF ImportInv, NotImporting
<1>9. ASSUME UNCHANGED <<catalogue, archivevars>> PROVE ImportInv'
  BY <1>9 DEF ImportInv, HandedIsKept, archivevars
<1>10. QED
  BY <1>1, <1>2, <1>3, <1>4, <1>5, <1>6, <1>7, <1>8, <1>9
  DEF IdentNext, Add, Progress, DownloadInto, IdentifyRow, SyncKnownMediaID,
      AssignKnownMediaID, Patch, IdentifyQuery, IdentifyTimestamp, IdentifyTransfer,
      IdentifyFails, CommandKnownMedia, identvars, archivevars

\* However passes are cut off, abandoned and begun again: an archive marked as imported
\* is one whose records are known media, but for those with an abandoned pool and those
\* that a fault took.
THEOREM MarkedAreImported == IdentSpec => []MarkedIsImported
<1>1. ImportInv => MarkedIsImported
  BY DEF ImportInv, HandedIsKept, MarkedIsImported, NoWork
<1>2. QED
  BY <1>1, ImportBegins, ImportStep, PTL DEF IdentSpec

\* by hand a row gets a title or Nil
PatchesTyped ==
  /\ assigned \in Nat
  /\ DOMAIN shelf = Content
  /\ byUser \in [Content -> SUBSET (Titles \cup {Nil0})]

\* the steps that concern the titles of the library's rows
LEMMA TitleSteps ==
    ASSUME IdentNext
    PROVE  \/ \E t \in Content, k \in Titles \cup {Nil0} :
                  Patch(t, k) \/ AssignKnownMediaID(t, k)
           \/ \E t \in Content : DownloadInto(t) \/ SyncKnownMediaID(t)
           \/ IdentifyTransfer \/ CommandKnownMedia
           \/ UNCHANGED <<assigned, shelf, byUser>>
<1>1. CASE \E t \in Content : Add(t) \/ Progress(t) \/ IdentifyRow(t)
  BY <1>1 DEF Add, Progress, IdentifyRow
<1>2. CASE IdentifyQuery \/ IdentifyTimestamp \/ IdentifyFails \/ StopAndStart
  BY <1>2 DEF IdentifyQuery, IdentifyTimestamp, IdentifyFails, StopAndStart
<1>3. CASE ImportQuery \/ ImportShutdown \/ \E as \in SUBSET Archives : ImportAbandoned(as)
  BY <1>3 DEF ImportQuery, ImportShutdown, ImportAbandoned, rowvars
<1>4. ASSUME NEW p \in Pools, NEW a \in Archives,
             \/ ImportArchive(p, a) \/ MetadataImportedByID(p, a) \/ ImportArchiveFails(p, a)
             \/ \E m \in 0..Len(RecordsOf[a]) : ImportArchiveCut(p, a, m)
      PROVE  UNCHANGED <<assigned, shelf, byUser>>
  BY <1>4
  DEF ImportArchive, MetadataImportedByID, ImportArchiveFails, ImportArchiveCut, rowvars
<1>5. CASE \E p \in Pools, x \in Titles : KnownInsert(p, x) \/ KnownInsertFails(p, x)
  BY <1>5 DEF KnownInsert, KnownInsertFails, rowvars
<1>6. QED
  BY <1>1, <1>2, <1>3, <1>4, <1>5 DEF IdentNext

LEMMA PatchesStep == PatchesTyped /\ [IdentNext]_identvars => PatchesTyped'
<1> SUFFICES ASSUME PatchesTyped, [IdentNext]_identvars PROVE PatchesTyped'
  OBVIOUS
<1>1. ASSUME NEW t \in Content, NEW k \in Titles \cup {Nil0}, Patch(t, k) PROVE PatchesTyped'
  BY <1>1 DEF Patch, PatchesTyped
<1>2. ASSUME NEW t \in Content, NEW k \in Titles \cup {Nil0}, AssignKnownMediaID(t, k)
      PROVE  PatchesTyped'
  BY <1>2 DEF AssignKnownMediaID, PatchesTyped
<1>3. ASSUME NEW t \in Content, DownloadInto(t) \/ SyncKnownMediaID(t) PROVE PatchesTyped'
  BY <1>3 DEF DownloadInto, SyncKnownMediaID, PatchesTyped
<1>4. CASE IdentifyTransfer
  BY <1>4 DEF IdentifyTransfer, PatchesTyped
<1>5. CASE CommandKnownMedia
  BY <1>5 DEF CommandKnownMedia, PatchesTyped
<1>6. ASSUME UNCHANGED <<assigned, shelf, byUser>> PROVE PatchesTyped'
  BY <1>6 DEF PatchesTyped
<1>7. CASE UNCHANGED identvars
  BY <1>6, <1>7 DEF identvars
<1>8. QED
  BY <1>1, <1>2, <1>3, <1>4, <1>5, <1>6, <1>7, TitleSteps

\* The passes, the command and a download give a title only to a row that has none, and
\* so never to one a user gave its title: only another assignment changes that.
THEOREM PatchesStay == IdentSpec => PatchedTitleStays
<1> DEFINE Stays == \A t \in Content :
                      (shelf[t] \in byUser[t] /\ shelf'[t] # shelf[t]) =>
                          assigned' # assigned \/ t \in pending
<1>1. IdentInit => PatchesTyped
  BY DEF IdentInit, PatchesTyped
<1>2. PatchesTyped /\ [IdentNext]_identvars => [Stays]_identvars
  <2> SUFFICES ASSUME PatchesTyped, IdentNext, NEW t \in Content,
                      shelf[t] \in byUser[t], shelf'[t] # shelf[t]
               PROVE  assigned' # assigned \/ t \in pending
    BY DEF IdentNext
  <2>0. shelf[t] \notin {NoId, Max0}
    BY IdsAssumption DEF PatchesTyped, NoId, Max0, Nil0
  <2>1. ASSUME NEW s \in Content, NEW k \in Titles \cup {Nil0},
               Patch(s, k) \/ AssignKnownMediaID(s, k)
        PROVE  assigned' # assigned
    BY <2>1 DEF Patch, AssignKnownMediaID, PatchesTyped
  <2>2. ASSUME NEW s \in Content, SyncKnownMediaID(s) PROVE t \in pending
    BY <2>2 DEF SyncKnownMediaID, PatchesTyped
  <2>3. ASSUME NEW s \in Content, DownloadInto(s) PROVE FALSE
    BY <2>0, <2>3 DEF DownloadInto, PatchesTyped
  <2>4. CASE IdentifyTransfer
    BY <2>0, <2>4 DEF IdentifyTransfer, TransferKnownMediaID
  <2>5. CASE CommandKnownMedia
    BY <2>0, <2>5 DEF CommandKnownMedia
  <2>6. ASSUME shelf' = shelf PROVE FALSE
    BY <2>6
  <2>7. QED
    BY <2>1, <2>2, <2>3, <2>4, <2>5, <2>6, TitleSteps
<1>3. QED
  BY <1>1, <1>2, PatchesStep, PTL DEF IdentSpec, PatchedTitleStays

-----------------------------------------------------------------------------
(* Announce *)

Announcing == [at : {"dht", "tracker", "record"}, seed : Seeds]

\* only a torrent its tracker does not know is disabled
DisabledAreUnlisted == \A t \in Seeds : nextAt[t] = "infinity" => t \in Unlisted

\* the loop is never asleep for good: it counts on no disabled torrent
LoopWakes == sweep.until # "never"

AnnounceInv ==
  /\ seeding \subseteq Seeds
  /\ nextAt \in [Seeds -> {"past", "future", "infinity"}]
  /\ sweep \in [at : {"query", "send", "earliest", "sleep"}, rows : SUBSET Seeds,
                until : {"now", "minutes", "row", "never"}]
  /\ annq \in Seq(Seeds) /\ Len(annq) <= AnnounceQueue
  /\ announcer \in [Announcers -> {Resting} \cup Announcing]
  /\ toggles \in 0..MaxToggles /\ misses \in 0..MaxMisses
  /\ DisabledAreUnlisted
  /\ LoopWakes

LEMMA SweepTyped ==
    ASSUME NEW at \in {"query", "send", "earliest", "sleep"}, NEW rows \in SUBSET Seeds
    PROVE  /\ Sweep(at, rows) \in [at : {"query", "send", "earliest", "sleep"},
                                   rows : SUBSET Seeds,
                                   until : {"now", "minutes", "row", "never"}]
           /\ Sweep(at, rows).until = "now"
  BY DEF Sweep

LEMMA AnnounceBegins == AnnounceInit => AnnounceInv
<1> SUFFICES ASSUME AnnounceInit PROVE AnnounceInv
  OBVIOUS
<1>1. sweep = Sweep("query", {}) /\ {} \in SUBSET Seeds
  BY DEF AnnounceInit
<1>2. sweep \in [at : {"query", "send", "earliest", "sleep"}, rows : SUBSET Seeds,
                 until : {"now", "minutes", "row", "never"}] /\ LoopWakes
  BY <1>1, SweepTyped DEF LoopWakes
<1>3. annq = <<>> /\ annq \in Seq(Seeds) /\ Len(annq) <= AnnounceQueue
  BY AnnounceAssumption DEF AnnounceInit
<1>4. announcer \in [Announcers -> {Resting} \cup Announcing]
  BY DEF AnnounceInit
<1> QED
  BY <1>2, <1>3, <1>4, AnnounceAssumption DEF AnnounceInit, AnnounceInv, DisabledAreUnlisted

LEMMA AnnounceStep == AnnounceInv /\ [AnnounceNext]_announcevars => AnnounceInv'
<1> SUFFICES ASSUME AnnounceInv, [AnnounceNext]_announcevars PROVE AnnounceInv'
  OBVIOUS
<1> USE DEF AnnounceInv
<1> DEFINE Sweeps == [at : {"query", "send", "earliest", "sleep"}, rows : SUBSET Seeds,
                      until : {"now", "minutes", "row", "never"}]
<1>1. ASSUME UNCHANGED announcevars PROVE AnnounceInv'
  BY <1>1 DEF announcevars, DisabledAreUnlisted, LoopWakes
<1>2. ASSUME SweepQuery \/ SweepSent \/ SweepFails \/ SweepSleep \/ SweepWake
      PROVE  AnnounceInv'
  <2>1. UNCHANGED <<seeding, nextAt, annq, announcer, toggles>>
        /\ misses' \in 0..MaxMisses
    BY <1>2, AnnounceAssumption
    DEF SweepQuery, SweepSent, SweepFails, SweepSleep, SweepWake, Miss
  <2>2. sweep' \in Sweeps /\ sweep'.until # "never"
    <3>1. MetadataQueryNeedsAnnounce \in SUBSET Seeds /\ {} \in SUBSET Seeds
      BY DEF MetadataQueryNeedsAnnounce
    <3>2. CASE SweepSleep
      <4>1. MetadataQueryAnnounceable = {}
            \/ \E t \in MetadataQueryAnnounceable : nextAt[t] # "infinity"
        BY DEF MetadataQueryAnnounceable
      <4>2. PICK u \in {"minutes", "row"} :
                sweep' = [Sweep("sleep", {}) EXCEPT !.until = u]
        BY <3>2, <4>1 DEF SweepSleep
      <4> QED
        BY <3>1, <4>2 DEF Sweep
    <3>3. CASE SweepQuery \/ SweepSent \/ SweepFails \/ SweepWake
      <4>1. PICK at \in {"query", "send", "earliest"}, rows \in SUBSET Seeds :
                sweep' = Sweep(at, rows)
        BY <3>1, <3>3 DEF SweepQuery, SweepSent, SweepFails, SweepWake
      <4> QED
        BY <4>1, SweepTyped
    <3> QED
      BY <1>2, <3>2, <3>3
  <2> QED
    BY <2>1, <2>2 DEF DisabledAreUnlisted, LoopWakes
<1>3. ASSUME NEW t \in sweep.rows, SweepSend(t) PROVE AnnounceInv'
  <2>1. t \in Seeds /\ sweep.rows \ {t} \in SUBSET Seeds
    OBVIOUS
  <2>2. /\ Len(annq) < AnnounceQueue /\ annq' = Append(annq, t)
        /\ sweep' = Sweep("send", sweep.rows \ {t})
        /\ UNCHANGED <<seeding, nextAt, announcer, toggles, misses>>
    BY <1>3 DEF SweepSend
  <2>3. annq' \in Seq(Seeds) /\ Len(annq') <= AnnounceQueue
    <3>1. annq' \in Seq(Seeds) /\ Len(annq') = Len(annq) + 1 /\ Len(annq) \in Nat
      BY <2>1, <2>2, AppendProperties, LenProperties
    <3> QED
      BY <2>2, <3>1, AnnounceAssumption
  <2>4. sweep' \in Sweeps /\ sweep'.until # "never"
    BY <2>1, <2>2, SweepTyped
  <2> QED
    BY <2>2, <2>3, <2>4 DEF DisabledAreUnlisted, LoopWakes
<1>4. ASSUME NEW w \in Announcers, AnnouncerTake(w) PROVE AnnounceInv'
  <2>1. /\ annq # <<>> /\ annq' = Tail(annq)
        /\ announcer' = [announcer EXCEPT ![w] = [at |-> "dht", seed |-> Head(annq)]]
        /\ UNCHANGED <<seeding, nextAt, sweep, toggles, misses>>
    BY <1>4 DEF AnnouncerTake
  <2>2. /\ Head(annq) \in Seeds /\ Tail(annq) \in Seq(Seeds)
        /\ Len(Tail(annq)) = Len(annq) - 1 /\ Len(annq) \in Nat
    BY <2>1, HeadTailProperties, LenProperties
  <2>3. [at |-> "dht", seed |-> Head(annq)] \in Announcing
    BY <2>2 DEF Announcing
  <2>4. annq' \in Seq(Seeds) /\ Len(annq') <= AnnounceQueue
    BY <2>1, <2>2, AnnounceAssumption
  <2> QED
    BY <2>1, <2>3, <2>4 DEF DisabledAreUnlisted, LoopWakes
<1>5. ASSUME NEW w \in Announcers,
             \/ AnnounceDHT(w) \/ AnnounceTracker(w)
             \/ MetadataAnnounced(w) \/ AnnouncedFails(w)
      PROVE  AnnounceInv'
  <2>1. announcer[w] \in Announcing
    <3>1. announcer[w] \in {Resting} \cup Announcing /\ Resting.at = "idle"
      BY DEF Resting
    <3>2. announcer[w].at # "idle"
      BY <1>5 DEF AnnounceDHT, AnnounceTracker, MetadataAnnounced, AnnouncedFails
    <3> QED
      BY <3>1, <3>2
  <2>2. announcer[w].seed \in Seeds
    BY <2>1 DEF Announcing
  <2>3. UNCHANGED <<seeding, sweep, annq, toggles>> /\ misses' \in 0..MaxMisses
    BY <1>5, AnnounceAssumption
    DEF AnnounceDHT, AnnounceTracker, MetadataAnnounced, AnnouncedFails, Miss
  <2>4. announcer' \in [Announcers -> {Resting} \cup Announcing]
    <3>1. \A u \in {"tracker", "record"} : [announcer[w] EXCEPT !.at = u] \in Announcing
      BY <2>1 DEF Announcing
    <3>2. PICK v \in {Resting} \cup Announcing : announcer' = [announcer EXCEPT ![w] = v]
      BY <1>5, <3>1 DEF AnnounceDHT, AnnounceTracker, MetadataAnnounced, AnnouncedFails
    <3> QED
      BY <3>2
  <2>5. nextAt' \in [Seeds -> {"past", "future", "infinity"}] /\ DisabledAreUnlisted'
    <3>1. \/ nextAt' = nextAt
          \/ nextAt' = [nextAt EXCEPT ![announcer[w].seed] = "future"]
          \/ /\ announcer[w].seed \in Unlisted
             /\ nextAt' = [nextAt EXCEPT ![announcer[w].seed] = "infinity"]
      BY <1>5 DEF AnnounceDHT, AnnounceTracker, MetadataAnnounced, AnnouncedFails
    <3> QED
      BY <2>2, <3>1 DEF DisabledAreUnlisted
  <2> QED
    BY <2>3, <2>4, <2>5 DEF LoopWakes
<1>6. ASSUME NEW t \in Seeds, Toggle(t) \/ AnnounceElapse(t) PROVE AnnounceInv'
  <2>1. /\ seeding' \subseteq Seeds /\ toggles' \in 0..MaxToggles
        /\ UNCHANGED <<sweep, annq, announcer, misses>>
    BY <1>6, AnnounceAssumption DEF Toggle, AnnounceElapse
  <2>2. nextAt' = nextAt \/ nextAt' = [nextAt EXCEPT ![t] = "past"]
    BY <1>6 DEF Toggle, AnnounceElapse
  <2>3. nextAt' \in [Seeds -> {"past", "future", "infinity"}] /\ DisabledAreUnlisted'
    BY <2>2 DEF DisabledAreUnlisted
  <2> QED
    BY <2>1, <2>3 DEF LoopWakes
<1>7. ASSUME AnnounceRestart PROVE AnnounceInv'
  <2>1. /\ sweep' = Sweep("query", {}) /\ annq' = <<>>
        /\ announcer' = [w \in Announcers |-> Resting]
        /\ UNCHANGED <<seeding, nextAt, toggles>> /\ misses' \in 0..MaxMisses
    BY <1>7, AnnounceAssumption DEF AnnounceRestart, Miss
  <2>2. sweep' \in Sweeps /\ sweep'.until # "never"
    BY <2>1, SweepTyped
  <2>3. annq' \in Seq(Seeds) /\ Len(annq') <= AnnounceQueue
    BY <2>1, AnnounceAssumption
  <2> QED
    BY <2>1, <2>2, <2>3 DEF DisabledAreUnlisted, LoopWakes
<1> QED
  BY <1>1, <1>2, <1>3, <1>4, <1>5, <1>6, <1>7 DEF AnnounceNext, SweepStep, AnnouncerStep

\* AnnounceSeeded: the queue keeps its capacity, only a torrent its tracker does
\* not know is disabled, and the loop never goes to sleep for good: what it
\* sleeps for is not the time of a disabled torrent (the safety SeededIsAnnounced
\* rests on), for any torrents, announcers and capacity.
THEOREM AnnouncingStaysSound ==
    AnnounceSpec => [](AnnounceTypeOK /\ DisabledAreUnlisted /\ LoopWakes)
<1>1. AnnounceInv => AnnounceTypeOK /\ DisabledAreUnlisted /\ LoopWakes
  BY DEF AnnounceInv, AnnounceTypeOK, Announcing
<1> QED
  BY <1>1, AnnounceBegins, AnnounceStep, PTL DEF AnnounceSpec
=============================================================================

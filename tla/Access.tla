------------------------------- MODULE Access -------------------------------
(***************************************************************************)
(* Who may use a daemon and who may manage its users: the import of ssh    *)
(* keys (meta/identityssh), the code flow of metaapi/http.oauth2.ssh.go    *)
(* with the client of authn/authn.go, and the permissions of               *)
(* metaapi/http.authz.go.                                                  *)
(*                                                                         *)
(* A key, the profile an import creates for it and the authz row of that   *)
(* import share one id, the fingerprint of the key: Keys stands for all    *)
(* three.  The database is opened by one process at a time, so keys are    *)
(* imported only while the daemon is down or starting, and handlers run    *)
(* only while it is up.  Tokens are signed with a secret that outlives the *)
(* process.                                                                *)
(***************************************************************************)
EXTENDS Naturals, FiniteSets

CONSTANTS Keys,       \* ssh public keys
          Own,        \* the daemon's own key, imported at every start
          MaxStates,  \* sign-in attempts, each with a new one-time state
          MaxRuns     \* starts of the daemon

ASSUME OwnAssumption == Own \in Keys
ASSUME BoundsAssumption == MaxStates \in Nat /\ MaxRuns \in Nat

VARIABLES
  daemon,     \* "down", "starting" or "up"
  runs,       \* how often it was started
  profiles,   \* rows of meta_profiles
  authz,      \* the row of authz_meta of each profile: profile_id is UNIQUE
  identity,   \* meta_sso_identity_ssh: no row, no profile, or the key's profile
  importing,  \* the import in progress: a key and the statement it is at
  consumed,   \* meta_consumed_tokens: the states that were used
  states,     \* how many states the clients have drawn
  client,     \* each key's sign-in: where it is, with which state
  access,     \* the profiles with a live access token
  bearers,    \* the live authz tokens
  imported,   \* history: the keys whose import was completed
  refused,    \* history: the last start ended in a failed import
  denied      \* history: the profiles last granted no permission

accessvars == <<daemon, runs, profiles, authz, identity, importing, consumed,
                states, client, access, bearers, imported, refused, denied>>

None == "none"

\* The id of a row: the key's fingerprint when an import inserted it, a
\* generated one when a grant did.
AuthzRows == [id : {None, "key", "generated"}, usermanagement : BOOLEAN]
NoRow == [id |-> None, usermanagement |-> FALSE]

Steps == {"profile", "authz", "identity"}
NoImport == [key |-> Own, at |-> None]
Idle == [at |-> "idle", state |-> 0, retried |-> FALSE]
Tokens == [holder : Keys, usermanagement : BOOLEAN]

AccessTypeOK ==
  /\ daemon \in {"down", "starting", "up"} /\ runs \in 0..MaxRuns
  /\ profiles \subseteq Keys
  /\ authz \in [Keys -> AuthzRows]
  /\ identity \in [Keys -> {None, "zero", "profile"}]
  /\ importing \in [key : Keys, at : Steps \cup {None}]
  /\ consumed \subseteq 1..MaxStates /\ states \in 0..MaxStates
  /\ client \in [Keys -> [at : {"idle", "asking", "registered", "code"},
                          state : 0..MaxStates, retried : BOOLEAN]]
  /\ access \subseteq Keys /\ bearers \subseteq Tokens
  /\ imported \subseteq Keys /\ refused \in BOOLEAN /\ denied \subseteq Keys

AccessInit ==
  /\ daemon = "down" /\ runs = 0
  /\ profiles = {} /\ consumed = {} /\ states = 0
  /\ authz = [k \in Keys |-> NoRow]
  /\ identity = [k \in Keys |-> None]
  /\ importing = NoImport
  /\ client = [k \in Keys |-> Idle]
  /\ access = {} /\ bearers = {}
  /\ imported = {} /\ refused = FALSE /\ denied = {}

-----------------------------------------------------------------------------
(* ImportParsed: three statements, each of which may be the last.          *)

\* The identity commands of the daemon's host.
ImportPublicKey(k) ==
  /\ daemon = "down" /\ importing = NoImport
  /\ importing' = [key |-> k, at |-> "profile"]
  /\ UNCHANGED <<daemon, runs, profiles, authz, identity, consumed, states,
                 client, access, bearers, imported, refused, denied>>

\* The daemon imports its own key before it serves anything.
Start ==
  /\ daemon = "down" /\ importing = NoImport /\ runs < MaxRuns
  /\ daemon' = "starting" /\ runs' = runs + 1 /\ refused' = FALSE
  /\ importing' = [key |-> Own, at |-> "profile"]
  /\ UNCHANGED <<profiles, authz, identity, consumed, states, client, access,
                 bearers, imported, denied>>

ProfileInsertWithID ==
  /\ importing.at = "profile"
  /\ profiles' = profiles \cup {importing.key}
  /\ importing' = [importing EXCEPT !.at = "authz"]
  /\ UNCHANGED <<daemon, runs, authz, identity, consumed, states, client,
                 access, bearers, imported, refused, denied>>

\* ON CONFLICT names the primary key only: a row of this profile under another
\* id violates profile_id's UNIQUE.
AuthzInsertable(row) == row.id # "generated"

\* The row the import leaves: an earlier import's row keeps its permission.
AuthzInsertWithIDDefaults(row) ==
  IF row.id = None THEN [id |-> "key", usermanagement |-> TRUE] ELSE row

ImportAuthz ==
  /\ importing.at = "authz" /\ AuthzInsertable(authz[importing.key])
  /\ authz' = [authz EXCEPT ![importing.key] = AuthzInsertWithIDDefaults(@)]
  /\ importing' = [importing EXCEPT !.at = "identity"]
  /\ UNCHANGED <<daemon, runs, profiles, identity, consumed, states, client,
                 access, bearers, imported, refused, denied>>

\* The import returns an error, and with it the command or the daemon.
ImportRefused ==
  /\ importing.at = "authz" /\ ~AuthzInsertable(authz[importing.key])
  /\ importing' = NoImport /\ daemon' = "down"
  /\ refused' = (daemon = "starting")
  /\ UNCHANGED <<runs, profiles, authz, identity, consumed, states, client,
                 access, bearers, imported, denied>>

IdentityInsertWithDefaults ==
  /\ importing.at = "identity"
  /\ identity' = [identity EXCEPT ![importing.key] = "profile"]
  /\ imported' = imported \cup {importing.key}
  /\ importing' = NoImport
  /\ daemon' = IF daemon = "starting" THEN "up" ELSE daemon
  /\ UNCHANGED <<runs, profiles, authz, consumed, states, client, access,
                 bearers, refused, denied>>

\* The process ends, within an import or while it serves.  Requests in flight
\* are cut off; the client reports the error and starts over.
Stop ==
  /\ importing # NoImport \/ daemon # "down"
  /\ daemon' = "down" /\ importing' = NoImport
  /\ client' = [k \in Keys |-> Idle]
  /\ UNCHANGED <<runs, profiles, authz, identity, consumed, states, access,
                 bearers, imported, refused, denied>>

-----------------------------------------------------------------------------
(* Signing in: the client asks for a code with a state that carries its    *)
(* key, and exchanges the code for an access token.                        *)

\* oauth2Bearer and BearerForHost draw a new state for every attempt.
SignIn(k) ==
  /\ daemon = "up" /\ client[k] = Idle /\ states < MaxStates
  /\ states' = states + 1
  /\ client' = [client EXCEPT ![k] = [at |-> "asking", state |-> states + 1,
                                      retried |-> FALSE]]
  /\ UNCHANGED <<daemon, runs, profiles, authz, identity, importing, consumed,
                 access, bearers, imported, refused, denied>>

\* As the code would be if the first-use insert set the profile on conflict,
\* as the import's insert does.
IdentityInsertZeroOverwrites(row) == "zero"

\* auth trusts a key it has not seen, without a profile; a row that exists
\* keeps the profile it has.
IdentityInsertZeroWithDefaults(row) == IF row = None THEN "zero" ELSE row

auth(k) ==
  /\ client[k].at = "asking"
  /\ identity' = [identity EXCEPT ![k] = IdentityInsertZeroWithDefaults(@)]
  /\ client' = [client EXCEPT ![k].at = "registered"]
  /\ UNCHANGED <<daemon, runs, profiles, authz, importing, consumed, states,
                 access, bearers, imported, refused, denied>>

\* The state is spent before the code is signed; a state that was spent
\* violates the primary key and the request is refused.
ConsumedTokenInsertWithDefaults(k) ==
  /\ client[k].at = "registered"
  /\ consumed' = consumed \cup {client[k].state}
  /\ client' = [client EXCEPT ![k] =
                  IF client[k].state \in consumed THEN Idle
                                                  ELSE [@ EXCEPT !.at = "code"]]
  /\ UNCHANGED <<daemon, runs, profiles, authz, identity, importing, states,
                 access, bearers, imported, refused, denied>>

\* A gateway answers 502 in place of the daemon: the client's transport sends
\* the request, with the state it holds, once more.
AnswerLost(k) ==
  /\ client[k].at = "code" /\ ~client[k].retried
  /\ client' = [client EXCEPT ![k].at = "asking", ![k].retried = TRUE]
  /\ UNCHANGED <<daemon, runs, profiles, authz, identity, importing, consumed,
                 states, access, bearers, imported, refused, denied>>

\* token, grant authorization_code: the identity has a profile and it exists.
\* A code that expired, or an identity without a profile, is refused.
token(k) ==
  /\ client[k].at = "code"
  /\ client' = [client EXCEPT ![k] = Idle]
  /\ access' \in IF identity[k] = "profile" /\ k \in profiles
                 THEN {access, access \cup {k}} ELSE {access}
  /\ UNCHANGED <<daemon, runs, profiles, authz, identity, importing, consumed,
                 states, bearers, imported, refused, denied>>

-----------------------------------------------------------------------------
(* Permissions.                                                            *)

\* As the code would be if any row of the profile carried the permission.
TokenFromRowExists(row) == row.id # None

\* A profile without a row scans nothing into the zero value.
TokenOptionFromAuthz(row) == row.usermanagement

\* GET /authz/ with an access token: a token with the row's permission.
authorize(k) ==
  /\ daemon = "up" /\ k \in access
  /\ bearers' = bearers \cup
       {[holder |-> k, usermanagement |-> TokenOptionFromAuthz(authz[k])]}
  /\ UNCHANGED <<daemon, runs, profiles, authz, identity, importing, consumed,
                 states, client, access, imported, refused, denied>>

\* AuthzTokenHTTP with AuthzPermUsermanagement reads the token, not the row.
AuthzPermUsermanagement(k) ==
  daemon = "up" /\ [holder |-> k, usermanagement |-> TRUE] \in bearers

\* POST /authz/{id}: AuthzUpsertWithDefaults, for a profile that need not exist.
grant(k, p, allow) ==
  /\ AuthzPermUsermanagement(k)
  /\ authz' = [authz EXCEPT ![p] =
       [id |-> IF @.id = None THEN "generated" ELSE @.id, usermanagement |-> allow]]
  /\ denied' = IF allow THEN denied \ {p} ELSE denied \cup {p}
  /\ UNCHANGED <<daemon, runs, profiles, identity, importing, consumed, states,
                 client, access, bearers, imported, refused>>

\* DELETE /authz/{id}: a profile without a row is an error.
revoke(k, p) ==
  /\ AuthzPermUsermanagement(k) /\ authz[p] # NoRow
  /\ authz' = [authz EXCEPT ![p] = NoRow]
  /\ denied' = denied \ {p}
  /\ UNCHANGED <<daemon, runs, profiles, identity, importing, consumed, states,
                 client, access, bearers, imported, refused>>

\* An hour for a permission, seven days for an access token.
ExpireBearer(t) ==
  /\ t \in bearers /\ bearers' = bearers \ {t}
  /\ UNCHANGED <<daemon, runs, profiles, authz, identity, importing, consumed,
                 states, client, access, imported, refused, denied>>

ExpireAccess(k) ==
  /\ k \in access /\ access' = access \ {k}
  /\ UNCHANGED <<daemon, runs, profiles, authz, identity, importing, consumed,
                 states, client, bearers, imported, refused, denied>>

AccessNext ==
  \/ Start \/ Stop
  \/ ProfileInsertWithID \/ ImportAuthz \/ ImportRefused
  \/ IdentityInsertWithDefaults
  \/ \E k \in Keys :
       \/ ImportPublicKey(k)
       \/ SignIn(k) \/ auth(k) \/ ConsumedTokenInsertWithDefaults(k)
       \/ AnswerLost(k) \/ token(k) \/ authorize(k) \/ ExpireAccess(k)
  \/ \E k, p \in Keys :
       \/ revoke(k, p)
       \/ \E allow \in BOOLEAN : grant(k, p, allow)
  \/ \E t \in Tokens : ExpireBearer(t)

\* Time passes: a permission expires.
AccessFairness == \A t \in Tokens : WF_accessvars(ExpireBearer(t))

AccessSpec == AccessInit /\ [][AccessNext]_accessvars /\ AccessFairness

-----------------------------------------------------------------------------
(* Properties                                                              *)

\* A key whose import was completed once keeps its profile and can sign in:
\* no later import that was cut short or refused, and no sign-in, which inserts
\* the identity again without a profile, takes it away.
ImportedSignIn == \A k \in imported : identity[k] = "profile" /\ k \in profiles

\* What starting again may do to the permissions.  A profile that an
\* administrator granted no permission has none, however often the daemon
\* restarts and imports its key; and a start fails on the import of the
\* daemon's key only behind a grant that inserted the row after a revocation.
ImportKeepsDecisions ==
  /\ \A p \in denied : ~authz[p].usermanagement
  /\ refused => authz[Own].id = "generated"

\* Importing a key again and again, as every start does, takes nobody's sign-in
\* away and gives nobody a permission an administrator took.
ImportsAreSafe == ImportedSignIn /\ ImportKeepsDecisions

\* A profile that stays denied loses its last token with the permission,
\* although the checks read the token and never the row.
RevocationTakesEffect == \A k \in Keys :
  <>[](k \in denied) =>
    <>[]([holder |-> k, usermanagement |-> TRUE] \notin bearers)
=============================================================================

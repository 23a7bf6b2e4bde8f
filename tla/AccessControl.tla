---------------------------- MODULE AccessControl ----------------------------
(***************************************************************************)
(* How a request gets past the guards: the throttler of the application,   *)
(* then AuthGuard, TenantGuard and WriteGuard of the payments controller,  *)
(* or ApiKeyGuard of the API-key controller, whose handlers create and     *)
(* revoke the keys that the guards of other requests are validating        *)
(* meanwhile.  One step runs from one await to the next.                   *)
(***************************************************************************)
EXTENDS Naturals, FiniteSets

CONSTANTS
  Requests, Keys, Tenants, Users,
  Null,        \* no value: a header, claim or context that is absent
  Forged,      \* a raw key that is no tenant's
  Asks,        \* what requests may carry
  KeyTenant,   \* TenantApiKey.tenantId
  Prefix,      \* the 8 characters a raw key is looked up by
  InitialKeys, \* keys that exist at the start
  Expiring,    \* keys created with expiresInDays
  UserOrgs,    \* claim "organizations" of a user's token
  UserPerms,   \* claim productPermissions.payments, Null when the token has none
  Production,  \* NODE_ENV is production
  Limit        \* THROTTLE_LIMIT_PER_TENANT

PaymentOps == {"read", "write"}
KeyOps     == {"createKey", "revoke"}

Ask == [ key    : Keys \cup {Forged, Null},  \* x-api-key
         user   : Users \cup {Null},         \* Authorization: Bearer
         org    : Tenants \cup {Null},       \* x-organization-id
         op     : PaymentOps \cup KeyOps,
         target : Keys ]                     \* the key a createKey or revoke is about

Perms == [canRead : BOOLEAN, canWrite : BOOLEAN]

Context == [org : Tenants, canWrite : BOOLEAN]

ASSUME AccessAssumption ==
  /\ Null \notin Keys \cup Users \cup Tenants /\ Forged \notin Keys \cup {Null}
  /\ Asks \subseteq Ask
  /\ KeyTenant \in [Keys -> Tenants]
  /\ DOMAIN Prefix = Keys \cup {Forged}
  /\ InitialKeys \subseteq Keys /\ Expiring \subseteq Keys
  /\ UserOrgs \in [Users -> SUBSET Tenants]
  /\ UserPerms \in [Users -> Perms \cup {Null}] /\ Null \notin Perms \cup Context
  /\ Production \in BOOLEAN /\ Limit \in Nat

VARIABLES
  stage,      \* where a request is
  ask,        \* what it carries
  candidates, \* the rows its validate() still has to compare
  ctx,        \* the orgContext or tenant the guards gave it, Null before
  keyRow,     \* TenantApiKey rows
  expired,    \* keys past their expiresAt
  inactive,   \* tenants switched off
  hits,       \* the throttler's counters of the current window
  deadBefore  \* history: the keys that were dead when a request arrived

accessVars == <<stage, ask, candidates, ctx, keyRow, expired, inactive, hits, deadBefore>>

Stages == {"idle", "throttle", "lookup", "compare", "verify", "admitted", "find",
           "update", "hash", "done", "400", "401", "403", "404", "429", "500"}

Live(k) == keyRow[k] = "active" /\ k \notin expired /\ KeyTenant[k] \notin inactive

Init ==
  /\ stage = [r \in Requests |-> "idle"]
  /\ ask \in [Requests -> Asks]
  /\ candidates = [r \in Requests |-> {}]
  /\ ctx = [r \in Requests |-> Null]
  /\ keyRow = [k \in Keys |-> IF k \in InitialKeys THEN "active" ELSE "absent"]
  /\ expired = {} /\ inactive = {}
  /\ hits = [t \in Tenants |-> 0]
  /\ deadBefore = [r \in Requests |-> {}]

RequestGoes(r, there) == stage' = [stage EXCEPT ![r] = there]

-----------------------------------------------------------------------------
\* A request arrives; a key has to exist before somebody can present it.
Arrives(r) ==
  /\ stage[r] = "idle"
  /\ ask[r].key \in Keys => keyRow[ask[r].key] # "absent"
  /\ RequestGoes(r, "throttle")
  /\ deadBefore' = [deadBefore EXCEPT ![r] = {k \in Keys : keyRow[k] # "absent" /\ ~ Live(k)}]
  /\ UNCHANGED <<ask, candidates, ctx, keyRow, expired, inactive, hits>>

\* Where AuthGuard or ApiKeyGuard begins: an API key goes first, a Bearer token is
\* only good for the payments controller.
AuthStage(q) ==
  IF q.key # Null THEN "lookup"
  ELSE IF q.user # Null /\ q.op \in PaymentOps THEN "verify" ELSE "401"

\* TenantThrottlerGuard, a guard of the application: it counts for the tenant the
\* request has been given so far.
ThrottlerGuard(r) ==
  /\ stage[r] = "throttle"
  /\ IF ctx[r] = Null
     THEN RequestGoes(r, AuthStage(ask[r])) /\ UNCHANGED hits
     ELSE /\ hits' = [hits EXCEPT ![ctx[r].org] = @ + 1]
          /\ RequestGoes(r, IF hits[ctx[r].org] + 1 > Limit THEN "429" ELSE AuthStage(ask[r]))
  /\ UNCHANGED <<ask, candidates, ctx, keyRow, expired, inactive, deadBefore>>

\* Mutant of ValidKeys: revoked keys are found too.
AllKeysWithPrefix(prefix) == {k \in Keys : keyRow[k] # "absent" /\ Prefix[k] = prefix}

\* The rows validate() finds, less those of a tenant that is switched off.
ValidKeys(prefix) == {k \in Keys : Live(k) /\ Prefix[k] = prefix}

\* validate(): the rows that might match.
ValidateFinds(r) ==
  LET found == ValidKeys(Prefix[ask[r].key])
  IN /\ stage[r] = "lookup"
     /\ candidates' = [candidates EXCEPT ![r] = found]
     /\ RequestGoes(r, IF found = {} THEN "401" ELSE "compare")
     /\ UNCHANGED <<ask, ctx, keyRow, expired, inactive, hits, deadBefore>>

\* Mutant of KeyContext: the header decides for API keys as well.
HeaderContext(r, k) == [org |-> ask[r].org, canWrite |-> TRUE]

\* TenantGuard on the B2B path: the tenant of the key, with every permission.
KeyContext(r, k) == [org |-> KeyTenant[k], canWrite |-> TRUE]

\* Mutant of MayRun: WriteGuard lets everybody through.
AlwaysRuns(r, c) == TRUE

\* WriteGuard, on the writing handlers of the payments controller.
MayRun(r, c) == ask[r].op = "write" => c.canWrite

\* Where a request goes once the guards before its handler have given it a context.
HandlerStage(r, c) ==
  IF ~ MayRun(r, c) THEN "403"
  ELSE [read |-> "admitted", write |-> "admitted",
        createKey |-> "hash", revoke |-> "find"][ask[r].op]

\* Mutant of ValidateCompares: only the first row is compared.
ValidateComparesOne(r) ==
  /\ stage[r] = "compare"
  /\ \E k \in candidates[r] :
       \/ /\ k = ask[r].key
          /\ ctx' = [ctx EXCEPT ![r] = KeyContext(r, k)]
          /\ RequestGoes(r, HandlerStage(r, KeyContext(r, k)))
          /\ UNCHANGED candidates
       \/ k # ask[r].key /\ RequestGoes(r, "401") /\ UNCHANGED <<ctx, candidates>>
  /\ UNCHANGED <<ask, keyRow, expired, inactive, hits, deadBefore>>

\* validate(): one bcrypt.compare, with any of the rows left, as nothing orders them.
ValidateCompares(r) ==
  /\ stage[r] = "compare"
  /\ \E k \in candidates[r] :
       \/ /\ k = ask[r].key
          /\ ctx' = [ctx EXCEPT ![r] = KeyContext(r, k)]
          /\ RequestGoes(r, HandlerStage(r, KeyContext(r, k)))
          /\ UNCHANGED candidates
       \/ /\ k # ask[r].key
          /\ candidates' = [candidates EXCEPT ![r] = @ \ {k}]
          /\ RequestGoes(r, IF candidates[r] = {k} THEN "401" ELSE "compare")
          /\ UNCHANGED ctx
  /\ UNCHANGED <<ask, keyRow, expired, inactive, hits, deadBefore>>

-----------------------------------------------------------------------------
\* What TenantGuard takes a user's permissions for: the claim, or everything outside
\* production when the token has none.
Granted(u) ==
  IF UserPerms[u] # Null THEN UserPerms[u]
  ELSE [canRead |-> ~ Production, canWrite |-> ~ Production]

\* An empty claim, and one that is absent, belongs anywhere.
Belongs(u, t) == UserOrgs[u] = {} \/ t \in UserOrgs[u]

\* verifyToken(), then TenantGuard on the SSO path.
TokenVerified(r) ==
  LET u == ask[r].user
      t == ask[r].org
      c == [org |-> t, canWrite |-> Granted(u).canWrite]
  IN /\ stage[r] = "verify"
     /\ \/ t = Null /\ RequestGoes(r, "400") /\ UNCHANGED ctx
        \/ /\ t # Null /\ (~ Belongs(u, t) \/ ~ Granted(u).canRead)
           /\ RequestGoes(r, "403") /\ UNCHANGED ctx
        \/ /\ t # Null /\ Belongs(u, t) /\ Granted(u).canRead
           /\ ctx' = [ctx EXCEPT ![r] = c]
           /\ RequestGoes(r, HandlerStage(r, c))
     /\ UNCHANGED <<ask, candidates, keyRow, expired, inactive, hits, deadBefore>>

\* Firebase does not accept the token, or is not configured.
TokenRefused(r) ==
  /\ stage[r] = "verify"
  /\ RequestGoes(r, "401")
  /\ UNCHANGED <<ask, candidates, ctx, keyRow, expired, inactive, hits, deadBefore>>

-----------------------------------------------------------------------------
\* create(): a fresh raw key is hashed and its row inserted.
KeyCreated(r) ==
  LET k == ask[r].target
  IN /\ stage[r] = "hash" /\ keyRow[k] = "absent" /\ KeyTenant[k] = ctx[r].org
     /\ keyRow' = [keyRow EXCEPT ![k] = "active"]
     /\ RequestGoes(r, "done")
     /\ UNCHANGED <<ask, candidates, ctx, expired, inactive, hits, deadBefore>>

\* Mutant of OwnKey: the row is looked up by its id alone.
AnyKey(k, t) == keyRow[k] # "absent"

OwnKey(k, t) == keyRow[k] # "absent" /\ KeyTenant[k] = t

\* revoke(): the row is looked up in the caller's tenant.
RevokeFinds(r) ==
  /\ stage[r] = "find"
  /\ RequestGoes(r, IF OwnKey(ask[r].target, ctx[r].org) THEN "update" ELSE "404")
  /\ UNCHANGED <<ask, candidates, ctx, keyRow, expired, inactive, hits, deadBefore>>

\* revoke(): and updated by its id.
RevokeUpdates(r) ==
  /\ stage[r] = "update"
  /\ keyRow' = [keyRow EXCEPT ![ask[r].target] = "revoked"]
  /\ RequestGoes(r, "done")
  /\ UNCHANGED <<ask, candidates, ctx, expired, inactive, hits, deadBefore>>

\* The database fails under a request.
RequestFails(r) ==
  /\ stage[r] \in {"lookup", "find", "update", "hash"}
  /\ RequestGoes(r, "500")
  /\ UNCHANGED <<ask, candidates, ctx, keyRow, expired, inactive, hits, deadBefore>>

KeyExpires(k) ==
  /\ k \in Expiring \ expired /\ keyRow[k] # "absent"
  /\ expired' = expired \cup {k}
  /\ UNCHANGED <<stage, ask, candidates, ctx, keyRow, inactive, hits, deadBefore>>

\* Nothing in the code switches a tenant off: an operator does.
TenantSwitchedOff(t) ==
  /\ t \notin inactive
  /\ inactive' = inactive \cup {t}
  /\ UNCHANGED <<stage, ask, candidates, ctx, keyRow, expired, hits, deadBefore>>

Next ==
  \/ \E r \in Requests :
       \/ Arrives(r) \/ ThrottlerGuard(r) \/ ValidateFinds(r) \/ ValidateCompares(r)
       \/ TokenVerified(r) \/ TokenRefused(r)
       \/ KeyCreated(r) \/ RevokeFinds(r) \/ RevokeUpdates(r) \/ RequestFails(r)
  \/ \E k \in Keys : KeyExpires(k)
  \/ \E t \in Tenants : TenantSwitchedOff(t)

Spec == Init /\ [][Next]_accessVars

-----------------------------------------------------------------------------
\* Properties.

\* Every variable of the guards stays in its domain.
AccessTypeOK ==
  /\ stage \in [Requests -> Stages]
  /\ ask \in [Requests -> Asks]
  /\ candidates \in [Requests -> SUBSET Keys]
  /\ ctx \in [Requests -> Context \cup {Null}]
  /\ keyRow \in [Keys -> {"absent", "active", "revoked"}]
  /\ expired \subseteq Keys /\ inactive \subseteq Tenants
  /\ hits \in [Tenants -> Nat]
  /\ deadBefore \in [Requests -> SUBSET Keys]

\* Past the guards: in a handler, or answered by one.
Past == {"admitted", "find", "update", "hash", "done", "404"}

\* A request that arrives after its key was revoked, expired or lost its tenant never
\* gets past the guards, whatever else is being created, revoked or compared.
DeadKeyNeverPasses ==
  \A r \in Requests : stage[r] \in Past => ask[r].key \notin deadBefore[r]

\* Rotation without downtime: validate() never refuses a key that is still live, however
\* many rows share its prefix and whatever is revoked around it.
LiveKeyNotRefused ==
  \A r \in Requests : stage[r] = "401" /\ ask[r].key \in Keys => ~ Live(ask[r].key)

\* A request works for the tenant of its API key, whatever organization its header
\* names and whatever token comes along; with a token alone it works for the organization
\* it names, and if the token lists organizations that is one of them.  A token that lists
\* none is held to none: the guard's own comment promises more.
ContextIsTheCredentials ==
  \A r \in Requests : stage[r] \in Past =>
    IF ask[r].key # Null
    THEN ask[r].key \in Keys /\ ctx[r].org = KeyTenant[ask[r].key]
    ELSE /\ ctx[r].org = ask[r].org
         /\ UserOrgs[ask[r].user] # {} => ask[r].org \in UserOrgs[ask[r].user]

\* A user whose token denies writing never reaches a writing handler.
ReadersNeverWrite ==
  \A r \in Requests :
    stage[r] \in Past /\ ask[r].op = "write" /\ ask[r].key = Null =>
      Granted(ask[r].user).canWrite

\* A key is revoked only on behalf of its own tenant.
RevokedByItsTenant ==
  [][\A k \in Keys : keyRow[k] = "active" /\ keyRow'[k] = "revoked" =>
       \E r \in Requests :
         stage[r] = "update" /\ ask[r].target = k /\ KeyTenant[ask[r].key] = KeyTenant[k]]_accessVars

\* The guards implement the atomic gate.  Between the read of validate() and its last
\* comparison keys are created, revoked and expire, and other requests are judged; the
\* read has decided, and what is left of the rows remembers it.
Verdict(r) ==
  IF ask[r].key = Null \/ stage[r] = "idle" THEN "none"
  ELSE IF stage[r] \in {"throttle", "lookup"} THEN "asked"
  ELSE IF ctx[r] # Null \/ (stage[r] = "compare" /\ ask[r].key \in candidates[r]) THEN "in"
  ELSE IF stage[r] = "500" THEN "failed" ELSE "out"

Gate == INSTANCE KeyGate WITH
  None      <- Null,
  presented <- [r \in Requests |-> ask[r].key],
  alive     <- {k \in Keys : Live(k)},
  dead      <- {k \in Keys : keyRow[k] # "absent" /\ ~ Live(k)},
  verdict   <- [r \in Requests |-> Verdict(r)]

\* Every behaviour of the guards is one of KeyGate.
JudgedAtOnce == Gate!Spec

-----------------------------------------------------------------------------
\* A statement of the repository's comments that the code does not keep.

\* "AuthGuard corre antes": within a window, no more than Limit requests of a tenant get
\* past the throttler and the guards.
TenantLimited ==
  \A t \in Tenants :
    Cardinality({r \in Requests : stage[r] \in Past /\ ctx[r].org = t}) <= Limit
=============================================================================

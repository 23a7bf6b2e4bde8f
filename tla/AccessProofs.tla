----------------------------- MODULE AccessProofs -----------------------------
(***************************************************************************)
(* Proofs about AccessControl, for any number of requests, keys, tenants   *)
(* and users.  The heart of it is that a key dies once: revocation,        *)
(* expiry and a tenant switched off are never undone, so what a guard read *)
(* before its awaits still bounds what is true after them.                 *)
(***************************************************************************)
EXTENDS AccessControl, TLAPS

Dead(k) == keyRow[k] # "absent" /\ ~ Live(k)

\* Which credentials a request at a guard has.
CredentialInv ==
  \A r \in Requests :
    /\ stage[r] \in {"lookup", "compare"} => ask[r].key # Null
    /\ stage[r] = "verify" => ask[r].key = Null /\ ask[r].user # Null

\* What was dead on arrival still is, and a key that is presented exists.
ArrivalInv ==
  \A r \in Requests : stage[r] # "idle" =>
    /\ \A k \in deadBefore[r] : Dead(k)
    /\ ask[r].key \in Keys => keyRow[ask[r].key] # "absent"

\* The rows still to be compared leave out the dead keys and keep the live one.
CandidateInv ==
  \A r \in Requests : stage[r] = "compare" =>
    /\ candidates[r] \cap deadBefore[r] = {}
    /\ ask[r].key \in Keys /\ Live(ask[r].key) => ask[r].key \in candidates[r]

AccessInv ==
  /\ AccessTypeOK /\ CredentialInv /\ ArrivalInv /\ CandidateInv
  /\ DeadKeyNeverPasses /\ LiveKeyNotRefused /\ ContextIsTheCredentials /\ ReadersNeverWrite

-----------------------------------------------------------------------------
\* An ask has the fields it should.
LEMMA AskFields ==
  ASSUME AccessTypeOK, NEW r \in Requests
  PROVE  /\ ask[r] \in Ask
         /\ ask[r].key \in Keys \cup {Forged, Null}
         /\ ask[r].user \in Users \cup {Null}
         /\ ask[r].org \in Tenants \cup {Null}
         /\ ask[r].op \in {"read", "write", "createKey", "revoke"}
         /\ ask[r].target \in Keys
<1>1. ask[r] \in Ask
  BY AccessAssumption DEF AccessTypeOK
<1> QED
  BY <1>1 DEF Ask, PaymentOps, KeyOps

\* HandlerStage answers 403 or names a stage behind the guards, the former only for a
\* write the context does not allow.
LEMMA HandlerStages ==
  ASSUME AccessTypeOK, NEW r \in Requests, NEW c \in Context
  PROVE  /\ HandlerStage(r, c) \in {"403", "admitted", "hash", "find"}
         /\ HandlerStage(r, c) # "403" => MayRun(r, c)
<1>1. ask[r].op \in {"read", "write", "createKey", "revoke"}
  BY AskFields
<1> QED
  BY <1>1 DEF HandlerStage, MayRun

\* A user's permissions are booleans.
LEMMA GrantedBooleans ==
  ASSUME NEW u \in Users
  PROVE  Granted(u).canRead \in BOOLEAN /\ Granted(u).canWrite \in BOOLEAN
<1>1. UserPerms[u] \in Perms \cup {Null} /\ Production \in BOOLEAN
  BY AccessAssumption
<1> QED
  BY <1>1 DEF Granted, Perms

-----------------------------------------------------------------------------
LEMMA AccessInit == Init => AccessInv
<1> SUFFICES ASSUME Init PROVE AccessInv
  OBVIOUS
<1>1. AccessTypeOK
  <2>1. candidates \in [Requests -> SUBSET Keys] /\ deadBefore \in [Requests -> SUBSET Keys]
    BY DEF Init
  <2>2. hits \in [Tenants -> Nat]
    BY DEF Init
  <2>3. ctx \in [Requests -> Context \cup {Null}]
    BY DEF Init
  <2> QED
    BY <2>1, <2>2, <2>3 DEF Init, AccessTypeOK, Stages
<1>2. \A r \in Requests : stage[r] = "idle"
  BY DEF Init
<1> QED
  BY <1>1, <1>2 DEF AccessInv, CredentialInv, ArrivalInv, CandidateInv, DeadKeyNeverPasses,
     LiveKeyNotRefused, ContextIsTheCredentials, ReadersNeverWrite, Past

\* Every step keeps the types.
LEMMA AccessTypeStep ==
  ASSUME AccessTypeOK, CredentialInv, [Next]_accessVars
  PROVE  AccessTypeOK'
<1>1. ASSUME NEW r \in Requests, Arrives(r) PROVE AccessTypeOK'
  BY <1>1 DEF AccessTypeOK, Arrives, RequestGoes, Stages
<1>2. ASSUME NEW r \in Requests, ThrottlerGuard(r) PROVE AccessTypeOK'
  <2>1. AuthStage(ask[r]) \in Stages
    BY DEF AuthStage, Stages
  <2>2. hits' \in [Tenants -> Nat]
    <3>1. CASE ctx[r] = Null
      BY <1>2, <3>1 DEF ThrottlerGuard, AccessTypeOK
    <3>2. CASE ctx[r] # Null
      <4>1. ctx[r].org \in Tenants
        BY <3>2 DEF AccessTypeOK, Context
      <4> QED
        BY <1>2, <3>2, <4>1 DEF ThrottlerGuard, AccessTypeOK
    <3> QED
      BY <3>1, <3>2
  <2>3. stage' \in [Requests -> Stages]
    BY <1>2, <2>1 DEF ThrottlerGuard, RequestGoes, AccessTypeOK, Stages
  <2> QED
    BY <1>2, <2>2, <2>3 DEF ThrottlerGuard, AccessTypeOK
<1>3. ASSUME NEW r \in Requests, ValidateFinds(r) PROVE AccessTypeOK'
  <2>1. ValidKeys(Prefix[ask[r].key]) \subseteq Keys
    BY DEF ValidKeys
  <2> QED
    BY <1>3, <2>1 DEF ValidateFinds, RequestGoes, AccessTypeOK, Stages
<1>4. ASSUME NEW r \in Requests, ValidateCompares(r) PROVE AccessTypeOK'
  <2>1. PICK k \in candidates[r] :
          \/ /\ k = ask[r].key
             /\ ctx' = [ctx EXCEPT ![r] = KeyContext(r, k)]
             /\ RequestGoes(r, HandlerStage(r, KeyContext(r, k)))
             /\ UNCHANGED candidates
          \/ /\ k # ask[r].key
             /\ candidates' = [candidates EXCEPT ![r] = @ \ {k}]
             /\ RequestGoes(r, IF candidates[r] = {k} THEN "401" ELSE "compare")
             /\ UNCHANGED ctx
    BY <1>4 DEF ValidateCompares
  <2>2. k \in Keys
    BY DEF AccessTypeOK
  <2>3. KeyContext(r, k) \in Context
    BY <2>2, AccessAssumption DEF KeyContext, Context
  <2>4. HandlerStage(r, KeyContext(r, k)) \in Stages
    BY <2>3, HandlerStages DEF Stages
  <2> QED
    BY <1>4, <2>1, <2>3, <2>4 DEF ValidateCompares, RequestGoes, AccessTypeOK, Stages
<1>5. ASSUME NEW r \in Requests, TokenVerified(r) PROVE AccessTypeOK'
  <2> DEFINE c == [org |-> ask[r].org, canWrite |-> Granted(ask[r].user).canWrite]
  <2>1. ask[r].user \in Users /\ ask[r].org \in Tenants \cup {Null}
    BY <1>5, AskFields DEF TokenVerified, CredentialInv
  <2>2. ask[r].org # Null => c \in Context
    BY <2>1, GrantedBooleans DEF Context
  <2>3. ask[r].org # Null => HandlerStage(r, c) \in Stages
    BY <2>2, HandlerStages DEF Stages
  <2> HIDE DEF c
  <2>4. \/ ctx' = ctx /\ (RequestGoes(r, "400") \/ RequestGoes(r, "403"))
        \/ /\ ask[r].org # Null
           /\ ctx' = [ctx EXCEPT ![r] = c] /\ RequestGoes(r, HandlerStage(r, c))
    BY <1>5 DEF TokenVerified, c
  <2>5. ctx' \in [Requests -> Context \cup {Null}] /\ stage' \in [Requests -> Stages]
    BY <2>2, <2>3, <2>4 DEF RequestGoes, AccessTypeOK, Stages
  <2> QED
    BY <1>5, <2>5 DEF TokenVerified, AccessTypeOK
<1>6. ASSUME NEW r \in Requests, TokenRefused(r) \/ RequestFails(r) \/ RevokeFinds(r)
      PROVE  AccessTypeOK'
  BY <1>6 DEF TokenRefused, RequestFails, RevokeFinds, RequestGoes, AccessTypeOK, Stages
<1>7. ASSUME NEW r \in Requests, KeyCreated(r) PROVE AccessTypeOK'
  BY <1>7, AskFields DEF KeyCreated, RequestGoes, AccessTypeOK, Stages
<1>8. ASSUME NEW r \in Requests, RevokeUpdates(r) PROVE AccessTypeOK'
  BY <1>8, AskFields DEF RevokeUpdates, RequestGoes, AccessTypeOK, Stages
<1>9. ASSUME NEW k \in Keys, KeyExpires(k) PROVE AccessTypeOK'
  BY <1>9 DEF KeyExpires, AccessTypeOK
<1>10. ASSUME NEW t \in Tenants, TenantSwitchedOff(t) PROVE AccessTypeOK'
  BY <1>10 DEF TenantSwitchedOff, AccessTypeOK
<1>11. CASE UNCHANGED accessVars
  BY <1>11 DEF accessVars, AccessTypeOK
<1> QED
  BY <1>1, <1>2, <1>3, <1>4, <1>5, <1>6, <1>7, <1>8, <1>9, <1>10, <1>11 DEF Next

\* A key that exists keeps existing, and once dead it never lives again.
LEMMA KeysDieOnce ==
  ASSUME AccessTypeOK, [Next]_accessVars, NEW k \in Keys, keyRow[k] # "absent"
  PROVE  keyRow'[k] # "absent" /\ (Live(k)' => Live(k))
<1>1. CASE UNCHANGED <<keyRow, expired, inactive>>
  BY <1>1 DEF Live
<1>2. ASSUME NEW r \in Requests, KeyCreated(r)
      PROVE  keyRow'[k] # "absent" /\ (Live(k)' => Live(k))
  <2>1. k # ask[r].target
    BY <1>2 DEF KeyCreated
  <2>2. keyRow'[k] = keyRow[k]
    BY <1>2, <2>1 DEF KeyCreated, AccessTypeOK
  <2> QED
    BY <1>2, <2>2 DEF KeyCreated, Live
<1>3. ASSUME NEW r \in Requests, RevokeUpdates(r)
      PROVE  keyRow'[k] # "absent" /\ (Live(k)' => Live(k))
  <2>1. keyRow'[k] \in {keyRow[k], "revoked"}
    BY <1>3 DEF RevokeUpdates, AccessTypeOK
  <2> QED
    BY <1>3, <2>1 DEF RevokeUpdates, Live
<1>4. ASSUME NEW j \in Keys, KeyExpires(j)
      PROVE  keyRow'[k] # "absent" /\ (Live(k)' => Live(k))
  BY <1>4 DEF KeyExpires, Live
<1>5. ASSUME NEW t \in Tenants, TenantSwitchedOff(t)
      PROVE  keyRow'[k] # "absent" /\ (Live(k)' => Live(k))
  BY <1>5 DEF TenantSwitchedOff, Live
<1> QED
  BY <1>1, <1>2, <1>3, <1>4, <1>5 DEF Next, accessVars, Arrives, ThrottlerGuard, ValidateFinds,
     ValidateCompares, TokenVerified, TokenRefused, RevokeFinds, RequestFails

-----------------------------------------------------------------------------
\* All that AccessInv says of one request, types aside.
RequestInv(r) ==
  /\ stage[r] \in {"lookup", "compare"} => ask[r].key # Null
  /\ stage[r] = "verify" => ask[r].key = Null /\ ask[r].user # Null
  /\ stage[r] # "idle" =>
       /\ \A k \in deadBefore[r] : Dead(k)
       /\ ask[r].key \in Keys => keyRow[ask[r].key] # "absent"
  /\ stage[r] = "compare" =>
       /\ candidates[r] \cap deadBefore[r] = {}
       /\ ask[r].key \in Keys /\ Live(ask[r].key) => ask[r].key \in candidates[r]
  /\ stage[r] = "401" /\ ask[r].key \in Keys => ~ Live(ask[r].key)
  /\ stage[r] \in Past =>
       /\ ask[r].key \notin deadBefore[r]
       /\ IF ask[r].key # Null
          THEN ask[r].key \in Keys /\ ctx[r].org = KeyTenant[ask[r].key]
          ELSE /\ ctx[r].org = ask[r].org
               /\ UserOrgs[ask[r].user] # {} => ask[r].org \in UserOrgs[ask[r].user]
       /\ ask[r].op = "write" /\ ask[r].key = Null => Granted(ask[r].user).canWrite

LEMMA AccessInvByRequest == AccessInv <=> AccessTypeOK /\ \A r \in Requests : RequestInv(r)
BY DEF AccessInv, RequestInv, CredentialInv, ArrivalInv, CandidateInv, DeadKeyNeverPasses,
   LiveKeyNotRefused, ContextIsTheCredentials, ReadersNeverWrite

\* What a request arrived with stays dead, and the key it presents stays a key.
LEMMA ArrivalKept ==
  ASSUME AccessTypeOK, [Next]_accessVars, NEW r \in Requests, RequestInv(r),
         stage[r] # "idle", deadBefore'[r] = deadBefore[r], ask' = ask
  PROVE  /\ \A k \in deadBefore[r] : Dead(k) /\ Dead(k)'
         /\ ask[r].key \in Keys =>
              keyRow'[ask[r].key] # "absent" /\ (Live(ask[r].key)' => Live(ask[r].key))
<1>1. deadBefore[r] \subseteq Keys
  BY DEF AccessTypeOK
<1>2. ASSUME NEW k \in deadBefore[r] PROVE Dead(k) /\ Dead(k)'
  <2>1. k \in Keys /\ Dead(k)
    BY <1>1 DEF RequestInv
  <2>2. keyRow'[k] # "absent" /\ (Live(k)' => Live(k))
    BY <2>1, KeysDieOnce DEF Dead
  <2> QED
    BY <2>1, <2>2 DEF Dead
<1>3. ASSUME ask[r].key \in Keys
      PROVE  keyRow'[ask[r].key] # "absent" /\ (Live(ask[r].key)' => Live(ask[r].key))
  <2>1. keyRow[ask[r].key] # "absent"
    BY <1>3 DEF RequestInv
  <2> QED
    BY <1>3, <2>1, KeysDieOnce
<1> QED
  BY <1>2, <1>3

\* A request that a step leaves where it is keeps its invariant.
LEMMA Bystander ==
  ASSUME AccessTypeOK, [Next]_accessVars, NEW r \in Requests, RequestInv(r),
         stage'[r] = stage[r], candidates'[r] = candidates[r], ctx'[r] = ctx[r],
         deadBefore'[r] = deadBefore[r], ask' = ask
  PROVE  RequestInv(r)'
<1>1. CASE stage[r] = "idle"
  BY <1>1 DEF RequestInv, Past
<1>2. CASE stage[r] # "idle"
  <2>1. /\ \A k \in deadBefore[r] : Dead(k) /\ Dead(k)'
        /\ ask[r].key \in Keys =>
             keyRow'[ask[r].key] # "absent" /\ (Live(ask[r].key)' => Live(ask[r].key))
    BY <1>2, ArrivalKept
  <2> QED
    BY <2>1 DEF RequestInv, Belongs, Granted
<1> QED
  BY <1>1, <1>2

-----------------------------------------------------------------------------
\* The steps of a request keep the invariant of that request: one lemma for those
\* before the guards, one for each of the guards' awaits, one for the handlers.

LEMMA ArrivesKeeps ==
  ASSUME AccessInv, NEW r \in Requests, Arrives(r)
  PROVE  RequestInv(r)'
<1>1. stage'[r] = "throttle" /\ ask' = ask /\ keyRow' = keyRow
  BY DEF Arrives, RequestGoes, AccessInv, AccessTypeOK
<1>2. deadBefore'[r] = {k \in Keys : keyRow[k] # "absent" /\ ~ Live(k)}
  BY DEF Arrives, AccessInv, AccessTypeOK
<1>3. \A k \in deadBefore'[r] : Dead(k)'
  BY <1>1, <1>2 DEF Arrives, Dead, Live
<1> QED
  BY <1>1, <1>3 DEF Arrives, RequestInv, Past

LEMMA ThrottlerKeeps ==
  ASSUME AccessInv, [Next]_accessVars, NEW r \in Requests, ThrottlerGuard(r)
  PROVE  RequestInv(r)'
<1>1. RequestInv(r) /\ AccessTypeOK /\ stage[r] = "throttle"
  BY AccessInvByRequest DEF ThrottlerGuard
<1>2. deadBefore' = deadBefore /\ ask' = ask
  BY DEF ThrottlerGuard
<1>3. /\ \A k \in deadBefore[r] : Dead(k) /\ Dead(k)'
      /\ ask[r].key \in Keys =>
           keyRow'[ask[r].key] # "absent" /\ (Live(ask[r].key)' => Live(ask[r].key))
  BY <1>1, <1>2, ArrivalKept
<1>4. \/ stage'[r] = "lookup" /\ ask[r].key # Null
      \/ stage'[r] = "verify" /\ ask[r].key = Null /\ ask[r].user # Null
      \/ stage'[r] = "401" /\ ask[r].key = Null
      \/ stage'[r] = "429"
  BY <1>1 DEF ThrottlerGuard, RequestGoes, AuthStage, AccessTypeOK
<1>5. Null \notin Keys
  BY AccessAssumption
<1> QED
  BY <1>2, <1>3, <1>4, <1>5 DEF RequestInv, Past

LEMMA ValidateFindsKeeps ==
  ASSUME AccessInv, [Next]_accessVars, NEW r \in Requests, ValidateFinds(r)
  PROVE  RequestInv(r)'
<1>1. RequestInv(r) /\ AccessTypeOK /\ stage[r] = "lookup"
  BY AccessInvByRequest DEF ValidateFinds
<1>2. deadBefore' = deadBefore /\ ask' = ask
  BY DEF ValidateFinds
<1>3. /\ \A k \in deadBefore[r] : Dead(k) /\ Dead(k)'
      /\ ask[r].key \in Keys =>
           keyRow'[ask[r].key] # "absent" /\ (Live(ask[r].key)' => Live(ask[r].key))
  BY <1>1, <1>2, ArrivalKept
<1>4. candidates'[r] = ValidKeys(Prefix[ask[r].key])
  BY <1>1 DEF ValidateFinds, AccessTypeOK
<1>5. \/ stage'[r] = "compare"
      \/ stage'[r] = "401" /\ ValidKeys(Prefix[ask[r].key]) = {}
  BY <1>1 DEF ValidateFinds, RequestGoes, AccessTypeOK
<1>6. ValidKeys(Prefix[ask[r].key]) \cap deadBefore[r] = {}
  BY <1>3 DEF ValidKeys, Dead
<1>7. ask[r].key \in Keys /\ Live(ask[r].key) => ask[r].key \in ValidKeys(Prefix[ask[r].key])
  BY DEF ValidKeys
<1> QED
  BY <1>1, <1>2, <1>3, <1>4, <1>5, <1>6, <1>7 DEF RequestInv, Past

LEMMA ValidateComparesKeeps ==
  ASSUME AccessInv, [Next]_accessVars, NEW r \in Requests, ValidateCompares(r)
  PROVE  RequestInv(r)'
<1>1. RequestInv(r) /\ AccessTypeOK /\ stage[r] = "compare"
  BY AccessInvByRequest DEF ValidateCompares
<1>2. deadBefore' = deadBefore /\ ask' = ask
  BY DEF ValidateCompares
<1>3. /\ \A k \in deadBefore[r] : Dead(k) /\ Dead(k)'
      /\ ask[r].key \in Keys =>
           keyRow'[ask[r].key] # "absent" /\ (Live(ask[r].key)' => Live(ask[r].key))
  BY <1>1, <1>2, ArrivalKept
<1>4. PICK k \in candidates[r] :
        \/ /\ k = ask[r].key
           /\ ctx' = [ctx EXCEPT ![r] = KeyContext(r, k)]
           /\ RequestGoes(r, HandlerStage(r, KeyContext(r, k)))
           /\ UNCHANGED candidates
        \/ /\ k # ask[r].key
           /\ candidates' = [candidates EXCEPT ![r] = @ \ {k}]
           /\ RequestGoes(r, IF candidates[r] = {k} THEN "401" ELSE "compare")
           /\ UNCHANGED ctx
  BY DEF ValidateCompares
<1>5. k \in Keys /\ k \notin deadBefore[r]
  BY <1>1 DEF RequestInv, AccessTypeOK
<1>6. CASE k = ask[r].key
  <2>1. KeyContext(r, k) \in Context
    BY <1>5, AccessAssumption DEF KeyContext, Context
  <2>2. stage'[r] \in {"403", "admitted", "hash", "find"}
    BY <1>1, <1>4, <1>6, <2>1, HandlerStages DEF RequestGoes, AccessTypeOK
  <2>3. ctx'[r] = KeyContext(r, k)
    BY <1>1, <1>4, <1>6 DEF AccessTypeOK
  <2> QED
    BY <1>1, <1>2, <1>3, <1>5, <1>6, <2>2, <2>3 DEF RequestInv, KeyContext, Past
<1>7. CASE k # ask[r].key
  <2>1. candidates'[r] = candidates[r] \ {k}
    BY <1>1, <1>4, <1>7 DEF AccessTypeOK
  <2>2. \/ stage'[r] = "401" /\ candidates[r] = {k}
        \/ stage'[r] = "compare"
    BY <1>1, <1>4, <1>7 DEF RequestGoes, AccessTypeOK
  <2> QED
    BY <1>1, <1>2, <1>3, <1>7, <2>1, <2>2 DEF RequestInv, Past
<1> QED
  BY <1>6, <1>7

LEMMA TokenVerifiedKeeps ==
  ASSUME AccessInv, [Next]_accessVars, NEW r \in Requests, TokenVerified(r)
  PROVE  RequestInv(r)'
<1> DEFINE u == ask[r].user
           c == [org |-> ask[r].org, canWrite |-> Granted(u).canWrite]
<1>1. RequestInv(r) /\ AccessTypeOK /\ stage[r] = "verify"
  BY AccessInvByRequest DEF TokenVerified
<1>2. deadBefore' = deadBefore /\ ask' = ask
  BY DEF TokenVerified
<1>3. /\ \A k \in deadBefore[r] : Dead(k) /\ Dead(k)'
      /\ ask[r].key \in Keys =>
           keyRow'[ask[r].key] # "absent" /\ (Live(ask[r].key)' => Live(ask[r].key))
  BY <1>1, <1>2, ArrivalKept
<1>4. ask[r].key = Null /\ u \in Users /\ ask[r].org \in Tenants \cup {Null}
  BY <1>1, AskFields DEF RequestInv
<1>5. Null \notin deadBefore[r]
  BY <1>1, AccessAssumption DEF AccessTypeOK
<1>6. CASE RequestGoes(r, "400") \/ RequestGoes(r, "403")
  <2>1. stage'[r] \in {"400", "403"}
    BY <1>1, <1>6 DEF RequestGoes, AccessTypeOK
  <2> QED
    BY <1>2, <1>3, <2>1 DEF RequestInv, Past
<1>7. CASE /\ ask[r].org # Null /\ Belongs(u, ask[r].org)
           /\ ctx' = [ctx EXCEPT ![r] = c] /\ RequestGoes(r, HandlerStage(r, c))
  <2>1. c \in Context
    BY <1>4, <1>7, GrantedBooleans DEF Context
  <2>2. /\ HandlerStage(r, c) \in {"403", "admitted", "hash", "find"}
        /\ HandlerStage(r, c) # "403" => MayRun(r, c)
    BY <1>1, <2>1, HandlerStages
  <2>3. stage'[r] = HandlerStage(r, c) /\ ctx'[r] = c
    BY <1>1, <1>7 DEF RequestGoes, AccessTypeOK
  <2>4. stage'[r] # "403" /\ ask[r].op = "write" => Granted(u).canWrite
    BY <2>2, <2>3 DEF MayRun
  <2> QED
    BY <1>2, <1>3, <1>4, <1>5, <1>7, <2>2, <2>3, <2>4
       DEF RequestInv, Past, Belongs, Granted
<1> QED
  BY <1>6, <1>7 DEF TokenVerified

LEMMA HandlerKeeps ==
  ASSUME AccessInv, [Next]_accessVars, NEW r \in Requests,
         TokenRefused(r) \/ KeyCreated(r) \/ RevokeFinds(r) \/ RevokeUpdates(r) \/ RequestFails(r)
  PROVE  RequestInv(r)'
<1>1. RequestInv(r) /\ AccessTypeOK /\ stage[r] # "idle"
  BY AccessInvByRequest DEF TokenRefused, KeyCreated, RevokeFinds, RevokeUpdates, RequestFails
<1>2. deadBefore' = deadBefore /\ ask' = ask /\ ctx' = ctx
  BY DEF TokenRefused, KeyCreated, RevokeFinds, RevokeUpdates, RequestFails
<1>3. /\ \A k \in deadBefore[r] : Dead(k) /\ Dead(k)'
      /\ ask[r].key \in Keys =>
           keyRow'[ask[r].key] # "absent" /\ (Live(ask[r].key)' => Live(ask[r].key))
  BY <1>1, <1>2, ArrivalKept
<1>4. \/ stage[r] = "verify" /\ stage'[r] = "401"
      \/ stage'[r] = "500"
      \/ stage[r] \in Past /\ stage'[r] \in {"done", "update", "404"}
  BY <1>1 DEF TokenRefused, KeyCreated, RevokeFinds, RevokeUpdates, RequestFails,
     RequestGoes, AccessTypeOK, Past
<1>5. Null \notin Keys
  BY AccessAssumption
<1> QED
  BY <1>1, <1>2, <1>3, <1>4, <1>5 DEF RequestInv, Past, Belongs, Granted

-----------------------------------------------------------------------------
LEMMA AccessStep == AccessInv /\ [Next]_accessVars => AccessInv'
<1> SUFFICES ASSUME AccessInv, [Next]_accessVars PROVE AccessInv'
  OBVIOUS
<1>1. AccessTypeOK /\ CredentialInv /\ \A r \in Requests : RequestInv(r)
  BY AccessInvByRequest DEF AccessInv
<1>2. AccessTypeOK'
  BY <1>1, AccessTypeStep
<1>3. ASSUME NEW r \in Requests PROVE RequestInv(r)'
  <2> DEFINE Still == /\ stage'[r] = stage[r] /\ candidates'[r] = candidates[r]
                      /\ ctx'[r] = ctx[r] /\ deadBefore'[r] = deadBefore[r] /\ ask' = ask
  <2>1. CASE Still
    BY <1>1, <2>1, Bystander
  <2>2. ASSUME NEW x \in Requests, Arrives(x) PROVE RequestInv(r)'
    <3>1. CASE x = r
      BY <2>2, <3>1, ArrivesKeeps
    <3>2. CASE x # r
      BY <1>1, <2>1, <2>2, <3>2 DEF Arrives, RequestGoes, AccessTypeOK
    <3> QED
      BY <3>1, <3>2
  <2>3. ASSUME NEW x \in Requests, ThrottlerGuard(x) \/ TokenRefused(x) \/ RequestFails(x)
        PROVE  RequestInv(r)'
    <3>1. CASE x = r
      BY <2>3, <3>1, ThrottlerKeeps, HandlerKeeps
    <3>2. CASE x # r
      BY <1>1, <2>1, <2>3, <3>2 DEF ThrottlerGuard, TokenRefused, RequestFails, RequestGoes,
         AccessTypeOK
    <3> QED
      BY <3>1, <3>2
  <2>4. ASSUME NEW x \in Requests, ValidateFinds(x) PROVE RequestInv(r)'
    <3>1. CASE x = r
      BY <2>4, <3>1, ValidateFindsKeeps
    <3>2. CASE x # r
      BY <1>1, <2>1, <2>4, <3>2 DEF ValidateFinds, RequestGoes, AccessTypeOK
    <3> QED
      BY <3>1, <3>2
  <2>5. ASSUME NEW x \in Requests, ValidateCompares(x) PROVE RequestInv(r)'
    <3>1. CASE x = r
      BY <2>5, <3>1, ValidateComparesKeeps
    <3>2. CASE x # r
      BY <1>1, <2>1, <2>5, <3>2 DEF ValidateCompares, RequestGoes, AccessTypeOK
    <3> QED
      BY <3>1, <3>2
  <2>6. ASSUME NEW x \in Requests, TokenVerified(x) PROVE RequestInv(r)'
    <3>1. CASE x = r
      BY <2>6, <3>1, TokenVerifiedKeeps
    <3>2. CASE x # r
      BY <1>1, <2>1, <2>6, <3>2 DEF TokenVerified, RequestGoes, AccessTypeOK
    <3> QED
      BY <3>1, <3>2
  <2>7. ASSUME NEW x \in Requests, KeyCreated(x) \/ RevokeFinds(x) \/ RevokeUpdates(x)
        PROVE  RequestInv(r)'
    <3>1. CASE x = r
      BY <2>7, <3>1, HandlerKeeps
    <3>2. CASE x # r
      BY <1>1, <2>1, <2>7, <3>2 DEF KeyCreated, RevokeFinds, RevokeUpdates, RequestGoes,
         AccessTypeOK
    <3> QED
      BY <3>1, <3>2
  <2>8. ASSUME NEW k \in Keys, KeyExpires(k) PROVE RequestInv(r)'
    BY <2>1, <2>8 DEF KeyExpires
  <2>9. ASSUME NEW t \in Tenants, TenantSwitchedOff(t) PROVE RequestInv(r)'
    BY <2>1, <2>9 DEF TenantSwitchedOff
  <2>10. CASE UNCHANGED accessVars
    BY <2>1, <2>10 DEF accessVars
  <2> QED
    BY <2>2, <2>3, <2>4, <2>5, <2>6, <2>7, <2>8, <2>9, <2>10 DEF Next
<1>4. (AccessTypeOK /\ \A r \in Requests : RequestInv(r))' => AccessInv'
  BY DEF AccessInv, RequestInv, CredentialInv, ArrivalInv, CandidateInv, DeadKeyNeverPasses,
     LiveKeyNotRefused, ContextIsTheCredentials, ReadersNeverWrite
<1> QED
  BY <1>2, <1>3, <1>4

LEMMA AccessInvariant == Spec => []AccessInv
BY AccessInit, AccessStep, PTL DEF Spec

\* The guards' variables stay in their domains.
THEOREM AccessTypeCorrect == Spec => []AccessTypeOK
<1>1. AccessInv => AccessTypeOK
  BY DEF AccessInv
<1> QED
  BY AccessInvariant, <1>1, PTL

\* A key that was dead when its request arrived gets it past no guard, for any number of
\* requests, keys and tenants in any interleaving.
THEOREM DeadKeysStayOut == Spec => []DeadKeyNeverPasses
<1>1. AccessInv => DeadKeyNeverPasses
  BY DEF AccessInv
<1> QED
  BY AccessInvariant, <1>1, PTL

\* A key that is still live is never refused, whatever is rotated around it.
THEOREM LiveKeysGetIn == Spec => []LiveKeyNotRefused
<1>1. AccessInv => LiveKeyNotRefused
  BY DEF AccessInv
<1> QED
  BY AccessInvariant, <1>1, PTL

\* The organization a request works for is the one of its API key, or the one it names, and
\* then one that its token lists unless the token lists none.
THEOREM ContextHolds == Spec => []ContextIsTheCredentials
<1>1. AccessInv => ContextIsTheCredentials
  BY DEF AccessInv
<1> QED
  BY AccessInvariant, <1>1, PTL

\* Nobody without the permission to write reaches a writing handler.
THEOREM WritersOnly == Spec => []ReadersNeverWrite
<1>1. AccessInv => ReadersNeverWrite
  BY DEF AccessInv
<1> QED
  BY AccessInvariant, <1>1, PTL

-----------------------------------------------------------------------------
\* Behind the guards of the API-key controller everybody has a key, and an update is
\* of a row that was found in the caller's tenant.
RevokeInv ==
  \A r \in Requests :
    /\ stage[r] = "verify" => ask[r].op \in PaymentOps
    /\ stage[r] \in {"find", "update"} => ask[r].key # Null
    /\ stage[r] = "update" => KeyTenant[ask[r].target] = ctx[r].org

LEMMA RevokeStep == AccessInv /\ RevokeInv /\ [Next]_accessVars => RevokeInv'
<1> SUFFICES ASSUME AccessInv, RevokeInv, [Next]_accessVars,
                    NEW r \in Requests
             PROVE  /\ stage'[r] = "verify" => ask'[r].op \in PaymentOps
                    /\ stage'[r] \in {"find", "update"} => ask'[r].key # Null
                    /\ stage'[r] = "update" => KeyTenant[ask'[r].target] = ctx'[r].org
  BY DEF RevokeInv
<1> DEFINE Kept == /\ stage'[r] = "verify" => ask'[r].op \in PaymentOps
                   /\ stage'[r] \in {"find", "update"} => ask'[r].key # Null
                   /\ stage'[r] = "update" => KeyTenant[ask'[r].target] = ctx'[r].org
<1>1. AccessTypeOK /\ RequestInv(r)
  BY AccessInvByRequest
<1>2. ask' = ask
  BY DEF Next, accessVars, Arrives, ThrottlerGuard, ValidateFinds, ValidateCompares,
     TokenVerified, TokenRefused, KeyCreated, RevokeFinds, RevokeUpdates, RequestFails,
     KeyExpires, TenantSwitchedOff
<1>3. CASE stage'[r] = stage[r] /\ ctx'[r] = ctx[r]
  BY <1>2, <1>3 DEF RevokeInv
<1>4. ASSUME NEW x \in Requests, Arrives(x) \/ ThrottlerGuard(x) PROVE Kept
  BY <1>1, <1>2, <1>3, <1>4 DEF Arrives, ThrottlerGuard, RequestGoes, AuthStage, AccessTypeOK
<1>5. ASSUME NEW x \in Requests, ValidateFinds(x) PROVE Kept
  BY <1>1, <1>2, <1>3, <1>5 DEF ValidateFinds, RequestGoes, AccessTypeOK
<1>6. ASSUME NEW x \in Requests, ValidateCompares(x) PROVE Kept
  <2>1. CASE x # r
    BY <1>1, <1>3, <1>6, <2>1 DEF ValidateCompares, RequestGoes, AccessTypeOK
  <2>2. CASE x = r
    <3>1. PICK k \in candidates[r] :
            \/ k = ask[r].key /\ RequestGoes(r, HandlerStage(r, KeyContext(r, k)))
            \/ RequestGoes(r, "401") \/ RequestGoes(r, "compare")
      BY <1>6, <2>2 DEF ValidateCompares
    <3>2. k \in Keys
      BY <1>1 DEF AccessTypeOK
    <3>3. KeyContext(r, k) \in Context
      BY <3>2, AccessAssumption DEF KeyContext, Context
    <3>4. HandlerStage(r, KeyContext(r, k)) \in {"403", "admitted", "hash", "find"}
      BY <1>1, <3>3, HandlerStages
    <3>5. stage'[r] \in {"401", "compare", "403", "admitted", "hash", "find"}
      BY <1>1, <3>1, <3>4 DEF RequestGoes, AccessTypeOK
    <3>6. stage[r] = "compare"
      BY <1>6, <2>2 DEF ValidateCompares
    <3> QED
      BY <1>1, <1>2, <3>5, <3>6 DEF RequestInv
  <2> QED
    BY <2>1, <2>2
<1>7. ASSUME NEW x \in Requests, TokenVerified(x) PROVE Kept
  <2>1. CASE x # r
    BY <1>1, <1>3, <1>7, <2>1 DEF TokenVerified, RequestGoes, AccessTypeOK
  <2>2. CASE x = r
    <3> DEFINE c == [org |-> ask[r].org, canWrite |-> Granted(ask[r].user).canWrite]
    <3>1. stage[r] = "verify" /\ ask[r].op \in PaymentOps
      BY <1>7, <2>2 DEF TokenVerified, RevokeInv
    <3>2. HandlerStage(r, c) \in {"403", "admitted"}
      BY <3>1 DEF HandlerStage, PaymentOps
    <3> HIDE DEF c
    <3>3. \/ RequestGoes(r, "400") \/ RequestGoes(r, "403")
          \/ RequestGoes(r, HandlerStage(r, c))
      BY <1>7, <2>2 DEF TokenVerified, c
    <3>4. stage'[r] \in {"400", "403", "admitted"}
      BY <1>1, <3>2, <3>3 DEF RequestGoes, AccessTypeOK
    <3> QED
      BY <3>4
  <2> QED
    BY <2>1, <2>2
<1>8. ASSUME NEW x \in Requests, TokenRefused(x) \/ RequestFails(x) \/ KeyCreated(x)
      PROVE  Kept
  BY <1>1, <1>3, <1>8 DEF TokenRefused, RequestFails, KeyCreated, RequestGoes, AccessTypeOK
<1>9. ASSUME NEW x \in Requests, RevokeFinds(x) \/ RevokeUpdates(x) PROVE Kept
  BY <1>1, <1>2, <1>3, <1>9 DEF RevokeFinds, RevokeUpdates, OwnKey, RequestGoes, AccessTypeOK,
     RevokeInv
<1>10. ASSUME NEW k \in Keys, KeyExpires(k) PROVE Kept
  BY <1>3, <1>10 DEF KeyExpires
<1>11. ASSUME NEW t \in Tenants, TenantSwitchedOff(t) PROVE Kept
  BY <1>3, <1>11 DEF TenantSwitchedOff
<1>12. CASE UNCHANGED accessVars
  BY <1>3, <1>12 DEF accessVars
<1> QED
  BY <1>4, <1>5, <1>6, <1>7, <1>8, <1>9, <1>10, <1>11, <1>12 DEF Next

\* A key is revoked only by a request that presented a key of the same tenant.
THEOREM RevocationStaysHome == Spec => RevokedByItsTenant
<1>1. Init => RevokeInv
  BY DEF Init, RevokeInv
<1>2. AccessInv /\ RevokeInv /\ [Next]_accessVars =>
        [\A k \in Keys : keyRow[k] = "active" /\ keyRow'[k] = "revoked" =>
           \E r \in Requests :
             stage[r] = "update" /\ ask[r].target = k
               /\ KeyTenant[ask[r].key] = KeyTenant[k]]_accessVars
  <2> SUFFICES ASSUME AccessInv, RevokeInv, Next, NEW k \in Keys,
                      keyRow[k] = "active", keyRow'[k] = "revoked"
               PROVE  \E r \in Requests :
                        stage[r] = "update" /\ ask[r].target = k
                          /\ KeyTenant[ask[r].key] = KeyTenant[k]
    OBVIOUS
  <2>1. AccessTypeOK /\ \A r \in Requests : RequestInv(r)
    BY AccessInvByRequest
  <2>2. PICK r \in Requests : RevokeUpdates(r) /\ ask[r].target = k
    <3>1. keyRow' # keyRow
      OBVIOUS
    <3>2. PICK r \in Requests : KeyCreated(r) \/ RevokeUpdates(r)
      BY <3>1 DEF Next, Arrives, ThrottlerGuard, ValidateFinds, ValidateCompares, TokenVerified,
         TokenRefused, RevokeFinds, RequestFails, KeyExpires, TenantSwitchedOff
    <3>3. ~ KeyCreated(r)
      BY <2>1 DEF KeyCreated, AccessTypeOK
    <3>4. ask[r].target = k
      BY <2>1, <3>2, <3>3 DEF RevokeUpdates, AccessTypeOK
    <3> QED
      BY <3>2, <3>3, <3>4
  <2>3. stage[r] = "update" /\ ask[r].key # Null /\ KeyTenant[k] = ctx[r].org
    BY <2>2 DEF RevokeUpdates, RevokeInv
  <2>4. ctx[r].org = KeyTenant[ask[r].key]
    BY <2>1, <2>3 DEF RequestInv, Past
  <2> QED
    BY <2>2, <2>3, <2>4
<1> QED
  BY AccessInvariant, <1>1, <1>2, RevokeStep, PTL DEF Spec, RevokedByItsTenant

-----------------------------------------------------------------------------
\* The throttler is a guard of the application and runs before the guards that give a
\* request its tenant; what is past the guards has been given one.
NotYetKnown ==
  \A r \in Requests : stage[r] \in {"idle", "throttle", "lookup", "compare"} => ctx[r] = Null

GivenInv == \A r \in Requests : stage[r] \in Past => ctx[r] # Null

KnownInv == AccessInv /\ NotYetKnown /\ GivenInv

LEMMA KnownStep == KnownInv /\ [Next]_accessVars => KnownInv'
<1> SUFFICES ASSUME KnownInv, [Next]_accessVars PROVE KnownInv'
  OBVIOUS
<1> USE DEF KnownInv, NotYetKnown, GivenInv, Past
<1>1. AccessInv' /\ AccessTypeOK
  BY AccessStep DEF AccessInv
<1>2. CASE UNCHANGED <<stage, ctx>>
  BY <1>1, <1>2
\* A request on its way to the guards, or on its way in its handler.
<1>3. ASSUME NEW x \in Requests, NEW there \in Stages, RequestGoes(x, there), UNCHANGED ctx,
             there \in {"idle", "throttle", "lookup", "compare"} => ctx[x] = Null,
             there \in Past => ctx[x] # Null
      PROVE  KnownInv'
  BY <1>1, <1>3 DEF RequestGoes, AccessTypeOK
<1>4. ASSUME NEW x \in Requests,
             Arrives(x) \/ ThrottlerGuard(x) \/ ValidateFinds(x) \/ TokenRefused(x)
      PROVE  KnownInv'
  BY <1>1, <1>3, <1>4 DEF Arrives, ThrottlerGuard, AuthStage, ValidateFinds, TokenRefused, Stages
<1>5. ASSUME NEW x \in Requests,
             KeyCreated(x) \/ RevokeFinds(x) \/ RevokeUpdates(x) \/ RequestFails(x)
      PROVE  KnownInv'
  BY <1>1, <1>3, <1>5 DEF KeyCreated, RevokeFinds, RevokeUpdates, RequestFails, Stages
\* A request that is given a context goes on to its handler, or is refused.
<1>6. ASSUME NEW x \in Requests, NEW c \in Context, ctx' = [ctx EXCEPT ![x] = c],
             RequestGoes(x, HandlerStage(x, c))
      PROVE  KnownInv'
  <2>1. HandlerStage(x, c) \in {"403", "admitted", "hash", "find"} /\ c # Null
    BY <1>1, HandlerStages, AccessAssumption
  <2> QED
    BY <1>1, <1>6, <2>1 DEF RequestGoes, AccessTypeOK
<1>7. ASSUME NEW x \in Requests, ValidateCompares(x) PROVE KnownInv'
  <2>1. PICK k \in candidates[x] :
          \/ ctx' = [ctx EXCEPT ![x] = KeyContext(x, k)]
                /\ RequestGoes(x, HandlerStage(x, KeyContext(x, k)))
          \/ RequestGoes(x, IF candidates[x] = {k} THEN "401" ELSE "compare") /\ UNCHANGED ctx
    BY <1>7 DEF ValidateCompares
  <2>2. KeyContext(x, k) \in Context
    BY <1>1, AccessAssumption DEF AccessTypeOK, KeyContext, Context
  <2> QED
    BY <1>3, <1>6, <1>7, <2>1, <2>2 DEF ValidateCompares, Stages
<1>8. ASSUME NEW x \in Requests, TokenVerified(x) PROVE KnownInv'
  <2> DEFINE c == [org |-> ask[x].org, canWrite |-> Granted(ask[x].user).canWrite]
  <2>1. ask[x].user \in Users /\ ask[x].org \in Tenants \cup {Null}
    BY <1>1, <1>8, AskFields DEF TokenVerified, CredentialInv, AccessInv
  <2>2. ask[x].org # Null => c \in Context
    BY <2>1, GrantedBooleans DEF Context
  <2> HIDE DEF c
  <2>3. \/ RequestGoes(x, "400") /\ UNCHANGED ctx
        \/ RequestGoes(x, "403") /\ UNCHANGED ctx
        \/ /\ ask[x].org # Null /\ ctx' = [ctx EXCEPT ![x] = c]
           /\ RequestGoes(x, HandlerStage(x, c))
    BY <1>8 DEF TokenVerified, c
  <2> QED
    BY <1>3, <1>6, <2>2, <2>3 DEF Stages
<1> QED
  BY <1>2, <1>4, <1>5, <1>7, <1>8 DEF Next, accessVars, KeyExpires, TenantSwitchedOff

LEMMA KnownHolds == Spec => []KnownInv
<1>1. Init => KnownInv
  BY AccessInit DEF KnownInv, Init, NotYetKnown, GivenInv, Past
<1> QED
  BY <1>1, KnownStep, PTL DEF Spec

\* The throttler counts nothing and refuses nobody, whatever the limit is and however
\* many requests of a tenant come: the comment of tenant-throttler.guard.ts:37, that
\* AuthGuard has run before, is wrong of every request, and so no counter is ever left
\* behind without an expiry.
NothingCounted ==
  /\ \A t \in Tenants : hits[t] = 0
  /\ \A r \in Requests : stage[r] # "429"

THEOREM NobodyIsThrottled == Spec => []NothingCounted
<1>1. Init => NothingCounted
  BY DEF Init, NothingCounted
<1>2. KnownInv /\ NothingCounted /\ [Next]_accessVars => NothingCounted'
  <2> SUFFICES ASSUME KnownInv, NothingCounted, [Next]_accessVars PROVE NothingCounted'
    OBVIOUS
  <2>1. AccessTypeOK
    BY DEF KnownInv, AccessInv
  <2>2. ASSUME NEW x \in Requests, NEW there, there # "429", RequestGoes(x, there),
               UNCHANGED hits
        PROVE  NothingCounted'
    BY <2>1, <2>2 DEF RequestGoes, AccessTypeOK, NothingCounted
  <2>3. ASSUME NEW x \in Requests, ThrottlerGuard(x) PROVE NothingCounted'
    <3>1. ctx[x] = Null
      BY <2>3 DEF ThrottlerGuard, KnownInv, NotYetKnown
    <3> QED
      BY <2>2, <2>3, <3>1 DEF ThrottlerGuard, AuthStage
  <2>4. ASSUME NEW x \in Requests, NEW c PROVE HandlerStage(x, c) # "429"
    BY <2>1, AskFields DEF HandlerStage
  <2>5. ASSUME NEW x \in Requests, ValidateCompares(x) \/ TokenVerified(x)
        PROVE  NothingCounted'
    BY <2>2, <2>4, <2>5 DEF ValidateCompares, TokenVerified
  <2>6. ASSUME NEW x \in Requests, Arrives(x) \/ ValidateFinds(x) \/ TokenRefused(x)
                 \/ KeyCreated(x) \/ RevokeFinds(x) \/ RevokeUpdates(x) \/ RequestFails(x)
        PROVE  NothingCounted'
    BY <2>2, <2>6 DEF Arrives, ValidateFinds, TokenRefused, KeyCreated, RevokeFinds,
       RevokeUpdates, RequestFails
  <2>7. CASE UNCHANGED <<stage, hits>>
    BY <2>7 DEF NothingCounted
  <2> QED
    BY <2>3, <2>5, <2>6, <2>7 DEF Next, accessVars, KeyExpires, TenantSwitchedOff
<1> QED
  BY <1>1, <1>2, KnownHolds, PTL DEF Spec

-----------------------------------------------------------------------------
\* The guards implement the atomic gate: validate() is judged by its one read of the
\* table.  The steps of requests leave the keys alone, but for the handlers'.
Verdicts == [r \in Requests |-> Verdict(r)]

KeysRest == UNCHANGED <<ask, keyRow, expired, inactive>>

\* What a step does to the verdicts: none but that of the request which takes it changes.
LEMMA VerdictOf ==
  ASSUME NEW x \in Requests, UNCHANGED ask,
         \A o \in Requests \ {x} :
           stage'[o] = stage[o] /\ ctx'[o] = ctx[o] /\ candidates'[o] = candidates[o]
  PROVE  Verdicts' = [Verdicts EXCEPT ![x] = Verdict(x)']
<1>1. \A o \in Requests \ {x} : Verdict(o)' = Verdict(o)
  BY DEF Verdict
<1> QED
  BY <1>1 DEF Verdicts

LEMMA VerdictsRest ==
  ASSUME UNCHANGED <<ask, stage, ctx, candidates>> PROVE Verdicts' = Verdicts
  BY DEF Verdicts, Verdict

\* A step that leaves the keys alone and passes judgement, or none, on the request that
\* takes it.
LEMMA Judges ==
  ASSUME NEW x \in Requests, KeysRest, Verdicts' = [Verdicts EXCEPT ![x] = Verdict(x)'],
         \/ Verdict(x)' = Verdict(x)
         \/ /\ Verdict(x) = "none" /\ ask[x].key # Null /\ Verdict(x)' = "asked"
            /\ ask[x].key \in Keys => keyRow[ask[x].key] # "absent"
         \/ /\ Verdict(x) = "asked"
            /\ Verdict(x)' = IF ask[x].key \in Keys /\ Live(ask[x].key) THEN "in" ELSE "out"
         \/ Verdict(x) = "asked" /\ Verdict(x)' = "failed"
  PROVE  [Gate!Next]_(Gate!gateVars)
<1> USE DEF Verdicts, KeysRest
<1>1. /\ \A k \in Keys : Live(k)' = Live(k)
      /\ UNCHANGED [r \in Requests |-> ask[r].key]
      /\ UNCHANGED {k \in Keys : Live(k)}
      /\ UNCHANGED {k \in Keys : keyRow[k] # "absent" /\ ~ Live(k)}
  BY DEF Live
<1>2. CASE Verdict(x)' = Verdict(x)
  <2>1. UNCHANGED [r \in Requests |-> Verdict(r)]
    BY <1>2
  <2> QED
    BY <1>1, <2>1 DEF Gate!gateVars
<1>3. CASE /\ Verdict(x) = "none" /\ ask[x].key # Null /\ Verdict(x)' = "asked"
           /\ ask[x].key \in Keys => keyRow[ask[x].key] # "absent"
  <2>1. Gate!Presents(x)
    BY <1>1, <1>3 DEF Gate!Presents
  <2> QED
    BY <2>1 DEF Gate!Next
<1>4. CASE /\ Verdict(x) = "asked"
           /\ Verdict(x)' = IF ask[x].key \in Keys /\ Live(ask[x].key) THEN "in" ELSE "out"
  <2>1. Gate!Judged(x)
    BY <1>1, <1>4 DEF Gate!Judged
  <2> QED
    BY <2>1 DEF Gate!Next
<1>5. CASE Verdict(x) = "asked" /\ Verdict(x)' = "failed"
  <2>1. Gate!GivenUp(x)
    BY <1>1, <1>5 DEF Gate!GivenUp
  <2> QED
    BY <2>1 DEF Gate!Next
<1> QED
  BY <1>2, <1>3, <1>4, <1>5

\* A step on the keys: one is issued, or some die and none comes back.
LEMMA KeysMove ==
  ASSUME UNCHANGED ask, Verdicts' = Verdicts,
         \/ \A k \in Keys : (Live(k)' => Live(k)) /\ (keyRow'[k] = "absent" <=> keyRow[k] = "absent")
         \/ \E k \in Keys : /\ keyRow[k] = "absent" /\ keyRow'[k] # "absent"
                            /\ \A o \in Keys \ {k} : Live(o)' = Live(o) /\ keyRow'[o] = keyRow[o]
  PROVE  [Gate!Next]_(Gate!gateVars)
<1> DEFINE alive == {k \in Keys : Live(k)}
           dead == {k \in Keys : keyRow[k] # "absent" /\ ~ Live(k)}
<1>1. UNCHANGED [r \in Requests |-> ask[r].key] /\ UNCHANGED [r \in Requests |-> Verdict(r)]
  BY DEF Verdicts
<1>2. \A k \in Keys : Live(k) => keyRow[k] # "absent"
  BY DEF Live
<1>3. CASE \A k \in Keys :
             (Live(k)' => Live(k)) /\ (keyRow'[k] = "absent" <=> keyRow[k] = "absent")
  <2>1. alive' \in SUBSET alive /\ dead' = dead \cup (alive \ alive')
    BY <1>2, <1>3
  <2>2. Gate!SomeDie
    BY <1>1, <2>1 DEF Gate!SomeDie
  <2> QED
    BY <2>2 DEF Gate!Next
<1>4. ASSUME NEW k \in Keys, keyRow[k] = "absent", keyRow'[k] # "absent",
             \A o \in Keys \ {k} : Live(o)' = Live(o) /\ keyRow'[o] = keyRow[o]
      PROVE  [Gate!Next]_(Gate!gateVars)
  <2>1. k \notin alive \cup dead
    BY <1>2, <1>4
  <2>2. \/ alive' = alive \cup {k} /\ dead' = dead
        \/ dead' = dead \cup {k} /\ alive' = alive
    <3>1. CASE Live(k)'
      BY <1>4, <2>1, <3>1
    <3>2. CASE ~ Live(k)'
      BY <1>4, <2>1, <3>2
    <3> QED
      BY <3>1, <3>2
  <2>3. Gate!Issued(k)
    BY <1>1, <2>1, <2>2 DEF Gate!Issued
  <2> QED
    BY <2>3 DEF Gate!Next
<1> QED
  BY <1>3, <1>4

LEMMA GateInit == Init => Gate!Init
<1> SUFFICES ASSUME Init PROVE Gate!Init
  OBVIOUS
<1>1. AccessTypeOK
  BY AccessInit DEF AccessInv
<1>2. [r \in Requests |-> ask[r].key] \in [Requests -> Keys \cup {Forged, Null}]
  BY <1>1, AskFields
<1>3. {k \in Keys : keyRow[k] # "absent" /\ ~ Live(k)} = {}
  BY DEF Init, Live
<1>4. [r \in Requests |-> Verdict(r)] = [r \in Requests |-> "none"]
  BY DEF Init, Verdict
<1> QED
  BY <1>2, <1>3, <1>4 DEF Gate!Init

LEMMA StepJudges ==
  ASSUME KnownInv, [Next]_accessVars PROVE [Gate!Next]_(Gate!gateVars)
<1> USE DEF KnownInv
<1>1. AccessTypeOK /\ ArrivalInv /\ CredentialInv /\ CandidateInv
  BY DEF AccessInv
<1>2. ASSUME NEW x \in Requests, NEW there, RequestGoes(x, there), UNCHANGED <<ctx, candidates>>,
             UNCHANGED ask
      PROVE  Verdicts' = [Verdicts EXCEPT ![x] = Verdict(x)'] /\ stage'[x] = there
  BY <1>1, <1>2, VerdictOf DEF RequestGoes, AccessTypeOK
<1>3. ASSUME NEW x \in Requests, Arrives(x) PROVE [Gate!Next]_(Gate!gateVars)
  <2>1. /\ KeysRest /\ stage[x] = "idle" /\ stage'[x] = "throttle"
        /\ Verdicts' = [Verdicts EXCEPT ![x] = Verdict(x)']
    BY <1>2, <1>3 DEF Arrives, KeysRest
  <2>2. Verdict(x) = "none" /\ (ask[x].key # Null => Verdict(x)' = "asked")
          /\ (ask[x].key = Null => Verdict(x)' = "none")
    BY <2>1 DEF Verdict, KeysRest
  <2> QED
    BY <1>3, <2>1, <2>2, Judges DEF Arrives
<1>4. ASSUME NEW x \in Requests, ThrottlerGuard(x) PROVE [Gate!Next]_(Gate!gateVars)
  <2>1. /\ KeysRest /\ stage[x] = "throttle" /\ stage'[x] = AuthStage(ask[x])
        /\ Verdicts' = [Verdicts EXCEPT ![x] = Verdict(x)']
    BY <1>2, <1>4 DEF ThrottlerGuard, KeysRest, NotYetKnown
  <2>2. Verdict(x)' = Verdict(x)
    BY <2>1 DEF Verdict, KeysRest, AuthStage
  <2> QED
    BY <2>1, <2>2, Judges
<1>5. ASSUME NEW x \in Requests, ValidateFinds(x) PROVE [Gate!Next]_(Gate!gateVars)
  <2> DEFINE found == ValidKeys(Prefix[ask[x].key])
  <2>1. /\ KeysRest /\ stage[x] = "lookup" /\ ctx' = ctx /\ candidates'[x] = found
        /\ stage'[x] = IF found = {} THEN "401" ELSE "compare"
        /\ Verdicts' = [Verdicts EXCEPT ![x] = Verdict(x)']
    BY <1>1, <1>5, VerdictOf DEF ValidateFinds, KeysRest, RequestGoes, AccessTypeOK
  <2>2. ask[x].key # Null /\ ctx[x] = Null
    BY <1>1, <2>1 DEF CredentialInv, NotYetKnown
  <2>3. ask[x].key \in found <=> ask[x].key \in Keys /\ Live(ask[x].key)
    BY DEF ValidKeys
  <2>4. /\ Verdict(x) = "asked"
        /\ Verdict(x)' = IF ask[x].key \in found THEN "in" ELSE "out"
    BY <2>1, <2>2 DEF Verdict, KeysRest
  <2> QED
    BY <2>1, <2>3, <2>4, Judges
\* A comparison finds what the read has decided.
<1>6. ASSUME NEW x \in Requests, ValidateCompares(x) PROVE [Gate!Next]_(Gate!gateVars)
  <2>1. /\ KeysRest /\ stage[x] = "compare" /\ ask[x].key # Null /\ ctx[x] = Null
        /\ Verdicts' = [Verdicts EXCEPT ![x] = Verdict(x)']
    BY <1>1, <1>6, VerdictOf DEF ValidateCompares, KeysRest, RequestGoes, AccessTypeOK,
       CredentialInv, NotYetKnown
  <2>2. PICK k \in candidates[x] :
          \/ /\ k = ask[x].key
             /\ ctx' = [ctx EXCEPT ![x] = KeyContext(x, k)]
             /\ RequestGoes(x, HandlerStage(x, KeyContext(x, k)))
          \/ /\ k # ask[x].key
             /\ candidates' = [candidates EXCEPT ![x] = @ \ {k}]
             /\ RequestGoes(x, IF candidates[x] = {k} THEN "401" ELSE "compare")
             /\ UNCHANGED ctx
    BY <1>6 DEF ValidateCompares
  <2>3. KeyContext(x, k) \in Context
    BY <1>1, AccessAssumption DEF AccessTypeOK, KeyContext, Context
  <2>4. CASE k = ask[x].key
    <3>1. ctx'[x] # Null /\ stage'[x] \in {"403", "admitted", "hash", "find"}
      BY <1>1, <2>2, <2>3, <2>4, HandlerStages, AccessAssumption DEF RequestGoes, AccessTypeOK
    <3>2. Verdict(x) = "in" /\ Verdict(x)' = "in"
      BY <2>1, <2>4, <3>1 DEF Verdict, KeysRest
    <3> QED
      BY <2>1, <3>2, Judges
  <2>5. CASE k # ask[x].key
    <3>1. /\ stage'[x] = IF candidates[x] = {k} THEN "401" ELSE "compare"
          /\ candidates'[x] = candidates[x] \ {k} /\ ctx' = ctx
      BY <1>1, <2>2, <2>5 DEF RequestGoes, AccessTypeOK
    <3>2. Verdict(x)' = Verdict(x)
      BY <2>1, <2>5, <3>1 DEF Verdict, KeysRest
    <3> QED
      BY <2>1, <3>2, Judges
  <2> QED
    BY <2>4, <2>5
<1>7. ASSUME NEW x \in Requests, TokenVerified(x) \/ TokenRefused(x)
      PROVE  [Gate!Next]_(Gate!gateVars)
  <2>1. KeysRest /\ ask[x].key = Null /\ Verdicts' = [Verdicts EXCEPT ![x] = Verdict(x)']
    BY <1>1, <1>7, VerdictOf DEF TokenVerified, TokenRefused, KeysRest, RequestGoes,
       AccessTypeOK, CredentialInv
  <2>2. Verdict(x)' = Verdict(x)
    BY <2>1 DEF Verdict, KeysRest
  <2> QED
    BY <2>1, <2>2, Judges
<1>8. ASSUME NEW x \in Requests, RequestFails(x) PROVE [Gate!Next]_(Gate!gateVars)
  <2>1. /\ KeysRest /\ stage'[x] = "500" /\ ctx' = ctx
        /\ Verdicts' = [Verdicts EXCEPT ![x] = Verdict(x)']
    BY <1>2, <1>8 DEF RequestFails, KeysRest
  <2>2. \/ stage[x] = "lookup" /\ ctx[x] = Null /\ ask[x].key # Null
        \/ stage[x] \in {"find", "update", "hash"} /\ ctx[x] # Null
    BY <1>1, <1>8 DEF RequestFails, NotYetKnown, GivenInv, CredentialInv, Past
  <2>3. \/ Verdict(x) = "asked" /\ Verdict(x)' = "failed"
        \/ Verdict(x)' = Verdict(x)
    BY <2>1, <2>2 DEF Verdict, KeysRest
  <2> QED
    BY <2>1, <2>3, Judges
\* Behind the guards a request keeps its context, and its verdict.
<1>9. ASSUME NEW x \in Requests, KeyCreated(x) \/ RevokeFinds(x) \/ RevokeUpdates(x)
      PROVE  Verdicts' = Verdicts
  <2>1. /\ Verdicts' = [Verdicts EXCEPT ![x] = Verdict(x)'] /\ ctx' = ctx /\ ask' = ask
        /\ stage[x] \in {"hash", "find", "update"} /\ stage'[x] \in {"done", "update", "404"}
    BY <1>2, <1>9 DEF KeyCreated, RevokeFinds, RevokeUpdates
  <2>2. ctx[x] # Null
    BY <2>1 DEF GivenInv, Past
  <2>3. Verdict(x)' = Verdict(x)
    BY <2>1, <2>2 DEF Verdict
  <2> QED
    BY <2>1, <2>3 DEF Verdicts
<1>10. ASSUME NEW x \in Requests, RevokeFinds(x) PROVE [Gate!Next]_(Gate!gateVars)
  <2>1. KeysRest
    BY <1>10 DEF RevokeFinds, KeysRest
  <2> QED
    BY <1>9, <1>10, <2>1, KeysMove DEF KeysRest, Live
<1>11. ASSUME NEW x \in Requests, KeyCreated(x) PROVE [Gate!Next]_(Gate!gateVars)
  <2>1. PICK k \in Keys : k = ask[x].target
    BY <1>1, AskFields
  <2>2. keyRow[k] = "absent" /\ keyRow' = [keyRow EXCEPT ![k] = "active"]
          /\ UNCHANGED <<ask, expired, inactive>>
    BY <1>11, <2>1 DEF KeyCreated
  <2> QED
    BY <1>1, <1>9, <1>11, <2>2, KeysMove DEF AccessTypeOK, Live
<1>12. ASSUME NEW x \in Requests, RevokeUpdates(x) PROVE [Gate!Next]_(Gate!gateVars)
  <2>1. PICK k \in Keys : k = ask[x].target
    BY <1>1, AskFields
  <2>2. /\ keyRow' = [keyRow EXCEPT ![k] = "revoked"]
        /\ UNCHANGED <<ask, expired, inactive>>
    BY <1>12, <2>1 DEF RevokeUpdates
  <2>3. \A o \in Keys \ {k} : Live(o)' = Live(o) /\ keyRow'[o] = keyRow[o]
    BY <1>1, <2>2 DEF AccessTypeOK, Live
  <2>4. keyRow'[k] = "revoked" /\ ~ Live(k)'
    BY <1>1, <2>2 DEF AccessTypeOK, Live
  <2> QED
    BY <1>9, <1>12, <2>2, <2>3, <2>4, KeysMove
<1>13. ASSUME NEW k \in Keys, KeyExpires(k) PROVE [Gate!Next]_(Gate!gateVars)
  BY <1>13, VerdictsRest, KeysMove DEF KeyExpires, Live
<1>14. ASSUME NEW t \in Tenants, TenantSwitchedOff(t) PROVE [Gate!Next]_(Gate!gateVars)
  BY <1>14, VerdictsRest, KeysMove DEF TenantSwitchedOff, Live
<1>15. CASE UNCHANGED accessVars
  BY <1>15, VerdictsRest, KeysMove DEF accessVars, Live
<1> QED
  BY <1>3, <1>4, <1>5, <1>6, <1>7, <1>8, <1>10, <1>11, <1>12, <1>13, <1>14, <1>15 DEF Next

\* Every behaviour of the guards is one of the atomic gate: what a key is worth at the one
\* read of validate() decides, however many keys share its prefix, whatever is created,
\* revoked, expires or is switched off during the comparisons, and nothing undoes it.
THEOREM ValidateIsAtomic == Spec => JudgedAtOnce
<1>1. KnownInv /\ [Next]_accessVars => [Gate!Next]_(Gate!gateVars)
  BY StepJudges
<1> QED
  BY <1>1, GateInit, KnownHolds, PTL DEF Spec, JudgedAtOnce, Gate!Spec
=============================================================================

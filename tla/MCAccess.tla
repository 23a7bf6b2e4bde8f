------------------------------ MODULE MCAccess ------------------------------
(* AccessControl on a small instance: two tenants, three keys that share one *)
(* prefix, an owner, a viewer, a user whose token lists no organization and  *)
(* one whose token has no claim at all.                                      *)
EXTENDS AccessControl, TLC

CONSTANTS a1, a2, a3, acme, globex, k1, k2, k3, owner, viewer, newcomer, stranger

TenantOf == (k1 :> acme) @@ (k2 :> acme) @@ (k3 :> globex)

OnePrefix == [k \in Keys \cup {Forged} |-> "p"]

Orgs == (owner :> {acme}) @@ (viewer :> {acme, globex}) @@ (newcomer :> {}) @@ (stranger :> {})

Claims ==
  (owner  :> [canRead |-> TRUE, canWrite |-> TRUE]) @@
  (viewer :> [canRead |-> TRUE, canWrite |-> FALSE]) @@
  (newcomer :> [canRead |-> TRUE, canWrite |-> FALSE]) @@
  (stranger :> Null)

ByKey(k, op, target) ==
  [key |-> k, user |-> Null, org |-> globex, op |-> op, target |-> target]

ByUser(u, t, op) ==
  [key |-> Null, user |-> u, org |-> t, op |-> op, target |-> k1]

\* Payments and key rotation with API keys.
KeyAsks ==
  { ByKey(k, "write", k1) : k \in {k1, k2} } \cup
  { ByKey(Forged, "read", k1), [ByKey(k1, "createKey", k2) EXCEPT !.org = Null],
    ByKey(k1, "revoke", k2), ByKey(k3, "revoke", k1) }

UserAsks ==
  { ByUser(owner, acme, "write"), ByUser(owner, globex, "read"), ByUser(owner, Null, "read"),
    ByUser(viewer, globex, "write"), ByUser(newcomer, acme, "read"),
    ByUser(stranger, acme, "write"),
    ByUser(owner, acme, "createKey"),
    [ByUser(viewer, globex, "write") EXCEPT !.key = k1] }

AllAsks == KeyAsks \cup UserAsks

Symmetric == Permutations(Requests)

\* Requests with a token write nothing that other requests read, and read nothing that
\* others write: one is enough, next to requests that rotate no keys.
MCInit ==
  /\ Init
  /\ \A r \in Requests : ask[r].key = Null =>
       \A o \in Requests \ {r} : ask[o].key # Null /\ ask[o].op \in PaymentOps

MCSpec == MCInit /\ [][Next]_accessVars
=============================================================================

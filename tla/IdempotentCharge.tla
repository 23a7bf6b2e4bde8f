-------------------------- MODULE IdempotentCharge --------------------------
(***************************************************************************)
(* What POST /payments promises of an idempotency key, with no code in     *)
(* sight: the first request to claim a key owns it for ever, only the      *)
(* owner ever charges, and whoever asks with that key is told the owner    *)
(* or nothing.                                                             *)
(***************************************************************************)
CONSTANTS Requests, Accounts, None

VARIABLES
  wants,   \* the key a request asked with
  owner,   \* the request that owns a key
  charged, \* the requests on whose behalf money may have moved
  told     \* the payment a request was answered with

abstractVars == <<wants, owner, charged, told>>

Init ==
  /\ wants = [r \in Requests |-> None]
  /\ owner = [a \in Accounts |-> None]
  /\ charged = {}
  /\ told = [r \in Requests |-> None]

\* A request arrives; it may be told the owner of its key at once.
Ask(r, a) ==
  /\ wants[r] = None
  /\ wants' = [wants EXCEPT ![r] = a]
  /\ told' \in {told, [told EXCEPT ![r] = owner[a]]}
  /\ UNCHANGED <<owner, charged>>

Claim(r) ==
  /\ wants[r] # None /\ owner[wants[r]] = None
  /\ owner' = [owner EXCEPT ![wants[r]] = r]
  /\ UNCHANGED <<wants, charged, told>>

Charge(r) ==
  /\ wants[r] # None /\ owner[wants[r]] = r /\ r \notin charged
  /\ charged' = charged \cup {r}
  /\ UNCHANGED <<wants, owner, told>>

Tell(r) ==
  /\ wants[r] # None /\ told[r] = None
  /\ told' = [told EXCEPT ![r] = owner[wants[r]]]
  /\ UNCHANGED <<wants, owner, charged>>

Next ==
  \E r \in Requests :
    \/ \E a \in Accounts : Ask(r, a)
    \/ Claim(r) \/ Charge(r) \/ Tell(r)

Spec == Init /\ [][Next]_abstractVars
=============================================================================

------------------------------- MODULE KeyGate -------------------------------
(***************************************************************************)
(* What ApiKeyService.validate() promises: a request that presents a key   *)
(* is judged at one instant between its arrival and its answer, by what    *)
(* the key is worth at that instant, and the judgement stands.  A key that *)
(* has died, for whatever reason, stays dead.                              *)
(***************************************************************************)
CONSTANTS Requests, Keys,
          Forged, \* what is presented by who has no key
          None    \* nothing is presented

VARIABLES
  presented, \* what each request presents
  alive,     \* the keys that are accepted
  dead,      \* the keys that were, or were born too late
  verdict    \* what has become of each request

gateVars == <<presented, alive, dead, verdict>>

Init ==
  /\ presented \in [Requests -> Keys \cup {Forged, None}]
  /\ alive \subseteq Keys /\ dead = {}
  /\ verdict = [r \in Requests |-> "none"]

\* A key is issued, to a tenant that may be switched off already.
Issued(k) ==
  /\ k \notin alive \cup dead
  /\ \/ alive' = alive \cup {k} /\ UNCHANGED dead
     \/ dead' = dead \cup {k} /\ UNCHANGED alive
  /\ UNCHANGED <<presented, verdict>>

\* A key is revoked or expires, or all keys of a tenant die at once.
SomeDie ==
  /\ alive' \in SUBSET alive
  /\ dead' = dead \cup (alive \ alive')
  /\ UNCHANGED <<presented, verdict>>

Presents(r) ==
  /\ verdict[r] = "none" /\ presented[r] # None
  /\ presented[r] \in Keys => presented[r] \in alive \cup dead
  /\ verdict' = [verdict EXCEPT ![r] = "asked"]
  /\ UNCHANGED <<presented, alive, dead>>

Judged(r) ==
  /\ verdict[r] = "asked"
  /\ verdict' = [verdict EXCEPT ![r] = IF presented[r] \in alive THEN "in" ELSE "out"]
  /\ UNCHANGED <<presented, alive, dead>>

GivenUp(r) ==
  /\ verdict[r] = "asked"
  /\ verdict' = [verdict EXCEPT ![r] = "failed"]
  /\ UNCHANGED <<presented, alive, dead>>

Next ==
  \/ \E r \in Requests : Presents(r) \/ Judged(r) \/ GivenUp(r)
  \/ \E k \in Keys : Issued(k)
  \/ SomeDie

Spec == Init /\ [][Next]_gateVars
=============================================================================

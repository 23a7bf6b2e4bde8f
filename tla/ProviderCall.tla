---------------------------- MODULE ProviderCall ----------------------------
(***************************************************************************)
(* What the services take for granted of a call to a provider, with no     *)
(* registry, breaker or adapter in sight: it is turned away and has no     *)
(* effect, or it goes out; then it ends once, with the truth about the     *)
(* charge it asked for or with a failure that says nothing, and money may  *)
(* be taken for it at any time, also after it failed.                      *)
(***************************************************************************)
CONSTANTS Calls, None, Statuses, MoneyStatuses

VARIABLES
  state, \* where a call is
  about, \* the charge a call asks for; a charge is named by the call that makes it
  told,  \* the answer: a status and the charge it is about
  money  \* charges for which money was taken

callVars == <<state, about, told, money>>

Answer == [status : Statuses, charge : Calls]

Init ==
  /\ state = [c \in Calls |-> "none"]
  /\ about = [c \in Calls |-> None]
  /\ told = [c \in Calls |-> None]
  /\ money = {}

Ask(c, d, there) ==
  /\ state[c] = "none"
  /\ state' = [state EXCEPT ![c] = there]
  /\ about' = [about EXCEPT ![c] = d]
  /\ UNCHANGED <<told, money>>

GoesOut(c, d) == Ask(c, d, "out")
TurnedAway(c, d) == Ask(c, d, "away")

Take(d) ==
  /\ about[d] = d /\ state[d] \notin {"none", "away"}
  /\ money' = money \cup {d}
  /\ UNCHANGED <<state, about, told>>

Tell(c, a) ==
  /\ state[c] = "out" /\ a.charge = about[c]
  /\ a.status \in MoneyStatuses => a.charge \in money
  /\ state' = [state EXCEPT ![c] = "told"]
  /\ told' = [told EXCEPT ![c] = a]
  /\ UNCHANGED <<about, money>>

\* One call, or every call at once.
Fail(C) ==
  /\ \A c \in C : state[c] = "out"
  /\ state' = [c \in Calls |-> IF c \in C THEN "failed" ELSE state[c]]
  /\ UNCHANGED <<about, told, money>>

Next ==
  \/ \E c \in Calls : \/ \E d \in Calls \cup {None} : GoesOut(c, d) \/ TurnedAway(c, d)
                      \/ Take(c)
                      \/ \E a \in Answer : Tell(c, a)
  \/ \E C \in SUBSET Calls : Fail(C)

Spec == Init /\ [][Next]_callVars
=============================================================================

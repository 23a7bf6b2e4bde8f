----------------------------- MODULE MCPayments -----------------------------
(* PaymentsService on small instances. *)
EXTENDS PaymentsService, TLC

CONSTANTS r1, r2, r3, q1, q2

Valid(org, key) ==
  [org |-> org, key |-> key, amount |-> 2, method |-> "card", routable |-> TRUE]

\* Two organizations that use the same key.
SharedKeyBodies == {Valid("acme", "k"), Valid("globex", "k")}

\* ... and a creation with another amount, or refused after it was counted.
RaceBodies ==
  SharedKeyBodies \cup {[Valid("acme", "k") EXCEPT !.amount = 3, !.method = "CARD"]}

\* ... and a creation without a key.
RefundBodies == SharedKeyBodies \cup {Valid("acme", "")}

Symmetric == Permutations(CreateRequests) \cup Permutations(RefundRequests)
=============================================================================

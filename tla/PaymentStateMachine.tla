------------------------ MODULE PaymentStateMachine ------------------------
(***************************************************************************)
(* The life of a payment row, and the tables that turn a charge status     *)
(* reported by a provider into a row status.  Pure operators: no state.    *)
(***************************************************************************)

\* PaymentStatus of the Prisma schema, as the state machine lists it.
PaymentStatus ==
  {"PENDING", "AUTHORIZED", "CAPTURED", "PARTIALLY_REFUNDED", "REFUNDED",
   "FAILED", "CANCELLED"}

VALID_TRANSITIONS ==
  [ PENDING            |-> {"AUTHORIZED", "CAPTURED", "FAILED", "CANCELLED"},
    AUTHORIZED         |-> {"CAPTURED", "FAILED", "CANCELLED"},
    CAPTURED           |-> {"REFUNDED", "PARTIALLY_REFUNDED"},
    PARTIALLY_REFUNDED |-> {"REFUNDED"},
    FAILED             |-> {},
    CANCELLED          |-> {},
    REFUNDED           |-> {} ]

\* assertValidTransition(from, to) returns; it throws exactly when this is false.
ValidTransition(from, to) == from = to \/ to \in VALID_TRANSITIONS[from]

\* What a provider adapter may report of a charge (ProviderChargeResult.status).
ChargeStatus ==
  {"pending", "authorized", "captured", "failed", "cancelled", "refunded"}

\* Mutant of STATUS_MAP: the provider's word is stored as it is.
StatusUntranslated == [s \in ChargeStatus |-> s]

\* The STATUS_MAP of the webhook and reconciliation workers.
STATUS_MAP ==
  [ pending    |-> "PENDING",
    authorized |-> "AUTHORIZED",
    captured   |-> "CAPTURED",
    failed     |-> "FAILED",
    cancelled  |-> "CANCELLED",
    refunded   |-> "REFUNDED" ]

\* Mutant of MapProviderStatus: whatever did not fail is taken for captured.
MapOptimistic(s) == IF s = "failed" THEN "FAILED" ELSE "CAPTURED"

\* The answer to createCharge: the table has no "refunded", and defaults to PENDING.
MapProviderStatus(s) ==
  IF s \in ChargeStatus \ {"refunded"} THEN STATUS_MAP[s] ELSE "PENDING"
=============================================================================

---------------------------- MODULE PaymentStore ----------------------------
(***************************************************************************)
(* The PostgreSQL tables Payment, PaymentEvent and Refund as the handlers  *)
(* use them.  A payment row is named by the create request that inserted   *)
(* it, a refund row by the refund request, a charge at the provider by the *)
(* create request that caused it: ids are never reused.                    *)
(***************************************************************************)
EXTENDS Integers, Sequences, FiniteSets, PaymentStateMachine

CONSTANTS CreateRequests,  \* POST /payments calls a client may send
          RefundRequests,  \* POST /payments/:id/refund calls
          Bodies,          \* what a POST /payments may carry
          Null             \* SQL NULL

\* The part of CreatePaymentDto, header and context the code branches on;
\* routable: some registered provider serves its country and currency.
Body == [ org : STRING, key : STRING, amount : Nat \ {0}, method : STRING,
          routable : BOOLEAN ]

ASSUME StoreAssumption ==
  /\ Bodies \subseteq Body
  /\ Null \notin CreateRequests
  /\ \A b \in Bodies : Null # <<b.org, b.key>>

VARIABLES
  body,          \* the request as sent; a row copies it and never changes it
  rows,          \* Payment rows that exist
  status,        \* Payment.status of a row
  externalId,    \* Payment.externalId: the charge it is linked to, or Null
  providerError, \* rows whose failureCode is PROVIDER_ERROR
  eventLog,      \* PaymentEvent rows of a payment, oldest first
  refundRows     \* Refund rows that exist

storeVars == <<body, rows, status, externalId, providerError, eventLog, refundRows>>

\* Every column of a row but the mutable ones is fixed by its request.
OrgKey(r) == <<body[r].org, body[r].key>>

\* Mutant of SameKeyRows: the organization is left out of the lookup.
KeyRowsOfAnyOrg(r) == {p \in rows : body[p].key = body[r].key}

\* Rows the findFirst on (organizationId, idempotencyKey) matches, which are also
\* the rows the unique index on (tenantId, idempotencyKey) collides with:
\* create() writes the organization into both columns.
SameKeyRows(r) == {p \in rows : OrgKey(p) = OrgKey(r)}

\* A PaymentEvent has a type and what its writer put into the payload; it has no column
\* for the status of the row.  create() logs "provider.<status>" and a webhook its raw
\* event, in the provider's words; the reconciliation logs the status it writes; a refund
\* its amount (0 here when it asked for none, in place of the whole amount of the
\* payment), with one type for a partial and a total one.
Event ==
  [type : {"payment.created"}]
    \cup [type : {"provider", "webhook"}, status : ChargeStatus]
    \cup [type : {"reconciliation.updated"}, to : PaymentStatus]
    \cup [type : {"payment.refunded"}, amount : Nat]

\* The transaction every handler but create()'s catch uses: it overwrites the status
\* whatever it is now (update ... where id) and appends one event.
RecordStatus(p, s, event) ==
  /\ status'   = [status EXCEPT ![p] = s]
  /\ eventLog' = [eventLog EXCEPT ![p] = Append(@, event)]

StoreInit ==
  /\ body \in [CreateRequests -> Bodies]
  /\ rows = {}
  /\ status = [p \in CreateRequests |-> "PENDING"]
  /\ externalId = [p \in CreateRequests |-> Null]
  /\ providerError = {}
  /\ eventLog = [p \in CreateRequests |-> << >>]
  /\ refundRows = {}

StoreTypeOK ==
  /\ body \in [CreateRequests -> Bodies]
  /\ rows \subseteq CreateRequests
  /\ status \in [CreateRequests -> PaymentStatus]
  /\ externalId \in [CreateRequests -> CreateRequests \cup {Null}]
  /\ providerError \subseteq CreateRequests
  /\ eventLog \in [CreateRequests -> Seq(Event)]
  /\ refundRows \subseteq RefundRequests
=============================================================================

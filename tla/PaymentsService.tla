--------------------------- MODULE PaymentsService ---------------------------
(***************************************************************************)
(* PaymentsService.create and .refund, cut at their awaits: what runs      *)
(* between two awaits is one step, and the steps of concurrent requests    *)
(* interleave.  The process is a single Node instance: a crash loses every *)
(* request in flight and the in-memory gauge, the tables stay.             *)
(***************************************************************************)
EXTENDS PaymentProvider

CONSTANTS DbMayFail,   \* a write of create() may be rejected by the database
          MaxCrashes   \* bound on process crashes

ASSUME ServiceAssumption == DbMayFail \in BOOLEAN /\ MaxCrashes \in Nat

VARIABLES
  pc,           \* where a POST /payments is
  answer,       \* the payment a 201 answer carries
  pendingGauge, \* active_payments_pending
  rpc,          \* where a POST /payments/:id/refund is
  crashes

serviceVars == <<pc, answer, pendingGauge, rpc, crashes>>

\* Keys of METHOD_MAP.
METHOD_MAP == {"card", "wallet", "bank_transfer", "cash_voucher", "pix", "qr"}

CreateInFlight == {"insert", "call", "await", "catch"}

ServiceInit ==
  /\ pc = [r \in CreateRequests |-> "idle"]
  /\ answer = [r \in CreateRequests |-> Null]
  /\ pendingGauge = 0
  /\ rpc = [q \in RefundRequests |-> "idle"]
  /\ crashes = 0

CreateGoes(r, there) == pc' = [pc EXCEPT ![r] = there]

CreateAnswers(r, p) ==
  /\ CreateGoes(r, "answered")
  /\ answer' = [answer EXCEPT ![r] = p]

-----------------------------------------------------------------------------
\* create(): an empty idempotency key is a 400.
CreateWithoutKey(r) ==
  /\ pc[r] = "idle" /\ body[r].key = ""
  /\ CreateGoes(r, "refused")
  /\ UNCHANGED <<answer, pendingGauge, rpc, crashes, storeVars, providerVars>>

\* Mutant of CreateFindsRow: the creation found is resumed instead of answered.
CreateResumesRow(r) ==
  /\ pc[r] = "idle" /\ body[r].key # ""
  /\ SameKeyRows(r) # {} /\ CreateGoes(r, "call")
  /\ UNCHANGED <<answer, pendingGauge, rpc, crashes, storeVars, providerVars>>

\* create(): the key is known, the row is answered as it is, whatever the body says.
CreateFindsRow(r) ==
  /\ pc[r] = "idle" /\ body[r].key # ""
  /\ \E p \in SameKeyRows(r) : CreateAnswers(r, p)
  /\ UNCHANGED <<pendingGauge, rpc, crashes, storeVars, providerVars>>

\* create(): new key; select a provider, count the payment, map the method.
CreateStarts(r) ==
  /\ pc[r] = "idle" /\ body[r].key # ""
  /\ SameKeyRows(r) = {}
  /\ \/ /\ ~ body[r].routable
        /\ CreateGoes(r, "failed")
        /\ UNCHANGED pendingGauge
     \/ /\ body[r].routable
        /\ pendingGauge' = pendingGauge + 1
        /\ CreateGoes(r, IF body[r].method \in METHOD_MAP THEN "insert" ELSE "refused")
  /\ UNCHANGED <<answer, rpc, crashes, storeVars, providerVars>>

\* Mutant of CreateInserts: the table has no unique index.
CreateInsertsAgain(r) ==
  /\ pc[r] = "insert"
  /\ rows' = rows \cup {r}
  /\ RecordStatus(r, "PENDING", [type |-> "payment.created"])
  /\ CreateGoes(r, "call")
  /\ UNCHANGED <<body, externalId, providerError, refundRows, answer, pendingGauge,
                 rpc, crashes, providerVars>>

\* create(): the transaction that inserts the PENDING row.
CreateInserts(r) ==
  /\ pc[r] = "insert"
  /\ SameKeyRows(r) = {}
  /\ rows' = rows \cup {r}
  /\ RecordStatus(r, "PENDING", [type |-> "payment.created"])
  /\ CreateGoes(r, "call")
  /\ UNCHANGED <<body, externalId, providerError, refundRows, answer, pendingGauge,
                 rpc, crashes, providerVars>>

\* create(): the unique index or the database rejects it; outside the try, so the
\* gauge keeps the count.
CreateInsertThrows(r) ==
  /\ pc[r] = "insert"
  /\ SameKeyRows(r) # {} \/ DbMayFail
  /\ CreateGoes(r, "failed")
  /\ UNCHANGED <<answer, pendingGauge, rpc, crashes, storeVars, providerVars>>

\* create(): provider.createCharge is called.
CreateCalls(r) ==
  /\ pc[r] = "call"
  /\ sent' = sent \cup {r}
  /\ CreateGoes(r, "await")
  /\ UNCHANGED <<charge, history, replyCharge, replyStatus, refunded, refundCalls,
                 refundReply, refundsMade, answer, pendingGauge, rpc, crashes, storeVars>>

\* Mutant of CreateSettles: an answer that comes after the failure is stored too.
CreateSettlesLate(r) ==
  /\ pc[r] \in {"await", "failed"} /\ replyCharge[r] # Null
  /\ RecordStatus(r, MapProviderStatus(replyStatus[r]),
                  [type |-> "provider", status |-> replyStatus[r]])
  /\ externalId' = [externalId EXCEPT ![r] = replyCharge[r]]
  /\ pendingGauge' = pendingGauge - 1
  /\ CreateAnswers(r, r)
  /\ UNCHANGED <<body, rows, providerError, refundRows, rpc, crashes, providerVars>>

\* create(): the answer of the provider is stored, blindly, and returned.
CreateSettles(r) ==
  /\ pc[r] = "await" /\ replyCharge[r] # Null
  /\ RecordStatus(r, MapProviderStatus(replyStatus[r]),
                  [type |-> "provider", status |-> replyStatus[r]])
  /\ externalId' = [externalId EXCEPT ![r] = replyCharge[r]]
  /\ pendingGauge' = pendingGauge - 1
  /\ CreateAnswers(r, r)
  /\ UNCHANGED <<body, rows, providerError, refundRows, rpc, crashes, providerVars>>

\* create(): the breaker is open, the call times out (the provider may still act on
\* it) or fails, or the transaction of CreateSettles is rolled back.
CreateThrows(r) ==
  /\ pc[r] \in {"call", "await"}
  /\ pendingGauge' = pendingGauge - 1
  /\ CreateGoes(r, "catch")
  /\ UNCHANGED <<answer, rpc, crashes, storeVars, providerVars>>

\* Mutant of CreateCatches: the gauge is decremented a second time.
CreateCatchesTwice(r) ==
  /\ pc[r] = "catch"
  /\ status' = [status EXCEPT ![r] = "FAILED"]
  /\ providerError' = providerError \cup {r}
  /\ pendingGauge' = pendingGauge - 1
  /\ CreateGoes(r, "failed")
  /\ UNCHANGED <<body, rows, externalId, eventLog, refundRows, answer, rpc, crashes,
                 providerVars>>

\* Mutant of CreateCatches: the error is passed on, the row is left as it is.
CreateCatchesNothing(r) ==
  /\ pc[r] = "catch"
  /\ CreateGoes(r, "failed")
  /\ UNCHANGED <<answer, pendingGauge, rpc, crashes, storeVars, providerVars>>

\* create(): the catch marks the row FAILED, whatever made it throw, with no event.
CreateCatches(r) ==
  /\ pc[r] = "catch"
  /\ \/ /\ status' = [status EXCEPT ![r] = "FAILED"]
        /\ providerError' = providerError \cup {r}
     \/ DbMayFail /\ UNCHANGED <<status, providerError>>
  /\ CreateGoes(r, "failed")
  /\ UNCHANGED <<body, rows, externalId, eventLog, refundRows, answer, pendingGauge,
                 rpc, crashes, providerVars>>

-----------------------------------------------------------------------------
\* The status refund() will write.
RefundStatus(call) ==
  IF call.amount # 0 /\ call.amount < body[call.payment].amount
  THEN "PARTIALLY_REFUNDED" ELSE "REFUNDED"

Orgs == {b.org : b \in Bodies}

\* Mutant of Refundable: an authorization can be refunded.
RefundableOnceAuthorized == {"AUTHORIZED", "CAPTURED", "PARTIALLY_REFUNDED"}

Refundable == {"CAPTURED", "PARTIALLY_REFUNDED"}

\* refund(): no such payment in the caller's organization, or not refundable.
RefundRefused(q, p, org) ==
  /\ rpc[q] = "idle"
  /\ p \notin rows \/ body[p].org # org \/ status[p] \notin Refundable \/ externalId[p] = Null
  /\ rpc' = [rpc EXCEPT ![q] = "refused"]
  /\ UNCHANGED <<pc, answer, pendingGauge, crashes, storeVars, providerVars>>

\* refund(): the row is read and provider.refund called, in one segment. Refunds
\* carry no idempotency key.
RefundCalls(q, p, org, amount) ==
  /\ rpc[q] = "idle"
  /\ p \in rows /\ body[p].org = org
  /\ status[p] \in Refundable /\ externalId[p] # Null
  /\ refundCalls' = refundCalls \cup
       {[ request |-> q, payment |-> p, charge |-> externalId[p],
          amount |-> amount, read |-> status[p] ]}
  /\ rpc' = [rpc EXCEPT ![q] = "await"]
  /\ UNCHANGED <<charge, history, sent, replyCharge, replyStatus, refunded, refundReply,
                 refundsMade, pc, answer, pendingGauge, crashes, storeVars>>

\* Mutant of RefundSettles: the call to the provider is not awaited.
RefundSettlesAtOnce(call) ==
  LET q == call.request
  IN /\ rpc[q] = "await"
     /\ ValidTransition(call.read, RefundStatus(call))
     /\ RecordStatus(call.payment, RefundStatus(call),
                     [type |-> "payment.refunded", amount |-> call.amount])
     /\ refundRows' = refundRows \cup {q}
     /\ rpc' = [rpc EXCEPT ![q] = "answered"]
     /\ UNCHANGED <<body, rows, externalId, providerError, pc, answer, pendingGauge,
                    crashes, providerVars>>

\* refund(): the provider returned, with whatever status; the transition is asserted
\* against the row as it was read, then written over the row as it is.
RefundSettles(call) ==
  LET q == call.request
  IN /\ rpc[q] = "await" /\ refundReply[q] = "returned"
     /\ ValidTransition(call.read, RefundStatus(call))
     /\ RecordStatus(call.payment, RefundStatus(call),
                     [type |-> "payment.refunded", amount |-> call.amount])
     /\ refundRows' = refundRows \cup {q}
     /\ rpc' = [rpc EXCEPT ![q] = "answered"]
     /\ UNCHANGED <<body, rows, externalId, providerError, pc, answer, pendingGauge,
                    crashes, providerVars>>

\* refund(): the call fails or times out, or the transaction is rolled back.
RefundThrows(q) ==
  /\ rpc[q] = "await"
  /\ rpc' = [rpc EXCEPT ![q] = "failed"]
  /\ UNCHANGED <<pc, answer, pendingGauge, crashes, storeVars, providerVars>>

-----------------------------------------------------------------------------
\* The process dies: requests in flight are never answered, the gauge restarts.
ServiceCrash ==
  /\ crashes < MaxCrashes
  /\ crashes' = crashes + 1
  /\ pc' = [r \in CreateRequests |-> IF pc[r] \in CreateInFlight THEN "lost" ELSE pc[r]]
  /\ rpc' = [q \in RefundRequests |-> IF rpc[q] = "await" THEN "lost" ELSE rpc[q]]
  /\ pendingGauge' = 0
  /\ UNCHANGED <<answer, storeVars, providerVars>>

CreateStep(r) ==
  \/ CreateWithoutKey(r) \/ CreateFindsRow(r) \/ CreateStarts(r)
  \/ CreateInserts(r) \/ CreateInsertThrows(r) \/ CreateCalls(r)
  \/ CreateSettles(r) \/ CreateThrows(r) \/ CreateCatches(r)

RefundStep ==
  \/ \E q \in RefundRequests, p \in CreateRequests, org \in Orgs :
       RefundRefused(q, p, org) \/ \E a \in RefundAmounts : RefundCalls(q, p, org, a)
  \/ \E call \in refundCalls : RefundSettles(call)
  \/ \E q \in RefundRequests : RefundThrows(q)

ServiceStep == (\E r \in CreateRequests : CreateStep(r)) \/ RefundStep

paymentVars == <<storeVars, providerVars, serviceVars>>

PaymentInit == StoreInit /\ ProviderInit /\ ServiceInit

PaymentNext ==
  \/ ServiceStep
  \/ ProviderStep /\ UNCHANGED serviceVars
  \/ ServiceCrash

PaymentSpec == PaymentInit /\ [][PaymentNext]_paymentVars

\* The event loop runs what is ready, and every provider call ends: the breaker
\* gives it 10 s. Nothing is asked of the provider or of clients.
CreateProgress(r) ==
  \/ CreateInserts(r) \/ CreateInsertThrows(r) \/ CreateCalls(r)
  \/ CreateSettles(r) \/ CreateThrows(r) \/ CreateCatches(r)

FairPaymentSpec ==
  PaymentSpec /\ \A r \in CreateRequests : WF_paymentVars(CreateProgress(r))

-----------------------------------------------------------------------------
\* Properties.

ServiceTypeOK ==
  /\ pc \in [CreateRequests -> CreateInFlight \cup
                 {"idle", "answered", "refused", "failed", "lost"}]
  /\ answer \in [CreateRequests -> CreateRequests \cup {Null}]
  /\ pendingGauge \in Int
  /\ rpc \in [RefundRequests -> {"idle", "await", "answered", "refused", "failed", "lost"}]
  /\ crashes \in 0..MaxCrashes

\* Every variable of the payments core stays in its domain.
PaymentTypeOK == StoreTypeOK /\ ProviderTypeOK /\ ServiceTypeOK

\* A client that retries, concurrently or after a crash, with the same key in the
\* same organization is never charged twice, whether or not the provider honours
\* the key it is sent; and no charge exists without its row.
OneChargePerKey ==
  \A c, d \in CreateRequests :
    /\ charge[c] # "none" => c \in rows
    /\ charge[c] # "none" /\ charge[d] # "none" /\ OrgKey(c) = OrgKey(d) => c = d

\* All 201 answers to one key of one organization name the same payment, which is
\* a row of that organization.
SameKeySameAnswer ==
  \A r \in CreateRequests : answer[r] # Null =>
    /\ answer[r] \in rows /\ OrgKey(answer[r]) = OrgKey(r)
    /\ \A o \in CreateRequests :
         answer[o] # Null /\ OrgKey(o) = OrgKey(r) => answer[o] = answer[r]

\* Until create() settles a row, nobody else touches it: the blind writes of
\* CreateSettles and CreateCatches overwrite nothing but PENDING.
UnsettledRowUntouched ==
  \A r \in rows : pc[r] \in {"call", "await", "catch"} =>
    status[r] = "PENDING" /\ externalId[r] = Null /\ r \notin providerError

\* What row p can rely on: every status the charge it is linked to has had, and a
\* failure if the catch of create() gave up on it.
Grounds(p) ==
  (IF externalId[p] = Null THEN {} ELSE history[externalId[p]])
    \cup (IF p \in providerError THEN {"failed"} ELSE {})

Justified(s, grounds) ==
  /\ s \in {"CAPTURED", "PARTIALLY_REFUNDED", "REFUNDED"} => grounds \cap Took # {}
  /\ s = "AUTHORIZED" => "authorized" \in grounds
  /\ s = "CANCELLED"  => "cancelled" \in grounds
  /\ s = "FAILED"     => "failed" \in grounds

\* A row claims only what happened to the charge it is linked to: captured or
\* refunded only if the provider took the money, authorized, cancelled or failed
\* only if the provider said so (or, for FAILED, if the catch gave up), whichever of
\* create(), refund(), the webhook worker and the reconciliation wrote it last.
LedgerNeverAhead == \A p \in rows : Justified(status[p], Grounds(p))

\* The gauge never counts fewer payments than there are creations waiting for the
\* database or the provider. It may count more: a bad method or a rejected insert
\* leaves its count behind for good.
GaugeCoversInFlight ==
  pendingGauge >= Cardinality({r \in CreateRequests : pc[r] \in {"insert", "call", "await"}})

\* A row that says refunded has a charge of which money went back, through this call or
\* another one, or a Refund row of a call that the provider took on. refund() looks at no
\* status, so a refund that the provider never made, or that failed later, does stay on
\* the books as REFUNDED, but only behind such a row: a call that was refused, timed out or
\* died leaves none, concurrent refunds of rows that share a charge do not vouch for
\* each other, and webhooks and the reconciliation write REFUNDED for money only.
RefundAccountedFor ==
  \A p \in rows : status[p] \in {"PARTIALLY_REFUNDED", "REFUNDED"} =>
    \/ externalId[p] # Null /\ refunded[externalId[p]] > 0
    \/ \E call \in refundCalls :
         call.payment = p /\ call.request \in refundRows /\ refundReply[call.request] = "returned"

\* When the provider has given the money back, the assertion of refund() passes:
\* it never throws between the refund and its record.
RefundAssertHolds ==
  \A call \in refundCalls : ValidTransition(call.read, RefundStatus(call))

\* A payment that create() gave up on is never revived, not even by its charge.
ProviderErrorIsFinal ==
  [][\A p \in providerError : p \in providerError' /\ status'[p] = "FAILED"]_paymentVars

\* A decided row is never PENDING again, and so the cron never asks about it again: the
\* writers, which overwrite each other with what they judged by an older status, write
\* PENDING only where create() inserts or settles a row that is.
DecidedForGood ==
  [][\A p \in rows : status[p] # "PENDING" => status'[p] # "PENDING"]_paymentVars

\* A row is not left PENDING without a link to the provider, unless the process died
\* on it, whether the provider answers, refuses, or never does.
RowResolves ==
  \A r \in CreateRequests :
    r \in rows ~> externalId[r] # Null \/ r \in providerError \/ pc[r] = "lost"

\* A row that create() has left with neither a charge nor a failure.
Stranded(p) ==
  p \in rows /\ externalId[p] = Null /\ p \notin providerError
    /\ pc[p] \notin {"call", "await", "catch"}

\* Only a crash between the insert and the store of the answer, or a database that rejects
\* the write of the catch as well, leaves a row so: no timeout, no refusal of the breaker
\* and no late answer of the provider does.
StrandedOnlyByFailure ==
  \A p \in CreateRequests : Stranded(p) => pc[p] = "lost" \/ (DbMayFail /\ pc[p] = "failed")

\* Such a row is lost to everybody: the retries of its client are answered with it and
\* change nothing, webhooks look for a link it does not have, the cron skips it, a refund
\* refuses it. It stays PENDING, also when the provider has taken the money.
StrandedForGood ==
  [][\A p \in CreateRequests : Stranded(p) => Stranded(p)' /\ status'[p] = "PENDING"]_paymentVars

\* create() implements the abstract idempotent charge: the owner of a key is its row.
Accounts == {<<b.org, b.key>> : b \in Bodies}

OwnerOf(a) ==
  IF \E p \in rows : OrgKey(p) = a THEN CHOOSE p \in rows : OrgKey(p) = a ELSE Null

Idempotent == INSTANCE IdempotentCharge WITH
  Requests <- CreateRequests,
  None     <- Null,
  wants    <- [r \in CreateRequests |-> IF pc[r] = "idle" THEN Null ELSE OrgKey(r)],
  owner    <- [a \in Accounts |-> OwnerOf(a)],
  charged  <- {c \in CreateRequests : charge[c] # "none"},
  told     <- answer

\* Every behaviour of the payments core is one of IdempotentCharge.
ImplementsIdempotentCharge == Idempotent!Spec

-----------------------------------------------------------------------------
\* Statements of the repository's comments, tests and metric descriptions that the
\* code does not keep.

\* "Rechaza cualquier salto no autorizado con una excepcion": a row's status only
\* moves along the table.
FollowsStateMachine ==
  [][\A p \in rows : ValidTransition(status[p], status'[p])]_paymentVars
=============================================================================

--------------------------- MODULE PaymentsProofs ---------------------------
(***************************************************************************)
(* What PaymentsService guarantees for every set of requests, every body,  *)
(* every provider and every number of crashes.  The invariants are proved  *)
(* step by step for the three parts of PaymentNext, so that PaymentSystem  *)
(* can use the same lemmas.                                                *)
(***************************************************************************)
EXTENDS PaymentsService, TLAPS

USE StoreAssumption, ProviderAssumption, ServiceAssumption

\* What the tables of the state machine return.
LEMMA StatusTables ==
  /\ STATUS_MAP \in [ChargeStatus -> PaymentStatus]
  /\ \A s \in ChargeStatus : MapProviderStatus(s) \in PaymentStatus
  /\ \A s \in {"pending", "authorized", "captured", "failed"} : s \in ChargeStatus
  /\ \A c \in ChargeStatus : CHARGE_MOVES[c] \subseteq ChargeStatus
  BY DEF STATUS_MAP, MapProviderStatus, ChargeStatus, PaymentStatus, CHARGE_MOVES

\* Each handler logs an event of its own kind.
LEMMA EventsTyped ==
  /\ [type |-> "payment.created"] \in Event
  /\ \A s \in ChargeStatus : /\ [type |-> "provider", status |-> s] \in Event
                             /\ [type |-> "webhook", status |-> s] \in Event
  /\ \A s \in PaymentStatus : [type |-> "reconciliation.updated", to |-> s] \in Event
  /\ \A n \in Nat : [type |-> "payment.refunded", amount |-> n] \in Event
BY DEF Event

\* The transaction of the handlers keeps the columns it writes in their types.
LEMMA RecordStatusTyped ==
  ASSUME StoreTypeOK, NEW p \in CreateRequests, NEW s \in PaymentStatus,
         NEW event \in Event, RecordStatus(p, s, event)
  PROVE  /\ status' \in [CreateRequests -> PaymentStatus]
         /\ eventLog' \in [CreateRequests -> Seq(Event)]
<1>1. eventLog[p] \in Seq(Event)
  BY DEF StoreTypeOK
<1>2. Append(eventLog[p], event) \in Seq(Event)
  BY <1>1
<1> QED
  BY <1>2 DEF StoreTypeOK, RecordStatus

\* The initial state is well typed.
LEMMA InitTyped == PaymentInit => PaymentTypeOK
<1> SUFFICES ASSUME PaymentInit PROVE PaymentTypeOK
  OBVIOUS
<1>1. StoreTypeOK
  BY DEF PaymentInit, StoreInit, StoreTypeOK, PaymentStatus
<1>2. ProviderTypeOK
  BY DEF PaymentInit, ProviderInit, ProviderTypeOK, ChargeStatus, RefundReply
<1>3. ServiceTypeOK
  BY DEF PaymentInit, ServiceInit, ServiceTypeOK, CreateInFlight
<1> QED
  BY <1>1, <1>2, <1>3 DEF PaymentTypeOK

\* Steps that leave the tables or the provider alone leave their types alone.
LEMMA StoreStutters ==
  ASSUME StoreTypeOK, UNCHANGED storeVars PROVE StoreTypeOK'
  BY DEF StoreTypeOK, storeVars

LEMMA ProviderStutters ==
  ASSUME ProviderTypeOK, UNCHANGED providerVars PROVE ProviderTypeOK'
  BY DEF ProviderTypeOK, providerVars

LEMMA ServiceStutters ==
  ASSUME ServiceTypeOK, UNCHANGED serviceVars PROVE ServiceTypeOK'
  BY DEF ServiceTypeOK, serviceVars

\* A step of create() keeps every variable in its domain.
LEMMA CreateTyped ==
  ASSUME PaymentTypeOK, NEW r \in CreateRequests, CreateStep(r)
  PROVE  PaymentTypeOK'
<1> USE DEF PaymentTypeOK
<1>1. CASE CreateWithoutKey(r)
  <2>1. ServiceTypeOK'
    BY <1>1 DEF CreateWithoutKey, CreateGoes, ServiceTypeOK
  <2> QED
    BY <1>1, <2>1, StoreStutters, ProviderStutters DEF CreateWithoutKey
<1>2. CASE CreateFindsRow(r)
  <2>1. PICK p \in SameKeyRows(r) : CreateAnswers(r, p)
    BY <1>2 DEF CreateFindsRow
  <2>2. p \in CreateRequests
    BY DEF SameKeyRows, StoreTypeOK
  <2>3. ServiceTypeOK'
    BY <1>2, <2>1, <2>2 DEF CreateFindsRow, CreateAnswers, CreateGoes, ServiceTypeOK
  <2> QED
    BY <1>2, <2>3, StoreStutters, ProviderStutters DEF CreateFindsRow
<1>3. CASE CreateStarts(r)
  <2>1. pendingGauge' \in Int
    <3>1. pendingGauge' = pendingGauge \/ pendingGauge' = pendingGauge + 1
      BY <1>3, Zenon DEF CreateStarts
    <3> QED
      BY <3>1 DEF ServiceTypeOK
  <2>2. PICK there \in {"failed", "insert", "refused"} : CreateGoes(r, there)
    BY <1>3 DEF CreateStarts
  <2>3. ServiceTypeOK'
    BY <1>3, <2>1, <2>2 DEF CreateStarts, CreateGoes, ServiceTypeOK, CreateInFlight
  <2> QED
    BY <1>3, <2>3, StoreStutters, ProviderStutters DEF CreateStarts
<1>4. CASE CreateInserts(r)
  <2>1. /\ status' \in [CreateRequests -> PaymentStatus]
        /\ eventLog' \in [CreateRequests -> Seq(Event)]
    BY <1>4, EventsTyped, RecordStatusTyped DEF CreateInserts, PaymentStatus
  <2>2. StoreTypeOK'
    BY <1>4, <2>1 DEF CreateInserts, StoreTypeOK
  <2>3. ServiceTypeOK'
    BY <1>4 DEF CreateInserts, CreateGoes, ServiceTypeOK, CreateInFlight
  <2> QED
    BY <1>4, <2>2, <2>3, ProviderStutters DEF CreateInserts
<1>5. CASE CreateInsertThrows(r)
  <2>1. ServiceTypeOK'
    BY <1>5 DEF CreateInsertThrows, CreateGoes, ServiceTypeOK
  <2> QED
    BY <1>5, <2>1, StoreStutters, ProviderStutters DEF CreateInsertThrows
<1>6. CASE CreateCalls(r)
  <2>1. ServiceTypeOK'
    BY <1>6 DEF CreateCalls, CreateGoes, ServiceTypeOK, CreateInFlight
  <2>2. ProviderTypeOK'
    BY <1>6 DEF CreateCalls, ProviderTypeOK
  <2> QED
    BY <1>6, <2>1, <2>2, StoreStutters DEF CreateCalls
<1>7. CASE CreateSettles(r)
  <2>1. /\ MapProviderStatus(replyStatus[r]) \in PaymentStatus
        /\ [type |-> "provider", status |-> replyStatus[r]] \in Event
    BY StatusTables, EventsTyped DEF ProviderTypeOK
  <2>2. /\ status' \in [CreateRequests -> PaymentStatus]
        /\ eventLog' \in [CreateRequests -> Seq(Event)]
    BY <1>7, <2>1, RecordStatusTyped DEF CreateSettles
  <2>3. StoreTypeOK'
    BY <1>7, <2>2 DEF CreateSettles, StoreTypeOK, ProviderTypeOK
  <2>4. ServiceTypeOK'
    BY <1>7 DEF CreateSettles, CreateAnswers, CreateGoes, ServiceTypeOK
  <2> QED
    BY <1>7, <2>3, <2>4, ProviderStutters DEF CreateSettles
<1>8. CASE CreateThrows(r)
  <2>1. ServiceTypeOK'
    BY <1>8 DEF CreateThrows, CreateGoes, ServiceTypeOK, CreateInFlight
  <2> QED
    BY <1>8, <2>1, StoreStutters, ProviderStutters DEF CreateThrows
<1>9. CASE CreateCatches(r)
  <2>1. /\ status' \in [CreateRequests -> PaymentStatus]
        /\ providerError' \subseteq CreateRequests
    BY <1>9 DEF CreateCatches, StoreTypeOK, PaymentStatus
  <2>2. StoreTypeOK'
    BY <1>9, <2>1 DEF CreateCatches, StoreTypeOK
  <2>3. ServiceTypeOK'
    BY <1>9 DEF CreateCatches, CreateGoes, ServiceTypeOK
  <2> QED
    BY <1>9, <2>2, <2>3, ProviderStutters DEF CreateCatches
<1> QED
  BY <1>1, <1>2, <1>3, <1>4, <1>5, <1>6, <1>7, <1>8, <1>9 DEF CreateStep

\* What refund() will write is a status of the table.
LEMMA RefundStatusTyped == \A call : RefundStatus(call) \in PaymentStatus
  BY DEF RefundStatus, PaymentStatus

\* A step of refund() keeps every variable in its domain.
LEMMA RefundTyped ==
  ASSUME PaymentTypeOK, RefundStep PROVE PaymentTypeOK'
<1> USE DEF PaymentTypeOK
<1>1. ASSUME NEW q \in RefundRequests, NEW p \in CreateRequests, NEW org \in Orgs,
             RefundRefused(q, p, org)
      PROVE  PaymentTypeOK'
  <2>1. ServiceTypeOK'
    BY <1>1 DEF RefundRefused, ServiceTypeOK
  <2> QED
    BY <1>1, <2>1, StoreStutters, ProviderStutters DEF RefundRefused
<1>2. ASSUME NEW q \in RefundRequests, NEW p \in CreateRequests, NEW org \in Orgs,
             NEW a \in RefundAmounts, RefundCalls(q, p, org, a)
      PROVE  PaymentTypeOK'
  <2>1. ServiceTypeOK'
    BY <1>2 DEF RefundCalls, ServiceTypeOK
  <2>2. externalId[p] \in CreateRequests /\ status[p] \in PaymentStatus
    BY <1>2 DEF RefundCalls, StoreTypeOK
  <2>3. refundCalls' \subseteq RefundCall
    BY <1>2, <2>2 DEF RefundCalls, RefundCall, ProviderTypeOK
  <2>4. ProviderTypeOK'
    BY <1>2, <2>3 DEF RefundCalls, ProviderTypeOK
  <2> QED
    BY <1>2, <2>1, <2>4, StoreStutters DEF RefundCalls
<1>3. ASSUME NEW call \in refundCalls, RefundSettles(call)
      PROVE  PaymentTypeOK'
  <2>1. /\ call.request \in RefundRequests /\ call.payment \in CreateRequests
        /\ [type |-> "payment.refunded", amount |-> call.amount] \in Event
    BY EventsTyped, ProviderAssumption DEF ProviderTypeOK, RefundCall
  <2>2. /\ status' \in [CreateRequests -> PaymentStatus]
        /\ eventLog' \in [CreateRequests -> Seq(Event)]
    BY <1>3, <2>1, RefundStatusTyped, RecordStatusTyped DEF RefundSettles
  <2>3. StoreTypeOK'
    BY <1>3, <2>1, <2>2 DEF RefundSettles, StoreTypeOK
  <2>4. ServiceTypeOK'
    BY <1>3, <2>1 DEF RefundSettles, ServiceTypeOK
  <2> QED
    BY <1>3, <2>3, <2>4, ProviderStutters DEF RefundSettles
<1>4. ASSUME NEW q \in RefundRequests, RefundThrows(q)
      PROVE  PaymentTypeOK'
  <2>1. ServiceTypeOK'
    BY <1>4 DEF RefundThrows, ServiceTypeOK
  <2> QED
    BY <1>4, <2>1, StoreStutters, ProviderStutters DEF RefundThrows
<1> QED
  BY <1>1, <1>2, <1>3, <1>4 DEF RefundStep

\* A step of the provider keeps every variable in its domain.
LEMMA ProviderTyped ==
  ASSUME PaymentTypeOK, ProviderStep, UNCHANGED serviceVars
  PROVE  PaymentTypeOK'
<1> USE DEF PaymentTypeOK
<1>1. ASSUME NEW r \in CreateRequests, ProviderCharge(r)
      PROVE  ProviderTypeOK' /\ UNCHANGED storeVars
  <2>1. CASE /\ UNCHANGED <<charge, history>>
             /\ \E c \in ChargesWithKeyOf(r) :
                  /\ replyCharge' = [replyCharge EXCEPT ![r] = c]
                  /\ replyStatus' = [replyStatus EXCEPT ![r] = charge[c]]
    <3>1. PICK c \in ChargesWithKeyOf(r) :
            /\ replyCharge' = [replyCharge EXCEPT ![r] = c]
            /\ replyStatus' = [replyStatus EXCEPT ![r] = charge[c]]
      BY <2>1
    <3>2. c \in CreateRequests /\ charge[c] \in ChargeStatus
      BY DEF ChargesWithKeyOf, ProviderTypeOK
    <3> QED
      BY <1>1, <2>1, <3>1, <3>2 DEF ProviderCharge, ProviderTypeOK
  <2>2. CASE \E s \in {"pending", "authorized", "captured", "failed"} :
               /\ ChargeBecomes(r, s)
               /\ replyCharge' = [replyCharge EXCEPT ![r] = r]
               /\ replyStatus' = [replyStatus EXCEPT ![r] = s]
    BY <1>1, <2>2, StatusTables DEF ProviderCharge, ChargeBecomes, ProviderTypeOK
  <2> QED
    BY <1>1, <2>1, <2>2 DEF ProviderCharge
<1>2. ASSUME NEW c \in CreateRequests, ProviderMoves(c)
      PROVE  ProviderTypeOK' /\ UNCHANGED storeVars
  <2>1. charge[c] \in ChargeStatus
    BY <1>2 DEF ProviderMoves, ProviderTypeOK
  <2>2. PICK s \in CHARGE_MOVES[charge[c]] :
          /\ ChargeBecomes(c, s)
          /\ refunded' = IF s = "refunded"
                         THEN [refunded EXCEPT ![c] = body[c].amount] ELSE refunded
    BY <1>2 DEF ProviderMoves
  <2>3. s \in ChargeStatus /\ body[c].amount \in Nat
    BY <2>1, StatusTables DEF StoreTypeOK, Body
  <2>4. refunded' \in [CreateRequests -> Nat]
    BY <2>2, <2>3 DEF ProviderTypeOK
  <2> QED
    BY <1>2, <2>2, <2>3, <2>4 DEF ProviderMoves, ChargeBecomes, ProviderTypeOK
<1>3. ASSUME NEW call \in refundCalls, ProviderRefunds(call)
      PROVE  ProviderTypeOK' /\ UNCHANGED storeVars
  <2>1. /\ call.request \in RefundRequests /\ call.charge \in CreateRequests
        /\ call.amount \in Nat
    BY DEF ProviderTypeOK, RefundCall
  <2>2. body[call.charge].amount \in Nat /\ refunded[call.charge] \in Nat
    BY <2>1 DEF StoreTypeOK, ProviderTypeOK, Body
  <2>3. refunded' \in [CreateRequests -> Nat]
    BY <1>3, <2>1, <2>2 DEF ProviderRefunds, ProviderTypeOK
  <2>4. /\ charge' \in [CreateRequests -> ChargeStatus \cup {"none"}]
        /\ history' \in [CreateRequests -> SUBSET ChargeStatus]
    BY <1>3, <2>1 DEF ProviderRefunds, ChargeBecomes, ProviderTypeOK, ChargeStatus
  <2>5. refundsMade' \subseteq RefundRequests
    BY <1>3, <2>1 DEF ProviderRefunds, ProviderTypeOK
  <2> QED
    BY <1>3, <2>3, <2>4, <2>5 DEF ProviderRefunds, ProviderTypeOK
<1>4. ASSUME NEW call \in refundCalls, ProviderAnswersRefund(call)
      PROVE  ProviderTypeOK' /\ UNCHANGED storeVars
  <2>1. call.request \in RefundRequests
    BY DEF ProviderTypeOK, RefundCall
  <2>2. refundReply' \in [RefundRequests -> RefundReply]
    BY <1>4, <2>1 DEF ProviderAnswersRefund, ProviderTypeOK, RefundReply
  <2> QED
    BY <1>4, <2>2 DEF ProviderAnswersRefund, ProviderTypeOK
<1>5. ProviderTypeOK' /\ UNCHANGED storeVars
  BY <1>1, <1>2, <1>3, <1>4 DEF ProviderStep
<1> QED
  BY <1>5, StoreStutters, ServiceStutters

\* A crash keeps every variable in its domain.
LEMMA CrashTyped ==
  ASSUME PaymentTypeOK, ServiceCrash PROVE PaymentTypeOK'
<1>1. ServiceTypeOK'
  BY DEF PaymentTypeOK, ServiceCrash, ServiceTypeOK
<1> QED
  BY <1>1, StoreStutters, ProviderStutters DEF PaymentTypeOK, ServiceCrash

LEMMA StepTyped ==
  ASSUME PaymentTypeOK, [PaymentNext]_paymentVars PROVE PaymentTypeOK'
<1>1. CASE UNCHANGED paymentVars
  BY <1>1, StoreStutters, ProviderStutters, ServiceStutters DEF PaymentTypeOK, paymentVars
<1> QED
  BY <1>1, CreateTyped, RefundTyped, ProviderTyped, CrashTyped DEF PaymentNext, ServiceStep

\* The type invariant of the payments core.
THEOREM PaymentTypeCorrect == PaymentSpec => []PaymentTypeOK
<1>1. PaymentTypeOK /\ [PaymentNext]_paymentVars => PaymentTypeOK'
  BY StepTyped
<1> QED
  BY InitTyped, <1>1, PTL DEF PaymentSpec

-----------------------------------------------------------------------------
\* Why nobody is charged twice: a row is inserted only where no row has its key, a
\* call is sent only for a row, and a charge is made only for a call. The status of a
\* row plays no part in it.
KeyInv ==
  /\ \A p, q \in rows : OrgKey(p) = OrgKey(q) => p = q
  /\ \A r \in CreateRequests : pc[r] \in {"call", "await", "catch"} => r \in rows
  /\ sent \subseteq rows
  /\ \A c \in CreateRequests : charge[c] # "none" => c \in rows
  /\ \A r \in CreateRequests :
       answer[r] # Null => answer[r] \in rows /\ OrgKey(answer[r]) = OrgKey(r)

\* A step of create() keeps the invariant; CreateInserts is the one that could break it.
LEMMA CreateKeepsKeys ==
  ASSUME PaymentTypeOK, KeyInv, NEW r \in CreateRequests, CreateStep(r)
  PROVE  KeyInv'
<1> USE DEF PaymentTypeOK, StoreTypeOK, ProviderTypeOK, ServiceTypeOK, KeyInv,
            OrgKey, storeVars, providerVars, CreateGoes
<1>1. CASE CreateWithoutKey(r)
  BY <1>1 DEF CreateWithoutKey
<1>2. CASE CreateFindsRow(r)
  <2>1. PICK p \in SameKeyRows(r) : CreateAnswers(r, p)
    BY <1>2 DEF CreateFindsRow
  <2>2. p \in rows /\ OrgKey(p) = OrgKey(r)
    BY DEF SameKeyRows
  <2>3. /\ pc' = [pc EXCEPT ![r] = "answered"] /\ answer' = [answer EXCEPT ![r] = p]
        /\ UNCHANGED <<body, rows, sent, charge>>
    BY <1>2, <2>1 DEF CreateFindsRow, CreateAnswers
  <2> QED
    BY <2>2, <2>3
<1>3. CASE CreateStarts(r)
  <2>1. PICK there \in {"failed", "insert", "refused"} : CreateGoes(r, there)
    BY <1>3 DEF CreateStarts
  <2>2. UNCHANGED <<body, rows, sent, charge, answer>>
    BY <1>3, Zenon DEF CreateStarts
  <2> QED
    BY <2>1, <2>2
<1>4. CASE CreateInserts(r)
  <2>1. rows' = rows \cup {r} /\ UNCHANGED <<body, sent, charge, answer>>
    BY <1>4 DEF CreateInserts
  <2>2. \A p \in rows : OrgKey(p) # OrgKey(r)
    BY <1>4 DEF CreateInserts, SameKeyRows
  <2>3. \A p, q \in rows' : OrgKey(p)' = OrgKey(q)' => p = q
    BY <2>1, <2>2
  <2>4. pc' = [pc EXCEPT ![r] = "call"]
    BY <1>4 DEF CreateInserts
  <2> QED
    BY <2>1, <2>3, <2>4
<1>5. CASE CreateInsertThrows(r)
  BY <1>5 DEF CreateInsertThrows
<1>6. CASE CreateCalls(r)
  BY <1>6 DEF CreateCalls
<1>7. CASE CreateSettles(r)
  <2>1. r \in rows
    BY <1>7 DEF CreateSettles
  <2>2. /\ pc' = [pc EXCEPT ![r] = "answered"] /\ answer' = [answer EXCEPT ![r] = r]
        /\ UNCHANGED <<body, rows, sent, charge>>
    BY <1>7 DEF CreateSettles, CreateAnswers
  <2> QED
    BY <2>1, <2>2
<1>8. CASE CreateThrows(r)
  BY <1>8 DEF CreateThrows
<1>9. CASE CreateCatches(r)
  <2>1. pc' = [pc EXCEPT ![r] = "failed"] /\ UNCHANGED <<body, rows, sent, charge, answer>>
    BY <1>9 DEF CreateCatches
  <2> QED
    BY <2>1
<1> QED
  BY <1>1, <1>2, <1>3, <1>4, <1>5, <1>6, <1>7, <1>8, <1>9 DEF CreateStep

\* refund() touches none of the variables of the invariant.
LEMMA RefundKeepsKeys ==
  ASSUME KeyInv, RefundStep PROVE KeyInv'
<1> DEFINE same == UNCHANGED <<body, rows, pc, sent, charge, answer>>
<1> USE DEF storeVars, providerVars
<1>1. \A q \in RefundRequests, p \in CreateRequests, org \in Orgs :
        RefundRefused(q, p, org) => same
  BY DEF RefundRefused
<1>2. \A q \in RefundRequests, p \in CreateRequests, org \in Orgs, a \in RefundAmounts :
        RefundCalls(q, p, org, a) => same
  BY DEF RefundCalls
<1>3. \A call \in refundCalls : RefundSettles(call) => same
  BY DEF RefundSettles
<1>4. \A q \in RefundRequests : RefundThrows(q) => same
  BY DEF RefundThrows
<1>5. same
  BY <1>1, <1>2, <1>3, <1>4 DEF RefundStep
<1> QED
  BY <1>5 DEF KeyInv, OrgKey

\* The provider makes charges only for calls that were sent.
LEMMA ProviderKeepsKeys ==
  ASSUME PaymentTypeOK, KeyInv, ProviderStep, UNCHANGED serviceVars
  PROVE  KeyInv'
<1> USE DEF PaymentTypeOK, StoreTypeOK, ProviderTypeOK, KeyInv, OrgKey, storeVars,
            serviceVars, ChargeBecomes
<1>1. ASSUME NEW r \in CreateRequests, ProviderCharge(r) PROVE KeyInv'
  <2>1. r \in rows /\ sent' = sent \ {r} /\ UNCHANGED <<body, rows, pc, answer>>
    BY <1>1 DEF ProviderCharge
  <2>2. \A c \in CreateRequests \ {r} : charge'[c] = charge[c]
    BY <1>1 DEF ProviderCharge
  <2> QED
    BY <2>1, <2>2
<1>2. ASSUME NEW c \in CreateRequests, ProviderMoves(c) PROVE KeyInv'
  BY <1>2 DEF ProviderMoves
<1>3. ASSUME NEW call \in refundCalls, ProviderRefunds(call) PROVE KeyInv'
  <2>1. call.charge \in CreateRequests
    BY DEF RefundCall
  <2>2. \A c \in CreateRequests : charge'[c] # "none" => charge[c] # "none"
    BY <1>3, <2>1 DEF ProviderRefunds
  <2> QED
    BY <1>3, <2>2 DEF ProviderRefunds
<1>4. ASSUME NEW call \in refundCalls, ProviderAnswersRefund(call) PROVE KeyInv'
  BY <1>4 DEF ProviderAnswersRefund
<1> QED
  BY <1>1, <1>2, <1>3, <1>4 DEF ProviderStep

\* A crash only ends what was in flight.
LEMMA CrashKeepsKeys ==
  ASSUME PaymentTypeOK, KeyInv, ServiceCrash PROVE KeyInv'
  BY DEF PaymentTypeOK, ServiceTypeOK, KeyInv, OrgKey, ServiceCrash, storeVars, providerVars

\* Every step of the payments core keeps the invariant.
LEMMA StepKeepsKeys ==
  ASSUME PaymentTypeOK, KeyInv, [PaymentNext]_paymentVars PROVE KeyInv'
<1>1. CASE UNCHANGED paymentVars
  BY <1>1 DEF KeyInv, OrgKey, paymentVars, storeVars, providerVars, serviceVars
<1> QED
  BY <1>1, CreateKeepsKeys, RefundKeepsKeys, ProviderKeepsKeys, CrashKeepsKeys
     DEF PaymentNext, ServiceStep

LEMMA InitKeys == PaymentInit => KeyInv
  BY DEF PaymentInit, StoreInit, ProviderInit, ServiceInit, KeyInv

LEMMA KeysHold == PaymentSpec => []KeyInv
<1>1. PaymentTypeOK /\ KeyInv /\ [PaymentNext]_paymentVars => KeyInv'
  BY StepKeepsKeys
<1> QED
  BY InitKeys, PaymentTypeCorrect, <1>1, PTL DEF PaymentSpec

\* A key of an organization is never charged twice, however many clients retry and
\* however often the process dies, whether or not the provider honours the key.
THEOREM OneChargePerKeyHolds == PaymentSpec => []OneChargePerKey
<1>1. KeyInv => OneChargePerKey
  BY DEF KeyInv, OneChargePerKey
<1> QED
  BY <1>1, KeysHold, PTL

\* All 201 answers to one key of one organization name the same payment.
THEOREM SameKeySameAnswerHolds == PaymentSpec => []SameKeySameAnswer
<1>1. KeyInv => SameKeySameAnswer
  BY DEF KeyInv, SameKeySameAnswer
<1> QED
  BY <1>1, KeysHold, PTL

-----------------------------------------------------------------------------
\* Why a row never claims what did not happen: a link to a charge is made once and for
\* ever, a charge never forgets a status it had, answers report statuses the charge
\* had, and a refund is sent only for a charge that took the money.
LinkInv ==
  /\ \A r \in CreateRequests :
       pc[r] \in {"idle", "insert", "call", "await", "catch"} =>
         externalId[r] = Null /\ r \notin providerError
  /\ \A p \in CreateRequests : externalId[p] # Null => p \in rows
  /\ \A c \in CreateRequests : charge[c] # "none" => charge[c] \in history[c]
  /\ \A r \in CreateRequests : replyCharge[r] # Null =>
       charge[replyCharge[r]] # "none" /\ replyStatus[r] \in history[replyCharge[r]]
  /\ \A p \in CreateRequests : externalId[p] # Null => charge[externalId[p]] # "none"
  /\ \A c \in CreateRequests : refunded[c] > 0 => history[c] \cap Took # {}
  /\ \A call \in refundCalls :
       /\ externalId[call.payment] = call.charge
       /\ call.read \in Refundable
       /\ history[call.charge] \cap Took # {}

\* What every step of the payments core keeps: rows, links, histories, give-ups and
\* refund calls only grow.
OnlyGrow ==
  /\ body' = body
  /\ rows \subseteq rows'
  /\ \A p \in CreateRequests : externalId[p] # Null => externalId'[p] = externalId[p]
  /\ \A c \in CreateRequests : history[c] \subseteq history'[c]
  /\ \A c \in CreateRequests : charge[c] # "none" => charge'[c] # "none"
  /\ \A c \in CreateRequests : refunded[c] > 0 => refunded'[c] > 0
  /\ providerError \subseteq providerError'

LEMMA CreateGrows ==
  ASSUME PaymentTypeOK, LinkInv, NEW r \in CreateRequests, CreateStep(r)
  PROVE  /\ OnlyGrow
         /\ UNCHANGED <<charge, history, replyCharge, replyStatus, refunded, refundCalls>>
<1> USE DEF PaymentTypeOK, StoreTypeOK, OnlyGrow, storeVars, providerVars
<1>1. CASE CreateWithoutKey(r)
  BY <1>1 DEF CreateWithoutKey
<1>2. CASE CreateFindsRow(r)
  BY <1>2 DEF CreateFindsRow
<1>3. CASE CreateStarts(r)
  <2>1. UNCHANGED <<storeVars, providerVars>>
    BY <1>3, Zenon DEF CreateStarts
  <2> QED
    BY <2>1
<1>4. CASE CreateInserts(r)
  BY <1>4 DEF CreateInserts
<1>5. CASE CreateInsertThrows(r)
  BY <1>5 DEF CreateInsertThrows
<1>6. CASE CreateCalls(r)
  BY <1>6 DEF CreateCalls
<1>7. CASE CreateSettles(r)
  <2>1. pc[r] = "await" /\ externalId[r] = Null
    BY <1>7 DEF CreateSettles, LinkInv
  <2> QED
    BY <1>7, <2>1 DEF CreateSettles
<1>8. CASE CreateThrows(r)
  BY <1>8 DEF CreateThrows
<1>9. CASE CreateCatches(r)
  BY <1>9 DEF CreateCatches
<1> QED
  BY <1>1, <1>2, <1>3, <1>4, <1>5, <1>6, <1>7, <1>8, <1>9 DEF CreateStep

LEMMA RefundGrows ==
  ASSUME RefundStep
  PROVE  /\ OnlyGrow
         /\ UNCHANGED <<rows, externalId, providerError, charge, history,
                        replyCharge, replyStatus, refunded, pc>>
<1> DEFINE same == UNCHANGED <<body, rows, externalId, providerError, charge, history,
                               replyCharge, replyStatus, refunded, pc>>
<1> USE DEF storeVars, providerVars
<1>1. \A q \in RefundRequests, p \in CreateRequests, org \in Orgs :
        RefundRefused(q, p, org) => same
  BY DEF RefundRefused
<1>2. \A q \in RefundRequests, p \in CreateRequests, org \in Orgs, a \in RefundAmounts :
        RefundCalls(q, p, org, a) => same
  BY DEF RefundCalls
<1>3. \A call \in refundCalls : RefundSettles(call) => same
  BY DEF RefundSettles
<1>4. \A q \in RefundRequests : RefundThrows(q) => same
  BY DEF RefundThrows
<1>5. same
  BY <1>1, <1>2, <1>3, <1>4 DEF RefundStep
<1> QED
  BY <1>5 DEF OnlyGrow

LEMMA ProviderGrows ==
  ASSUME PaymentTypeOK, ProviderStep
  PROVE  OnlyGrow /\ UNCHANGED <<storeVars, refundCalls>>
<1> USE DEF PaymentTypeOK, ProviderTypeOK, OnlyGrow, storeVars, ChargeBecomes
<1>1. ASSUME NEW r \in CreateRequests, ProviderCharge(r)
      PROVE  OnlyGrow /\ UNCHANGED <<storeVars, refundCalls>>
  BY <1>1 DEF ProviderCharge
<1>2. ASSUME NEW c \in CreateRequests, ProviderMoves(c)
      PROVE  OnlyGrow /\ UNCHANGED <<storeVars, refundCalls>>
  <2>1. \A s \in CHARGE_MOVES[charge[c]] : s # "none"
    BY <1>2 DEF ProviderMoves, CHARGE_MOVES, ChargeStatus
  <2> QED
    <3>1. body[c].amount > 0
      BY StoreAssumption DEF StoreTypeOK, Body
    <3> QED
      BY <1>2, <2>1, <3>1 DEF ProviderMoves
<1>3. ASSUME NEW call \in refundCalls, ProviderRefunds(call)
      PROVE  OnlyGrow /\ UNCHANGED <<storeVars, refundCalls>>
  <2>1. PICK c \in CreateRequests : c = call.charge
    BY DEF RefundCall
  <2>2. refunded[c] \in Nat /\ body[c].amount \in Nat \ {0} /\ call.amount \in Nat
    BY <2>1, StoreAssumption, ProviderAssumption DEF StoreTypeOK, Body, RefundCall
  <2>3. \A d \in CreateRequests : refunded[d] > 0 => refunded'[d] > 0
    <3>1. CASE call.amount = 0
      <4>1. refunded' = [refunded EXCEPT ![c] = @ + (body[c].amount - refunded[c])]
        BY <1>3, <2>1, <3>1 DEF ProviderRefunds
      <4> QED
        BY <2>2, <4>1
    <3>2. CASE call.amount # 0
      <4>1. refunded' = [refunded EXCEPT ![c] = @ + call.amount]
        BY <1>3, <2>1, <3>2 DEF ProviderRefunds
      <4> QED
        BY <2>2, <4>1
    <3> QED
      BY <3>1, <3>2
  <2>4. /\ \A d \in CreateRequests :
             /\ history[d] \subseteq history'[d]
             /\ charge[d] # "none" => charge'[d] # "none"
        /\ UNCHANGED <<storeVars, refundCalls>>
    BY <1>3 DEF ProviderRefunds
  <2> QED
    BY <2>3, <2>4
<1>4. ASSUME NEW call \in refundCalls, ProviderAnswersRefund(call)
      PROVE  OnlyGrow /\ UNCHANGED <<storeVars, refundCalls>>
  BY <1>4 DEF ProviderAnswersRefund
<1> QED
  BY <1>1, <1>2, <1>3, <1>4 DEF ProviderStep

\* What a row can rely on only grows.
LEMMA GroundsGrow ==
  ASSUME PaymentTypeOK, OnlyGrow, NEW p \in CreateRequests
  PROVE  Grounds(p) \subseteq Grounds(p)'
  BY DEF Grounds, OnlyGrow, PaymentTypeOK, StoreTypeOK

\* A step of create() keeps the links; CreateSettles is the one that makes them.
LEMMA CreateKeepsLinks ==
  ASSUME PaymentTypeOK, KeyInv, LinkInv, NEW r \in CreateRequests, CreateStep(r)
  PROVE  LinkInv'
<1>1. /\ OnlyGrow
      /\ UNCHANGED <<charge, history, replyCharge, replyStatus, refunded, refundCalls>>
  BY CreateGrows
<1> USE DEF PaymentTypeOK, StoreTypeOK, ProviderTypeOK, ServiceTypeOK
<1>2. CASE CreateSettles(r)
  <2>1. /\ pc[r] = "await" /\ replyCharge[r] \in CreateRequests
        /\ pc' = [pc EXCEPT ![r] = "answered"]
        /\ externalId' = [externalId EXCEPT ![r] = replyCharge[r]]
        /\ UNCHANGED <<rows, providerError>>
    BY <1>2 DEF CreateSettles, CreateAnswers, CreateGoes
  <2>2. r \in rows /\ externalId[r] = Null /\ charge[replyCharge[r]] # "none"
    BY <2>1 DEF KeyInv, LinkInv
  <2>3. \A call \in refundCalls : call.payment # r /\ call.payment \in CreateRequests
    BY <2>2 DEF LinkInv, RefundCall
  <2> QED
    BY <1>1, <2>1, <2>2, <2>3 DEF LinkInv
<1>3. CASE CreateCatches(r)
  <2>1. /\ pc' = [pc EXCEPT ![r] = "failed"]
        /\ providerError' \subseteq providerError \cup {r}
        /\ UNCHANGED <<rows, externalId>>
    BY <1>3 DEF CreateCatches, CreateGoes
  <2> QED
    BY <1>1, <2>1 DEF LinkInv
<1>4. CASE CreateInserts(r)
  <2>1. /\ pc' = [pc EXCEPT ![r] = "call"] /\ rows' = rows \cup {r} /\ pc[r] = "insert"
        /\ UNCHANGED <<externalId, providerError>>
    BY <1>4 DEF CreateInserts, CreateGoes
  <2> QED
    BY <1>1, <2>1 DEF LinkInv
<1>5. CASE \/ CreateWithoutKey(r) \/ CreateFindsRow(r) \/ CreateStarts(r)
           \/ CreateInsertThrows(r) \/ CreateCalls(r) \/ CreateThrows(r)
  <2>1. UNCHANGED <<rows, externalId, providerError>>
    <3>1. UNCHANGED storeVars
      BY <1>5, Zenon DEF CreateWithoutKey, CreateFindsRow, CreateStarts,
                         CreateInsertThrows, CreateCalls, CreateThrows
    <3> QED
      BY <3>1 DEF storeVars
  <2>2. pc[r] \in {"idle", "insert", "call", "await"}
    BY <1>5 DEF CreateWithoutKey, CreateFindsRow, CreateStarts, CreateInsertThrows,
                CreateCalls, CreateThrows
  <2>3. \E there : pc' = [pc EXCEPT ![r] = there]
    BY <1>5, Zenon DEF CreateWithoutKey, CreateFindsRow, CreateStarts, CreateInsertThrows,
                       CreateCalls, CreateThrows, CreateAnswers, CreateGoes
  <2>4. \A o \in CreateRequests \ {r} : pc'[o] = pc[o]
    BY <2>3
  <2> QED
    BY <1>1, <2>1, <2>2, <2>4 DEF LinkInv
<1> QED
  BY <1>2, <1>3, <1>4, <1>5 DEF CreateStep

\* A refund is sent only for a row that is linked and says that money was taken.
LEMMA RefundKeepsLinks ==
  ASSUME PaymentTypeOK, LinkInv, LedgerNeverAhead, RefundStep
  PROVE  LinkInv'
<1>1. UNCHANGED <<rows, externalId, providerError, charge, history, replyCharge,
                  replyStatus, refunded, pc>>
  BY RefundGrows
<1> USE DEF storeVars, providerVars
<1>2. ASSUME NEW q \in RefundRequests, NEW p \in CreateRequests, NEW org \in Orgs,
             NEW a \in RefundAmounts, RefundCalls(q, p, org, a)
      PROVE  LinkInv'
  <2>1. /\ p \in rows /\ status[p] \in Refundable /\ externalId[p] # Null
        /\ refundCalls' = refundCalls \cup
             {[ request |-> q, payment |-> p, charge |-> externalId[p],
                amount |-> a, read |-> status[p] ]}
    BY <1>2 DEF RefundCalls
  <2>2. history[externalId[p]] \cap Took # {}
    BY <2>1 DEF LedgerNeverAhead, Justified, Grounds, Refundable, Took
  <2> QED
    BY <1>1, <2>1, <2>2 DEF LinkInv
<1>3. CASE UNCHANGED refundCalls
  BY <1>1, <1>3 DEF LinkInv
<1>4. \A q \in RefundRequests, p \in CreateRequests, org \in Orgs :
        RefundRefused(q, p, org) => UNCHANGED refundCalls
  BY DEF RefundRefused
<1>5. \A call \in refundCalls : RefundSettles(call) => UNCHANGED refundCalls
  BY DEF RefundSettles
<1>6. \A q \in RefundRequests : RefundThrows(q) => UNCHANGED refundCalls
  BY DEF RefundThrows
<1> QED
  BY <1>2, <1>3, <1>4, <1>5, <1>6 DEF RefundStep

\* What the provider answers and how its charges move.
LEMMA ProviderKeepsLinks ==
  ASSUME PaymentTypeOK, LinkInv, ProviderStep, UNCHANGED serviceVars
  PROVE  LinkInv'
<1>1. OnlyGrow /\ UNCHANGED <<storeVars, refundCalls, serviceVars>>
  BY ProviderGrows
<1> USE DEF PaymentTypeOK, StoreTypeOK, ProviderTypeOK, storeVars, serviceVars, OnlyGrow
<1>2. \A call \in refundCalls' :
        /\ call.charge \in CreateRequests
        /\ externalId'[call.payment] = call.charge
        /\ call.read \in Refundable
        /\ history'[call.charge] \cap Took # {}
  BY <1>1 DEF LinkInv, RefundCall
<1>3. \A p \in CreateRequests :
        externalId'[p] # Null => p \in rows' /\ charge'[externalId'[p]] # "none"
  BY <1>1 DEF LinkInv
<1>4. \A c \in CreateRequests : charge'[c] # "none" => charge'[c] \in history'[c]
  <2>1. ASSUME NEW c \in CreateRequests, NEW s \in ChargeStatus, ChargeBecomes(c, s)
        PROVE  \A e \in CreateRequests : charge'[e] # "none" => charge'[e] \in history'[e]
    BY <2>1 DEF ChargeBecomes, LinkInv
  <2>2. CASE UNCHANGED <<charge, history>>
    BY <2>2 DEF LinkInv
  <2>3. ASSUME NEW r \in CreateRequests, ProviderCharge(r)
        PROVE  \/ UNCHANGED <<charge, history>>
               \/ \E s \in ChargeStatus : ChargeBecomes(r, s)
    BY <2>3, StatusTables DEF ProviderCharge
  <2>4. ASSUME NEW c \in CreateRequests, ProviderMoves(c)
        PROVE  \E s \in ChargeStatus : ChargeBecomes(c, s)
    BY <2>4, StatusTables DEF ProviderMoves
  <2>5. ASSUME NEW call \in refundCalls, ProviderRefunds(call)
        PROVE  \/ UNCHANGED <<charge, history>>
               \/ ChargeBecomes(call.charge, "refunded")
    BY <2>5 DEF ProviderRefunds
  <2>6. ASSUME NEW call \in refundCalls, ProviderAnswersRefund(call)
        PROVE  UNCHANGED <<charge, history>>
    BY <2>6 DEF ProviderAnswersRefund
  <2>7. "refunded" \in ChargeStatus /\ \A call \in refundCalls : call.charge \in CreateRequests
    BY DEF ChargeStatus, RefundCall
  <2> QED
    BY <2>1, <2>2, <2>3, <2>4, <2>5, <2>6, <2>7 DEF ProviderStep
<1>5. ASSUME NEW r \in CreateRequests, replyCharge'[r] # Null
      PROVE  /\ charge'[replyCharge'[r]] # "none"
             /\ replyStatus'[r] \in history'[replyCharge'[r]]
  <2>1. CASE replyCharge'[r] = replyCharge[r] /\ replyStatus'[r] = replyStatus[r]
    BY <1>1, <1>5, <2>1 DEF LinkInv
  <2>2. ASSUME NEW o \in CreateRequests, ProviderCharge(o)
        PROVE  /\ charge'[replyCharge'[r]] # "none"
               /\ replyStatus'[r] \in history'[replyCharge'[r]]
    <3>1. CASE o # r
      BY <2>1, <2>2, <3>1 DEF ProviderCharge
    <3>2. CASE o = r /\ \E c \in ChargesWithKeyOf(r) :
                 /\ replyCharge' = [replyCharge EXCEPT ![r] = c]
                 /\ replyStatus' = [replyStatus EXCEPT ![r] = charge[c]]
      BY <1>1, <3>2 DEF ChargesWithKeyOf, LinkInv
    <3>3. CASE o = r /\ \E s \in {"pending", "authorized", "captured", "failed"} :
                 /\ ChargeBecomes(r, s)
                 /\ replyCharge' = [replyCharge EXCEPT ![r] = r]
                 /\ replyStatus' = [replyStatus EXCEPT ![r] = s]
      BY <3>3 DEF ChargeBecomes
    <3> QED
      BY <2>2, <3>1, <3>2, <3>3 DEF ProviderCharge
  <2>3. CASE UNCHANGED <<replyCharge, replyStatus>>
    BY <2>1, <2>3
  <2>4. \A c \in CreateRequests : ProviderMoves(c) => UNCHANGED <<replyCharge, replyStatus>>
    BY DEF ProviderMoves
  <2>5. \A call \in refundCalls :
          ProviderRefunds(call) \/ ProviderAnswersRefund(call)
            => UNCHANGED <<replyCharge, replyStatus>>
    BY DEF ProviderRefunds, ProviderAnswersRefund
  <2> QED
    BY <2>2, <2>3, <2>4, <2>5 DEF ProviderStep
<1>6. \A r \in CreateRequests :
        pc'[r] \in {"idle", "insert", "call", "await", "catch"} =>
          externalId'[r] = Null /\ r \notin providerError'
  BY <1>1 DEF LinkInv
<1>7. ASSUME NEW c \in CreateRequests, refunded'[c] > 0
      PROVE  history'[c] \cap Took # {}
  <2>1. CASE refunded'[c] = refunded[c]
    BY <1>1, <1>7, <2>1 DEF LinkInv
  <2>2. ASSUME NEW o \in CreateRequests, ProviderMoves(o), refunded'[c] # refunded[c]
        PROVE  "refunded" \in history'[c]
    BY <2>2 DEF ProviderMoves, ChargeBecomes
  <2>3. ASSUME NEW call \in refundCalls, ProviderRefunds(call), refunded'[c] # refunded[c]
        PROVE  history[c] \cap Took # {}
    BY <2>3 DEF ProviderRefunds, LinkInv
  <2>4. \A o \in CreateRequests : ProviderCharge(o) => refunded' = refunded
    BY DEF ProviderCharge
  <2>5. \A call \in refundCalls : ProviderAnswersRefund(call) => refunded' = refunded
    BY DEF ProviderAnswersRefund
  <2>6. "refunded" \in history'[c] \/ history[c] \cap Took # {}
          => history'[c] \cap Took # {}
    BY <1>1 DEF Took
  <2> QED
    BY <2>1, <2>2, <2>3, <2>4, <2>5, <2>6 DEF ProviderStep
<1> QED
  BY <1>2, <1>3, <1>4, <1>5, <1>6, <1>7 DEF LinkInv

LEMMA CrashKeepsLinks ==
  ASSUME PaymentTypeOK, LinkInv, ServiceCrash PROVE LinkInv'
<1>1. UNCHANGED <<storeVars, providerVars>>
  BY DEF ServiceCrash
<1>2. \A r \in CreateRequests :
        pc'[r] \in {"idle", "insert", "call", "await", "catch"} => pc'[r] = pc[r]
  BY DEF ServiceCrash, PaymentTypeOK, ServiceTypeOK
<1> QED
  BY <1>1, <1>2 DEF LinkInv, storeVars, providerVars

LEMMA InitLinks == PaymentInit => LinkInv
<1> SUFFICES ASSUME PaymentInit PROVE LinkInv
  OBVIOUS
<1>1. /\ \A r \in CreateRequests : externalId[r] = Null /\ replyCharge[r] = Null
      /\ \A c \in CreateRequests : charge[c] = "none" /\ refunded[c] = 0
      /\ providerError = {} /\ refundCalls = {}
  BY DEF PaymentInit, StoreInit, ProviderInit
<1> QED
  BY <1>1 DEF LinkInv

-----------------------------------------------------------------------------
\* The ledger: who writes a status has seen the provider report it, or is the catch.

\* PENDING claims nothing, what the provider reported justifies its translation, money
\* that was taken justifies a refund, and more grounds justify no less.
LEMMA Justifications ==
  ASSUME NEW G
  PROVE  /\ Justified("PENDING", G)
         /\ \A s \in G \cap ChargeStatus :
              Justified(MapProviderStatus(s), G) /\ Justified(STATUS_MAP[s], G)
         /\ "failed" \in G => Justified("FAILED", G)
         /\ G \cap Took # {} =>
              Justified("PARTIALLY_REFUNDED", G) /\ Justified("REFUNDED", G)
         /\ \A s, H : Justified(s, G) /\ G \subseteq H => Justified(s, H)
<1>1. \A s \in G \cap ChargeStatus :
        Justified(MapProviderStatus(s), G) /\ Justified(STATUS_MAP[s], G)
  BY DEF Justified, STATUS_MAP, MapProviderStatus, ChargeStatus, Took
<1>2. \A s, H : Justified(s, G) /\ G \subseteq H => Justified(s, H)
  BY DEF Justified
<1> QED
  BY <1>1, <1>2 DEF Justified

\* A blind write of a justified status keeps the ledger, if nothing else shrinks.
LEMMA JustifiedWrite ==
  ASSUME PaymentTypeOK, LedgerNeverAhead, OnlyGrow, NEW p \in CreateRequests,
         rows' \subseteq rows \cup {p},
         \A o \in CreateRequests \ {p} : status'[o] = status[o],
         Justified(status[p], Grounds(p))'
  PROVE  LedgerNeverAhead'
<1>1. ASSUME NEW o \in CreateRequests, o \in rows', o # p
      PROVE  Justified(status[o], Grounds(o))'
  <2>1. status'[o] = status[o] /\ o \in rows
    BY <1>1
  <2>2. Justified(status[o], Grounds(o))
    BY <2>1 DEF LedgerNeverAhead
  <2>3. Grounds(o) \subseteq Grounds(o)'
    BY GroundsGrow
  <2> QED
    BY <2>1, <2>2, <2>3, Justifications
<1>2. rows' \subseteq CreateRequests
  BY DEF PaymentTypeOK, StoreTypeOK
<1> QED
  BY <1>1, <1>2 DEF LedgerNeverAhead

\* Steps that write no status keep the ledger.
LEMMA NoWrite ==
  ASSUME PaymentTypeOK, LedgerNeverAhead, OnlyGrow, UNCHANGED <<rows, status>>
  PROVE  LedgerNeverAhead'
<1>1. ASSUME NEW o \in rows PROVE Justified(status[o], Grounds(o))'
  <2>1. Justified(status[o], Grounds(o)) /\ o \in CreateRequests
    BY DEF LedgerNeverAhead, PaymentTypeOK, StoreTypeOK
  <2>2. Grounds(o) \subseteq Grounds(o)'
    BY <2>1, GroundsGrow
  <2> QED
    BY <2>1, <2>2, Justifications
<1> QED
  BY <1>1 DEF LedgerNeverAhead

LEMMA CreateKeepsLedger ==
  ASSUME PaymentTypeOK, LinkInv, LedgerNeverAhead, NEW r \in CreateRequests, CreateStep(r)
  PROVE  LedgerNeverAhead'
<1>1. /\ OnlyGrow
      /\ UNCHANGED <<charge, history, replyCharge, replyStatus, refunded, refundCalls>>
  BY CreateGrows
<1> USE DEF PaymentTypeOK, StoreTypeOK
<1>2. CASE CreateInserts(r)
  <2>1. status' = [status EXCEPT ![r] = "PENDING"] /\ rows' = rows \cup {r}
    BY <1>2 DEF CreateInserts, RecordStatus
  <2>2. Justified(status[r], Grounds(r))'
    BY <2>1, Justifications
  <2> QED
    BY <1>1, <2>1, <2>2, JustifiedWrite
<1>3. CASE CreateSettles(r)
  <2>1. /\ status' = [status EXCEPT ![r] = MapProviderStatus(replyStatus[r])]
        /\ rows' = rows /\ externalId'[r] = replyCharge[r] /\ replyCharge[r] # Null
    BY <1>3 DEF CreateSettles, RecordStatus
  <2>2. replyStatus[r] \in Grounds(r)' \cap ChargeStatus
    BY <1>1, <2>1 DEF Grounds, LinkInv, ProviderTypeOK
  <2>3. Justified(status[r], Grounds(r))'
    BY <2>1, <2>2, Justifications
  <2> QED
    BY <1>1, <2>1, <2>3, JustifiedWrite
<1>4. CASE CreateCatches(r)
  <2>1. CASE UNCHANGED <<status, providerError>>
    BY <1>1, <1>4, <2>1, NoWrite DEF CreateCatches
  <2>2. CASE /\ status' = [status EXCEPT ![r] = "FAILED"]
             /\ providerError' = providerError \cup {r}
    <3>1. "failed" \in Grounds(r)'
      BY <2>2 DEF Grounds
    <3>2. Justified(status[r], Grounds(r))'
      BY <2>2, <3>1, Justifications
    <3>3. rows' = rows
      BY <1>4 DEF CreateCatches
    <3> QED
      BY <1>1, <2>2, <3>2, <3>3, JustifiedWrite
  <2> QED
    BY <1>4, <2>1, <2>2 DEF CreateCatches
<1>5. CASE \/ CreateWithoutKey(r) \/ CreateFindsRow(r) \/ CreateStarts(r)
           \/ CreateInsertThrows(r) \/ CreateCalls(r) \/ CreateThrows(r)
  <2>1. UNCHANGED storeVars
    BY <1>5, Zenon DEF CreateWithoutKey, CreateFindsRow, CreateStarts,
                       CreateInsertThrows, CreateCalls, CreateThrows
  <2> QED
    BY <1>1, <2>1, NoWrite DEF storeVars
<1> QED
  BY <1>2, <1>3, <1>4, <1>5 DEF CreateStep

LEMMA RefundKeepsLedger ==
  ASSUME PaymentTypeOK, LinkInv, LedgerNeverAhead, RefundStep
  PROVE  LedgerNeverAhead'
<1>1. OnlyGrow /\ UNCHANGED <<rows, externalId, history>>
  BY RefundGrows
<1>2. ASSUME NEW call \in refundCalls, RefundSettles(call)
      PROVE  LedgerNeverAhead'
  <2>1. call.payment \in CreateRequests /\ call.charge \in CreateRequests
    BY DEF PaymentTypeOK, ProviderTypeOK, RefundCall
  <2>2. status' = [status EXCEPT ![call.payment] = RefundStatus(call)]
    BY <1>2 DEF RefundSettles, RecordStatus
  <2>3. externalId[call.payment] = call.charge /\ history[call.charge] \cap Took # {}
    BY DEF LinkInv
  <2>4. Grounds(call.payment)' \cap Took # {}
    BY <1>1, <2>1, <2>3 DEF Grounds
  <2>5. status'[call.payment] \in {"PARTIALLY_REFUNDED", "REFUNDED"}
    BY <2>1, <2>2 DEF RefundStatus, PaymentTypeOK, StoreTypeOK
  <2>6. Justified(status[call.payment], Grounds(call.payment))'
    BY <2>4, <2>5, Justifications
  <2>7. \A o \in CreateRequests \ {call.payment} : status'[o] = status[o]
    BY <2>1, <2>2 DEF PaymentTypeOK, StoreTypeOK
  <2> QED
    BY <1>1, <2>1, <2>6, <2>7, JustifiedWrite
<1>3. CASE UNCHANGED status
  BY <1>1, <1>3, NoWrite
<1> USE DEF storeVars
<1>4. \A q \in RefundRequests, p \in CreateRequests, org \in Orgs :
        RefundRefused(q, p, org) => UNCHANGED status
  BY DEF RefundRefused
<1>5. \A q \in RefundRequests, p \in CreateRequests, org \in Orgs, a \in RefundAmounts :
        RefundCalls(q, p, org, a) => UNCHANGED status
  BY DEF RefundCalls
<1>6. \A q \in RefundRequests : RefundThrows(q) => UNCHANGED status
  BY DEF RefundThrows
<1> QED
  BY <1>2, <1>3, <1>4, <1>5, <1>6 DEF RefundStep

\* Every step of the payments core keeps the links ...
LEMMA StepKeepsLinks ==
  ASSUME PaymentTypeOK, KeyInv, LinkInv, LedgerNeverAhead, [PaymentNext]_paymentVars
  PROVE  LinkInv'
<1>1. CASE UNCHANGED paymentVars
  BY <1>1 DEF LinkInv, paymentVars, storeVars, providerVars, serviceVars
<1> QED
  BY <1>1, CreateKeepsLinks, RefundKeepsLinks, ProviderKeepsLinks, CrashKeepsLinks
     DEF PaymentNext, ServiceStep

\* ... only adds ...
LEMMA StepGrows ==
  ASSUME PaymentTypeOK, LinkInv, [PaymentNext]_paymentVars PROVE OnlyGrow
<1>1. CASE UNCHANGED <<storeVars, providerVars>>
  BY <1>1 DEF OnlyGrow, storeVars, providerVars
<1> QED
  BY <1>1, CreateGrows, RefundGrows, ProviderGrows
     DEF PaymentNext, ServiceStep, ServiceCrash, paymentVars

\* ... and keeps the ledger.
LEMMA StepKeepsLedger ==
  ASSUME PaymentTypeOK, LinkInv, LedgerNeverAhead, [PaymentNext]_paymentVars
  PROVE  LedgerNeverAhead'
<1>1. CASE UNCHANGED storeVars
  BY <1>1, StepGrows, NoWrite DEF storeVars
<1>2. CASE ProviderStep
  BY <1>1, <1>2, ProviderGrows
<1> QED
  BY <1>1, <1>2, CreateKeepsLedger, RefundKeepsLedger
     DEF PaymentNext, ServiceStep, ServiceCrash, paymentVars

-----------------------------------------------------------------------------
\* Until create() settles a row the row is PENDING, and a row it gave up on is FAILED,
\* unlinked and out of its hands.
SettleInv ==
  /\ \A r \in CreateRequests : pc[r] \in {"call", "await", "catch"} => status[r] = "PENDING"
  /\ \A p \in providerError : pc[p] = "failed" /\ externalId[p] = Null /\ status[p] = "FAILED"

LEMMA CreateSettlesOwn ==
  ASSUME PaymentTypeOK, LinkInv, SettleInv, NEW r \in CreateRequests, CreateStep(r)
  PROVE  SettleInv'
<1> USE DEF PaymentTypeOK, StoreTypeOK, ServiceTypeOK
<1>1. CASE CreateInserts(r)
  <2>1. /\ pc[r] = "insert" /\ pc' = [pc EXCEPT ![r] = "call"]
        /\ status' = [status EXCEPT ![r] = "PENDING"]
        /\ UNCHANGED <<externalId, providerError>>
    BY <1>1 DEF CreateInserts, RecordStatus, CreateGoes
  <2> QED
    BY <2>1 DEF SettleInv
<1>2. CASE CreateSettles(r)
  <2>1. /\ pc[r] = "await" /\ pc' = [pc EXCEPT ![r] = "answered"]
        /\ \A o \in CreateRequests \ {r} :
             status'[o] = status[o] /\ externalId'[o] = externalId[o]
        /\ UNCHANGED providerError
    BY <1>2 DEF CreateSettles, RecordStatus, CreateAnswers, CreateGoes
  <2> QED
    BY <2>1 DEF SettleInv
<1>3. CASE CreateCatches(r)
  <2>1. /\ pc[r] = "catch" /\ pc' = [pc EXCEPT ![r] = "failed"]
        /\ UNCHANGED externalId
        /\ \/ UNCHANGED <<status, providerError>>
           \/ /\ status' = [status EXCEPT ![r] = "FAILED"]
              /\ providerError' = providerError \cup {r}
    BY <1>3 DEF CreateCatches, CreateGoes
  <2>2. externalId[r] = Null /\ r \notin providerError
    BY <2>1 DEF LinkInv
  <2> QED
    BY <2>1, <2>2 DEF SettleInv
<1>4. CASE \/ CreateWithoutKey(r) \/ CreateFindsRow(r) \/ CreateStarts(r)
           \/ CreateInsertThrows(r) \/ CreateCalls(r) \/ CreateThrows(r)
  <2>1. UNCHANGED <<status, externalId, providerError>>
    <3>1. UNCHANGED storeVars
      BY <1>4, Zenon DEF CreateWithoutKey, CreateFindsRow, CreateStarts,
                         CreateInsertThrows, CreateCalls, CreateThrows
    <3> QED
      BY <3>1 DEF storeVars
  <2>2. pc[r] # "failed"
    BY <1>4 DEF CreateWithoutKey, CreateFindsRow, CreateStarts, CreateInsertThrows,
                CreateCalls, CreateThrows
  <2>3. CASE CreateCalls(r) \/ CreateThrows(r)
    <3>1. /\ pc[r] \in {"call", "await"}
          /\ \E there \in {"await", "catch"} : pc' = [pc EXCEPT ![r] = there]
      BY <2>3 DEF CreateCalls, CreateThrows, CreateGoes
    <3> QED
      BY <2>1, <3>1 DEF SettleInv
  <2>4. CASE ~ (CreateCalls(r) \/ CreateThrows(r))
    <3>1. \E there \in {"refused", "answered", "failed", "insert"} :
            pc' = [pc EXCEPT ![r] = there]
      BY <1>4, <2>4 DEF CreateWithoutKey, CreateFindsRow, CreateStarts, CreateInsertThrows,
                        CreateAnswers, CreateGoes
    <3> QED
      BY <2>1, <2>2, <3>1 DEF SettleInv
  <2> QED
    BY <2>3, <2>4
<1> QED
  BY <1>1, <1>2, <1>3, <1>4 DEF CreateStep

\* Whoever else writes a status writes that of a row with a link, so not one of these.
LEMMA LinkedWriteSettles ==
  ASSUME PaymentTypeOK, LinkInv, SettleInv, NEW p \in CreateRequests, externalId[p] # Null,
         \A o \in CreateRequests \ {p} : status'[o] = status[o],
         UNCHANGED <<pc, externalId, providerError>>
  PROVE  SettleInv'
  BY DEF PaymentTypeOK, StoreTypeOK, LinkInv, SettleInv

LEMMA RefundSettlesLinked ==
  ASSUME PaymentTypeOK, LinkInv, SettleInv, RefundStep
  PROVE  SettleInv'
<1>1. UNCHANGED <<pc, externalId, providerError>>
  BY RefundGrows
<1>2. ASSUME NEW call \in refundCalls, RefundSettles(call) PROVE SettleInv'
  <2>1. /\ call.payment \in CreateRequests /\ externalId[call.payment] # Null
        /\ status' = [status EXCEPT ![call.payment] = RefundStatus(call)]
    BY <1>2 DEF PaymentTypeOK, ProviderTypeOK, RefundCall, LinkInv, RefundSettles, RecordStatus
  <2> QED
    BY <1>1, <2>1, LinkedWriteSettles DEF PaymentTypeOK, StoreTypeOK
<1>3. CASE UNCHANGED status
  BY <1>1, <1>3 DEF SettleInv
<1> USE DEF storeVars
<1>4. \A q \in RefundRequests, p \in CreateRequests, org \in Orgs :
        RefundRefused(q, p, org) => UNCHANGED status
  BY DEF RefundRefused
<1>5. \A q \in RefundRequests, p \in CreateRequests, org \in Orgs, a \in RefundAmounts :
        RefundCalls(q, p, org, a) => UNCHANGED status
  BY DEF RefundCalls
<1>6. \A q \in RefundRequests : RefundThrows(q) => UNCHANGED status
  BY DEF RefundThrows
<1> QED
  BY <1>2, <1>3, <1>4, <1>5, <1>6 DEF RefundStep

LEMMA StepSettles ==
  ASSUME PaymentTypeOK, LinkInv, SettleInv, [PaymentNext]_paymentVars
  PROVE  SettleInv'
<1>1. CASE UNCHANGED <<storeVars, serviceVars>>
  BY <1>1 DEF SettleInv, storeVars, serviceVars
<1>2. CASE ServiceCrash
  BY <1>2 DEF ServiceCrash, SettleInv, storeVars, CreateInFlight, PaymentTypeOK,
              ServiceTypeOK, StoreTypeOK
<1>3. CASE ProviderStep /\ UNCHANGED serviceVars
  BY <1>1, <1>3, ProviderGrows
<1> QED
  BY <1>1, <1>2, <1>3, CreateSettlesOwn, RefundSettlesLinked
     DEF PaymentNext, ServiceStep, paymentVars

-----------------------------------------------------------------------------
\* The inductive invariant of the payments core.
CoreInv == PaymentTypeOK /\ KeyInv /\ LinkInv /\ LedgerNeverAhead /\ SettleInv

LEMMA InitCore == PaymentInit => CoreInv
<1> SUFFICES ASSUME PaymentInit PROVE CoreInv
  OBVIOUS
<1>1. rows = {} /\ providerError = {} /\ \A r \in CreateRequests : pc[r] = "idle"
  BY DEF PaymentInit, StoreInit, ServiceInit
<1>2. LedgerNeverAhead /\ SettleInv
  BY <1>1 DEF LedgerNeverAhead, SettleInv
<1> QED
  BY <1>2, InitTyped, InitKeys, InitLinks DEF CoreInv

LEMMA StepCore ==
  ASSUME CoreInv, [PaymentNext]_paymentVars PROVE CoreInv'
<1>1. PaymentTypeOK'
  BY StepTyped DEF CoreInv
<1>2. KeyInv' /\ LinkInv'
  BY StepKeepsKeys, StepKeepsLinks DEF CoreInv
<1>3. LedgerNeverAhead' /\ SettleInv'
  BY StepKeepsLedger, StepSettles DEF CoreInv
<1> QED
  BY <1>1, <1>2, <1>3 DEF CoreInv

LEMMA CoreHolds == PaymentSpec => []CoreInv
<1>1. CoreInv /\ [PaymentNext]_paymentVars => CoreInv'
  BY StepCore
<1> QED
  BY InitCore, <1>1, PTL DEF PaymentSpec

LEMMA CoreGivesUnsettled == CoreInv => UnsettledRowUntouched
  BY DEF CoreInv, KeyInv, LinkInv, SettleInv, UnsettledRowUntouched, PaymentTypeOK, StoreTypeOK

\* A row claims only what happened to the charge it is linked to.
THEOREM LedgerHolds == PaymentSpec => []LedgerNeverAhead
  BY CoreHolds, PTL DEF CoreInv

\* When the money has gone back, the assertion of refund() passes.
THEOREM RefundAssertAlwaysHolds == PaymentSpec => []RefundAssertHolds
<1>1. CoreInv => RefundAssertHolds
  BY DEF CoreInv, LinkInv, RefundAssertHolds, Refundable, RefundStatus, ValidTransition,
         VALID_TRANSITIONS
<1> QED
  BY <1>1, CoreHolds, PTL

\* A payment create() gave up on is never revived.
THEOREM GivenUpForGood == PaymentSpec => ProviderErrorIsFinal
<1>1. CoreInv /\ CoreInv' /\ [PaymentNext]_paymentVars =>
        [\A p \in providerError : p \in providerError' /\ status'[p] = "FAILED"]_paymentVars
  <2> SUFFICES ASSUME CoreInv, CoreInv', [PaymentNext]_paymentVars, NEW p \in providerError
               PROVE  p \in providerError' /\ status'[p] = "FAILED"
    OBVIOUS
  <2>1. p \in providerError'
    BY StepGrows DEF CoreInv, OnlyGrow
  <2> QED
    BY <2>1 DEF CoreInv, SettleInv
<1> QED
  BY <1>1, CoreHolds, PTL DEF PaymentSpec, ProviderErrorIsFinal
=============================================================================

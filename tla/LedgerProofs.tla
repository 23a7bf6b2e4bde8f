---------------------------- MODULE LedgerProofs ----------------------------
(***************************************************************************)
(* What the books of PaymentsService say, for every set of requests and    *)
(* every number of crashes: the gauge covers the creations in flight, the  *)
(* event log tells the status, who is marked refunded was refunded, and    *)
(* create() implements the abstract idempotent charge.                     *)
(***************************************************************************)
EXTENDS PaymentsProofs, FiniteSetTheorems

\* What is left of the steps of create() for the tables: all others touch none.
LEMMA CreateWrites ==
  ASSUME NEW r \in CreateRequests, CreateStep(r)
  PROVE  CreateInserts(r) \/ CreateSettles(r) \/ CreateCatches(r) \/ UNCHANGED storeVars
<1>1. CASE \/ CreateWithoutKey(r) \/ CreateFindsRow(r) \/ CreateStarts(r)
           \/ CreateInsertThrows(r) \/ CreateCalls(r) \/ CreateThrows(r)
  BY <1>1, Zenon DEF CreateWithoutKey, CreateFindsRow, CreateStarts,
                     CreateInsertThrows, CreateCalls, CreateThrows
<1> QED
  BY <1>1 DEF CreateStep

\* So is RefundSettles what is left of the steps of refund().
LEMMA RefundWrites ==
  ASSUME RefundStep
  PROVE  (\E call \in refundCalls : RefundSettles(call)) \/ UNCHANGED storeVars
<1>1. \A q \in RefundRequests, p \in CreateRequests, org \in Orgs :
        RefundRefused(q, p, org) => UNCHANGED storeVars
  BY DEF RefundRefused
<1>2. \A q \in RefundRequests, p \in CreateRequests, org \in Orgs, a \in RefundAmounts :
        RefundCalls(q, p, org, a) => UNCHANGED storeVars
  BY DEF RefundCalls
<1>3. \A q \in RefundRequests : RefundThrows(q) => UNCHANGED storeVars
  BY DEF RefundThrows
<1> QED
  BY <1>1, <1>2, <1>3 DEF RefundStep

-----------------------------------------------------------------------------
\* The gauge.

Waiting == {r \in CreateRequests : pc[r] \in {"insert", "call", "await"}}

\* Only finitely many requests have got that far, whatever the number of requests.
GaugeInv == IsFiniteSet(Waiting) /\ pendingGauge >= Cardinality(Waiting)

\* A request joins with one more on the gauge, or leaves with at most one less.
LEMMA OneWaits ==
  ASSUME PaymentTypeOK, GaugeInv, NEW r \in CreateRequests,
         \/ Waiting' = Waiting /\ pendingGauge' \in {pendingGauge, pendingGauge + 1}
         \/ Waiting' = Waiting \cup {r} /\ r \notin Waiting /\ pendingGauge' = pendingGauge + 1
         \/ /\ Waiting' = Waiting \ {r} /\ r \in Waiting
            /\ pendingGauge' \in {pendingGauge, pendingGauge - 1}
  PROVE  GaugeInv'
<1>1. IsFiniteSet(Waiting) /\ Cardinality(Waiting) \in Nat /\ pendingGauge \in Int
  BY FS_CardinalityType DEF GaugeInv, PaymentTypeOK, ServiceTypeOK
<1>2. CASE Waiting' = Waiting /\ pendingGauge' \in {pendingGauge, pendingGauge + 1}
  BY <1>1, <1>2 DEF GaugeInv
<1>3. CASE Waiting' = Waiting \cup {r} /\ r \notin Waiting /\ pendingGauge' = pendingGauge + 1
  BY <1>1, <1>3, FS_AddElement DEF GaugeInv
<1>4. CASE /\ Waiting' = Waiting \ {r} /\ r \in Waiting
           /\ pendingGauge' \in {pendingGauge, pendingGauge - 1}
  BY <1>1, <1>4, FS_RemoveElement DEF GaugeInv
<1> QED
  BY <1>2, <1>3, <1>4

LEMMA CreateKeepsGauge ==
  ASSUME PaymentTypeOK, GaugeInv, NEW r \in CreateRequests, CreateStep(r)
  PROVE  GaugeInv'
<1> USE DEF PaymentTypeOK, ServiceTypeOK, Waiting, CreateGoes, CreateAnswers
<1>1. CASE CreateWithoutKey(r)
  <2>1. Waiting' = Waiting /\ pendingGauge' = pendingGauge
    BY <1>1 DEF CreateWithoutKey
  <2> QED
    BY <2>1, OneWaits
<1>2. CASE CreateFindsRow(r)
  <2>1. Waiting' = Waiting /\ pendingGauge' = pendingGauge
    BY <1>2 DEF CreateFindsRow
  <2> QED
    BY <2>1, OneWaits
<1>3. CASE CreateStarts(r)
  <2>1. pc[r] = "idle"
    BY <1>3 DEF CreateStarts
  <2>2. \/ pc' = [pc EXCEPT ![r] = "failed"] /\ pendingGauge' = pendingGauge
        \/ pc' = [pc EXCEPT ![r] = "refused"] /\ pendingGauge' = pendingGauge + 1
        \/ pc' = [pc EXCEPT ![r] = "insert"] /\ pendingGauge' = pendingGauge + 1
    <3>1. CASE body[r].routable
      BY <1>3, <3>1 DEF CreateStarts
    <3>2. CASE ~ body[r].routable
      BY <1>3, <3>2, Zenon DEF CreateStarts
    <3> QED
      BY <3>1, <3>2
  <2>3. \/ Waiting' = Waiting /\ pendingGauge' \in {pendingGauge, pendingGauge + 1}
        \/ /\ Waiting' = Waiting \cup {r} /\ r \notin Waiting
           /\ pendingGauge' = pendingGauge + 1
    BY <2>1, <2>2
  <2> QED
    BY <2>3, OneWaits
<1>4. CASE CreateInserts(r)
  <2>1. Waiting' = Waiting /\ pendingGauge' = pendingGauge
    BY <1>4 DEF CreateInserts
  <2> QED
    BY <2>1, OneWaits
<1>5. CASE CreateInsertThrows(r)
  <2>1. Waiting' = Waiting \ {r} /\ r \in Waiting /\ pendingGauge' = pendingGauge
    BY <1>5 DEF CreateInsertThrows
  <2> QED
    BY <2>1, OneWaits
<1>6. CASE CreateCalls(r)
  <2>1. Waiting' = Waiting /\ pendingGauge' = pendingGauge
    BY <1>6 DEF CreateCalls
  <2> QED
    BY <2>1, OneWaits
<1>7. CASE CreateSettles(r) \/ CreateThrows(r)
  <2>1. Waiting' = Waiting \ {r} /\ r \in Waiting /\ pendingGauge' = pendingGauge - 1
    BY <1>7 DEF CreateSettles, CreateThrows
  <2> QED
    BY <2>1, OneWaits
<1>8. CASE CreateCatches(r)
  <2>1. Waiting' = Waiting /\ pendingGauge' = pendingGauge
    BY <1>8 DEF CreateCatches
  <2> QED
    BY <2>1, OneWaits
<1> QED
  BY <1>1, <1>2, <1>3, <1>4, <1>5, <1>6, <1>7, <1>8 DEF CreateStep

LEMMA RefundKeepsGauge ==
  ASSUME RefundStep PROVE UNCHANGED <<pc, pendingGauge>>
<1>1. \A q \in RefundRequests, p \in CreateRequests, org \in Orgs :
        RefundRefused(q, p, org) => UNCHANGED <<pc, pendingGauge>>
  BY DEF RefundRefused
<1>2. \A q \in RefundRequests, p \in CreateRequests, org \in Orgs, a \in RefundAmounts :
        RefundCalls(q, p, org, a) => UNCHANGED <<pc, pendingGauge>>
  BY DEF RefundCalls
<1>3. \A call \in refundCalls : RefundSettles(call) => UNCHANGED <<pc, pendingGauge>>
  BY DEF RefundSettles
<1>4. \A q \in RefundRequests : RefundThrows(q) => UNCHANGED <<pc, pendingGauge>>
  BY DEF RefundThrows
<1> QED
  BY <1>1, <1>2, <1>3, <1>4 DEF RefundStep

LEMMA StepKeepsGauge ==
  ASSUME PaymentTypeOK, GaugeInv, [PaymentNext]_paymentVars PROVE GaugeInv'
<1>1. ASSUME UNCHANGED <<pc, pendingGauge>> PROVE GaugeInv'
  BY <1>1 DEF GaugeInv, Waiting
<1>2. CASE RefundStep
  BY <1>1, <1>2, RefundKeepsGauge
<1>3. CASE UNCHANGED serviceVars
  BY <1>1, <1>3 DEF serviceVars
<1>4. CASE ServiceCrash
  <2>1. Waiting' = {} /\ pendingGauge' = 0
    BY <1>4 DEF ServiceCrash, Waiting, CreateInFlight
  <2> QED
    BY <2>1, FS_EmptySet DEF GaugeInv
<1> QED
  BY <1>2, <1>3, <1>4, CreateKeepsGauge DEF PaymentNext, ServiceStep, paymentVars

LEMMA InitGauge == PaymentInit => GaugeInv
<1> SUFFICES ASSUME PaymentInit PROVE GaugeInv
  OBVIOUS
<1>1. Waiting = {} /\ pendingGauge = 0
  BY DEF PaymentInit, ServiceInit, Waiting
<1> QED
  BY <1>1, FS_EmptySet DEF GaugeInv

\* The gauge never counts fewer payments than there are creations waiting, however many
\* requests are sent and crash.
THEOREM GaugeAlwaysCovers == PaymentSpec => []GaugeCoversInFlight
<1>1. PaymentTypeOK /\ GaugeInv /\ [PaymentNext]_paymentVars => GaugeInv'
  BY StepKeepsGauge
<1>2. GaugeInv => GaugeCoversInFlight
  BY DEF GaugeInv, GaugeCoversInFlight, Waiting
<1> QED
  BY <1>1, <1>2, InitGauge, PaymentTypeCorrect, PTL DEF PaymentSpec

-----------------------------------------------------------------------------
\* The refunds.

\* Money went back on charge c.
GaveBack(c) == refunded[c] > 0

\* A charge is refunded when nothing is left of it and not before; a refund call has left
\* the client of its request.
BackInv ==
  /\ \A c \in CreateRequests :
       /\ charge[c] # "refunded" => refunded[c] < body[c].amount
       /\ "refunded" \in history[c] => GaveBack(c)
  /\ \A call \in refundCalls : rpc[call.request] # "idle"

BooksInv == BackInv /\ RefundAccountedFor

\* What accounts for a row that says refunded.
TakenOn(call) == call.request \in refundRows /\ refundReply[call.request] = "returned"

Cleared(p) ==
  \/ externalId[p] # Null /\ GaveBack(externalId[p])
  \/ \E call \in refundCalls : call.payment = p /\ TakenOn(call)

\* All that happens to amounts and answers: nobody takes a refund back.
BooksGrow ==
  /\ \A p \in CreateRequests : externalId[p] # Null => externalId'[p] = externalId[p]
  /\ \A c \in CreateRequests : GaveBack(c) => GaveBack(c)'
  /\ refundCalls \subseteq refundCalls' /\ refundRows \subseteq refundRows'
  /\ \A q \in RefundRequests : refundReply[q] = "returned" => refundReply'[q] = "returned"

LEMMA ClearedStays ==
  ASSUME PaymentTypeOK, BooksGrow, NEW p \in CreateRequests, Cleared(p) PROVE Cleared(p)'
<1>1. CASE externalId[p] # Null /\ GaveBack(externalId[p])
  BY <1>1 DEF PaymentTypeOK, StoreTypeOK, BooksGrow, Cleared
<1>2. ASSUME NEW call \in refundCalls, call.payment = p, TakenOn(call)
      PROVE  Cleared(p)'
  <2>1. call.request \in RefundRequests
    BY DEF PaymentTypeOK, ProviderTypeOK, RefundCall
  <2> QED
    BY <1>2, <2>1 DEF BooksGrow, Cleared, TakenOn
<1> QED
  BY <1>1, <1>2 DEF Cleared

\* A step keeps the books if it writes a refund only on a row that is cleared.
LEMMA BooksKept ==
  ASSUME PaymentTypeOK, PaymentTypeOK', RefundAccountedFor, BooksGrow,
         \A p \in CreateRequests \cap rows' :
           status'[p] \in {"PARTIALLY_REFUNDED", "REFUNDED"} =>
             \/ p \in rows /\ status'[p] = status[p]
             \/ Cleared(p)'
  PROVE  RefundAccountedFor'
<1>1. ASSUME NEW p \in rows', status'[p] \in {"PARTIALLY_REFUNDED", "REFUNDED"}
      PROVE  Cleared(p)'
  <2>1. p \in CreateRequests
    BY DEF PaymentTypeOK, StoreTypeOK
  <2>2. CASE p \in rows /\ status'[p] = status[p]
    <3>1. Cleared(p)
      BY <1>1, <2>2 DEF RefundAccountedFor, Cleared, GaveBack, TakenOn
    <3> QED
      BY <2>1, <3>1, ClearedStays
  <2> QED
    BY <1>1, <2>1, <2>2
<1> QED
  BY <1>1 DEF RefundAccountedFor, Cleared, GaveBack, TakenOn

LEMMA CreateKeepsBooks ==
  ASSUME CoreInv, BooksInv, NEW r \in CreateRequests, CreateStep(r), PaymentTypeOK'
  PROVE  BooksInv'
<1> USE DEF CoreInv, BooksInv
<1>1. OnlyGrow /\ UNCHANGED <<charge, history, replyCharge, replyStatus, refundCalls>>
  BY CreateGrows
<1>2. UNCHANGED <<refunded, refundReply, rpc, refundRows>>
  BY Zenon DEF storeVars, CreateStep, CreateWithoutKey, CreateFindsRow, CreateStarts, CreateInserts,
     CreateInsertThrows, CreateCalls, CreateSettles, CreateThrows, CreateCatches, providerVars
<1>3. BackInv'
  BY <1>1, <1>2 DEF OnlyGrow, BackInv, GaveBack
<1>4. BooksGrow
  BY <1>1, <1>2 DEF OnlyGrow, BooksGrow, GaveBack
<1>5. \A p \in CreateRequests \cap rows' :
        status'[p] \in {"PARTIALLY_REFUNDED", "REFUNDED"} =>
          \/ p \in rows /\ status'[p] = status[p]
          \/ Cleared(p)'
  <2>1. CASE UNCHANGED storeVars
    BY <2>1 DEF storeVars
  <2>2. CASE CreateInserts(r)
    BY <2>2 DEF CreateInserts, RecordStatus, PaymentTypeOK, StoreTypeOK
  <2>3. CASE CreateCatches(r)
    BY <2>3 DEF CreateCatches, PaymentTypeOK, StoreTypeOK
  <2>4. CASE CreateSettles(r)
    <3>1. /\ status' = [status EXCEPT ![r] = MapProviderStatus(replyStatus[r])]
          /\ rows' = rows /\ externalId'[r] = replyCharge[r] /\ replyCharge[r] # Null
      BY <2>4 DEF CreateSettles, RecordStatus, PaymentTypeOK, StoreTypeOK
    <3>2. replyStatus[r] \in ChargeStatus
      BY DEF PaymentTypeOK, ProviderTypeOK
    <3>3. MapProviderStatus(replyStatus[r]) \in {"PARTIALLY_REFUNDED", "REFUNDED"}
            => replyStatus[r] = "refunded"
      BY <3>2 DEF MapProviderStatus, STATUS_MAP, ChargeStatus
    <3>4. replyStatus[r] \in history[replyCharge[r]] /\ replyCharge[r] \in CreateRequests
      BY <3>1 DEF LinkInv, PaymentTypeOK, ProviderTypeOK
    <3>5. replyStatus[r] = "refunded" => GaveBack(replyCharge[r])
      BY <3>4 DEF BackInv
    <3>6. replyStatus[r] = "refunded" => Cleared(r)'
      BY <1>2, <3>1, <3>5 DEF Cleared, GaveBack
    <3>7. /\ status'[r] = MapProviderStatus(replyStatus[r])
          /\ \A p \in CreateRequests \ {r} : status'[p] = status[p]
      BY <3>1 DEF PaymentTypeOK, StoreTypeOK
    <3> QED
      BY <3>1, <3>3, <3>6, <3>7
  <2> QED
    BY <2>1, <2>2, <2>3, <2>4, CreateWrites
<1> QED
  BY <1>3, <1>4, <1>5, BooksKept

\* A refund moves no money by itself.
LEMMA RefundKeepsBack ==
  ASSUME CoreInv, BackInv, RefundStep
  PROVE  BackInv' /\ UNCHANGED <<refunded, refundReply>> /\ refundCalls \subseteq refundCalls'
                  /\ refundRows \subseteq refundRows'
<1> USE DEF CoreInv, BackInv, GaveBack, providerVars, storeVars
<1> DEFINE kept == UNCHANGED <<body, charge, history, refunded, refundReply>>
                     /\ refundRows \subseteq refundRows'
<1>1. rpc \in [RefundRequests -> {"idle", "await", "answered", "refused", "failed", "lost"}]
      /\ \A call \in refundCalls : call.request \in RefundRequests
  BY DEF PaymentTypeOK, ServiceTypeOK, ProviderTypeOK, RefundCall
<1>2. ASSUME NEW q \in RefundRequests, NEW there \in {"refused", "answered", "failed"},
             rpc' = [rpc EXCEPT ![q] = there], kept, refundCalls' = refundCalls
      PROVE  BackInv'
  BY <1>1, <1>2
<1>3. ASSUME NEW q \in RefundRequests, NEW p \in CreateRequests, NEW org \in Orgs,
             RefundRefused(q, p, org)
      PROVE  BackInv' /\ kept /\ refundCalls' = refundCalls
  BY <1>2, <1>3 DEF RefundRefused
<1>4. ASSUME NEW q \in RefundRequests, NEW p \in CreateRequests, NEW org \in Orgs,
             NEW a \in RefundAmounts, RefundCalls(q, p, org, a)
      PROVE  BackInv' /\ kept /\ refundCalls \subseteq refundCalls'
  <2> DEFINE new == [request |-> q, payment |-> p, charge |-> externalId[p],
                     amount |-> a, read |-> status[p]]
  <2>1. /\ rpc[q] = "idle" /\ rpc' = [rpc EXCEPT ![q] = "await"] /\ kept
        /\ refundCalls' = refundCalls \cup {new}
    BY <1>4 DEF RefundCalls
  <2>2. new.request = q
    OBVIOUS
  <2> HIDE DEF new
  <2>3. \A call \in refundCalls' : rpc'[call.request] # "idle"
    BY <1>1, <2>1, <2>2
  <2> QED
    BY <2>1, <2>3
<1>5. ASSUME NEW call \in refundCalls, RefundSettles(call)
      PROVE  BackInv' /\ kept /\ refundCalls' = refundCalls
  <2>1. PICK q \in RefundRequests : q = call.request
    BY <1>1
  <2> QED
    BY <1>2, <1>5, <2>1 DEF RefundSettles
<1>6. ASSUME NEW q \in RefundRequests, RefundThrows(q)
      PROVE  BackInv' /\ kept /\ refundCalls' = refundCalls
  BY <1>2, <1>6 DEF RefundThrows
<1> QED
  BY <1>3, <1>4, <1>5, <1>6 DEF RefundStep

LEMMA RefundKeepsBooks ==
  ASSUME CoreInv, BooksInv, RefundStep, PaymentTypeOK'
  PROVE  BooksInv'
<1> USE DEF CoreInv, BooksInv
<1>1. BackInv' /\ UNCHANGED <<refunded, refundReply>> /\ refundCalls \subseteq refundCalls'
              /\ refundRows \subseteq refundRows'
  BY RefundKeepsBack
<1>2. OnlyGrow /\ UNCHANGED <<rows, externalId>>
  BY RefundGrows
<1>3. BooksGrow
  BY <1>1, <1>2 DEF BooksGrow, GaveBack
<1>4. CASE UNCHANGED storeVars
  BY <1>1, <1>3, <1>4, BooksKept DEF storeVars
<1>5. ASSUME NEW call \in refundCalls, RefundSettles(call) PROVE BooksInv'
  <2>1. call.payment \in CreateRequests
    BY DEF PaymentTypeOK, ProviderTypeOK, RefundCall
  <2>2. /\ status' = [status EXCEPT ![call.payment] = RefundStatus(call)]
        /\ refundReply[call.request] = "returned" /\ call.request \in refundRows'
    BY <1>5 DEF RefundSettles, RecordStatus
  <2>3. Cleared(call.payment)'
    BY <1>1, <2>2 DEF Cleared, TakenOn
  <2>4. \A p \in CreateRequests \ {call.payment} : status'[p] = status[p]
    BY <2>1, <2>2 DEF PaymentTypeOK, StoreTypeOK
  <2>5. \A p \in CreateRequests \cap rows' :
          status'[p] \in {"PARTIALLY_REFUNDED", "REFUNDED"} =>
            \/ p \in rows /\ status'[p] = status[p]
            \/ Cleared(p)'
    BY <1>2, <2>3, <2>4
  <2> QED
    BY <1>1, <1>3, <2>5, BooksKept
<1> QED
  BY <1>4, <1>5, RefundWrites

\* A call on the wire has not charged, and none was sent before its time.
Early == {"idle", "insert", "call"}

FreshInv ==
  \A r \in CreateRequests :
    /\ pc[r] \in Early => charge[r] = "none" /\ r \notin sent
    /\ r \in sent => charge[r] = "none"

LEMMA StepKeepsFresh ==
  ASSUME PaymentTypeOK, FreshInv, [PaymentNext]_paymentVars PROVE FreshInv'
<1> USE DEF FreshInv, PaymentTypeOK, ProviderTypeOK, ServiceTypeOK, providerVars
<1>1. ASSUME NEW r \in CreateRequests, CreateStep(r) PROVE FreshInv'
  <2>1. CASE CreateCalls(r)
    <3>1. /\ pc[r] = "call" /\ pc' = [pc EXCEPT ![r] = "await"] /\ sent' = sent \cup {r}
          /\ charge' = charge
      BY <2>1 DEF CreateCalls, CreateGoes
    <3> QED
      BY <3>1 DEF Early
  <2>2. CASE ~ CreateCalls(r)
    <3>1. UNCHANGED <<sent, charge>>
      BY <1>1, <2>2, Zenon DEF CreateStep, CreateWithoutKey, CreateFindsRow, CreateStarts,
         CreateInserts, CreateInsertThrows, CreateSettles, CreateThrows, CreateCatches,
         providerVars
    <3> USE DEF CreateGoes, CreateAnswers, Early
    <3>2. \E there : pc' = [pc EXCEPT ![r] = there] /\ (there \in Early => pc[r] \in Early)
      <4>1. CASE CreateStarts(r)
        BY <4>1 DEF CreateStarts
      <4>2. CASE CreateInserts(r)
        BY <4>2 DEF CreateInserts
      <4>3. ASSUME NEW there \in {"answered", "refused", "failed", "catch"},
                   pc' = [pc EXCEPT ![r] = there]
            PROVE  \E t : pc' = [pc EXCEPT ![r] = t] /\ (t \in Early => pc[r] \in Early)
        BY <4>3
      <4>4. CASE \/ CreateWithoutKey(r) \/ CreateFindsRow(r) \/ CreateInsertThrows(r)
                 \/ CreateSettles(r) \/ CreateThrows(r) \/ CreateCatches(r)
        BY <4>3, <4>4 DEF CreateWithoutKey, CreateFindsRow, CreateInsertThrows,
           CreateSettles, CreateThrows, CreateCatches
      <4> QED
        BY <1>1, <2>2, <4>1, <4>2, <4>4 DEF CreateStep
    <3> QED
      BY <3>1, <3>2
  <2> QED
    BY <2>1, <2>2
<1>2. ASSUME UNCHANGED <<pc, sent, charge>> PROVE FreshInv'
  BY <1>2
<1>3. CASE RefundStep
  <2>1. \A q \in RefundRequests, p \in CreateRequests, org \in Orgs :
          RefundRefused(q, p, org) => UNCHANGED <<pc, sent, charge>>
    BY DEF RefundRefused
  <2>2. \A q \in RefundRequests, p \in CreateRequests, org \in Orgs, a \in RefundAmounts :
          RefundCalls(q, p, org, a) => UNCHANGED <<pc, sent, charge>>
    BY DEF RefundCalls
  <2>3. \A call \in refundCalls : RefundSettles(call) => UNCHANGED <<pc, sent, charge>>
    BY DEF RefundSettles
  <2>4. \A q \in RefundRequests : RefundThrows(q) => UNCHANGED <<pc, sent, charge>>
    BY DEF RefundThrows
  <2> QED
    BY <1>2, <1>3, <2>1, <2>2, <2>3, <2>4 DEF RefundStep
<1>4. CASE ProviderStep /\ UNCHANGED serviceVars
  <2>1. ASSUME UNCHANGED <<pc, sent>>, NEW c \in CreateRequests, charge[c] # "none",
               \A d \in CreateRequests \ {c} : charge'[d] = charge[d]
        PROVE  FreshInv'
    BY <2>1
  <2>2. ASSUME NEW r \in CreateRequests, ProviderCharge(r) PROVE FreshInv'
    <3>1. /\ r \in sent /\ sent' = sent \ {r} /\ pc' = pc
          /\ \A d \in CreateRequests \ {r} : charge'[d] = charge[d]
      BY <1>4, <2>2 DEF ProviderCharge, ChargeBecomes, serviceVars
    <3> QED
      BY <3>1
  <2>3. ASSUME NEW c \in CreateRequests, ProviderMoves(c) PROVE FreshInv'
    BY <1>4, <2>1, <2>3 DEF ProviderMoves, ChargeBecomes, serviceVars
  <2>4. ASSUME NEW call \in refundCalls, ProviderRefunds(call) PROVE FreshInv'
    <3>1. PICK c \in CreateRequests : c = call.charge
      BY DEF RefundCall
    <3>2. /\ charge[c] # "none" /\ UNCHANGED <<pc, sent>>
          /\ \A d \in CreateRequests \ {c} : charge'[d] = charge[d]
      BY <1>4, <2>4, <3>1 DEF ProviderRefunds, ChargeBecomes, serviceVars
    <3> QED
      BY <2>1, <3>2
  <2>5. ASSUME NEW call \in refundCalls, ProviderAnswersRefund(call) PROVE FreshInv'
    BY <1>2, <1>4, <2>5 DEF ProviderAnswersRefund, serviceVars
  <2> QED
    BY <1>4, <2>2, <2>3, <2>4, <2>5 DEF ProviderStep
<1>5. CASE ServiceCrash
  <2>1. \A r \in CreateRequests : pc'[r] \in Early => pc'[r] = pc[r]
    BY <1>5 DEF ServiceCrash, Early
  <2> QED
    BY <1>5, <2>1 DEF ServiceCrash
<1>6. CASE UNCHANGED paymentVars
  BY <1>2, <1>6 DEF paymentVars, serviceVars
<1> QED
  BY <1>1, <1>3, <1>4, <1>5, <1>6 DEF PaymentNext, ServiceStep

\* Amounts given back grow up to the amount of the charge, which is then refunded.
LEMMA ProviderKeepsBack ==
  ASSUME CoreInv, BackInv, FreshInv, ProviderStep, UNCHANGED serviceVars
  PROVE  BackInv' /\ BooksGrow /\ UNCHANGED <<rows, status>>
<1> USE DEF BackInv, GaveBack
<1>1. UNCHANGED <<storeVars, refundCalls>>
  BY ProviderGrows DEF CoreInv
<1>2. /\ UNCHANGED <<body, rows, status, externalId, rpc, refundRows>>
      /\ refunded \in [CreateRequests -> Nat] /\ refundReply \in [RefundRequests -> RefundReply]
      /\ charge \in [CreateRequests -> ChargeStatus \cup {"none"}]
      /\ history \in [CreateRequests -> SUBSET ChargeStatus]
  BY <1>1 DEF storeVars, serviceVars, CoreInv, PaymentTypeOK, ProviderTypeOK
<1>3. \A c \in CreateRequests : body[c].amount \in Nat /\ body[c].amount > 0
  BY StoreAssumption DEF CoreInv, PaymentTypeOK, StoreTypeOK, Body
<1>4. \A call \in refundCalls : /\ call.request \in RefundRequests
                                /\ call.charge \in CreateRequests /\ call.amount \in Nat
  BY ProviderAssumption DEF CoreInv, PaymentTypeOK, ProviderTypeOK, RefundCall
<1>5. ASSUME NEW r \in CreateRequests, ProviderCharge(r) PROVE BackInv' /\ BooksGrow
  <2>1. /\ UNCHANGED <<refunded, refundReply>> /\ charge[r] = "none"
        /\ \/ UNCHANGED <<charge, history>>
           \/ \E s \in {"pending", "authorized", "captured", "failed"} :
                ChargeBecomes(r, s)
    BY <1>5 DEF ProviderCharge, FreshInv
  <2>2. CASE UNCHANGED <<charge, history>>
    BY <1>1, <1>2, <2>1, <2>2 DEF BooksGrow
  <2>3. ASSUME NEW s \in {"pending", "authorized", "captured", "failed"}, ChargeBecomes(r, s)
        PROVE  BackInv' /\ BooksGrow
    BY <1>1, <1>2, <2>1, <2>3 DEF BooksGrow, ChargeBecomes
  <2> QED
    BY <2>1, <2>2, <2>3
<1>6. ASSUME NEW c \in CreateRequests, ProviderMoves(c) PROVE BackInv' /\ BooksGrow
  <2>1. PICK s \in CHARGE_MOVES[charge[c]] :
          /\ ChargeBecomes(c, s)
          /\ refunded' = IF s = "refunded"
                         THEN [refunded EXCEPT ![c] = body[c].amount] ELSE refunded
    BY <1>6 DEF ProviderMoves
  <2>2. charge[c] # "refunded" /\ refundReply' = refundReply
    BY <1>2, <1>6, <2>1 DEF ProviderMoves, CHARGE_MOVES, ChargeStatus
  <2>3. CASE s = "refunded"
    BY <1>1, <1>2, <1>3, <1>4, <2>1, <2>2, <2>3 DEF BooksGrow, ChargeBecomes
  <2>4. CASE s # "refunded"
    BY <1>1, <1>2, <2>1, <2>2, <2>4 DEF BooksGrow, ChargeBecomes
  <2> QED
    BY <2>3, <2>4
<1>7. ASSUME NEW call \in refundCalls, ProviderRefunds(call) PROVE BackInv' /\ BooksGrow
  <2> DEFINE left == body[call.charge].amount - refunded[call.charge]
             paid == IF call.amount = 0 THEN left ELSE call.amount
  <2>1. PICK c \in CreateRequests : c = call.charge
    BY <1>4
  <2>3. /\ charge[c] = "captured" /\ paid <= left
        /\ refunded' = [refunded EXCEPT ![c] = @ + paid]
        /\ UNCHANGED refundReply
        /\ \/ paid = left /\ ChargeBecomes(c, "refunded")
           \/ paid # left /\ UNCHANGED <<charge, history>>
    BY <1>7, <2>1 DEF ProviderRefunds
  <2>4. /\ refunded[c] \in Nat /\ body[c].amount \in Nat /\ call.amount \in Nat
        /\ left \in Nat /\ left > 0
    BY <1>2, <1>3, <1>4, <2>1, <2>3
  <2>5. paid \in Nat /\ paid > 0
    <3> HIDE DEF left
    <3>1. CASE call.amount = 0
      BY <2>4, <3>1
    <3>2. CASE call.amount # 0
      BY <2>4, <3>2
    <3> QED
      BY <3>1, <3>2
  <2> HIDE DEF paid
  <2>6. /\ refunded'[c] > 0 /\ refunded'[c] \in Nat
        /\ paid # left => refunded'[c] < body[c].amount
        /\ \A d \in CreateRequests \ {c} : refunded'[d] = refunded[d]
    BY <1>2, <2>1, <2>3, <2>4, <2>5
  <2>7. BooksGrow
    BY <1>1, <1>2, <2>3, <2>6 DEF BooksGrow
  <2>8. \A d \in CreateRequests :
          /\ charge'[d] # "refunded" => refunded'[d] < body'[d].amount
          /\ "refunded" \in history'[d] => refunded'[d] > 0
    BY <1>2, <2>3, <2>6 DEF ChargeBecomes
  <2> QED
    BY <1>1, <1>2, <2>7, <2>8
<1>8. ASSUME NEW call \in refundCalls, ProviderAnswersRefund(call)
      PROVE  BackInv' /\ BooksGrow
  <2>1. PICK q \in RefundRequests : q = call.request
    BY <1>4
  <2>2. /\ refundReply[q] = "none" /\ UNCHANGED <<charge, history, refunded>>
        /\ \E s \in {"returned", "refused"} : refundReply' = [refundReply EXCEPT ![q] = s]
    BY <1>8, <2>1 DEF ProviderAnswersRefund
  <2> QED
    BY <1>1, <1>2, <1>4, <2>1, <2>2 DEF BooksGrow, storeVars
<1> QED
  BY <1>2, <1>5, <1>6, <1>7, <1>8 DEF ProviderStep

LEMMA StepKeepsBooks ==
  ASSUME CoreInv, CoreInv', FreshInv, BooksInv, [PaymentNext]_paymentVars
  PROVE  BooksInv'
<1>1. PaymentTypeOK /\ PaymentTypeOK'
  BY DEF CoreInv
<1>2. CASE ProviderStep /\ UNCHANGED serviceVars
  <2>1. BackInv' /\ BooksGrow /\ UNCHANGED <<rows, status>>
    BY <1>2, ProviderKeepsBack DEF BooksInv
  <2> QED
    BY <1>1, <2>1, BooksKept DEF BooksInv
<1>3. CASE ServiceCrash
  <2>1. UNCHANGED <<storeVars, providerVars>>
        /\ \A q \in RefundRequests : rpc'[q] = "idle" => rpc[q] = "idle"
    BY <1>3, <1>1 DEF ServiceCrash, PaymentTypeOK, ServiceTypeOK
  <2>2. \A call \in refundCalls : call.request \in RefundRequests
    BY <1>1 DEF PaymentTypeOK, ProviderTypeOK, RefundCall
  <2> QED
    BY <2>1, <2>2 DEF BooksInv, BackInv, GaveBack, RefundAccountedFor, storeVars, providerVars
<1>4. CASE UNCHANGED paymentVars
  BY <1>4 DEF BooksInv, BackInv, GaveBack, RefundAccountedFor, paymentVars, storeVars,
              providerVars, serviceVars
<1> QED
  BY <1>1, <1>2, <1>3, <1>4, CreateKeepsBooks, RefundKeepsBooks DEF PaymentNext, ServiceStep

LEMMA InitBooks == PaymentInit => FreshInv /\ BooksInv
<1> SUFFICES ASSUME PaymentInit PROVE FreshInv /\ BooksInv
  OBVIOUS
<1>1. FreshInv
  BY DEF PaymentInit, ProviderInit, FreshInv
<1>2. \A c \in CreateRequests : body[c].amount \in Nat /\ body[c].amount > 0
  BY StoreAssumption, InitTyped DEF PaymentTypeOK, StoreTypeOK, Body
<1>3. BackInv
  BY <1>2 DEF PaymentInit, ProviderInit, ServiceInit, BackInv, GaveBack
<1> QED
  BY <1>1, <1>3 DEF BooksInv, RefundAccountedFor, PaymentInit, StoreInit

\* A row says refunded only if money went back on its charge or a Refund row of a call that
\* the provider took on stands for it, for any number of payments, refunds and crashes.
THEOREM RefundsAreAccountedFor == PaymentSpec => []RefundAccountedFor
<1>1. CoreInv /\ CoreInv' /\ FreshInv /\ BooksInv /\ [PaymentNext]_paymentVars
        => FreshInv' /\ BooksInv'
  BY StepKeepsFresh, StepKeepsBooks DEF CoreInv
<1>2. BooksInv => RefundAccountedFor
  BY DEF BooksInv
<1> QED
  BY <1>1, <1>2, InitBooks, CoreHolds, PTL DEF PaymentSpec

-----------------------------------------------------------------------------
\* The state machine.  Two writers that read a row before either writes may take it off the
\* table of transitions; one writer after create() never does.
Follows == \A p \in rows : ValidTransition(status[p], status'[p])

\* create() writes over PENDING only, and to no row that has a charge.
LEMMA CreateFollows ==
  ASSUME CoreInv, NEW r \in CreateRequests, CreateStep(r)
  PROVE  Follows /\ \A p \in CreateRequests : externalId[p] # Null => status'[p] = status[p]
<1> USE DEF CoreInv, PaymentTypeOK, StoreTypeOK
<1>1. CASE UNCHANGED storeVars
  BY <1>1 DEF storeVars, Follows, ValidTransition
<1>2. CASE CreateInserts(r)
  <2>1. r \notin rows /\ externalId[r] = Null
    BY <1>2 DEF CreateInserts, SameKeyRows, LinkInv
  <2>2. \A p \in CreateRequests \ {r} : status'[p] = status[p]
    BY <1>2 DEF CreateInserts, RecordStatus
  <2> QED
    BY <2>1, <2>2 DEF Follows, ValidTransition
<1>3. ASSUME NEW s \in {"PENDING"} \cup VALID_TRANSITIONS["PENDING"],
             pc[r] \in {"await", "catch"}, status' = status \/ status' = [status EXCEPT ![r] = s]
      PROVE  Follows /\ \A p \in CreateRequests : externalId[p] # Null => status'[p] = status[p]
  <2>1. status[r] = "PENDING" /\ externalId[r] = Null
    BY <1>3 DEF SettleInv, LinkInv
  <2>2. ValidTransition("PENDING", s) /\ \A o : ValidTransition(o, o)
    BY DEF ValidTransition
  <2> QED
    BY <1>3, <2>1, <2>2 DEF Follows
<1>4. CASE CreateSettles(r)
  <2>1. PICK s \in {"PENDING"} \cup VALID_TRANSITIONS["PENDING"] :
          s = MapProviderStatus(replyStatus[r])
    <3>1. replyStatus[r] \in ChargeStatus
      BY DEF ProviderTypeOK
    <3>2. \A s \in ChargeStatus : MapProviderStatus(s)
              \in {"PENDING", "AUTHORIZED", "CAPTURED", "FAILED", "CANCELLED"}
      BY DEF MapProviderStatus, STATUS_MAP, ChargeStatus
    <3> QED
      BY <3>1, <3>2 DEF VALID_TRANSITIONS
  <2>2. pc[r] = "await" /\ status' = [status EXCEPT ![r] = s]
    BY <1>4, <2>1 DEF CreateSettles, RecordStatus
  <2> QED
    BY <1>3, <2>2
<1>5. CASE CreateCatches(r)
  <2>1. "FAILED" \in VALID_TRANSITIONS["PENDING"]
    BY DEF VALID_TRANSITIONS
  <2> QED
    BY <1>3, <1>5, <2>1 DEF CreateCatches
<1> QED
  BY <1>1, <1>2, <1>4, <1>5, CreateWrites

\* No way of the table leads back to PENDING.
LEMMA NoWayBack ==
  \A from, to \in PaymentStatus : to = "PENDING" /\ ValidTransition(from, to) => from = "PENDING"
  BY DEF PaymentStatus, ValidTransition, VALID_TRANSITIONS

StaysDecided == \A p \in rows : status[p] # "PENDING" => status'[p] # "PENDING"

LEMMA StepStaysDecided ==
  ASSUME CoreInv, [PaymentNext]_paymentVars PROVE StaysDecided
<1> USE DEF CoreInv, PaymentTypeOK, StoreTypeOK
<1>1. CASE UNCHANGED status
  BY <1>1 DEF StaysDecided
<1>2. ASSUME NEW r \in CreateRequests, CreateStep(r) PROVE StaysDecided
  <2>1. Follows /\ StoreTypeOK'
    BY <1>2, CreateFollows, CreateTyped DEF PaymentTypeOK
  <2> QED
    BY <2>1, NoWayBack DEF Follows, StaysDecided
<1>3. CASE RefundStep
  <2>1. CASE UNCHANGED storeVars
    BY <1>1, <2>1 DEF storeVars
  <2>2. ASSUME NEW call \in refundCalls, RefundSettles(call) PROVE StaysDecided
    <3>1. /\ RefundStatus(call) # "PENDING"
          /\ status' = [status EXCEPT ![call.payment] = RefundStatus(call)]
      BY <2>2 DEF RefundSettles, RecordStatus, RefundStatus
    <3> QED
      BY <3>1 DEF StaysDecided
  <2> QED
    BY <1>3, <2>1, <2>2, RefundWrites
<1>4. CASE ProviderStep
  BY <1>1, <1>4, ProviderGrows DEF storeVars
<1>5. CASE ServiceCrash \/ UNCHANGED paymentVars
  BY <1>1, <1>5 DEF ServiceCrash, paymentVars, storeVars
<1> QED
  BY <1>2, <1>3, <1>4, <1>5 DEF PaymentNext, ServiceStep

\* create() and refund() never make a decided row PENDING again, in whatever order their
\* answers are written.
THEOREM DecidedStays == PaymentSpec => DecidedForGood
<1>1. CoreInv /\ [PaymentNext]_paymentVars
        => [\A p \in rows : status[p] # "PENDING" => status'[p] # "PENDING"]_paymentVars
  BY StepStaysDecided DEF StaysDecided
<1> QED
  BY <1>1, CoreHolds, PTL DEF PaymentSpec, DecidedForGood

\* While a refund waits for its answer the row is as refund() read it.
RefundReadInv ==
  \A call \in refundCalls : rpc[call.request] = "await" => status[call.payment] = call.read

LEMMA StepFollows ==
  ASSUME \A q1, q2 \in RefundRequests : q1 = q2,
         CoreInv, BackInv, RefundReadInv, [PaymentNext]_paymentVars
  PROVE  RefundReadInv' /\ Follows
<1> USE DEF CoreInv, PaymentTypeOK
<1>1. \A call \in refundCalls :
        /\ call.request \in RefundRequests /\ call.payment \in CreateRequests
        /\ externalId[call.payment] # Null
  BY StoreAssumption DEF ProviderTypeOK, RefundCall, LinkInv
<1>2. ASSUME UNCHANGED status PROVE Follows
  BY <1>2 DEF Follows, ValidTransition
<1>3. ASSUME UNCHANGED <<status, refundCalls>>,
             \A q \in RefundRequests : rpc'[q] = "await" => rpc[q] = "await"
      PROVE  RefundReadInv' /\ Follows
  BY <1>1, <1>2, <1>3 DEF RefundReadInv
<1>4. ASSUME NEW r \in CreateRequests, CreateStep(r) PROVE RefundReadInv' /\ Follows
  <2>1. Follows /\ \A p \in CreateRequests : externalId[p] # Null => status'[p] = status[p]
    BY <1>4, CreateFollows
  <2>2. UNCHANGED <<refundCalls, rpc>>
    BY <1>4, CreateGrows, Zenon DEF CreateStep, CreateWithoutKey, CreateFindsRow,
       CreateStarts, CreateInserts, CreateInsertThrows, CreateCalls, CreateSettles,
       CreateThrows, CreateCatches, providerVars
  <2> QED
    BY <1>1, <2>1, <2>2 DEF RefundReadInv
<1>5. ASSUME NEW q \in RefundRequests, NEW p \in CreateRequests, NEW org \in Orgs,
             RefundRefused(q, p, org)
      PROVE  RefundReadInv' /\ Follows
  BY <1>3, <1>5 DEF RefundRefused, storeVars, providerVars, ServiceTypeOK
<1>6. ASSUME NEW q \in RefundRequests, NEW p \in CreateRequests, NEW org \in Orgs,
             NEW a \in RefundAmounts, RefundCalls(q, p, org, a)
      PROVE  RefundReadInv' /\ Follows
  <2>1. refundCalls = {}
    BY <1>1, <1>6 DEF RefundCalls, BackInv
  <2>2. /\ UNCHANGED status
        /\ refundCalls' = {[ request |-> q, payment |-> p, charge |-> externalId[p],
                             amount |-> a, read |-> status[p] ]}
    BY <1>6, <2>1 DEF RefundCalls, storeVars
  <2> QED
    BY <1>2, <2>2 DEF RefundReadInv
<1>7. ASSUME NEW call \in refundCalls, RefundSettles(call) PROVE RefundReadInv' /\ Follows
  <2>1. PICK q \in RefundRequests, p \in CreateRequests : q = call.request /\ p = call.payment
    BY <1>1
  <2>2. /\ status[p] = call.read /\ ValidTransition(call.read, RefundStatus(call))
        /\ status' = [status EXCEPT ![p] = RefundStatus(call)]
        /\ rpc' = [rpc EXCEPT ![q] = "answered"] /\ refundCalls' = refundCalls
    BY <1>7, <2>1 DEF RefundSettles, RecordStatus, RefundReadInv, providerVars
  <2>3. \A other \in refundCalls : rpc'[other.request] # "await"
    BY <1>1, <2>1, <2>2 DEF ServiceTypeOK
  <2>4. \A o \in CreateRequests : status'[o] = IF o = p THEN RefundStatus(call) ELSE status[o]
    BY <2>2 DEF StoreTypeOK
  <2>5. ValidTransition(status[p], status'[p]) /\ \A o : ValidTransition(o, o)
    BY <2>2, <2>4 DEF ValidTransition
  <2> QED
    BY <2>2, <2>3, <2>4, <2>5 DEF RefundReadInv, Follows, StoreTypeOK
<1>8. ASSUME NEW q \in RefundRequests, RefundThrows(q) PROVE RefundReadInv' /\ Follows
  BY <1>3, <1>8 DEF RefundThrows, storeVars, providerVars, ServiceTypeOK
<1>9. CASE ProviderStep /\ UNCHANGED serviceVars
  <2>1. UNCHANGED <<storeVars, refundCalls>>
    BY <1>9, ProviderGrows
  <2> QED
    BY <1>3, <1>9, <2>1 DEF storeVars, serviceVars
<1>10. CASE ServiceCrash
  BY <1>3, <1>10 DEF ServiceCrash, storeVars, providerVars
<1>11. CASE UNCHANGED paymentVars
  BY <1>3, <1>11 DEF paymentVars, storeVars, providerVars, serviceVars
<1> QED
  BY <1>4, <1>5, <1>6, <1>7, <1>8, <1>9, <1>10, <1>11 DEF PaymentNext, ServiceStep, RefundStep

\* With one refund at most a row only moves along the table, whatever the provider does and
\* however many creations race: it takes two refunds to leave it.
THEOREM SoleRefundFollows ==
  ASSUME \A q1, q2 \in RefundRequests : q1 = q2 PROVE PaymentSpec => FollowsStateMachine
<1>1. PaymentInit => RefundReadInv
  BY DEF PaymentInit, ProviderInit, RefundReadInv
<1>2. CoreInv /\ CoreInv' /\ FreshInv /\ BooksInv /\ [PaymentNext]_paymentVars
        => FreshInv' /\ BooksInv'
  BY StepKeepsFresh, StepKeepsBooks DEF CoreInv
<1>3. CoreInv /\ BooksInv /\ RefundReadInv /\ [PaymentNext]_paymentVars
        => RefundReadInv' /\ Follows
  BY StepFollows DEF BooksInv
<1>4. [PaymentNext]_paymentVars /\ Follows
        => [\A p \in rows : ValidTransition(status[p], status'[p])]_paymentVars
  BY DEF Follows
<1> QED
  BY <1>1, <1>2, <1>3, <1>4, InitBooks, CoreHolds, PTL DEF PaymentSpec, FollowsStateMachine

-----------------------------------------------------------------------------
\* Rows that create() leaves with neither a charge nor a failure.

\* A step of create() on its own row.
LEMMA CreateStrands ==
  ASSUME CoreInv, StrandedOnlyByFailure, NEW r \in CreateRequests, CreateStep(r)
  PROVE  /\ StrandedOnlyByFailure'
         /\ \A p \in CreateRequests : Stranded(p) => Stranded(p)' /\ status'[p] = status[p]
<1> USE DEF CoreInv, PaymentTypeOK, StoreTypeOK, ServiceTypeOK, Stranded
<1> DEFINE Aside(p) == /\ pc'[p] = pc[p] /\ (p \in rows' <=> p \in rows)
                       /\ externalId'[p] = externalId[p] /\ status'[p] = status[p]
                       /\ p \in providerError' <=> p \in providerError
<1>1. ASSUME \A p \in CreateRequests \ {r} : Aside(p), ~ Stranded(r),
             Stranded(r)' => pc'[r] = "lost" \/ (DbMayFail /\ pc'[r] = "failed")
      PROVE  /\ StrandedOnlyByFailure'
             /\ \A p \in CreateRequests : Stranded(p) => Stranded(p)' /\ status'[p] = status[p]
  BY <1>1 DEF StrandedOnlyByFailure
<1>2. pc[r] \in {"idle", "insert", "call", "await", "catch"}
  BY DEF CreateStep, CreateWithoutKey, CreateFindsRow, CreateStarts, CreateInserts,
     CreateInsertThrows, CreateCalls, CreateSettles, CreateThrows, CreateCatches
<1>3. ~ Stranded(r)
  BY <1>2 DEF StrandedOnlyByFailure
<1>4. pc[r] \in {"idle", "insert"} => r \notin rows
  BY <1>3 DEF LinkInv
<1>5. CASE CreateInserts(r)
  <2>1. /\ pc' = [pc EXCEPT ![r] = "call"] /\ rows' = rows \cup {r}
        /\ UNCHANGED <<externalId, providerError>>
        /\ status' = [status EXCEPT ![r] = "PENDING"]
    BY <1>5 DEF CreateInserts, CreateGoes, RecordStatus
  <2> QED
    BY <1>1, <1>3, <2>1
<1>6. CASE CreateSettles(r)
  <2>1. PICK s : /\ pc' = [pc EXCEPT ![r] = "answered"] /\ UNCHANGED <<rows, providerError>>
                 /\ externalId' = [externalId EXCEPT ![r] = replyCharge[r]]
                 /\ replyCharge[r] # Null /\ status' = [status EXCEPT ![r] = s]
    BY <1>6 DEF CreateSettles, CreateAnswers, CreateGoes, RecordStatus
  <2> QED
    BY <1>1, <1>3, <2>1
<1>7. CASE CreateCatches(r)
  <2>1. /\ pc' = [pc EXCEPT ![r] = "failed"] /\ UNCHANGED <<rows, externalId>>
        /\ \/ /\ status' = [status EXCEPT ![r] = "FAILED"]
              /\ providerError' = providerError \cup {r}
           \/ DbMayFail /\ UNCHANGED <<status, providerError>>
    BY <1>7 DEF CreateCatches, CreateGoes
  <2> QED
    BY <1>1, <1>3, <2>1
<1>8. CASE UNCHANGED storeVars
  <2>1. \E there : pc' = [pc EXCEPT ![r] = there]
    BY DEF CreateStep, CreateWithoutKey, CreateFindsRow, CreateStarts, CreateInserts,
       CreateInsertThrows, CreateCalls, CreateSettles, CreateThrows, CreateCatches,
       CreateAnswers, CreateGoes
  <2>2. \A p \in CreateRequests \ {r} : Aside(p)
    BY <1>8, <2>1 DEF storeVars
  <2>3. CASE pc[r] \in {"idle", "insert"}
    BY <1>1, <1>3, <1>4, <1>8, <2>2, <2>3 DEF storeVars
  <2>4. CASE pc[r] \in {"call", "await", "catch"}
    <3>1. CASE CreateCalls(r) \/ CreateThrows(r)
      <4>1. pc'[r] \in {"await", "catch"}
        BY <3>1 DEF CreateCalls, CreateThrows, CreateGoes
      <4> QED
        BY <1>1, <1>3, <2>2, <4>1
    <3>2. CASE CreateSettles(r)
      BY <1>6, <3>2
    <3>3. CASE CreateCatches(r)
      BY <1>7, <3>3
    <3> QED
      BY <2>4, <3>1, <3>2, <3>3 DEF CreateStep, CreateWithoutKey, CreateFindsRow,
         CreateStarts, CreateInserts, CreateInsertThrows
  <2> QED
    BY <1>2, <2>3, <2>4
<1> QED
  BY <1>5, <1>6, <1>7, <1>8, CreateWrites

\* A step of the payments core makes a row stranded only by a failure, and never finds one
\* again.
LEMMA StepStrands ==
  ASSUME CoreInv, StrandedOnlyByFailure, [PaymentNext]_paymentVars
  PROVE  /\ StrandedOnlyByFailure'
         /\ \A p \in CreateRequests : Stranded(p) => Stranded(p)' /\ status'[p] = status[p]
<1> USE DEF CoreInv, PaymentTypeOK, StoreTypeOK, ServiceTypeOK, Stranded
<1>1. ASSUME UNCHANGED <<rows, externalId, providerError, pc>>,
             \A p \in CreateRequests : externalId[p] = Null => status'[p] = status[p]
      PROVE  /\ StrandedOnlyByFailure'
             /\ \A p \in CreateRequests : Stranded(p) => Stranded(p)' /\ status'[p] = status[p]
  BY <1>1 DEF StrandedOnlyByFailure
<1>2. ASSUME NEW call \in refundCalls, RefundSettles(call)
      PROVE  /\ UNCHANGED <<rows, externalId, providerError, pc>>
             /\ \A p \in CreateRequests : externalId[p] = Null => status'[p] = status[p]
  <2>1. externalId[call.payment] # Null
    BY StoreAssumption DEF LinkInv, ProviderTypeOK, RefundCall
  <2> QED
    BY <1>2, <2>1 DEF RefundSettles, RecordStatus
<1>3. CASE RefundStep
  <2>1. UNCHANGED pc
    BY <1>3 DEF RefundStep, RefundRefused, RefundCalls, RefundSettles, RefundThrows
  <2> QED
    BY <1>1, <1>2, <1>3, <2>1, RefundWrites DEF storeVars
<1>4. CASE ProviderStep /\ UNCHANGED serviceVars
  <2>1. UNCHANGED storeVars
    BY <1>4 DEF ProviderStep, ProviderCharge, ProviderMoves, ProviderRefunds,
       ProviderAnswersRefund
  <2> QED
    BY <1>1, <1>4, <2>1 DEF storeVars, serviceVars
<1>5. CASE ServiceCrash
  <2>1. /\ UNCHANGED <<rows, externalId, providerError, status>>
        /\ \A p \in CreateRequests :
             pc'[p] = IF pc[p] \in CreateInFlight THEN "lost" ELSE pc[p]
    BY <1>5 DEF ServiceCrash, storeVars
  <2> QED
    BY <2>1 DEF StrandedOnlyByFailure, CreateInFlight
<1>6. CASE UNCHANGED paymentVars
  BY <1>1, <1>6 DEF paymentVars, storeVars, serviceVars
<1> QED
  BY <1>3, <1>4, <1>5, <1>6, CreateStrands DEF PaymentNext, ServiceStep

\* A row without a link is PENDING or given up: nothing else has grounds.
LEMMA StrandedIsPending ==
  ASSUME CoreInv, NEW p \in CreateRequests, Stranded(p) PROVE status[p] = "PENDING"
  BY DEF Stranded, CoreInv, LedgerNeverAhead, Justified, Grounds, PaymentTypeOK, StoreTypeOK,
     PaymentStatus, Took

LEMMA InitStrands == PaymentInit => StrandedOnlyByFailure
  BY DEF PaymentInit, StoreInit, StrandedOnlyByFailure, Stranded

\* A row is stranded only by a crash or a catch that could not write.
THEOREM OnlyFailuresStrand == PaymentSpec => []StrandedOnlyByFailure
<1>1. CoreInv /\ StrandedOnlyByFailure /\ [PaymentNext]_paymentVars => StrandedOnlyByFailure'
  BY StepStrands
<1> QED
  BY <1>1, InitStrands, CoreHolds, PTL DEF PaymentSpec

-----------------------------------------------------------------------------
\* create() is an idempotent charge.

\* What the refinement needs beyond KeyInv: only an answered request has an answer, and
\* who has a row has arrived.
ClaimInv ==
  /\ \A r \in CreateRequests : pc[r] # "answered" => answer[r] = Null
  /\ \A r \in rows : pc[r] # "idle"

Charged == {c \in CreateRequests : charge[c] # "none"}

\* All that a step of create() does to what the abstraction sees: it moves its own
\* request on, and may claim a key no row has, or answer with the row of its key.
Effect(r) ==
  /\ UNCHANGED <<body, charge>>
  /\ pc' = [pc EXCEPT ![r] = pc'[r]] /\ pc'[r] # "idle"
  /\ \/ pc'[r] # "answered" /\ UNCHANGED <<rows, answer>>
     \/ /\ pc'[r] # "answered" /\ pc[r] = "insert" /\ SameKeyRows(r) = {}
        /\ rows' = rows \cup {r} /\ answer' = answer
     \/ /\ pc'[r] = "answered" /\ pc[r] \in {"idle", "await"} /\ rows' = rows
        /\ \E p \in SameKeyRows(r) : answer' = [answer EXCEPT ![r] = p]

LEMMA CreateEffect ==
  ASSUME PaymentTypeOK, KeyInv, NEW r \in CreateRequests, CreateStep(r)
  PROVE  Effect(r)
<1> USE DEF PaymentTypeOK, StoreTypeOK, ServiceTypeOK, Effect, storeVars, providerVars,
            CreateGoes, CreateAnswers
<1>1. CASE CreateWithoutKey(r)
  BY <1>1 DEF CreateWithoutKey
<1>2. CASE CreateFindsRow(r)
  BY <1>2 DEF CreateFindsRow
<1>3. CASE CreateStarts(r)
  <2>1. /\ pc' = [pc EXCEPT ![r] = "failed"] \/ pc' = [pc EXCEPT ![r] = "insert"]
             \/ pc' = [pc EXCEPT ![r] = "refused"]
        /\ UNCHANGED <<answer, body, rows, charge>>
    BY <1>3 DEF CreateStarts
  <2> QED
    BY <2>1
<1>4. CASE CreateInserts(r)
  BY <1>4 DEF CreateInserts
<1>5. CASE CreateInsertThrows(r)
  BY <1>5 DEF CreateInsertThrows
<1>6. CASE CreateCalls(r)
  BY <1>6 DEF CreateCalls
<1>7. CASE CreateSettles(r)
  <2>1. r \in SameKeyRows(r)
    BY <1>7 DEF CreateSettles, KeyInv, SameKeyRows
  <2> QED
    BY <1>7, <2>1 DEF CreateSettles
<1>8. CASE CreateThrows(r)
  BY <1>8 DEF CreateThrows
<1>9. CASE CreateCatches(r)
  BY <1>9 DEF CreateCatches
<1> QED
  BY <1>1, <1>2, <1>3, <1>4, <1>5, <1>6, <1>7, <1>8, <1>9 DEF CreateStep

\* A step of refund() does nothing to it.
LEMMA RefundEffect ==
  ASSUME RefundStep PROVE UNCHANGED <<body, rows, pc, charge, answer>>
<1> DEFINE same == UNCHANGED <<body, rows, pc, charge, answer>>
<1> USE DEF storeVars, providerVars
<1>1. \A q \in RefundRequests, p \in CreateRequests, org \in Orgs :
        RefundRefused(q, p, org) => same
  BY DEF RefundRefused
<1>2. \A q \in RefundRequests, p \in CreateRequests, org \in Orgs, a \in RefundAmounts :
        RefundCalls(q, p, org, a) => same
  BY DEF RefundCalls
<1>3. \A call \in refundCalls : RefundSettles(call) => same
  BY DEF RefundSettles
<1>4. \A q \in RefundRequests : RefundThrows(q) => same
  BY DEF RefundThrows
<1> QED
  BY <1>1, <1>2, <1>3, <1>4 DEF RefundStep

\* The provider makes at most one charge, for a call it was sent.
LEMMA ProviderEffect ==
  ASSUME PaymentTypeOK, ProviderStep
  PROVE  /\ UNCHANGED <<body, rows>>
         /\ Charged' = Charged \/ \E r \in sent \ Charged : Charged' = Charged \cup {r}
<1> USE DEF PaymentTypeOK, ProviderTypeOK, storeVars, ChargeBecomes, Charged
<1>1. ASSUME NEW r \in CreateRequests, ProviderCharge(r)
      PROVE  /\ UNCHANGED <<body, rows>>
             /\ Charged' = Charged \/ \E d \in sent \ Charged : Charged' = Charged \cup {d}
  <2>1. r \in sent /\ UNCHANGED <<body, rows>>
    BY <1>1 DEF ProviderCharge
  <2>2. \/ charge' = charge
        \/ \E s \in {"pending", "authorized", "captured", "failed"} :
             charge' = [charge EXCEPT ![r] = s]
    BY <1>1 DEF ProviderCharge
  <2>3. CASE charge' = charge
    BY <2>1, <2>3
  <2>4. ASSUME NEW s \in {"pending", "authorized", "captured", "failed"},
               charge' = [charge EXCEPT ![r] = s]
        PROVE  Charged' = Charged \cup {r}
    BY <2>4
  <2> QED
    BY <2>1, <2>2, <2>3, <2>4
<1>2. ASSUME NEW c \in CreateRequests, ProviderMoves(c)
      PROVE  UNCHANGED <<body, rows>> /\ Charged' = Charged
  <2>1. PICK s \in CHARGE_MOVES[charge[c]] : charge' = [charge EXCEPT ![c] = s]
    BY <1>2 DEF ProviderMoves
  <2>2. charge[c] \in ChargeStatus
    BY <1>2 DEF ProviderMoves
  <2>3. s \in ChargeStatus
    BY <2>1, <2>2, StatusTables
  <2>4. s # "none" /\ charge[c] # "none"
    BY <2>3, <1>2 DEF ChargeStatus, ProviderMoves
  <2> QED
    BY <1>2, <2>1, <2>4 DEF ProviderMoves
<1>3. ASSUME NEW call \in refundCalls, ProviderRefunds(call)
      PROVE  UNCHANGED <<body, rows>> /\ Charged' = Charged
  BY <1>3 DEF ProviderRefunds, RefundCall
<1>4. ASSUME NEW call \in refundCalls, ProviderAnswersRefund(call)
      PROVE  UNCHANGED <<body, rows>> /\ Charged' = Charged
  BY <1>4 DEF ProviderAnswersRefund
<1> QED
  BY <1>1, <1>2, <1>3, <1>4 DEF ProviderStep

\* A crash leaves everybody who has arrived arrived, and everybody answered answered.
LEMMA CrashEffect ==
  ASSUME PaymentTypeOK, ServiceCrash
  PROVE  /\ UNCHANGED <<body, rows, charge, answer>>
         /\ \A r \in CreateRequests : /\ pc'[r] = "idle" <=> pc[r] = "idle"
                                      /\ pc'[r] = "answered" <=> pc[r] = "answered"
  BY DEF ServiceCrash, PaymentTypeOK, ServiceTypeOK, storeVars, providerVars, CreateInFlight

-----------------------------------------------------------------------------
LEMMA StepClaims ==
  ASSUME PaymentTypeOK, KeyInv, ClaimInv, [PaymentNext]_paymentVars PROVE ClaimInv'
<1> USE DEF PaymentTypeOK, StoreTypeOK, ServiceTypeOK, ClaimInv
<1>1. ASSUME NEW r \in CreateRequests, CreateStep(r) PROVE ClaimInv'
  <2>1. Effect(r)
    BY <1>1, CreateEffect
  <2>2. \A o \in CreateRequests \ {r} : pc'[o] = pc[o] /\ answer'[o] = answer[o]
    BY <2>1 DEF Effect
  <2>3. pc'[r] # "answered" => answer'[r] = answer[r] /\ pc[r] # "answered"
    BY <2>1, <1>1 DEF Effect, CreateStep, CreateWithoutKey, CreateFindsRow, CreateStarts,
       CreateInserts, CreateInsertThrows, CreateCalls, CreateSettles, CreateThrows,
       CreateCatches
  <2>4. rows' \subseteq rows \cup {r} /\ pc'[r] # "idle"
    BY <2>1 DEF Effect
  <2> QED
    BY <2>2, <2>3, <2>4
<1>2. CASE RefundStep
  BY <1>2, RefundEffect
<1>3. CASE ProviderStep /\ UNCHANGED serviceVars
  BY <1>3, ProviderEffect DEF serviceVars
<1>4. CASE ServiceCrash
  BY <1>4, CrashEffect
<1>5. CASE UNCHANGED paymentVars
  BY <1>5 DEF paymentVars, storeVars, serviceVars
<1> QED
  BY <1>1, <1>2, <1>3, <1>4, <1>5 DEF PaymentNext, ServiceStep

LEMMA ClaimsHold == PaymentSpec => []ClaimInv
<1>1. PaymentInit => ClaimInv
  BY DEF PaymentInit, ServiceInit, StoreInit, ClaimInv
<1>2. PaymentTypeOK /\ KeyInv /\ ClaimInv /\ [PaymentNext]_paymentVars => ClaimInv'
  BY StepClaims
<1> QED
  BY <1>1, <1>2, PaymentTypeCorrect, KeysHold, PTL DEF PaymentSpec

-----------------------------------------------------------------------------
\* The owner of a key is the row that has it, and nobody as long as no row has.
LEMMA OwnerIsRow ==
  ASSUME KeyInv, NEW p \in rows PROVE OwnerOf(OrgKey(p)) = p
<1>1. \E q \in rows : OrgKey(q) = OrgKey(p)
  OBVIOUS
<1>2. \A q \in rows : OrgKey(q) = OrgKey(p) => q = p
  BY DEF KeyInv
<1> QED
  BY <1>1, <1>2 DEF OwnerOf

LEMMA NoRowNoOwner ==
  ASSUME NEW a, \A p \in rows : OrgKey(p) # a PROVE OwnerOf(a) = Null
  BY DEF OwnerOf

LEMMA KeyIsAccount ==
  ASSUME PaymentTypeOK, NEW r \in CreateRequests
  PROVE  OrgKey(r) \in Accounts /\ OrgKey(r) # Null
<1>1. body[r] \in Bodies
  BY DEF PaymentTypeOK, StoreTypeOK
<1> QED
  BY <1>1, StoreAssumption DEF Accounts, OrgKey

\* Owners stay as long as the rows do.
LEMMA OwnersStay ==
  ASSUME UNCHANGED <<body, rows>>, NEW a PROVE OwnerOf(a)' = OwnerOf(a)
  BY DEF OwnerOf, OrgKey

\* Who inserts a row owns its key from then on, and nobody else's changes hands.
LEMMA OwnersClaimed ==
  ASSUME PaymentTypeOK, KeyInv, NEW r \in CreateRequests, SameKeyRows(r) = {},
         body' = body, rows' = rows \cup {r}, NEW a
  PROVE  OwnerOf(a)' = IF a = OrgKey(r) THEN r ELSE OwnerOf(a)
<1>1. \A p : OrgKey(p)' = OrgKey(p)
  BY DEF OrgKey
<1>2. \A p \in rows : OrgKey(p) # OrgKey(r)
  BY DEF SameKeyRows
<1>3. CASE a = OrgKey(r)
  <2>1. r \in rows' /\ \A p \in rows' : OrgKey(p)' = a <=> p = r
    BY <1>1, <1>2, <1>3
  <2> QED
    BY <1>3, <2>1 DEF OwnerOf
<1>4. ASSUME a # OrgKey(r), NEW q \in rows, OrgKey(q) = a
      PROVE  OwnerOf(a)' = OwnerOf(a)
  <2>1. \A p \in rows : OrgKey(p) = a <=> p = q
    BY <1>4 DEF KeyInv
  <2>2. q \in rows' /\ \A p \in rows' : OrgKey(p)' = a <=> p = q
    BY <1>1, <1>4, <2>1
  <2>3. OwnerOf(a) = q
    BY <2>1 DEF OwnerOf
  <2>4. OwnerOf(a)' = q
    BY <2>2 DEF OwnerOf
  <2> QED
    BY <2>3, <2>4
<1>5. ASSUME a # OrgKey(r), \A q \in rows : OrgKey(q) # a
      PROVE  OwnerOf(a)' = OwnerOf(a)
  <2>1. \A p \in rows' : OrgKey(p)' # a
    BY <1>1, <1>5
  <2> QED
    BY <1>5, <2>1 DEF OwnerOf
<1> QED
  BY <1>3, <1>4, <1>5

-----------------------------------------------------------------------------
\* create() alone.

LEMMA InitImplements == PaymentInit => Idempotent!Init
<1> SUFFICES ASSUME PaymentInit PROVE Idempotent!Init
  OBVIOUS
<1>1. /\ rows = {} /\ answer = [r \in CreateRequests |-> Null]
      /\ \A r \in CreateRequests : pc[r] = "idle" /\ charge[r] = "none"
  BY DEF PaymentInit, StoreInit, ProviderInit, ServiceInit
<1>2. \A a : OwnerOf(a) = Null
  BY <1>1, NoRowNoOwner
<1> QED
  BY <1>1, <1>2 DEF Idempotent!Init

LEMMA AskIsNext ==
  ASSUME NEW r \in CreateRequests, NEW a \in Accounts, Idempotent!Ask(r, a)
  PROVE  Idempotent!Next
<1>1. \E b \in Accounts : Idempotent!Ask(r, b)
  OBVIOUS
<1> QED
  BY <1>1 DEF Idempotent!Next

\* A step of create() asks, claims or tells.
LEMMA CreateImplements ==
  ASSUME PaymentTypeOK, KeyInv, ClaimInv, NEW r \in CreateRequests, CreateStep(r),
         NEW k \in Accounts, k = OrgKey(r), k # Null
  PROVE  [Idempotent!Next]_(Idempotent!abstractVars)
<1> DEFINE want(o)  == IF pc[o] = "idle" THEN Null ELSE OrgKey(o)
           wants    == [o \in CreateRequests |-> want(o)]
           owners   == [a \in Accounts |-> OwnerOf(a)]
<1>1. Effect(r)
  BY CreateEffect
<1>2. Charged' = Charged /\ \A o : OrgKey(o)' = OrgKey(o)
  BY <1>1 DEF Effect, Charged, OrgKey
<1>3. /\ pc[r] = "idle" => wants[r] = Null /\ wants' = [wants EXCEPT ![r] = k]
      /\ pc[r] # "idle" => wants[r] = k /\ wants' = wants
  BY <1>1, <1>2 DEF Effect, PaymentTypeOK, ServiceTypeOK
<1>4. CASE pc'[r] # "answered" /\ UNCHANGED <<rows, answer>>
  <2>1. owners' = owners
    BY <1>1, <1>4, OwnersStay DEF Effect
  <2>2. CASE pc[r] = "idle"
    <3>1. Idempotent!Ask(r, k)
      BY <1>2, <1>3, <1>4, <2>1, <2>2 DEF Idempotent!Ask, Charged
    <3> QED
      BY <3>1, AskIsNext
  <2>3. CASE pc[r] # "idle"
    BY <1>2, <1>3, <1>4, <2>1, <2>3 DEF Idempotent!abstractVars, Charged
  <2> QED
    BY <2>2, <2>3
<1>5. CASE /\ pc[r] = "insert" /\ SameKeyRows(r) = {}
           /\ rows' = rows \cup {r} /\ answer' = answer
  <2>1. \A a : OwnerOf(a)' = IF a = k THEN r ELSE OwnerOf(a)
    BY <1>1, <1>5, OwnersClaimed DEF Effect
  <2>2. OwnerOf(k) = Null
    BY <1>5, NoRowNoOwner DEF SameKeyRows
  <2>3. owners' = [owners EXCEPT ![k] = r] /\ owners[k] = Null
    BY <2>1, <2>2
  <2>4. Idempotent!Claim(r)
    BY <1>2, <1>3, <1>5, <2>3 DEF Idempotent!Claim, Charged
  <2> QED
    BY <2>4 DEF Idempotent!Next
<1>6. ASSUME pc[r] \in {"idle", "await"}, rows' = rows,
             NEW p \in SameKeyRows(r), answer' = [answer EXCEPT ![r] = p]
      PROVE  [Idempotent!Next]_(Idempotent!abstractVars)
  <2>1. owners' = owners
    BY <1>1, <1>6, OwnersStay DEF Effect
  <2>2. owners[k] = p
    BY OwnerIsRow DEF SameKeyRows
  <2>3. CASE pc[r] = "idle"
    <3>1. Idempotent!Ask(r, k)
      BY <1>2, <1>3, <1>6, <2>1, <2>2, <2>3 DEF Idempotent!Ask, Charged
    <3> QED
      BY <3>1, AskIsNext
  <2>4. CASE pc[r] = "await"
    <3>1. answer[r] = Null
      BY <2>4 DEF ClaimInv
    <3>2. Idempotent!Tell(r)
      BY <1>2, <1>3, <1>6, <2>1, <2>2, <2>4, <3>1 DEF Idempotent!Tell, Charged
    <3> QED
      BY <3>2 DEF Idempotent!Next
  <2> QED
    BY <1>6, <2>3, <2>4
<1> QED
  BY <1>1, <1>4, <1>5, <1>6 DEF Effect

LEMMA StepImplements ==
  ASSUME PaymentTypeOK, KeyInv, ClaimInv, [PaymentNext]_paymentVars
  PROVE  [Idempotent!Next]_(Idempotent!abstractVars)
<1> DEFINE owners == [a \in Accounts |-> OwnerOf(a)]
           wants  == [o \in CreateRequests |->
                        IF pc[o] = "idle" THEN Null ELSE OrgKey(o)]
<1>1. ASSUME NEW r \in CreateRequests, CreateStep(r)
      PROVE  [Idempotent!Next]_(Idempotent!abstractVars)
  <2>1. PICK k \in Accounts : k = OrgKey(r) /\ k # Null
    BY KeyIsAccount
  <2> QED
    BY <1>1, <2>1, CreateImplements
<1>2. ASSUME UNCHANGED <<body, rows, answer>>, Charged' = Charged,
             \A r \in CreateRequests : pc'[r] = "idle" <=> pc[r] = "idle"
      PROVE  UNCHANGED Idempotent!abstractVars
  <2>1. owners' = owners
    BY <1>2, OwnersStay
  <2>2. wants' = wants
    BY <1>2 DEF OrgKey
  <2> QED
    BY <1>2, <2>1, <2>2 DEF Idempotent!abstractVars, Charged
<1>3. CASE RefundStep
  BY <1>2, <1>3, RefundEffect DEF Charged
<1>4. CASE ProviderStep /\ UNCHANGED serviceVars
  <2>1. /\ UNCHANGED <<body, rows, pc, answer>>
        /\ Charged' = Charged \/ \E r \in sent \ Charged : Charged' = Charged \cup {r}
    BY <1>4, ProviderEffect DEF serviceVars
  <2>2. CASE Charged' = Charged
    BY <1>2, <2>1, <2>2
  <2>3. ASSUME NEW r \in sent \ Charged, Charged' = Charged \cup {r}
        PROVE  Idempotent!Next
    <3>1. r \in rows /\ r \in CreateRequests /\ pc[r] # "idle"
      BY DEF KeyInv, ClaimInv, PaymentTypeOK, StoreTypeOK
    <3>2. PICK k \in Accounts : k = OrgKey(r) /\ k # Null
      BY <3>1, KeyIsAccount
    <3>3. wants[r] = k /\ owners[k] = r
      BY <3>1, <3>2, OwnerIsRow
    <3>4. owners' = owners /\ wants' = wants
      BY <2>1, OwnersStay DEF OrgKey
    <3>5. Idempotent!Charge(r)
      BY <2>1, <2>3, <3>1, <3>2, <3>3, <3>4 DEF Idempotent!Charge, Charged
    <3> QED
      BY <3>1, <3>5 DEF Idempotent!Next
  <2> QED
    BY <2>1, <2>2, <2>3
<1>5. CASE ServiceCrash
  BY <1>2, <1>5, CrashEffect DEF Charged
<1>6. CASE UNCHANGED paymentVars
  BY <1>2, <1>6 DEF paymentVars, storeVars, providerVars, serviceVars, Charged
<1> QED
  BY <1>1, <1>3, <1>4, <1>5, <1>6 DEF PaymentNext, ServiceStep

\* Every behaviour of create(), refund() and a provider, with any number of requests and
\* crashes, is one of the abstract idempotent charge: PaymentsService.create promises
\* what IdempotentCharge says.
THEOREM CreateIsIdempotent == PaymentSpec => ImplementsIdempotentCharge
<1>1. PaymentTypeOK /\ KeyInv /\ ClaimInv /\ [PaymentNext]_paymentVars
        => [Idempotent!Next]_(Idempotent!abstractVars)
  BY StepImplements
<1> QED
  BY <1>1, InitImplements, PaymentTypeCorrect, KeysHold, ClaimsHold, PTL
     DEF PaymentSpec, ImplementsIdempotentCharge, Idempotent!Spec
=============================================================================

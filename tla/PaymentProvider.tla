-------------------------- MODULE PaymentProvider --------------------------
(***************************************************************************)
(* An external payment provider behind its adapter: it acts on the calls   *)
(* on the wire whenever it likes (also after the caller gave up), moves    *)
(* its charges forward on its own, and never reports a status a charge has *)
(* not had.                                                                *)
(***************************************************************************)
EXTENDS PaymentStore

CONSTANTS RefundAmounts,   \* body.amountMinor of a refund, 0 when it is absent
          ProviderDedups   \* the provider honours the idempotency key it is sent

ASSUME ProviderAssumption ==
  /\ RefundAmounts \subseteq Nat
  /\ ProviderDedups \in BOOLEAN

VARIABLES
  charge,      \* the charges and their status, "none" when there is no such charge
  history,     \* every status a charge has had
  sent,        \* createCharge calls the provider has not acted on
  replyCharge, \* the charge a createCharge was answered with, Null while it was not
  replyStatus, \* the status in that answer
  refunded,    \* money of a charge given back
  refundCalls, \* refund calls ever sent, with what the caller keeps in its closure
  refundReply, \* the answer to the refund call of a request
  refundsMade  \* the requests whose refund call gave money back

providerVars == <<charge, history, sent, replyCharge, replyStatus, refunded,
                  refundCalls, refundReply, refundsMade>>

RefundCall == [ request : RefundRequests, payment : CreateRequests,
                charge : CreateRequests, amount : RefundAmounts,
                read : PaymentStatus ]  \* the row's status when it was read

\* "returned": provider.refund resolved, with one of pending, succeeded and failed. None
\* of the three says whether money moves: every adapter has a default of its own for the
\* words it does not look at, a pending refund may still fail, and refund() reads none.
\* "refused": it threw, as the API did not accept the refund.
RefundReply == {"none", "returned", "refused"}

CHARGE_MOVES ==
  [ pending    |-> {"authorized", "captured", "failed", "cancelled"},
    authorized |-> {"captured", "failed", "cancelled"},
    captured   |-> {"refunded"},
    failed     |-> {"captured"},   \* the payer retries with another card
    cancelled  |-> {},
    refunded   |-> {} ]

\* A status that implies the money was taken at some time.
Took == {"captured", "refunded"}

\* Mutant of Reported: a refund is reported when it was only asked for.
ReportedOnceAsked(c) ==
  history[c] \cup {"pending"}
    \cup (IF \E call \in refundCalls : call.charge = c THEN {"refunded"} ELSE {})

\* What the event tables of the adapters may make of a webhook about charge c: a
\* status it has had, "refunded" for any refund of it, also a partial one, and
\* "pending" for every event they have no entry for.
Reported(c) ==
  history[c] \cup {"pending"} \cup (IF refunded[c] > 0 THEN {"refunded"} ELSE {})

ProviderInit ==
  /\ charge = [c \in CreateRequests |-> "none"]
  /\ history = [c \in CreateRequests |-> {}]
  /\ sent = {}
  /\ replyCharge = [r \in CreateRequests |-> Null]
  /\ replyStatus = [r \in CreateRequests |-> "pending"]
  /\ refunded = [c \in CreateRequests |-> 0]
  /\ refundCalls = {}
  /\ refundReply = [q \in RefundRequests |-> "none"]
  /\ refundsMade = {}

ChargeBecomes(c, s) ==
  /\ charge'  = [charge EXCEPT ![c] = s]
  /\ history' = [history EXCEPT ![c] = @ \cup {s}]

\* Charges made with the idempotency key of request r. Keys reach the provider
\* without the organization, so they may belong to another one.
ChargesWithKeyOf(r) ==
  {c \in CreateRequests : charge[c] # "none" /\ body[c].key = body[r].key}

\* The provider acts on a createCharge call: an earlier charge with that key, or a new one.
ProviderCharge(r) ==
  /\ r \in sent
  /\ sent' = sent \ {r}
  /\ \/ /\ ProviderDedups
        /\ \E c \in ChargesWithKeyOf(r) :
             /\ replyCharge' = [replyCharge EXCEPT ![r] = c]
             /\ replyStatus' = [replyStatus EXCEPT ![r] = charge[c]]
        /\ UNCHANGED <<charge, history>>
     \/ /\ ~ ProviderDedups \/ ChargesWithKeyOf(r) = {}
        /\ \E s \in {"pending", "authorized", "captured", "failed"} :
             /\ ChargeBecomes(r, s)
             /\ replyCharge' = [replyCharge EXCEPT ![r] = r]
             /\ replyStatus' = [replyStatus EXCEPT ![r] = s]
  /\ UNCHANGED <<storeVars, refunded, refundCalls, refundReply, refundsMade>>

\* A charge moves on at the provider: the payer confirms, a capture settles, a
\* voucher expires, somebody refunds it in the provider's own dashboard.
ProviderMoves(c) ==
  /\ charge[c] # "none"
  /\ \E s \in CHARGE_MOVES[charge[c]] :
       /\ ChargeBecomes(c, s)
       /\ refunded' = IF s = "refunded"
                      THEN [refunded EXCEPT ![c] = body[c].amount] ELSE refunded
  /\ UNCHANGED <<storeVars, sent, replyCharge, replyStatus, refundCalls, refundReply,
                 refundsMade>>

\* The provider gives money back: the amount asked for, or what is left of the charge;
\* before its answer, after it, or never.
ProviderRefunds(call) ==
  LET left   == body[call.charge].amount - refunded[call.charge]
      amount == IF call.amount = 0 THEN left ELSE call.amount
  IN /\ call.request \notin refundsMade /\ refundReply[call.request] # "refused"
     /\ charge[call.charge] = "captured"
     /\ amount <= left
     /\ refundsMade' = refundsMade \cup {call.request}
     /\ refunded' = [refunded EXCEPT ![call.charge] = @ + amount]
     /\ IF amount = left THEN ChargeBecomes(call.charge, "refunded")
                         ELSE UNCHANGED <<charge, history>>
     /\ UNCHANGED <<storeVars, sent, replyCharge, replyStatus, refundCalls, refundReply>>

\* The call is answered, which moves no money: it is turned away, or taken on.
ProviderAnswersRefund(call) ==
  /\ refundReply[call.request] = "none"
  /\ \E s \in {"returned", "refused"} :
       /\ s = "refused" => call.request \notin refundsMade
       /\ refundReply' = [refundReply EXCEPT ![call.request] = s]
  /\ UNCHANGED <<storeVars, charge, history, sent, replyCharge, replyStatus,
                 refunded, refundCalls, refundsMade>>

ProviderStep ==
  \/ \E r \in CreateRequests : ProviderCharge(r)
  \/ \E c \in CreateRequests : ProviderMoves(c)
  \/ \E call \in refundCalls : ProviderRefunds(call) \/ ProviderAnswersRefund(call)

ProviderTypeOK ==
  /\ charge \in [CreateRequests -> ChargeStatus \cup {"none"}]
  /\ history \in [CreateRequests -> SUBSET ChargeStatus]
  /\ sent \subseteq CreateRequests
  /\ replyCharge \in [CreateRequests -> CreateRequests \cup {Null}]
  /\ replyStatus \in [CreateRequests -> ChargeStatus]
  /\ refunded \in [CreateRequests -> Nat]
  /\ refundCalls \subseteq RefundCall
  /\ refundReply \in [RefundRequests -> RefundReply]
  /\ refundsMade \subseteq RefundRequests
=============================================================================

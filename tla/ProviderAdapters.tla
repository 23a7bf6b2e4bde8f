-------------------------- MODULE ProviderAdapters --------------------------
(***************************************************************************)
(* The adapters: whom they serve, by which name they know a charge in each *)
(* call, and what they make of the provider's words for its state.  Pure   *)
(* operators: no state.  Amounts, bodies and signatures are left out.      *)
(***************************************************************************)
EXTENDS PaymentStateMachine

\* An adapter record: the countries and currencies it lists, the object whose id
\* createCharge() returns as externalId, the object whose id the provider is given by
\* refund() and retrieve(), the object verifyWebhook() names, and the words of a
\* created charge on which createCharge() throws.

StripeAdapter ==
  [ countries  |-> {"US", "GB", "DE", "FR", "ES", "IT", "BR", "MX", "AR"},
    currencies |-> {"USD", "EUR", "GBP", "BRL", "MXN", "ARS"},
    creates |-> "intent", refunds |-> "intent", retrieves |-> "intent",
    notifies |-> "intent", throwsOn |-> {} ]

\* mapIntentStatus
StripeIntentStatus ==
  [ requires_payment_method |-> "pending", requires_confirmation |-> "pending",
    requires_action |-> "pending", processing |-> "pending",
    requires_capture |-> "authorized", canceled |-> "cancelled",
    succeeded |-> "captured" ]

\* mapEventStatus, without the prefixes "payment_intent." and "charge."
StripeEventStatus ==
  [ succeeded |-> "captured", payment_failed |-> "failed", canceled |-> "cancelled",
    amount_capturable_updated |-> "authorized", refunded |-> "refunded" ]

MercadoPagoAdapter ==
  [ countries  |-> {"AR", "BR", "MX", "CO", "CL", "PE", "UY", "BO", "PY"},
    currencies |-> {"ARS", "BRL", "MXN", "COP", "CLP", "PEN", "UYU", "BOB", "PYG"},
    creates |-> "payment", refunds |-> "payment", retrieves |-> "payment",
    notifies |-> "payment", throwsOn |-> {"rejected"} ]

MercadoPagoStatus ==
  [ approved |-> "captured", authorized |-> "authorized", in_process |-> "pending",
    in_mediation |-> "pending", pending |-> "pending", rejected |-> "failed",
    cancelled |-> "cancelled", refunded |-> "refunded", charged_back |-> "refunded",
    opened |-> "pending", waiting_transfer |-> "pending" ]

PagarmeAdapter ==
  [ countries  |-> {"BR"}, currencies |-> {"BRL"},
    creates |-> "charge", refunds |-> "charge", retrieves |-> "charge",
    notifies |-> "charge", throwsOn |-> {} ]

PagarmeStatus ==
  [ paid |-> "captured", authorized |-> "authorized", pending |-> "pending",
    waiting_payment |-> "pending", processing |-> "pending", failed |-> "failed",
    canceled |-> "cancelled", refunded |-> "refunded", chargedback |-> "refunded",
    generated |-> "pending", waiting |-> "pending" ]

\* createCharge() posts an order and returns the id of the charge in it, if there is
\* one; refund() and retrieve() put that id where the API has the id of the order.
ConektaAdapter ==
  [ countries  |-> {"MX"}, currencies |-> {"MXN"},
    creates |-> "charge", refunds |-> "order", retrieves |-> "order",
    notifies |-> "charge", throwsOn |-> {} ]

ConektaStatus ==
  [ paid |-> "captured", partially_paid |-> "authorized", pending_payment |-> "pending",
    expired |-> "failed", declined |-> "failed", refunded |-> "refunded",
    voided |-> "cancelled" ]

DlocalAdapter ==
  [ countries  |-> {"PE", "CL", "CO", "UY", "BO", "PY", "CR", "GT", "EC"},
    currencies |-> {"PEN", "CLP", "COP", "UYU", "BOB", "PYG", "CRC", "GTQ", "USD"},
    creates |-> "payment", refunds |-> "payment", retrieves |-> "payment",
    notifies |-> "payment", throwsOn |-> {} ]

DlocalStatus ==
  [ PAID |-> "captured", AUTHORIZED |-> "authorized", PENDING |-> "pending",
    PROCESSING |-> "pending", REJECTED |-> "failed", CANCELLED |-> "cancelled",
    EXPIRED |-> "failed", REFUNDED |-> "refunded" ]

\* The adapters by id; the fake one makes no call through a breaker and is left out.
Adapter ==
  [ stripe |-> StripeAdapter, mercadopago |-> MercadoPagoAdapter,
    pagarme |-> PagarmeAdapter, conekta |-> ConektaAdapter, dlocal |-> DlocalAdapter ]

StatusTable ==
  [ stripe |-> StripeIntentStatus, mercadopago |-> MercadoPagoStatus,
    pagarme |-> PagarmeStatus, conekta |-> ConektaStatus, dlocal |-> DlocalStatus ]

\* Mutant of Entry: the provider's word is passed on.
EntryUntranslated(table, word) == word

\* map[word] ?? 'pending'
Entry(table, word) == IF word \in DOMAIN table THEN table[word] ELSE "pending"

\* What createCharge() and retrieve() make of the state of a charge.
MapStatus(a, word) == Entry(StatusTable[a], word)

Serves(a, pair) ==
  pair.country \in Adapter[a].countries /\ pair.currency \in Adapter[a].currencies

-----------------------------------------------------------------------------
\* The providers.

\* The words by which a provider says that it took the money, now or earlier.
MoneyTaken ==
  [ stripe |-> {"succeeded"},
    mercadopago |-> {"approved", "in_mediation", "refunded", "charged_back"},
    pagarme |-> {"paid", "refunded", "chargedback"},
    conekta |-> {"paid", "refunded"},
    dlocal |-> {"PAID", "REFUNDED"} ]

\* The event Stripe sends when an intent gets to a state.
StripeEvent(word) ==
  CASE word = "succeeded"               -> "succeeded"
    [] word = "requires_payment_method" -> "payment_failed"
    [] word = "canceled"                -> "canceled"
    [] word = "requires_capture"        -> "amount_capturable_updated"
    [] OTHER                            -> "other"

\* What verifyWebhook() makes of a notification about a charge whose state is word,
\* and which was paid at some time. MercadoPago sends the state, or only an action,
\* for which the table has no entry.
HookStatuses(a, word, paid) ==
  CASE a = "stripe" -> {Entry(StripeEventStatus, StripeEvent(word))}
                         \cup (IF paid THEN {"refunded"} ELSE {})
    [] a = "mercadopago" -> {MapStatus(a, word), Entry(MercadoPagoStatus, "updated")}
    [] OTHER -> {MapStatus(a, word)}
=============================================================================

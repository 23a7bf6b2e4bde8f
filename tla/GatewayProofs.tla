---------------------------- MODULE GatewayProofs ----------------------------
(***************************************************************************)
(* Proofs about ProviderGateway, for any number of calls, adapters,        *)
(* thresholds and restarts.  A call's question never changes once it is    *)
(* asked, its breaker runs its own closure, and what a provider has said   *)
(* of a charge stays covered by the set of charges that were paid.         *)
(***************************************************************************)
EXTENDS ProviderGateway, FiniteSetTheorems, WellFoundedInduction, TLAPS

Unasked == {"idle", "unserved"}

\* Who has asked nothing has no closure, and without a closure nothing happens.
QuietInv ==
  \A c \in Calls :
    /\ pc[c] \in Unasked => ask[c] = NoAsk /\ runs[c] = Null
    /\ runs[c] = Null => reply[c] = "none" /\ charge[c] = "none"

\* The breaker runs the closure of the call it is given.
OwnClosureInv ==
  \A c \in Calls :
    /\ runs[c] \in {Null, c}
    /\ pc[c] \in {"await", "answered", "threw"} => runs[c] = c

\* A question is about a charge that a creation was asked for, at the same adapter.
QuestionInv ==
  \A c \in Calls : pc[c] \notin Unasked =>
    /\ ask[c].op \in Ops /\ ask[c].adapter \in Adapters /\ ask[c].of \in Calls
    /\ ask[c].op = "createCharge" => ask[c].of = c
    /\ pc[ask[c].of] \notin Unasked
    /\ ask[ask[c].of].op = "createCharge"
    /\ ask[ask[c].of].adapter = ask[c].adapter

\* The state of a charge is one its provider has, and paid if it says so.
ChargeInv ==
  \A c \in Calls : charge[c] # "none" =>
    /\ ask[c].op = "createCharge"
    /\ charge[c] \in Words[ask[c].adapter]
    /\ charge[c] \in MoneyTaken[ask[c].adapter] => c \in paid

\* So is what a call was told of a charge.
ReplyInv ==
  \A c \in Calls : reply[c] \notin {"none", "error", "not_found"} =>
    /\ reply[c] \in Words[ask[c].adapter]
    /\ reply[c] \in MoneyTaken[ask[c].adapter] => ask[c].of \in paid

Money == {"captured", "refunded"}

AnswerInv ==
  \A c \in Calls : pc[c] = "answered" =>
    /\ answer[c].charge = ask[c].of
    /\ answer[c].status \in Money => ask[c].of \in paid

GatewayInv ==
  /\ GatewayTypeOK /\ QuietInv /\ OwnClosureInv /\ QuestionInv
  /\ ChargeInv /\ ReplyInv /\ AnswerInv

-----------------------------------------------------------------------------
\* The ids of the adapters.
LEMMA AdapterIds ==
  /\ DOMAIN Adapter = {"stripe", "mercadopago", "pagarme", "conekta", "dlocal"}
  /\ Adapters \subseteq DOMAIN Adapter
<1>1. DOMAIN Adapter = {"stripe", "mercadopago", "pagarme", "conekta", "dlocal"}
  BY DEF Adapter
<1>2. ASSUME NEW conf \in Configurations, NEW i \in DOMAIN conf
      PROVE  conf[i] \in DOMAIN Adapter
  <2>1. conf \in Seq(DOMAIN Adapter)
    BY GatewayAssumption
  <2> QED
    BY <2>1
<1> QED
  BY <1>1, <1>2 DEF Adapters

\* Every table yields statuses of the interface, and only a provider's word for money
\* taken becomes captured or refunded, in an answer or in a notification.
LEMMA TablesAreHonest ==
  ASSUME NEW a \in DOMAIN Adapter, NEW word \in Words[a]
  PROVE  /\ MapStatus(a, word) \in ChargeStatus
         /\ MapStatus(a, word) \in Money => word \in MoneyTaken[a]
         /\ HookStatuses(a, word, FALSE) \cap Money # {} => word \in MoneyTaken[a]
<1>1. word \in DOMAIN StatusTable[a] \cup {"unheard_of"}
  BY GatewayAssumption
<1>2. CASE a = "stripe"
  BY <1>1, <1>2 DEF StatusTable, MapStatus, Entry, StripeIntentStatus, StripeEventStatus,
     StripeEvent, HookStatuses, MoneyTaken, Money, ChargeStatus
<1>3. CASE a = "mercadopago"
  BY <1>1, <1>3 DEF StatusTable, MapStatus, Entry, MercadoPagoStatus,
     HookStatuses, MoneyTaken, Money, ChargeStatus
<1>4. CASE a = "pagarme"
  BY <1>1, <1>4 DEF StatusTable, MapStatus, Entry, PagarmeStatus,
     HookStatuses, MoneyTaken, Money, ChargeStatus
<1>5. CASE a = "conekta"
  BY <1>1, <1>5 DEF StatusTable, MapStatus, Entry, ConektaStatus,
     HookStatuses, MoneyTaken, Money, ChargeStatus
<1>6. CASE a = "dlocal"
  BY <1>1, <1>6 DEF StatusTable, MapStatus, Entry, DlocalStatus,
     HookStatuses, MoneyTaken, Money, ChargeStatus
<1> QED
  BY <1>2, <1>3, <1>4, <1>5, <1>6, AdapterIds

\* selectFor() finds a registered adapter or throws.
LEMMA SelectForFinds ==
  ASSUME GatewayTypeOK, NEW pair, SelectFor(pair) # Null
  PROVE  SelectFor(pair) \in Adapters
<1> DEFINE serving == {i \in DOMAIN registry : Serves(registry[i], pair)}
           first == CHOOSE i \in serving : \A j \in serving : i <= j
<1>1. registry \in Configurations /\ registry \in Seq(DOMAIN Adapter)
  BY GatewayAssumption DEF GatewayTypeOK
<1>2. serving # {} /\ SelectFor(pair) = registry[first]
  BY DEF SelectFor
<1>3. serving \subseteq Nat
  BY <1>1
<1>4. \E i \in serving : \A j \in serving : i <= j
  <2>1. PICK i \in serving : \A j \in serving : ~ (<<j, i>> \in OpToRel(<, Nat))
    <3> HIDE DEF serving
    <3> QED
      BY <1>2, <1>3, NatLessThanWellFounded, WFMin, Zenon
  <2>2. \A j \in serving : ~ (j < i)
    BY <2>1, <1>3 DEF OpToRel
  <2> QED
    BY <2>2, <1>3
<1>5. first \in serving
  <2> HIDE DEF serving
  <2> QED
    BY <1>4
<1>6. first \in DOMAIN registry
  BY <1>5
<1>7. ASSUME NEW i \in DOMAIN registry
      PROVE  registry[i] \in Adapters
  <2> DEFINE all(conf) == {conf[n] : n \in DOMAIN conf}
  <2>1. registry[i] \in all(registry)
    BY <1>7
  <2>2. all(registry) \in {all(conf) : conf \in Configurations}
    <3> HIDE DEF all
    <3> QED
      BY <1>1
  <2> QED
    BY <2>1, <2>2, Zenon DEF Adapters
<1> HIDE DEF first
<1> QED
  BY <1>2, <1>6, <1>7

-----------------------------------------------------------------------------
\* A breaker that waits for the outcome of one call is half-open.
Consistent(b) == b.pendingClose => b.state = "halfOpen"

BreakersTyped == breaker \in [Keys -> Breaker] /\ \A j \in Keys : Consistent(breaker[j])

\* A breaker is replaced by another.
LEMMA OneBreakerChanges ==
  ASSUME BreakersTyped, NEW k \in Keys, NEW b \in Breaker, Consistent(b),
         breaker' = [breaker EXCEPT ![k] = b]
  PROVE  BreakersTyped'
<1>1. breaker \in [Keys -> Breaker]
  BY DEF BreakersTyped
<1>2. ASSUME NEW j \in Keys PROVE Consistent(breaker'[j])
  <2>1. CASE j = k
    BY <1>1, <2>1
  <2>2. CASE j # k
    <3>1. breaker'[j] = breaker[j]
      BY <1>1, <2>2
    <3> QED
      BY <3>1 DEF BreakersTyped
  <2> QED
    BY <2>1, <2>2
<1>3. breaker' \in [Keys -> Breaker]
  BY <1>1, Zenon
<1> QED
  BY <1>2, <1>3 DEF BreakersTyped

\* What a breaker can become.
LEMMA BreakersStayTyped ==
  ASSUME BreakersTyped, NEW k \in Keys, Succeeds(k) \/ Fails(k)
  PROVE  BreakersTyped'
<1>1. breaker[k] \in Breaker /\ Consistent(breaker[k])
  BY DEF BreakersTyped
<1>2. \E b \in Breaker : Consistent(b) /\ breaker' = [breaker EXCEPT ![k] = b]
  <2>1. CASE Succeeds(k)
    BY <1>1, <2>1 DEF Succeeds, Breaker, Consistent
  <2>2. CASE Fails(k)
    <3> DEFINE b == [breaker[k] EXCEPT !.failures = @ + 1]
               opened == [b EXCEPT !.state = "open", !.pendingClose = FALSE]
    <3>1. breaker' = [breaker EXCEPT ![k] = opened] \/ breaker' = [breaker EXCEPT ![k] = b]
      BY <2>2 DEF Fails
    <3>2. b \in Breaker /\ Consistent(b)
      BY <1>1 DEF Breaker, Consistent
    <3>3. opened \in Breaker /\ Consistent(opened)
      BY <3>2 DEF Breaker, Consistent
    <3> QED
      BY <3>1, <3>2, <3>3, Zenon
  <2> QED
    BY <2>1, <2>2
<1> QED
  BY <1>2, OneBreakerChanges

\* The invariant holds at the start.
LEMMA GatewayStarts == GatewayInit => GatewayInv
<1> SUFFICES ASSUME GatewayInit PROVE GatewayInv
  OBVIOUS
<1>1. NoAsk \in Question /\ NoReport \in Report \cup {NoReport} /\ Closed \in Breaker
  BY DEF NoAsk, Question, Closed, Breaker
<1>2. GatewayTypeOK
  BY <1>1, GatewayAssumption DEF GatewayInit, GatewayTypeOK, Stages, Closed
<1>3. QuietInv /\ OwnClosureInv /\ QuestionInv
  BY DEF GatewayInit, QuietInv, OwnClosureInv, QuestionInv, Unasked
<1>4. ChargeInv /\ ReplyInv /\ AnswerInv
  BY DEF GatewayInit, ChargeInv, ReplyInv, AnswerInv
<1> QED
  BY <1>2, <1>3, <1>4 DEF GatewayInv

\* A call that execute() takes asks its question, and is refused or runs its own closure.
LEMMA ExecutePreserves ==
  ASSUME GatewayInv, NEW c \in Calls, pc[c] = "idle",
         NEW a \in Adapters, NEW op \in Ops, NEW of \in Calls, NEW pair \in Pairs \cup {Null},
         IF op = "createCharge" THEN of = c
         ELSE /\ pc[of] = "answered" /\ ask[of].op = "createCharge"
              /\ ask[of].adapter = a,
         Execute(c, a, op, of, pair)
  PROVE  GatewayInv'
<1> DEFINE k == BreakerKey(a, op)
           q == [op |-> op, pair |-> pair, adapter |-> a, of |-> of]
<1>1. k \in Keys /\ breaker[k] \in Breaker /\ q \in Question
  BY DEF BreakerKey, Keys, GatewayInv, GatewayTypeOK, Question
<1>2. /\ ask' = [ask EXCEPT ![c] = q]
      /\ UNCHANGED <<registry, reply, answer, charge, paid, restarts>>
  BY DEF Execute
<1>3. \/ pc' = [pc EXCEPT ![c] = "refused"] /\ runs' = runs
      \/ pc' = [pc EXCEPT ![c] = "await"] /\ runs' = [runs EXCEPT ![c] = c]
  BY DEF Execute, ActionOf
<1>4. BreakersTyped'
  <2>1. BreakersTyped
    BY DEF GatewayInv, GatewayTypeOK, BreakersTyped, Consistent
  <2>2. breaker[k] \in Breaker /\ Consistent(breaker[k])
    BY <1>1, <2>1 DEF BreakersTyped
  <2>3. \E b \in Breaker : Consistent(b) /\ breaker' = [breaker EXCEPT ![k] = b]
    <3> DEFINE b == [breaker[k] EXCEPT !.fires = @ + 1]
               spent == [b EXCEPT !.pendingClose = FALSE]
    <3>1. breaker' = [breaker EXCEPT ![k] = b] \/ breaker' = [breaker EXCEPT ![k] = spent]
      BY DEF Execute
    <3>2. b \in Breaker /\ Consistent(b)
      BY <2>2 DEF Breaker, Consistent
    <3>3. spent \in Breaker /\ Consistent(spent)
      BY <3>2 DEF Breaker, Consistent
    <3> QED
      BY <3>1, <3>2, <3>3, Zenon
  <2> HIDE DEF k
  <2> QED
    BY <1>1, <2>1, <2>3, OneBreakerChanges
<1>5. GatewayTypeOK'
  <2>1. /\ pc' \in [Calls -> Stages] /\ ask' \in [Calls -> Question]
        /\ runs' \in [Calls -> Calls \cup {Null}]
    BY <1>1, <1>2, <1>3 DEF GatewayInv, GatewayTypeOK, Stages
  <2> QED
    BY <1>2, <1>4, <2>1 DEF GatewayInv, GatewayTypeOK, BreakersTyped, Consistent
<1>6. /\ ask[c] = NoAsk /\ runs[c] = Null /\ reply[c] = "none" /\ charge[c] = "none"
      /\ pc' \in [Calls -> Stages] /\ pc'[c] \in {"refused", "await"}
      /\ ask'[c] = q /\ \A d \in Calls \ {c} : pc'[d] = pc[d] /\ ask'[d] = ask[d] /\ runs'[d] = runs[d]
  BY <1>2, <1>3, <1>5 DEF GatewayInv, GatewayTypeOK, QuietInv, Unasked
<1>7. /\ runs' \in [Calls -> Calls \cup {Null}] /\ Null \notin Calls
      /\ runs'[c] \in {Null, c}
      /\ pc'[c] = "await" => runs'[c] = c
  BY <1>3, <1>5, <1>6, GatewayAssumption DEF GatewayInv, GatewayTypeOK, Calls
<1>8. QuietInv'
  BY <1>2, <1>6, <1>7 DEF GatewayInv, QuietInv, Unasked
<1>9. OwnClosureInv'
  BY <1>2, <1>6, <1>7 DEF GatewayInv, GatewayTypeOK, OwnClosureInv
<1>10. QuestionInv'
  BY <1>2, <1>6 DEF GatewayInv, GatewayTypeOK, QuestionInv, Unasked
<1>11. ChargeInv' /\ ReplyInv' /\ AnswerInv'
  BY <1>2, <1>6 DEF GatewayInv, ChargeInv, ReplyInv, AnswerInv
<1> QED
  BY <1>5, <1>8, <1>9, <1>10, <1>11 DEF GatewayInv

\* What a call that waits knows of its question.
LEMMA WaitingCall ==
  ASSUME GatewayInv, NEW c \in Calls, runs[c] # Null
  PROVE  /\ runs[c] = c /\ pc[c] \in Stages \ Unasked
         /\ ask[c] \in Question /\ ask[c].op \in Ops /\ ask[c].adapter \in Adapters
         /\ ask[c].of \in Calls /\ ask[ask[c].of].op = "createCharge"
         /\ ask[ask[c].of].adapter = ask[c].adapter
         /\ ask[c].op = "createCharge" => ask[c].of = c
         /\ ask[c].adapter \in DOMAIN Adapter
         /\ KeyOf(c) \in Keys
<1>1. runs[c] = c /\ pc[c] \in Stages \ Unasked
  BY DEF GatewayInv, GatewayTypeOK, QuietInv, OwnClosureInv
<1>2. ask[c].adapter \in Adapters /\ ask[c].op \in Ops
  BY <1>1 DEF GatewayInv, QuestionInv
<1>3. KeyOf(c) \in Keys
  BY <1>2 DEF KeyOf, BreakerKey, Keys
<1> QED
  BY <1>1, <1>2, <1>3, AdapterIds DEF GatewayInv, GatewayTypeOK, QuestionInv

\* A call ends with an answer to its question, or throws.
LEMMA EndingPreserves ==
  ASSUME GatewayInv, NEW c \in Calls, Answers(c) \/ Throws(c) \/ TimesOut(c)
  PROVE  GatewayInv'
<1>1. pc[c] = "await" /\ runs[c] # Null
  BY GatewayAssumption DEF Answers, Throws, TimesOut, GatewayInv, OwnClosureInv, Calls
<1>2. UNCHANGED <<registry, ask, runs, reply, charge, paid, restarts>>
  BY DEF Answers, Throws, TimesOut
<1>3. \/ pc' = [pc EXCEPT ![c] = "threw"] /\ answer' = answer
      \/ /\ pc' = [pc EXCEPT ![c] = "answered"]
         /\ reply[c] \notin {"none", "error", "not_found"}
         /\ answer' = [answer EXCEPT ![c] =
                         [status |-> IF ask[c].op = "refund" THEN "pending"
                                     ELSE MapStatus(ask[c].adapter, reply[c]),
                          charge |-> ask[c].of]]
  BY <1>1, WaitingCall DEF Answers, Throws, TimesOut
<1>4. ASSUME reply[c] \notin {"none", "error", "not_found"}
      PROVE  /\ MapStatus(ask[c].adapter, reply[c]) \in ChargeStatus
             /\ MapStatus(ask[c].adapter, reply[c]) \in Money => ask[c].of \in paid
  <2>1. /\ ask[c].adapter \in DOMAIN Adapter /\ reply[c] \in Words[ask[c].adapter]
        /\ reply[c] \in MoneyTaken[ask[c].adapter] => ask[c].of \in paid
    BY <1>1, <1>4, WaitingCall DEF GatewayInv, ReplyInv
  <2> QED
    BY <2>1, TablesAreHonest
<1>5. BreakersTyped'
  <2>1. BreakersTyped
    BY DEF GatewayInv, GatewayTypeOK, BreakersTyped, Consistent
  <2>2. KeyOf(c) \in Keys /\ (Succeeds(KeyOf(c)) \/ Fails(KeyOf(c)))
    BY <1>1, WaitingCall DEF Answers, Throws, TimesOut
  <2> QED
    BY <2>1, <2>2, BreakersStayTyped
<1>6. /\ pc' \in [Calls -> Stages] /\ pc'[c] \in {"threw", "answered"}
      /\ \A d \in Calls \ {c} : pc'[d] = pc[d] /\ answer'[d] = answer[d]
  BY <1>3 DEF GatewayInv, GatewayTypeOK, Stages
<1>7. answer' \in [Calls -> Report \cup {NoReport}]
  <2>1. ask[c].of \in Calls /\ "pending" \in ChargeStatus
    BY <1>1, WaitingCall DEF ChargeStatus
  <2> QED
    BY <1>3, <1>4, <2>1 DEF GatewayInv, GatewayTypeOK, Report
<1>8. GatewayTypeOK'
  BY <1>2, <1>5, <1>6, <1>7 DEF GatewayInv, GatewayTypeOK, BreakersTyped, Consistent
<1>9. QuietInv' /\ OwnClosureInv'
  BY <1>1, <1>2, <1>6, WaitingCall DEF GatewayInv, QuietInv, OwnClosureInv, Unasked
<1>10. QuestionInv' /\ ChargeInv' /\ ReplyInv'
  BY <1>1, <1>2, <1>6 DEF GatewayInv, QuestionInv, ChargeInv, ReplyInv, Unasked
<1>11. AnswerInv'
  <2>1. ASSUME pc'[c] = "answered"
        PROVE  answer'[c].charge = ask[c].of /\ (answer'[c].status \in Money => ask[c].of \in paid)
    BY <1>3, <1>4, <2>1 DEF GatewayInv, GatewayTypeOK, Money
  <2> QED
    BY <1>2, <1>6, <2>1 DEF GatewayInv, AnswerInv
<1> QED
  BY <1>8, <1>9, <1>10, <1>11 DEF GatewayInv

\* A charge gets to a state its provider has.
LEMMA ChargeGetsPreserves ==
  ASSUME GatewayInv, NEW d \in Calls, ask[d].op = "createCharge", ask[d].adapter \in DOMAIN Adapter,
         NEW word \in Words[ask[d].adapter], ChargeGets(d, word), ask' = ask
  PROVE  /\ charge' \in [Calls -> Sayings \cup {"none"}]
         /\ charge'[d] = word
         /\ paid \subseteq paid' /\ paid' \subseteq Calls
         /\ word \in MoneyTaken[ask[d].adapter] => d \in paid'
         /\ ChargeInv'
         /\ \A e \in Calls \ {d} : charge'[e] = charge[e]
<1>1. word \in Sayings /\ charge' = [charge EXCEPT ![d] = word]
  BY DEF Sayings, ChargeGets
<1>2. /\ charge' \in [Calls -> Sayings \cup {"none"}] /\ charge'[d] = word
      /\ \A e \in Calls \ {d} : charge'[e] = charge[e]
  BY <1>1 DEF GatewayInv, GatewayTypeOK
<1>3. /\ paid \subseteq paid' /\ paid' \subseteq Calls
      /\ word \in MoneyTaken[ask[d].adapter] => d \in paid'
  BY DEF ChargeGets, GatewayInv, GatewayTypeOK
<1>4. ChargeInv'
  BY <1>2, <1>3 DEF GatewayInv, ChargeInv
<1> QED
  BY <1>2, <1>3, <1>4

\* A provider acts on a call.
LEMMA ProviderPreserves ==
  ASSUME GatewayInv, NEW c \in Calls, ProviderActs(c)
  PROVE  GatewayInv'
<1>1. /\ runs[c] = c /\ ask[c].adapter \in DOMAIN Adapter /\ ask[c].op \in Ops
      /\ ask[c].of \in Calls /\ ask[ask[c].of].adapter = ask[c].adapter
      /\ ask[c].op = "createCharge" => ask[c].of = c
  BY WaitingCall DEF ProviderActs
<1>2. UNCHANGED <<registry, breaker, pc, ask, runs, answer, restarts>>
  BY DEF ProviderActs
<1>3. reply \in [Calls -> Sayings \cup {"none", "error", "not_found"}]
  BY DEF GatewayInv, GatewayTypeOK
<1> DEFINE
  ChargesKept == /\ charge' \in [Calls -> Sayings \cup {"none"}] /\ ChargeInv'
                 /\ paid \subseteq paid' /\ paid' \subseteq Calls
                 /\ \A e \in Calls \ {c} : charge'[e] = charge[e]
  Honest(said) == /\ reply' = [reply EXCEPT ![c] = said]
                  /\ \/ said \in {"error", "not_found", "none"}
                     \/ /\ said \in Words[ask[c].adapter]
                        /\ said \in MoneyTaken[ask[c].adapter] => ask[c].of \in paid'
<1>4. UNCHANGED <<charge, paid>> => ChargesKept
  BY <1>2 DEF GatewayInv, GatewayTypeOK, ChargeInv
<1>5. ChargesKept /\ \E said : Honest(said)
  <2>1. CASE reply' = [reply EXCEPT ![c] = "error"] /\ UNCHANGED <<charge, paid>>
    BY <1>4, <2>1
  <2>2. ASSUME ask[c].op = "createCharge", NEW word \in Words[ask[c].adapter],
               ChargeGets(c, word),
               reply' = [reply EXCEPT ![c] = IF word \in Adapter[ask[c].adapter].throwsOn
                                             THEN "error" ELSE word]
        PROVE  ChargesKept /\ \E said : Honest(said)
    <3>1. ChargesKept /\ (word \in MoneyTaken[ask[c].adapter] => c \in paid')
      BY <1>1, <1>2, <2>2, ChargeGetsPreserves
    <3>2. Honest("error") \/ Honest(word)
      BY <1>1, <2>2, <3>1
    <3> QED
      BY <3>1, <3>2
  <2>3. ASSUME NEW d \in Calls, d = ask[c].of, UNCHANGED <<charge, paid>>,
               reply' = [reply EXCEPT ![c] = charge[d]]
        PROVE  ChargesKept /\ \E said : Honest(said)
    <3>1. Honest(charge[d])
      BY <1>1, <2>3 DEF GatewayInv, ChargeInv
    <3> QED
      BY <1>4, <2>3, <3>1
  <2>4. CASE reply' = [reply EXCEPT ![c] = "not_found"] /\ UNCHANGED <<charge, paid>>
    BY <1>4, <2>4
  <2> QED
    BY <1>1, <2>1, <2>2, <2>3, <2>4 DEF ProviderActs
<1>6. PICK said : Honest(said)
  BY <1>5
<1>7. ReplyInv'
  BY <1>2, <1>3, <1>5, <1>6 DEF GatewayInv, ReplyInv
<1>8. reply' \in [Calls -> Sayings \cup {"none", "error", "not_found"}]
  BY <1>1, <1>3, <1>6 DEF Sayings
<1>9. GatewayTypeOK'
  BY <1>2, <1>5, <1>8 DEF GatewayInv, GatewayTypeOK
<1>10. QuietInv' /\ OwnClosureInv' /\ QuestionInv' /\ AnswerInv'
  <2>1. Null # c
    BY GatewayAssumption DEF Calls
  <2> QED
    BY <1>1, <1>2, <1>3, <1>5, <1>6, <2>1 DEF GatewayInv, QuietInv, OwnClosureInv, QuestionInv, AnswerInv
<1> QED
  BY <1>5, <1>7, <1>9, <1>10 DEF GatewayInv

\* A charge moves on.
LEMMA ChargeMovesPreserves ==
  ASSUME GatewayInv, NEW d \in Calls, ChargeMoves(d)
  PROVE  GatewayInv'
<1>1. runs[d] # Null /\ ask[d].op = "createCharge"
  BY DEF ChargeMoves, GatewayInv, QuietInv, ChargeInv
<1>2. ask[d].adapter \in DOMAIN Adapter
  BY <1>1, WaitingCall
<1>3. UNCHANGED <<registry, breaker, pc, ask, runs, reply, answer, restarts>>
  BY DEF ChargeMoves
<1>4. /\ charge' \in [Calls -> Sayings \cup {"none"}] /\ ChargeInv'
      /\ paid \subseteq paid' /\ paid' \subseteq Calls
      /\ \A e \in Calls \ {d} : charge'[e] = charge[e]
  <2>1. PICK word \in Words[ask[d].adapter] : ChargeGets(d, word)
    BY DEF ChargeMoves
  <2> QED
    BY <1>1, <1>2, <1>3, <2>1, ChargeGetsPreserves
<1>5. GatewayTypeOK'
  BY <1>3, <1>4 DEF GatewayInv, GatewayTypeOK
<1>6. QuietInv' /\ OwnClosureInv' /\ QuestionInv'
  BY <1>1, <1>3, <1>4 DEF GatewayInv, QuietInv, OwnClosureInv, QuestionInv
<1>7. ReplyInv' /\ AnswerInv'
  BY <1>3, <1>4 DEF GatewayInv, ReplyInv, AnswerInv
<1> QED
  BY <1>4, <1>5, <1>6, <1>7 DEF GatewayInv

\* A breaker becomes half-open.
LEMMA ResetsPreserves ==
  ASSUME GatewayInv, NEW k \in Keys, Resets(k)
  PROVE  GatewayInv'
<1>1. BreakersTyped'
  <2>1. BreakersTyped
    BY DEF GatewayInv, GatewayTypeOK, BreakersTyped, Consistent
  <2> DEFINE b == [breaker[k] EXCEPT !.state = "halfOpen", !.pendingClose = TRUE]
  <2>2. b \in Breaker /\ Consistent(b)
    BY <2>1 DEF BreakersTyped, Breaker, Consistent
  <2>3. breaker' = [breaker EXCEPT ![k] = b]
    BY <2>1 DEF Resets, BreakersTyped
  <2> HIDE DEF b
  <2> QED
    BY <2>1, <2>2, <2>3, OneBreakerChanges
<1>2. UNCHANGED <<registry, pc, ask, runs, reply, answer, charge, paid, restarts>>
  BY DEF Resets
<1>3. GatewayTypeOK'
  BY <1>1, <1>2 DEF GatewayInv, GatewayTypeOK, BreakersTyped, Consistent
<1> QED
  BY <1>2, <1>3 DEF GatewayInv, QuietInv, OwnClosureInv, QuestionInv, ChargeInv, ReplyInv, AnswerInv

\* The process restarts.
LEMMA RestartPreserves ==
  ASSUME GatewayInv, Restarts
  PROVE  GatewayInv'
<1>1. UNCHANGED <<ask, runs, reply, answer, charge, paid>>
  BY DEF Restarts
<1>2. pc' = [c \in Calls |-> IF pc[c] = "await" THEN "lost" ELSE pc[c]]
  BY DEF Restarts
<1>3. GatewayTypeOK'
  <2>1. Closed \in Breaker /\ Closed.pendingClose = FALSE
    BY DEF Closed, Breaker
  <2>2. breaker' = [k \in Keys |-> Closed]
    BY DEF Restarts
  <2>3. /\ breaker' \in [Keys -> Breaker]
        /\ \A k \in Keys : breaker'[k].pendingClose => breaker'[k].state = "halfOpen"
    BY <2>1, <2>2
  <2>4. pc' \in [Calls -> Stages] /\ registry' \in Configurations /\ restarts' \in 0..MaxRestarts
    BY <1>2, GatewayAssumption DEF Restarts, GatewayInv, GatewayTypeOK, Stages
  <2> QED
    BY <1>1, <2>3, <2>4 DEF GatewayInv, GatewayTypeOK
<1>4. QuietInv' /\ OwnClosureInv' /\ AnswerInv'
  BY <1>1, <1>2 DEF GatewayInv, QuietInv, OwnClosureInv, AnswerInv, Unasked
<1>5. QuestionInv' /\ ChargeInv' /\ ReplyInv'
  BY <1>1, <1>2 DEF GatewayInv, QuestionInv, ChargeInv, ReplyInv, Unasked
<1> QED
  BY <1>3, <1>4, <1>5 DEF GatewayInv

\* A call without a provider to go to ends there.
LEMMA UnservedPreserves ==
  ASSUME GatewayInv, NEW c \in Calls, pc[c] = "idle",
         pc' = [pc EXCEPT ![c] = "unserved"],
         UNCHANGED <<registry, breaker, ask, runs, reply, answer, charge, paid, restarts>>
  PROVE  GatewayInv'
<1>1. GatewayTypeOK'
  BY DEF GatewayInv, GatewayTypeOK, Stages
<1>2. \A d \in Calls : pc'[d] = pc[d] \/ (d = c /\ pc'[d] = "unserved")
  BY DEF GatewayInv, GatewayTypeOK
<1>3. QuietInv' /\ OwnClosureInv' /\ AnswerInv'
  BY <1>2 DEF GatewayInv, QuietInv, OwnClosureInv, AnswerInv, Unasked
<1>4. QuestionInv' /\ ChargeInv' /\ ReplyInv'
  BY <1>2 DEF GatewayInv, QuestionInv, ChargeInv, ReplyInv, Unasked
<1> QED
  BY <1>1, <1>3, <1>4 DEF GatewayInv

\* Every step keeps the invariant.
LEMMA GatewayPreserves == GatewayInv /\ [GatewayNext]_gatewayVars => GatewayInv'
<1> SUFFICES ASSUME GatewayInv, [GatewayNext]_gatewayVars PROVE GatewayInv'
  OBVIOUS
<1>1. ASSUME NEW c \in Calls, NEW pair \in Pairs, CreateCharge(c, pair) PROVE GatewayInv'
  <2>1. pc[c] = "idle" /\ "createCharge" \in Ops
    BY <1>1 DEF CreateCharge, IsNext, Ops
  <2>2. CASE SelectFor(pair) = Null
    BY <1>1, <2>1, <2>2, UnservedPreserves DEF CreateCharge
  <2>3. CASE SelectFor(pair) # Null
    <3>1. SelectFor(pair) \in Adapters
      BY <2>3, SelectForFinds DEF GatewayInv
    <3>2. Execute(c, SelectFor(pair), "createCharge", c, pair)
      BY <1>1, <2>3 DEF CreateCharge
    <3> QED
      BY <2>1, <3>1, <3>2, ExecutePreserves
  <2> QED
    BY <2>2, <2>3
<1>2. ASSUME NEW c \in Calls, NEW d \in Calls, NEW op \in Ops \ {"createCharge"},
             AskAbout(c, d, op)
      PROVE  GatewayInv'
  <2>1. /\ pc[c] = "idle" /\ pc[d] = "answered" /\ ask[d].op = "createCharge"
        /\ ask[d].adapter \in Adapters /\ ask[d].pair \in Pairs \cup {Null}
    <3>1. pc[c] = "idle" /\ pc[d] = "answered" /\ ask[d].op = "createCharge"
      BY <1>2 DEF AskAbout, IsNext
    <3>2. ask[d] \in Question
      BY DEF GatewayInv, GatewayTypeOK
    <3> QED
      BY <3>1, <3>2 DEF GatewayInv, QuestionInv, Unasked, Question
  <2>2. CASE ask[d].adapter \notin Registered
    BY <1>2, <2>1, <2>2, UnservedPreserves DEF AskAbout, AdapterOf
  <2>3. CASE ask[d].adapter \in Registered
    <3>1. Execute(c, ask[d].adapter, op, d, ask[d].pair)
      BY <1>2, <2>3 DEF AskAbout, AdapterOf
    <3> QED
      BY <2>1, <3>1, ExecutePreserves
  <2> QED
    BY <2>2, <2>3
<1>3. CASE UNCHANGED gatewayVars
  BY <1>3 DEF gatewayVars, GatewayInv, GatewayTypeOK, QuietInv, OwnClosureInv, QuestionInv,
     ChargeInv, ReplyInv, AnswerInv
<1> QED
  BY <1>1, <1>2, <1>3, EndingPreserves, ProviderPreserves, ChargeMovesPreserves,
     ResetsPreserves, RestartPreserves DEF GatewayNext

-----------------------------------------------------------------------------
\* The invariant of the gateway always holds.
LEMMA GatewayInvariant == GatewaySpec => []GatewayInv
<1> QED
  BY GatewayStarts, GatewayPreserves, PTL DEF GatewaySpec

\* The gateway keeps its variables in their domains.
THEOREM GatewayTypeCorrect == GatewaySpec => []GatewayTypeOK
<1>1. GatewayInv => GatewayTypeOK
  BY DEF GatewayInv
<1> QED
  BY <1>1, GatewayInvariant, PTL

\* Callers are answered about the charge they asked for, and no answer or notification
\* claims money that the provider did not take.
THEOREM AnswersStayTrue == GatewaySpec => []AnswersAreTrue
<1>1. GatewayInv => AnswersAreTrue
  <2> SUFFICES ASSUME GatewayInv, NEW c \in Calls
               PROVE  /\ pc[c] = "answered" =>
                           /\ answer[c].charge = ask[c].of
                           /\ answer[c].status \in Money => ask[c].of \in paid
                      /\ charge[c] # "none" /\ c \notin paid =>
                           HookStatuses(ask[c].adapter, charge[c], FALSE) \cap Money = {}
    BY DEF AnswersAreTrue, Money
  <2>1. ASSUME charge[c] # "none", c \notin paid
        PROVE  HookStatuses(ask[c].adapter, charge[c], FALSE) \cap Money = {}
    <3>1. runs[c] # Null
      BY <2>1 DEF GatewayInv, QuietInv
    <3>2. ask[c].adapter \in DOMAIN Adapter
      BY <3>1, WaitingCall
    <3>3. charge[c] \in Words[ask[c].adapter] /\ charge[c] \notin MoneyTaken[ask[c].adapter]
      BY <2>1 DEF GatewayInv, ChargeInv
    <3> QED
      BY <3>2, <3>3, TablesAreHonest
  <2> QED
    BY <2>1 DEF GatewayInv, AnswerInv
<1> QED
  BY <1>1, GatewayInvariant, PTL

\* A charge is asked about only where it was made.
THEOREM AskedWhereChargedHolds == GatewaySpec => []AskedWhereCharged
<1>1. GatewayInv => AskedWhereCharged
  BY DEF GatewayInv, QuietInv, QuestionInv, AskedWhereCharged, NoAsk
<1> QED
  BY <1>1, GatewayInvariant, PTL

-----------------------------------------------------------------------------
(* Why a breaker is open: the counts of a breaker never exceed the calls   *)
(* that were made and that failed, and neither set ever shrinks.           *)

\* The calls that went to a breaker, in its life or before a restart.
SentTo(k) == {d \in Calls : pc[d] \notin Unasked /\ KeyOf(d) = k}
FailedAt(k) == {d \in SentTo(k) : pc[d] = "threw"}

Need == ErrorThreshold * VolumeThreshold

Enough(k) ==
  Cardinality(SentTo(k)) >= VolumeThreshold /\ 100 * Cardinality(FailedAt(k)) > Need

Counted(k) ==
  /\ breaker[k].fires <= Cardinality(SentTo(k))
  /\ breaker[k].failures <= Cardinality(FailedAt(k))
  /\ breaker[k].state # "closed" => Enough(k)

CountInv == \A k \in Keys : Counted(k)

\* The thresholds are integers.
LEMMA ThresholdsAreIntegers == Need \in Int /\ VolumeThreshold \in Int
<1>1. ErrorThreshold \in Int /\ VolumeThreshold \in Int
  BY GatewayAssumption
<1>2. \A x, y \in Int : x * y \in Int
  OBVIOUS
<1> QED
  BY <1>1, <1>2 DEF Need

\* Sets of calls and their sizes.
LEMMA SizesOfCalls ==
  /\ \A S \in SUBSET Calls : IsFiniteSet(S) /\ Cardinality(S) \in Nat
  /\ \A S, T \in SUBSET Calls : S \subseteq T => Cardinality(S) <= Cardinality(T)
  /\ \A S \in SUBSET Calls, c \in Calls : c \notin S => Cardinality(S \cup {c}) = Cardinality(S) + 1
<1>1. IsFiniteSet(Calls)
  BY FS_Interval, GatewayAssumption DEF Calls
<1>2. \A S \in SUBSET Calls : IsFiniteSet(S) /\ Cardinality(S) \in Nat
  BY <1>1, FS_Subset, FS_CardinalityType
<1>3. ASSUME NEW S \in SUBSET Calls, NEW T \in SUBSET Calls, S \subseteq T
      PROVE  Cardinality(S) <= Cardinality(T)
  BY <1>2, <1>3, FS_Subset
<1>4. ASSUME NEW S \in SUBSET Calls, NEW c \in Calls, c \notin S
      PROVE  Cardinality(S \cup {c}) = Cardinality(S) + 1
  BY <1>2, <1>4, FS_AddElement
<1> QED
  BY <1>2, <1>3, <1>4

\* What is asked stays asked, a failure stays one, and only execute() refuses.
LEMMA StepsOfACall ==
  ASSUME GatewayInv, [GatewayNext]_gatewayVars, NEW d \in Calls
  PROVE  /\ pc[d] \notin Unasked => pc'[d] \notin Unasked /\ ask'[d] = ask[d]
         /\ pc[d] = "threw" => pc'[d] = "threw"
         /\ pc[d] = "unserved" => pc'[d] = "unserved"
         /\ pc[d] # "idle" => (pc'[d] = "refused" <=> pc[d] = "refused")
<1>1. pc \in [Calls -> Stages] /\ ask \in [Calls -> Question]
  BY DEF GatewayInv, GatewayTypeOK
<1>2. ASSUME NEW c \in Calls, NEW a, NEW op, NEW of, NEW pair, IsNext(c), Execute(c, a, op, of, pair)
      PROVE  /\ pc[c] = "idle" /\ \A e \in Calls \ {c} : pc'[e] = pc[e] /\ ask'[e] = ask[e]
  BY <1>1, <1>2 DEF Execute, IsNext
<1>3. ASSUME NEW c \in Calls, NEW pair \in Pairs, CreateCharge(c, pair)
      PROVE  /\ pc[c] = "idle" /\ \A e \in Calls \ {c} : pc'[e] = pc[e] /\ ask'[e] = ask[e]
  BY <1>1, <1>2, <1>3 DEF CreateCharge, IsNext
<1>4. ASSUME NEW c \in Calls, NEW e \in Calls, NEW op \in Ops \ {"createCharge"}, AskAbout(c, e, op)
      PROVE  /\ pc[c] = "idle" /\ \A g \in Calls \ {c} : pc'[g] = pc[g] /\ ask'[g] = ask[g]
  BY <1>1, <1>2, <1>4 DEF AskAbout, IsNext
<1>5. ASSUME NEW c \in Calls, Answers(c) \/ Throws(c) \/ TimesOut(c)
      PROVE  /\ pc[c] = "await" /\ pc'[c] \in {"answered", "threw"} /\ ask' = ask
             /\ \A e \in Calls \ {c} : pc'[e] = pc[e]
  BY <1>1, <1>5 DEF Answers, Throws, TimesOut
<1>6. CASE UNCHANGED <<pc, ask>>
  BY <1>6
<1>7. CASE Restarts
  BY <1>1, <1>7 DEF Restarts, Unasked
<1>8. ASSUME NEW c \in Calls, pc[c] = "idle",
             \A e \in Calls \ {c} : pc'[e] = pc[e] /\ ask'[e] = ask[e]
      PROVE  /\ pc[d] \notin Unasked => pc'[d] \notin Unasked /\ ask'[d] = ask[d]
             /\ pc[d] = "threw" => pc'[d] = "threw"
             /\ pc[d] = "unserved" => pc'[d] = "unserved"
             /\ pc[d] # "idle" => (pc'[d] = "refused" <=> pc[d] = "refused")
  BY <1>8 DEF Unasked
<1>9. ASSUME NEW c \in Calls, Answers(c) \/ Throws(c) \/ TimesOut(c)
      PROVE  /\ pc[d] \notin Unasked => pc'[d] \notin Unasked /\ ask'[d] = ask[d]
             /\ pc[d] = "threw" => pc'[d] = "threw"
             /\ pc[d] = "unserved" => pc'[d] = "unserved"
             /\ pc[d] # "idle" => (pc'[d] = "refused" <=> pc[d] = "refused")
  BY <1>5, <1>9 DEF Unasked
<1>10. ASSUME NEW c \in Calls, ProviderActs(c) PROVE UNCHANGED <<pc, ask>>
  BY <1>10 DEF ProviderActs
<1>11. ASSUME NEW c \in Calls, ChargeMoves(c) PROVE UNCHANGED <<pc, ask>>
  BY <1>11 DEF ChargeMoves
<1>12. ASSUME NEW k \in Keys, Resets(k) PROVE UNCHANGED <<pc, ask>>
  BY <1>12 DEF Resets
<1>13. CASE UNCHANGED gatewayVars
  BY <1>6, <1>13 DEF gatewayVars
<1> QED
  BY <1>3, <1>4, <1>6, <1>7, <1>8, <1>9, <1>10, <1>11, <1>12, <1>13 DEF GatewayNext

\* The calls of a breaker and their failures only grow.
LEMMA SentToGrows ==
  ASSUME GatewayInv, [GatewayNext]_gatewayVars, NEW k \in Keys
  PROVE  /\ SentTo(k) \subseteq SentTo(k)' /\ SentTo(k)' \subseteq Calls
         /\ FailedAt(k) \subseteq FailedAt(k)' /\ FailedAt(k)' \subseteq Calls
         /\ Cardinality(SentTo(k)) <= Cardinality(SentTo(k)')
         /\ Cardinality(FailedAt(k)) <= Cardinality(FailedAt(k)')
         /\ Cardinality(SentTo(k)) \in Nat /\ Cardinality(SentTo(k)') \in Nat
         /\ Cardinality(FailedAt(k)) \in Nat /\ Cardinality(FailedAt(k)') \in Nat
         /\ Enough(k) => Enough(k)'
<1>1. /\ SentTo(k) \subseteq Calls /\ SentTo(k) \subseteq SentTo(k)' /\ SentTo(k)' \subseteq Calls
  BY StepsOfACall DEF SentTo, KeyOf
<1>2. FailedAt(k) \subseteq Calls /\ FailedAt(k) \subseteq FailedAt(k)' /\ FailedAt(k)' \subseteq Calls
  BY <1>1, StepsOfACall DEF FailedAt
<1>3. /\ Cardinality(SentTo(k)) <= Cardinality(SentTo(k)')
      /\ Cardinality(FailedAt(k)) <= Cardinality(FailedAt(k)')
      /\ Cardinality(SentTo(k)) \in Nat /\ Cardinality(SentTo(k)') \in Nat
      /\ Cardinality(FailedAt(k)) \in Nat /\ Cardinality(FailedAt(k)') \in Nat
  BY <1>1, <1>2, SizesOfCalls
<1>4. Need \in Int /\ VolumeThreshold \in Int
  BY ThresholdsAreIntegers
<1>5. Enough(k) => Enough(k)'
  BY <1>3, <1>4 DEF Enough
<1> QED
  BY <1>1, <1>2, <1>3, <1>5

\* A breaker that counted nothing new, and did not leave closed, is still accounted for.
LEMMA StillCounted ==
  ASSUME GatewayInv, CountInv, [GatewayNext]_gatewayVars, NEW k \in Keys,
         breaker'[k].fires \in Nat, breaker'[k].fires <= breaker[k].fires,
         breaker'[k].failures \in Nat, breaker'[k].failures <= breaker[k].failures,
         breaker'[k].state # "closed" => breaker[k].state # "closed"
  PROVE  Counted(k)'
<1>1. breaker[k].fires \in Nat /\ breaker[k].failures \in Nat
  BY DEF GatewayInv, GatewayTypeOK, Breaker
<1>2. /\ breaker[k].fires <= Cardinality(SentTo(k))
      /\ breaker[k].failures <= Cardinality(FailedAt(k))
      /\ breaker[k].state # "closed" => Enough(k)
  BY DEF CountInv, Counted
<1> QED
  BY <1>1, <1>2, SentToGrows DEF Counted

\* A call that execute() takes is one more of its breaker; a refusal has its reasons.
LEMMA ExecuteCounts ==
  ASSUME GatewayInv, CountInv, [GatewayNext]_gatewayVars, NEW c \in Calls, pc[c] = "idle",
         NEW a \in Adapters, NEW op \in Ops, NEW of, NEW pair, Execute(c, a, op, of, pair)
  PROVE  /\ CountInv'
         /\ pc'[c] = "refused" => Enough(KeyOf(c)') /\ c \notin SentTo(KeyOf(c)')
<1> DEFINE k == BreakerKey(a, op)
<1>1. k \in Keys /\ breaker \in [Keys -> Breaker] /\ breaker[k] \in Breaker
  BY DEF BreakerKey, Keys, GatewayInv, GatewayTypeOK
<1>2. /\ breaker'[k].fires = breaker[k].fires + 1
      /\ breaker'[k].failures = breaker[k].failures
      /\ breaker'[k].state = breaker[k].state
      /\ \A j \in Keys \ {k} : breaker'[j] = breaker[j]
  <2> DEFINE b == [breaker[k] EXCEPT !.fires = @ + 1]
             spent == [b EXCEPT !.pendingClose = FALSE]
  <2>1. breaker' = [breaker EXCEPT ![k] = b] \/ breaker' = [breaker EXCEPT ![k] = spent]
    BY DEF Execute
  <2>2. \A x \in {b, spent} : /\ x.fires = breaker[k].fires + 1
                              /\ x.failures = breaker[k].failures
                              /\ x.state = breaker[k].state
    BY <1>1 DEF Breaker
  <2> HIDE DEF k, b, spent
  <2> QED
    BY <1>1, <2>1, <2>2
<1>3. /\ pc'[c] \in {"refused", "await"} /\ KeyOf(c)' = k
      /\ pc'[c] = "refused" => breaker[k].state # "closed"
  <2>1. /\ ask' = [ask EXCEPT ![c] = [op |-> op, pair |-> pair, adapter |-> a, of |-> of]]
        /\ ask \in [Calls -> Question] /\ pc \in [Calls -> Stages]
    BY DEF Execute, GatewayInv, GatewayTypeOK
  <2>2. KeyOf(c)' = k
    BY <2>1 DEF KeyOf
  <2> DEFINE b == [breaker[k] EXCEPT !.fires = @ + 1]
  <2>3. \/ pc' = [pc EXCEPT ![c] = "refused"] /\ b.state # "closed"
        \/ pc' = [pc EXCEPT ![c] = "await"]
    BY DEF Execute, Admits
  <2>4. b.state = breaker[k].state
    BY <1>1 DEF Breaker
  <2> HIDE DEF k, b
  <2> QED
    BY <2>1, <2>2, <2>3, <2>4
<1>4. c \in SentTo(k)' /\ c \notin SentTo(k)
  BY <1>3 DEF SentTo, Unasked
<1>5. Cardinality(SentTo(k)) + 1 <= Cardinality(SentTo(k)')
  <2>1. SentTo(k) \cup {c} \subseteq SentTo(k)'
    BY <1>1, <1>4, SentToGrows
  <2>2. SentTo(k) \in SUBSET Calls /\ SentTo(k)' \in SUBSET Calls
    BY <1>1, SentToGrows
  <2> HIDE DEF k
  <2>3. Cardinality(SentTo(k) \cup {c}) = Cardinality(SentTo(k)) + 1
    BY <1>4, <2>2, SizesOfCalls
  <2>4. Cardinality(SentTo(k) \cup {c}) <= Cardinality(SentTo(k)')
    BY <2>1, <2>2, SizesOfCalls
  <2> QED
    BY <2>3, <2>4
<1>6. Counted(k)'
  <2>1. /\ breaker[k].fires \in Nat /\ breaker[k].failures \in Nat
        /\ breaker[k].fires <= Cardinality(SentTo(k))
        /\ breaker[k].failures <= Cardinality(FailedAt(k))
        /\ breaker[k].state # "closed" => Enough(k)
    BY <1>1 DEF CountInv, Counted, Breaker
  <2> HIDE DEF k
  <2> QED
    BY <1>1, <1>2, <1>5, <2>1, SentToGrows DEF Counted
<1>7. ASSUME NEW j \in Keys \ {k} PROVE Counted(j)'
  <2>1. breaker'[j] = breaker[j] /\ breaker[j] \in Breaker
    BY <1>1, <1>2
  <2> QED
    BY <2>1, StillCounted DEF Breaker
<1>8. ASSUME pc'[c] = "refused" PROVE Enough(k)
  BY <1>1, <1>3, <1>8 DEF CountInv, Counted
<1> QED
  BY <1>3, <1>4, <1>6, <1>7, <1>8 DEF CountInv

\* A call that fails is one more failure of its breaker.
LEMMA FailureCounts ==
  ASSUME GatewayInv, CountInv, [GatewayNext]_gatewayVars, NEW c \in Calls, pc[c] = "await",
         pc' = [pc EXCEPT ![c] = "threw"], ask' = ask,
         NEW k \in Keys, k = KeyOf(c), Fails(k)
  PROVE  CountInv'
<1> DEFINE n == breaker[k].failures + 1
           b == [breaker[k] EXCEPT !.failures = @ + 1]
           opened == [b EXCEPT !.state = "open", !.pendingClose = FALSE]
<1>1. breaker \in [Keys -> Breaker] /\ breaker[k] \in Breaker
  BY DEF GatewayInv, GatewayTypeOK
<1>2. /\ b.fires = breaker[k].fires /\ b.failures = n /\ b.state = breaker[k].state
      /\ opened.fires = breaker[k].fires /\ opened.failures = n
  BY <1>1 DEF Breaker
<1>3. \/ breaker' = [breaker EXCEPT ![k] = b]
      \/ /\ breaker' = [breaker EXCEPT ![k] = opened]
         /\ \/ b.state = "halfOpen"
            \/ b.fires >= VolumeThreshold /\ 100 * b.failures > Need
  BY DEF Fails, Need
<1>4. /\ breaker'[k].fires = breaker[k].fires /\ breaker'[k].failures = n
      /\ \/ breaker'[k].state = breaker[k].state
         \/ breaker[k].state # "closed"
         \/ breaker[k].fires >= VolumeThreshold /\ 100 * n > Need
      /\ \A j \in Keys \ {k} : breaker'[j] = breaker[j]
  <2> HIDE DEF b, opened, n
  <2> QED
    BY <1>1, <1>2, <1>3
<1>5. Cardinality(FailedAt(k)) + 1 <= Cardinality(FailedAt(k)')
  <2>1. pc'[c] = "threw" /\ KeyOf(c)' = k
    BY DEF GatewayInv, GatewayTypeOK, KeyOf
  <2>2. c \in FailedAt(k)' /\ c \notin FailedAt(k)
    BY <2>1 DEF FailedAt, SentTo, Unasked
  <2>3. FailedAt(k) \in SUBSET Calls /\ FailedAt(k)' \in SUBSET Calls /\ FailedAt(k) \subseteq FailedAt(k)'
    BY <1>1, SentToGrows
  <2>4. Cardinality(FailedAt(k) \cup {c}) = Cardinality(FailedAt(k)) + 1
    BY <2>2, <2>3, SizesOfCalls
  <2>5. Cardinality(FailedAt(k) \cup {c}) <= Cardinality(FailedAt(k)')
    BY <2>2, <2>3, SizesOfCalls
  <2> QED
    BY <2>4, <2>5
<1>6. Counted(k)'
  <2>1. /\ breaker[k].fires \in Nat /\ breaker[k].failures \in Nat
        /\ breaker[k].fires <= Cardinality(SentTo(k))
        /\ breaker[k].failures <= Cardinality(FailedAt(k))
        /\ breaker[k].state # "closed" => Enough(k)
    BY <1>1 DEF CountInv, Counted, Breaker
  <2>2. n \in Nat /\ n = breaker[k].failures + 1
    BY <2>1
  <2> HIDE DEF b, opened
  <2>3. /\ breaker'[k].fires <= Cardinality(SentTo(k)')
        /\ breaker'[k].failures <= Cardinality(FailedAt(k)')
        /\ n <= Cardinality(FailedAt(k)')
    BY <1>1, <1>4, <1>5, <2>1, <2>2, SentToGrows
  <2>4. ASSUME breaker'[k].state # "closed" PROVE Enough(k)'
    <3>1. CASE breaker[k].state # "closed"
      BY <1>1, <2>1, <3>1, SentToGrows
    <3>2. CASE breaker[k].fires >= VolumeThreshold /\ 100 * n > Need
      BY <1>1, <1>4, <2>1, <2>2, <2>3, <3>2, SentToGrows, ThresholdsAreIntegers DEF Enough
    <3> QED
      BY <1>4, <2>4, <3>1, <3>2
  <2> QED
    BY <2>3, <2>4 DEF Counted
<1>7. ASSUME NEW j \in Keys \ {k} PROVE Counted(j)'
  <2> HIDE DEF n, b, opened
  <2>1. breaker'[j] = breaker[j] /\ breaker[j] \in Breaker
    BY <1>1, <1>4
  <2> QED
    BY <2>1, StillCounted DEF Breaker
<1> QED
  BY <1>6, <1>7 DEF CountInv

\* Every step keeps the counts below the calls.
LEMMA CountPreserved ==
  ASSUME GatewayInv, CountInv, [GatewayNext]_gatewayVars
  PROVE  CountInv'
<1> DEFINE Quieter(k) ==
      /\ breaker'[k].fires \in Nat /\ breaker'[k].fires <= breaker[k].fires
      /\ breaker'[k].failures \in Nat /\ breaker'[k].failures <= breaker[k].failures
      /\ breaker'[k].state # "closed" => breaker[k].state # "closed"
<1>1. ASSUME \A k \in Keys : Quieter(k) PROVE CountInv'
  BY <1>1, StillCounted DEF CountInv
<1>2. breaker \in [Keys -> Breaker]
      /\ \A k \in Keys : breaker[k].fires \in Nat /\ breaker[k].failures \in Nat
  BY DEF GatewayInv, GatewayTypeOK, Breaker
<1>3. CASE breaker' = breaker
  BY <1>1, <1>2, <1>3
<1>4. ASSUME NEW c \in Calls, NEW pair \in Pairs, CreateCharge(c, pair) PROVE CountInv'
  <2>1. CASE SelectFor(pair) = Null
    BY <1>3, <1>4, <2>1 DEF CreateCharge
  <2>2. CASE SelectFor(pair) # Null
    <3>1. SelectFor(pair) \in Adapters
      BY <2>2, SelectForFinds DEF GatewayInv
    <3>2. /\ pc[c] = "idle" /\ "createCharge" \in Ops
          /\ Execute(c, SelectFor(pair), "createCharge", c, pair)
      BY <1>4, <2>2 DEF CreateCharge, IsNext, Ops
    <3> QED
      BY <3>1, <3>2, ExecuteCounts
  <2> QED
    BY <2>1, <2>2
<1>5. ASSUME NEW c \in Calls, NEW d \in Calls, NEW op \in Ops \ {"createCharge"},
             AskAbout(c, d, op)
      PROVE  CountInv'
  <2>1. CASE ask[d].adapter \notin Registered
    BY <1>3, <1>5, <2>1 DEF AskAbout, AdapterOf
  <2>2. CASE ask[d].adapter \in Registered
    <3>1. /\ pc[c] = "idle" /\ pc[d] = "answered"
          /\ Execute(c, ask[d].adapter, op, d, ask[d].pair)
      BY <1>5, <2>2 DEF AskAbout, AdapterOf, IsNext
    <3>2. ask[d].adapter \in Adapters
      BY <3>1 DEF GatewayInv, QuestionInv, Unasked
    <3> QED
      BY <3>1, <3>2, ExecuteCounts
  <2> QED
    BY <2>1, <2>2
<1>6. ASSUME NEW c \in Calls, Answers(c) PROVE CountInv'
  <2>1. PICK k : Succeeds(k)
    BY <1>6 DEF Answers
  <2>2. ASSUME NEW j \in Keys PROVE Quieter(j)
    <3>1. CASE j = k
      BY <1>2, <2>1, <3>1 DEF Succeeds, Breaker
    <3>2. CASE j # k
      BY <1>2, <2>1, <3>2 DEF Succeeds
    <3> QED
      BY <3>1, <3>2
  <2> HIDE DEF Quieter
  <2> QED
    BY <1>1, <2>2
<1>7. ASSUME NEW c \in Calls, Throws(c) \/ TimesOut(c) PROVE CountInv'
  <2>1. runs[c] # Null
    BY <1>7, GatewayAssumption DEF Throws, TimesOut, GatewayInv, OwnClosureInv, Calls
  <2>2. PICK k \in Keys : k = KeyOf(c)
    BY <2>1, WaitingCall
  <2> QED
    BY <1>7, <2>2, FailureCounts DEF Throws, TimesOut
<1>8. ASSUME NEW k \in Keys, Resets(k) PROVE CountInv'
  <2>1. ASSUME NEW j \in Keys PROVE Quieter(j)
    <3>1. CASE j = k
      BY <1>2, <1>8, <3>1 DEF Resets, Breaker
    <3>2. CASE j # k
      BY <1>2, <1>8, <3>2 DEF Resets
    <3> QED
      BY <3>1, <3>2
  <2> HIDE DEF Quieter
  <2> QED
    BY <1>1, <2>1
<1>9. CASE Restarts
  <2>1. \A k \in Keys : breaker'[k] = Closed
    BY <1>9 DEF Restarts
  <2> QED
    BY <1>1, <1>2, <2>1 DEF Closed
<1>10. ASSUME NEW c \in Calls, ProviderActs(c) \/ ChargeMoves(c) PROVE CountInv'
  BY <1>3, <1>10 DEF ProviderActs, ChargeMoves
<1>11. CASE UNCHANGED gatewayVars
  BY <1>3, <1>11 DEF gatewayVars
<1> QED
  BY <1>4, <1>5, <1>6, <1>7, <1>8, <1>9, <1>10, <1>11 DEF GatewayNext

\* A refused call had a breaker with enough calls and failures besides its own.
RefusalInv ==
  \A c \in Calls : pc[c] = "refused" =>
    \E k \in Keys :
      /\ k = KeyOf(c)
      /\ Cardinality(SentTo(k) \ {c}) >= VolumeThreshold
      /\ 100 * Cardinality(FailedAt(k) \ {c}) > Need

\* Refusals keep their reasons.
LEMMA RefusalPreserved ==
  ASSUME GatewayInv, CountInv, RefusalInv, [GatewayNext]_gatewayVars
  PROVE  RefusalInv'
<1> SUFFICES ASSUME NEW c \in Calls, pc'[c] = "refused"
             PROVE  \E k \in Keys :
                      /\ k = KeyOf(c)'
                      /\ Cardinality(SentTo(k)' \ {c}) >= VolumeThreshold
                      /\ 100 * Cardinality(FailedAt(k)' \ {c}) > Need
  BY DEF RefusalInv
<1>1. ASSUME NEW k \in Keys, k = KeyOf(c)',
             NEW S \in SUBSET SentTo(k), NEW F \in SUBSET FailedAt(k), c \notin S, c \notin F,
             Cardinality(S) >= VolumeThreshold, 100 * Cardinality(F) > Need
      PROVE  /\ Cardinality(SentTo(k)' \ {c}) >= VolumeThreshold
             /\ 100 * Cardinality(FailedAt(k)' \ {c}) > Need
  <2>1. /\ S \in SUBSET Calls /\ SentTo(k)' \ {c} \in SUBSET Calls
        /\ S \subseteq SentTo(k)' \ {c}
        /\ F \in SUBSET Calls /\ FailedAt(k)' \ {c} \in SUBSET Calls
        /\ F \subseteq FailedAt(k)' \ {c}
    BY <1>1, SentToGrows
  <2>2. /\ Cardinality(S) <= Cardinality(SentTo(k)' \ {c})
        /\ Cardinality(F) <= Cardinality(FailedAt(k)' \ {c})
        /\ Cardinality(S) \in Nat /\ Cardinality(SentTo(k)' \ {c}) \in Nat
        /\ Cardinality(F) \in Nat /\ Cardinality(FailedAt(k)' \ {c}) \in Nat
    BY <2>1, SizesOfCalls
  <2> QED
    BY <1>1, <2>2, ThresholdsAreIntegers
<1>2. CASE pc[c] # "idle"
  <2>1. pc[c] = "refused" /\ ask'[c] = ask[c]
    BY <1>2, StepsOfACall DEF Unasked
  <2>2. PICK k \in Keys : /\ k = KeyOf(c)
                         /\ Cardinality(SentTo(k) \ {c}) >= VolumeThreshold
                         /\ 100 * Cardinality(FailedAt(k) \ {c}) > Need
    BY <2>1 DEF RefusalInv
  <2>3. k = KeyOf(c)'
    BY <2>1, <2>2 DEF KeyOf
  <2> QED
    BY <1>1, <2>2, <2>3
<1>3. ASSUME NEW a \in Adapters, NEW op \in Ops, NEW of, NEW pair,
             pc[c] = "idle", Execute(c, a, op, of, pair)
      PROVE  \E k \in Keys :
               /\ k = KeyOf(c)'
               /\ Cardinality(SentTo(k)' \ {c}) >= VolumeThreshold
               /\ 100 * Cardinality(FailedAt(k)' \ {c}) > Need
  <2>1. PICK k \in Keys : k = BreakerKey(a, op)
    BY DEF BreakerKey, Keys
  <2>2. k = KeyOf(c)'
    BY <1>3, <2>1 DEF Execute, KeyOf, GatewayInv, GatewayTypeOK
  <2>3. Enough(k) /\ c \notin SentTo(k)
    BY <1>3, <2>2, ExecuteCounts
  <2>4. c \notin FailedAt(k)
    BY <2>3 DEF FailedAt
  <2> QED
    BY <1>1, <2>2, <2>3, <2>4 DEF Enough
<1>4. CASE pc[c] = "idle"
  <2>1. pc \in [Calls -> Stages]
    BY DEF GatewayInv, GatewayTypeOK
  <2>2. ASSUME NEW d \in Calls, NEW pair \in Pairs, CreateCharge(d, pair)
        PROVE  d = c /\ SelectFor(pair) \in Adapters
                 /\ Execute(c, SelectFor(pair), "createCharge", c, pair)
    <3>1. SelectFor(pair) # Null /\ d = c
      BY <1>4, <2>1, <2>2 DEF CreateCharge, Execute
    <3>2. SelectFor(pair) \in Adapters
      BY <3>1, SelectForFinds DEF GatewayInv
    <3> QED
      BY <2>2, <3>1, <3>2 DEF CreateCharge
  <2>3. ASSUME NEW d \in Calls, NEW e \in Calls, NEW op \in Ops \ {"createCharge"}, AskAbout(d, e, op)
        PROVE  d = c /\ ask[e].adapter \in Adapters /\ Execute(c, ask[e].adapter, op, e, ask[e].pair)
    <3>1. ask[e].adapter \in Registered /\ d = c
      BY <1>4, <2>1, <2>3 DEF AskAbout, AdapterOf, Execute
    <3>2. ask[e].adapter \in Adapters
      BY <2>3 DEF AskAbout, GatewayInv, QuestionInv, Unasked
    <3> QED
      BY <2>3, <3>1, <3>2 DEF AskAbout, AdapterOf
  <2>4. ASSUME NEW d \in Calls, Answers(d) \/ Throws(d) \/ TimesOut(d) \/ ProviderActs(d) \/ ChargeMoves(d)
        PROVE  FALSE
    BY <1>4, <2>1, <2>4 DEF Answers, Throws, TimesOut, ProviderActs, ChargeMoves
  <2>5. ASSUME NEW k \in Keys, Resets(k) PROVE FALSE
    BY <1>4, <2>5 DEF Resets
  <2>6. CASE Restarts
    BY <1>4, <2>1, <2>6 DEF Restarts
  <2>7. CASE UNCHANGED gatewayVars
    BY <1>4, <2>7 DEF gatewayVars
  <2>8. "createCharge" \in Ops
    BY DEF Ops
  <2> QED
    BY <1>3, <1>4, <2>2, <2>3, <2>4, <2>5, <2>6, <2>7, <2>8 DEF GatewayNext
<1> QED
  BY <1>2, <1>4

\* With it, the counts of the breakers and the reasons of the refusals.
LEMMA CountsInvariant == GatewaySpec => [](GatewayInv /\ CountInv /\ RefusalInv)
<1>1. GatewayInit => GatewayInv /\ CountInv /\ RefusalInv
  <2> SUFFICES ASSUME GatewayInit PROVE GatewayInv /\ CountInv /\ RefusalInv
    OBVIOUS
  <2>1. GatewayInv
    BY GatewayStarts
  <2>2. ASSUME NEW k \in Keys PROVE Counted(k)
    <3>1. SentTo(k) \in SUBSET Calls /\ FailedAt(k) \in SUBSET Calls
      BY DEF SentTo, FailedAt
    <3>2. Cardinality(SentTo(k)) \in Nat /\ Cardinality(FailedAt(k)) \in Nat
      BY <3>1, SizesOfCalls
    <3>3. breaker[k].fires = 0 /\ breaker[k].failures = 0 /\ breaker[k].state = "closed"
      BY DEF GatewayInit, Closed
    <3> QED
      BY <3>2, <3>3 DEF Counted
  <2>3. RefusalInv
    BY DEF RefusalInv, GatewayInit
  <2> QED
    BY <2>1, <2>2, <2>3 DEF CountInv
<1>2. /\ GatewayInv /\ CountInv /\ RefusalInv
      /\ [GatewayNext]_gatewayVars
      => (GatewayInv /\ CountInv /\ RefusalInv)'
  BY GatewayPreserves, CountPreserved, RefusalPreserved
<1> QED
  BY <1>1, <1>2, PTL DEF GatewaySpec

\* A refusal has enough failures of the same operation of the same adapter behind it.
THEOREM RefusalsAreEarned == GatewaySpec => []RefusedForOwnFailures
<1>1. GatewayInv /\ RefusalInv => RefusedForOwnFailures
  <2> SUFFICES ASSUME GatewayInv, RefusalInv, NEW c \in Calls, pc[c] = "refused"
               PROVE  LET peers == {d \in Calls \ {c} : /\ ask[d].op = ask[c].op
                                                         /\ ask[d].adapter = ask[c].adapter}
                          failed == {d \in peers : pc[d] = "threw"}
                      IN /\ Cardinality(peers) >= VolumeThreshold
                         /\ 100 * Cardinality(failed) > Need
    BY DEF RefusedForOwnFailures, Need
  <2> DEFINE peers == {d \in Calls \ {c} : /\ ask[d].op = ask[c].op
                                           /\ ask[d].adapter = ask[c].adapter}
             failed == {d \in peers : pc[d] = "threw"}
  <2>1. PICK k \in Keys : /\ k = KeyOf(c)
                         /\ Cardinality(SentTo(k) \ {c}) >= VolumeThreshold
                         /\ 100 * Cardinality(FailedAt(k) \ {c}) > Need
    BY DEF RefusalInv
  <2>2. ask[c].op \in Ops
    BY DEF GatewayInv, QuestionInv, Unasked
  <2>3. peers = SentTo(k) \ {c}
    <3>1. ASSUME NEW d \in Calls, pc[d] \in Unasked PROVE ask[d].op # ask[c].op
      BY <2>2, <3>1 DEF GatewayInv, QuietInv, NoAsk, Ops
    <3> QED
      BY <2>1, <3>1 DEF SentTo, KeyOf, BreakerKey
  <2>4. failed = FailedAt(k) \ {c}
    BY <2>3 DEF FailedAt
  <2> QED
    BY <2>1, <2>3, <2>4
<1> QED
  BY <1>1, CountsInvariant, PTL

-----------------------------------------------------------------------------
\* Which charges are found.

\* Every adapter but Conekta's asks about a charge, and is notified of it, by the id that
\* it returned when the charge was created.
LEMMA OneIdButConekta ==
  ASSUME NEW a \in DOMAIN Adapter \ {"conekta"}
  PROVE  /\ Adapter[a].refunds = Adapter[a].creates
         /\ Adapter[a].retrieves = Adapter[a].creates
         /\ Adapter[a].notifies = Adapter[a].creates
<1>1. a \in {"stripe", "mercadopago", "pagarme", "dlocal"}
  BY AdapterIds
<1> QED
  BY <1>1 DEF Adapter, StripeAdapter, MercadoPagoAdapter, PagarmeAdapter, DlocalAdapter

\* The state of a charge is a word of its provider's, and none of them is "not_found".
LEMMA NoWordIsNotFound ==
  ASSUME NEW a \in DOMAIN Adapter PROVE "not_found" \notin Words[a]
<1>1. Words[a] \subseteq DOMAIN StatusTable[a] \cup {"unheard_of"}
  BY GatewayAssumption
<1>2. "not_found" \notin DOMAIN StatusTable[a]
  BY AdapterIds DEF StatusTable, StripeIntentStatus, MercadoPagoStatus, PagarmeStatus,
     ConektaStatus, DlocalStatus
<1> QED
  BY <1>1, <1>2

\* A provider that does not find a charge is Conekta.
LostAtConektaInv == \A c \in Calls : reply[c] = "not_found" => ask[c].adapter = "conekta"

\* Nobody has an answer before asking, and nothing but a provider's act is an answer.
LEMMA LostAtConektaPreserved ==
  ASSUME GatewayInv, LostAtConektaInv, [GatewayNext]_gatewayVars
  PROVE  LostAtConektaInv'
<1>1. ASSUME NEW c \in Calls, pc[c] = "idle", UNCHANGED reply,
             \A d \in Calls \ {c} : ask'[d] = ask[d]
      PROVE  LostAtConektaInv'
  <2>1. reply[c] = "none"
    BY <1>1 DEF GatewayInv, QuietInv, Unasked
  <2> QED
    BY <1>1, <2>1 DEF LostAtConektaInv
<1>2. ASSUME NEW c \in Calls, pc[c] = "idle", NEW a, NEW op, NEW of, NEW pair,
             Execute(c, a, op, of, pair)
      PROVE  LostAtConektaInv'
  <2>1. UNCHANGED reply /\ \A d \in Calls \ {c} : ask'[d] = ask[d]
    BY <1>2 DEF Execute, GatewayInv, GatewayTypeOK
  <2> QED
    BY <1>1, <1>2, <2>1
<1>3. ASSUME NEW c \in Calls, NEW pair \in Pairs, CreateCharge(c, pair)
      PROVE  LostAtConektaInv'
  BY <1>1, <1>2, <1>3 DEF CreateCharge, IsNext
<1>4. ASSUME NEW c \in Calls, NEW d \in Calls, NEW op, AskAbout(c, d, op)
      PROVE  LostAtConektaInv'
  BY <1>1, <1>2, <1>4 DEF AskAbout, IsNext
<1>5. ASSUME NEW c \in Calls, ProviderActs(c) PROVE LostAtConektaInv'
  <2>1. /\ runs[c] = c /\ ask[c].adapter \in DOMAIN Adapter /\ ask[c].of \in Calls
        /\ ask[ask[c].of].adapter = ask[c].adapter /\ UNCHANGED ask
    BY <1>5, WaitingCall DEF ProviderActs
  <2>2. \A d \in Calls : charge[d] = "none" \/ charge[d] \in Words[ask[d].adapter]
    BY DEF GatewayInv, ChargeInv
  <2>3. CASE ask[c].adapter = "conekta"
    BY <1>5, <2>1, <2>3 DEF ProviderActs, LostAtConektaInv, GatewayInv, GatewayTypeOK
  <2>4. CASE ask[c].adapter # "conekta"
    <3>1. PICK said : said # "not_found" /\ reply' = [reply EXCEPT ![c] = said]
      BY <1>5, <2>1, <2>2, <2>4, OneIdButConekta, NoWordIsNotFound DEF ProviderActs
    <3> QED
      BY <2>1, <3>1 DEF LostAtConektaInv, GatewayInv, GatewayTypeOK
  <2> QED
    BY <2>3, <2>4
<1>6. CASE UNCHANGED <<ask, reply>>
  BY <1>6 DEF LostAtConektaInv
<1> QED
  BY <1>3, <1>4, <1>5, <1>6 DEF GatewayNext, gatewayVars, Answers, Throws, TimesOut, Resets,
     ChargeMoves, Restarts

\* Where Conekta is not configured, every refund and every retrieval finds the charge it
\* is about: what the code says of orders is wrong of this one adapter alone.
THEOREM FoundButAtConekta ==
  ASSUME "conekta" \notin Adapters PROVE GatewaySpec => []ChargeIsFound
<1>1. GatewayInit => LostAtConektaInv
  BY DEF GatewayInit, LostAtConektaInv
<1>2. GatewayInv /\ LostAtConektaInv => ChargeIsFound
  <2> SUFFICES ASSUME GatewayInv, LostAtConektaInv, NEW c \in Calls, reply[c] = "not_found"
               PROVE  FALSE
    BY DEF ChargeIsFound
  <2>1. runs[c] # Null
    BY DEF GatewayInv, QuietInv
  <2> QED
    BY <2>1, WaitingCall DEF LostAtConektaInv
<1> QED
  BY <1>1, <1>2, LostAtConektaPreserved, GatewayInvariant, PTL DEF GatewaySpec
=============================================================================

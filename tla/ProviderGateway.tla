-------------------------- MODULE ProviderGateway --------------------------
(***************************************************************************)
(* The way from the services to a provider: the registry picks an adapter, *)
(* the adapter hands a closure to the circuit breaker of its operation,    *)
(* and the breaker, shared by all callers, runs it, refuses it or gives up *)
(* on it.                                                                  *)
(***************************************************************************)
EXTENDS ProviderAdapters, FiniteSets, Sequences, Integers

CONSTANTS
  MaxCalls,         \* calls that create(), refund() and reconcileOne() make
  Pairs,            \* countries and currencies of the payments
  Configurations,   \* the adapters that may be configured, in the order they register
  Words,            \* the states of a charge, for each adapter
  VolumeThreshold,  \* calls before a breaker may open (the code says 5)
  ErrorThreshold,   \* percentage of failures that opens it (the code says 50)
  MaxRestarts,      \* bound on restarts
  Null

ASSUME GatewayAssumption ==
  /\ MaxCalls \in Nat /\ MaxRestarts \in Nat
  /\ VolumeThreshold \in Nat /\ ErrorThreshold \in 0..100
  /\ Configurations \subseteq Seq(DOMAIN Adapter)
  /\ \A a \in DOMAIN Adapter :
       Words[a] \subseteq DOMAIN StatusTable[a] \cup {"unheard_of"}
  /\ Null \notin 1..MaxCalls

\* The calls, numbered in the order in which they are made.
Calls == 1..MaxCalls

VARIABLES
  registry,  \* the adapters registered, in order
  breaker,   \* the breakers, by adapter and operation
  pc,        \* where a call is
  ask,       \* what a call asks: operation, payment, adapter, charge
  runs,      \* the call whose closure the breaker ran for a call, Null before
  reply,     \* what the provider said to a call, "none" before
  answer,    \* the result of a call: a status and the charge it is about
  charge,    \* the state of the charge that the closure of a call created
  paid,      \* charges that were paid at some time
  restarts

gatewayVars == <<registry, breaker, pc, ask, runs, reply, answer, charge, paid, restarts>>

Ops == {"createCharge", "refund", "retrieve"}
Adapters == UNION {{conf[i] : i \in DOMAIN conf} : conf \in Configurations}
Keys == Adapters \X Ops

\* Mutant of BreakerKey: one breaker for an adapter.
BreakerOfAdapter(a, op) == <<a, "createCharge">>

\* The key an adapter gives execute(): its name and the operation.
BreakerKey(a, op) == <<a, op>>

\* A breaker, with the calls and failures of its whole life: the library counts those
\* in a window of time.
Closed == [state |-> "closed", pendingClose |-> FALSE, fires |-> 0, failures |-> 0]

Breaker == [state : {"closed", "open", "halfOpen"}, pendingClose : BOOLEAN,
            fires : Nat, failures : Nat]

Admits(b) == b.state = "closed" \/ b.pendingClose

Stages == {"idle", "await", "answered", "threw", "refused", "unserved", "lost"}
Sayings == UNION {Words[a] : a \in DOMAIN Adapter}
Report == [status : ChargeStatus, charge : Calls]
NoReport == [status |-> "pending", charge |-> Null]
Question == [op : Ops \cup {"none"}, pair : Pairs \cup {Null},
             adapter : Adapters \cup {"none"}, of : Calls \cup {Null}]
NoAsk == [op |-> "none", pair |-> Null, adapter |-> "none", of |-> Null]

GatewayInit ==
  /\ registry \in Configurations
  /\ breaker = [k \in Keys |-> Closed]
  /\ pc = [c \in Calls |-> "idle"]
  /\ ask = [c \in Calls |-> NoAsk]
  /\ runs = [c \in Calls |-> Null]
  /\ reply = [c \in Calls |-> "none"]
  /\ answer = [c \in Calls |-> NoReport]
  /\ charge = [c \in Calls |-> "none"]
  /\ paid = {}
  /\ restarts = 0

Registered == {registry[i] : i \in DOMAIN registry}

\* registry.selectFor(): the first that serves the pair, Null if it throws.
SelectFor(pair) ==
  LET serving == {i \in DOMAIN registry : Serves(registry[i], pair)}
  IN IF serving = {} THEN Null
     ELSE registry[CHOOSE i \in serving : \A j \in serving : i <= j]

-----------------------------------------------------------------------------
Made(c) == pc[c] \notin {"idle", "unserved"}

KeyOf(c) == BreakerKey(ask[c].adapter, ask[c].op)

\* Mutant of ActionOf: the closure of the call that made the breaker is kept.
FirstAction(k, c) ==
  LET made == {d \in Calls : Made(d) /\ KeyOf(d) = k}
  IN IF made = {} THEN c ELSE CHOOSE d \in made : \A e \in made : d <= e

\* getOrCreate() replaces the action of the breaker by the closure of this call.
ActionOf(k, c) == c

\* execute(): the breaker refuses call c, or runs the closure it has been given.
Execute(c, a, op, of, pair) ==
  LET k == BreakerKey(a, op)
      b == [breaker[k] EXCEPT !.fires = @ + 1]
  IN /\ ask' = [ask EXCEPT ![c] = [op |-> op, pair |-> pair, adapter |-> a, of |-> of]]
     /\ \/ /\ ~ Admits(b)
           /\ breaker' = [breaker EXCEPT ![k] = b]
           /\ pc' = [pc EXCEPT ![c] = "refused"]
           /\ UNCHANGED runs
        \/ /\ Admits(b)
           /\ breaker' = [breaker EXCEPT ![k] = [b EXCEPT !.pendingClose = FALSE]]
           /\ pc' = [pc EXCEPT ![c] = "await"]
           /\ runs' = [runs EXCEPT ![c] = ActionOf(k, c)]
     /\ UNCHANGED <<registry, reply, answer, charge, paid, restarts>>

\* The calls before c have been made.
IsNext(c) == pc[c] = "idle" /\ \A d \in Calls : d < c => pc[d] # "idle"

\* create(): a provider is selected for the pair and asked to charge, if there is one.
CreateCharge(c, pair) ==
  LET a == SelectFor(pair)
  IN /\ IsNext(c)
     /\ IF a = Null
        THEN /\ pc' = [pc EXCEPT ![c] = "unserved"]
             /\ UNCHANGED <<registry, breaker, ask, runs, reply, answer, charge, paid,
                            restarts>>
        ELSE Execute(c, a, "createCharge", c, pair)

\* Mutant of AdapterOf: the provider is selected anew.
AdapterNow(d) == SelectFor(ask[d].pair)

\* registry.get(payment.providerId): the adapter that made the charge.
AdapterOf(d) == ask[d].adapter

\* refund() and reconcileOne() about the charge that call d was answered with.
AskAbout(c, d, op) ==
  LET a == AdapterOf(d)
  IN /\ IsNext(c)
     /\ pc[d] = "answered" /\ ask[d].op = "createCharge"
     /\ IF a \notin Registered
        THEN /\ pc' = [pc EXCEPT ![c] = "unserved"]
             /\ UNCHANGED <<registry, breaker, ask, runs, reply, answer, charge, paid,
                            restarts>>
        ELSE Execute(c, a, op, d, ask[d].pair)

-----------------------------------------------------------------------------
\* opossum: a success closes a half-open breaker.
Succeeds(k) ==
  breaker' = [breaker EXCEPT ![k].state = IF @ = "halfOpen" THEN "closed" ELSE @,
                             ![k].pendingClose = FALSE]

\* opossum: a failure opens a half-open breaker; a closed one if there were enough calls
\* and failures in the window, which may have forgotten some.
Fails(k) ==
  LET b     == [breaker[k] EXCEPT !.failures = @ + 1]
      trips == b.fires >= VolumeThreshold
                 /\ 100 * b.failures > ErrorThreshold * VolumeThreshold
      opened == [b EXCEPT !.state = "open", !.pendingClose = FALSE]
  IN \/ /\ b.state = "halfOpen" \/ (b.state = "closed" /\ trips)
        /\ breaker' = [breaker EXCEPT ![k] = opened]
     \/ b.state # "halfOpen" /\ breaker' = [breaker EXCEPT ![k] = b]

\* The adapter translates what the provider said; execute() returns it. A refund has a
\* status of its own, which refund() does not look at: it tells nothing of the charge.
Answers(c) ==
  /\ pc[c] = "await" /\ reply[c] \notin {"none", "error", "not_found"}
  /\ pc' = [pc EXCEPT ![c] = "answered"]
  /\ answer' = [answer EXCEPT ![c] =
                  [status |-> IF ask[c].op = "refund" THEN "pending"
                              ELSE MapStatus(ask[c].adapter, reply[c]),
                   charge |-> ask[runs[c]].of]]
  /\ Succeeds(KeyOf(c))
  /\ UNCHANGED <<registry, ask, runs, reply, charge, paid, restarts>>

\* The adapter throws: a decline counts against the provider like an outage.
Throws(c) ==
  /\ pc[c] = "await" /\ reply[c] \in {"error", "not_found"}
  /\ pc' = [pc EXCEPT ![c] = "threw"]
  /\ Fails(KeyOf(c))
  /\ UNCHANGED <<registry, ask, runs, reply, answer, charge, paid, restarts>>

\* Mutant of TimesOut: the breaker is made without a timeout.
NeverTimesOut(c) == FALSE /\ UNCHANGED gatewayVars

\* Ten seconds have passed; the provider may still act on the call.
TimesOut(c) ==
  /\ pc[c] = "await"
  /\ pc' = [pc EXCEPT ![c] = "threw"]
  /\ Fails(KeyOf(c))
  /\ UNCHANGED <<registry, ask, runs, reply, answer, charge, paid, restarts>>

\* Thirty seconds after it opened, a breaker lets one call try.
Resets(k) ==
  /\ breaker[k].state = "open"
  /\ breaker' = [breaker EXCEPT ![k].state = "halfOpen", ![k].pendingClose = TRUE]
  /\ UNCHANGED <<registry, pc, ask, runs, reply, answer, charge, paid, restarts>>

-----------------------------------------------------------------------------
\* The charge of call d gets to state word.
ChargeGets(d, word) ==
  /\ charge' = [charge EXCEPT ![d] = word]
  /\ paid' = IF word \in MoneyTaken[ask[d].adapter] THEN paid \cup {d} ELSE paid

\* A provider acts on a call, whoever still waits for it: it charges, or gives the state
\* of the charge, or refuses; it knows a charge only by the id of the right object.
ProviderActs(c) ==
  LET d == runs[c]
      a == Adapter[ask[d].adapter]
      known == a.creates = (IF ask[d].op = "refund" THEN a.refunds ELSE a.retrieves)
  IN /\ d # Null /\ reply[c] = "none"
     /\ \/ /\ reply' = [reply EXCEPT ![c] = "error"]
           /\ UNCHANGED <<charge, paid>>
        \/ /\ ask[d].op = "createCharge" /\ charge[d] = "none"
           /\ \E word \in Words[ask[d].adapter] :
                /\ ChargeGets(d, word)
                /\ reply' = [reply EXCEPT ![c] =
                               IF word \in a.throwsOn THEN "error" ELSE word]
        \/ /\ ask[d].op = "createCharge" /\ charge[d] # "none"
           /\ reply' = [reply EXCEPT ![c] = charge[d]]
           /\ UNCHANGED <<charge, paid>>
        \/ /\ ask[d].op # "createCharge"
           /\ reply' = [reply EXCEPT ![c] = IF known THEN charge[ask[d].of] ELSE "not_found"]
           /\ UNCHANGED <<charge, paid>>
     /\ UNCHANGED <<registry, breaker, pc, ask, runs, answer, restarts>>

\* A charge moves on at the provider.
ChargeMoves(d) ==
  /\ charge[d] # "none"
  /\ \E word \in Words[ask[d].adapter] : ChargeGets(d, word)
  /\ UNCHANGED <<registry, breaker, pc, ask, runs, reply, answer, restarts>>

\* The process restarts, perhaps with other secrets configured: breakers are in memory.
Restarts ==
  /\ restarts < MaxRestarts
  /\ restarts' = restarts + 1
  /\ registry' \in Configurations
  /\ breaker' = [k \in Keys |-> Closed]
  /\ pc' = [c \in Calls |-> IF pc[c] = "await" THEN "lost" ELSE pc[c]]
  /\ UNCHANGED <<ask, runs, reply, answer, charge, paid>>

GatewayNext ==
  \/ \E c \in Calls : \/ \E pair \in Pairs : CreateCharge(c, pair)
                      \/ \E d \in Calls, op \in Ops \ {"createCharge"} : AskAbout(c, d, op)
  \/ \E c \in Calls : Answers(c) \/ Throws(c) \/ TimesOut(c) \/ ProviderActs(c)
  \/ \E k \in Keys : Resets(k)
  \/ \E d \in Calls : ChargeMoves(d)
  \/ Restarts

GatewaySpec == GatewayInit /\ [][GatewayNext]_gatewayVars

\* The timers of the process run; nothing is asked of providers or callers.
FairGatewaySpec ==
  /\ GatewaySpec
  /\ \A c \in Calls : WF_gatewayVars(TimesOut(c))
  /\ \A k \in Keys : WF_gatewayVars(Resets(k))

-----------------------------------------------------------------------------
\* Properties.

\* Every variable of the gateway stays in its domain, and a breaker that waits for the
\* outcome of one call is half-open.
GatewayTypeOK ==
  /\ registry \in Configurations
  /\ breaker \in [Keys -> Breaker]
  /\ \A k \in Keys : breaker[k].pendingClose => breaker[k].state = "halfOpen"
  /\ pc \in [Calls -> Stages]
  /\ ask \in [Calls -> Question]
  /\ runs \in [Calls -> Calls \cup {Null}]
  /\ reply \in [Calls -> Sayings \cup {"none", "error", "not_found"}]
  /\ charge \in [Calls -> Sayings \cup {"none"}]
  /\ answer \in [Calls -> Report \cup {NoReport}]
  /\ paid \subseteq Calls /\ restarts \in 0..MaxRestarts

\* What a caller is answered is about the charge it asked for, and neither the answer
\* nor what a webhook sent now would be read as calls a charge captured or refunded
\* unless the provider took the money, however many callers share the breaker and its
\* action: what PaymentProvider takes for granted.
AnswersAreTrue ==
  LET money == {"captured", "refunded"}
  IN \A c \in Calls :
       /\ pc[c] = "answered" =>
            answer[c].charge = ask[c].of /\ (answer[c].status \in money => ask[c].of \in paid)
       /\ charge[c] # "none" /\ c \notin paid =>
            HookStatuses(ask[c].adapter, charge[c], FALSE) \cap money = {}

\* A call is refused by the breaker only if there were enough calls of the same
\* operation of the same adapter that failed or timed out: failing creations never
\* block refunds, nor one provider another.
RefusedForOwnFailures ==
  \A c \in Calls : pc[c] = "refused" =>
    LET peers == {d \in Calls \ {c} : /\ ask[d].op = ask[c].op
                                      /\ ask[d].adapter = ask[c].adapter}
        failed == {d \in peers : pc[d] = "threw"}
    IN /\ Cardinality(peers) >= VolumeThreshold
       /\ 100 * Cardinality(failed) > ErrorThreshold * VolumeThreshold

\* Refunds and retrievals go to the provider that made the charge, also when a restart
\* with other secrets has changed which one serves the pair.
AskedWhereCharged ==
  \A c \in Calls : ask[c].of # Null => ask[c].adapter = ask[ask[c].of].adapter

\* The way to a provider keeps the contract of ProviderCall: a call that is refused or
\* finds no adapter never charges, every other one ends once, with the truth about the
\* charge it asked for or with a failure, also when the provider answers late, when the
\* breaker gives its one trial to another call, and across a restart.
Contract == INSTANCE ProviderCall WITH
  None          <- Null,
  Statuses      <- ChargeStatus,
  MoneyStatuses <- {"captured", "refunded"},
  state <- [c \in Calls |-> CASE pc[c] = "idle" -> "none"
                              [] pc[c] \in {"refused", "unserved"} -> "away"
                              [] pc[c] = "await" -> "out"
                              [] pc[c] = "answered" -> "told"
                              [] OTHER -> "failed"],
  about <- [c \in Calls |-> ask[c].of],
  told  <- [c \in Calls |-> IF pc[c] = "answered" THEN answer[c] ELSE Null],
  money <- paid

KeepsContract == Contract!Spec

\* No caller waits for ever, whatever the provider does.
EveryCallEnds == \A c \in Calls : pc[c] = "await" ~> pc[c] # "await"

\* No breaker refuses for ever: it is closed or lets a call try again and again.
NeverShutForGood == \A k \in Keys : []<>Admits(breaker[k])

-----------------------------------------------------------------------------
\* "Conekta requiere orderId para refund": the provider finds the charge it is asked for.
ChargeIsFound == \A c \in Calls : reply[c] # "not_found"
=============================================================================

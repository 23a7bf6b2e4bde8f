--------------------------- MODULE ContractProofs ---------------------------
(***************************************************************************)
(* The gateway keeps the contract of a provider call: every step of the    *)
(* registry, the breakers, the adapters and the providers is a step of     *)
(* ProviderCall or none, for any number of calls and restarts.             *)
(***************************************************************************)
EXTENDS GatewayProofs

\* A call that was refused has no closure, so nothing is ever charged for it.
RefusedInv == \A c \in Calls : pc[c] = "refused" => runs[c] = Null

\* A question that is put to a breaker, as AskAbout and CreateCharge put it.
Asked(c, a, op, of, pair) ==
  /\ pc[c] = "idle" /\ a \in Adapters /\ op \in Ops /\ of \in Calls
  /\ Execute(c, a, op, of, pair)

\* A call is made: it is put to a breaker, or finds no adapter.
LEMMA CallsMade ==
  ASSUME GatewayInv, NEW c \in Calls,
         \/ \E pair \in Pairs : CreateCharge(c, pair)
         \/ \E d \in Calls, op \in Ops \ {"createCharge"} : AskAbout(c, d, op)
  PROVE  \/ \E a, op, of, pair : Asked(c, a, op, of, pair)
         \/ /\ pc[c] = "idle" /\ pc' = [pc EXCEPT ![c] = "unserved"]
            /\ UNCHANGED <<ask, runs, answer, paid>>
<1>1. ASSUME NEW pair \in Pairs, CreateCharge(c, pair), SelectFor(pair) # Null
      PROVE  Asked(c, SelectFor(pair), "createCharge", c, pair)
  BY <1>1, SelectForFinds DEF GatewayInv, CreateCharge, IsNext, Asked, Ops
<1>2. ASSUME NEW d \in Calls, NEW op \in Ops \ {"createCharge"}, AskAbout(c, d, op),
             ask[d].adapter \in Registered
      PROVE  Asked(c, ask[d].adapter, op, d, ask[d].pair)
  BY <1>2 DEF GatewayInv, QuestionInv, Unasked, AskAbout, AdapterOf, IsNext, Asked
<1> QED
  BY <1>1, <1>2 DEF CreateCharge, AskAbout, AdapterOf, IsNext

LEMMA RefusedPreserved ==
  ASSUME GatewayInv, RefusedInv, [GatewayNext]_gatewayVars PROVE RefusedInv'
<1> USE DEF GatewayInv, GatewayTypeOK, RefusedInv
<1>1. ASSUME NEW c \in Calls, NEW a, NEW op, NEW of, NEW pair, Asked(c, a, op, of, pair)
      PROVE  RefusedInv'
  <2>1. runs[c] = Null
    BY <1>1 DEF Asked, QuietInv, Unasked
  <2> QED
    BY <1>1, <2>1 DEF Asked, Execute
<1>2. ASSUME UNCHANGED runs, \A c \in Calls : pc'[c] = "refused" => pc[c] = "refused"
      PROVE  RefusedInv'
  BY <1>2
<1>3. ASSUME NEW c \in Calls,
             \/ \E pair \in Pairs : CreateCharge(c, pair)
             \/ \E d \in Calls, op \in Ops \ {"createCharge"} : AskAbout(c, d, op)
      PROVE  RefusedInv'
  BY <1>1, <1>2, <1>3, CallsMade
<1>4. ASSUME NEW c \in Calls,
             Answers(c) \/ Throws(c) \/ TimesOut(c) \/ ProviderActs(c) \/ ChargeMoves(c)
      PROVE  RefusedInv'
  BY <1>2, <1>4 DEF Answers, Throws, TimesOut, ProviderActs, ChargeMoves
<1>5. ASSUME NEW k \in Keys, Resets(k) PROVE RefusedInv'
  BY <1>2, <1>5 DEF Resets
<1>6. CASE Restarts
  BY <1>2, <1>6 DEF Restarts
<1>7. CASE UNCHANGED gatewayVars
  BY <1>2, <1>7 DEF gatewayVars
<1> QED
  BY <1>3, <1>4, <1>5, <1>6, <1>7 DEF GatewayNext

\* Where the contract sees a call.
StateOf(stage) ==
  CASE stage = "idle" -> "none"
    [] stage \in {"refused", "unserved"} -> "away"
    [] stage = "await" -> "out"
    [] stage = "answered" -> "told"
    [] OTHER -> "failed"

LEMMA StatesOfStages ==
  /\ StateOf("idle") = "none" /\ StateOf("refused") = "away" /\ StateOf("unserved") = "away"
  /\ StateOf("await") = "out" /\ StateOf("answered") = "told"
  /\ StateOf("threw") = "failed" /\ StateOf("lost") = "failed"
  /\ \A stage \in Stages \ (Unasked \cup {"refused"}) : StateOf(stage) \notin {"none", "away"}
BY DEF StateOf, Stages, Unasked

\* What becomes of the abstract state when one call moves.
LEMMA CallMoves ==
  ASSUME GatewayInv, NEW c \in Calls, NEW stage \in Stages, pc[c] # "answered",
         pc' = [pc EXCEPT ![c] = stage]
  PROVE  [d \in Calls |-> StateOf(pc[d])]'
           = [[d \in Calls |-> StateOf(pc[d])] EXCEPT ![c] = StateOf(stage)]
BY DEF GatewayInv, GatewayTypeOK
\* Steps of the contract, of a given answer and of given calls.
LEMMA ContractSteps ==
  /\ \A c \in Calls, a \in Contract!Answer : Contract!Tell(c, a) => Contract!Next
  /\ \A C \in SUBSET Calls : Contract!Fail(C) => Contract!Next
BY DEF Contract!Next

LEMMA ContractStarts == GatewayInit => Contract!Init
BY StatesOfStages DEF GatewayInit, Contract!Init, NoAsk, StateOf

\* A call that is put to a breaker goes out or is turned away.
LEMMA AskedKeepsContract ==
  ASSUME GatewayInv, NEW c \in Calls, NEW a, NEW op, NEW of, NEW pair,
         Asked(c, a, op, of, pair)
  PROVE  Contract!Next
<1> DEFINE state == [d \in Calls |-> StateOf(pc[d])]
           about == [d \in Calls |-> ask[d].of]
           told  == [d \in Calls |-> IF pc[d] = "answered" THEN answer[d] ELSE Null]
<1>1. /\ pc[c] = "idle" /\ of \in Calls
      /\ ask' = [ask EXCEPT ![c] = [op |-> op, pair |-> pair, adapter |-> a, of |-> of]]
      /\ pc' = [pc EXCEPT ![c] = "refused"] \/ pc' = [pc EXCEPT ![c] = "await"]
      /\ UNCHANGED <<answer, paid>>
  BY DEF Asked, Execute
<1>2. about' = [about EXCEPT ![c] = of] /\ told' = told
  BY <1>1 DEF GatewayInv, GatewayTypeOK
<1>3. state[c] = "none"
  BY <1>1, StatesOfStages
<1>4. CASE pc' = [pc EXCEPT ![c] = "refused"]
  <2>1. state' = [state EXCEPT ![c] = "away"]
    BY <1>1, <1>4, CallMoves, StatesOfStages DEF Stages
  <2>2. Contract!TurnedAway(c, of)
    BY <1>1, <1>2, <1>3, <2>1 DEF Contract!TurnedAway, Contract!Ask, StateOf
  <2> QED
    BY <1>1, <2>2 DEF Contract!Next
<1>5. CASE pc' = [pc EXCEPT ![c] = "await"]
  <2>1. state' = [state EXCEPT ![c] = "out"]
    BY <1>1, <1>5, CallMoves, StatesOfStages DEF Stages
  <2>2. Contract!GoesOut(c, of)
    BY <1>1, <1>2, <1>3, <2>1 DEF Contract!GoesOut, Contract!Ask, StateOf
  <2> QED
    BY <1>1, <2>2 DEF Contract!Next
<1> QED
  BY <1>1, <1>4, <1>5

\* So is one that finds no adapter.
LEMMA UnservedKeepsContract ==
  ASSUME GatewayInv, NEW c \in Calls, pc[c] = "idle", pc' = [pc EXCEPT ![c] = "unserved"],
         UNCHANGED <<ask, runs, answer, paid>>
  PROVE  Contract!Next
<1> DEFINE state == [d \in Calls |-> StateOf(pc[d])]
           about == [d \in Calls |-> ask[d].of]
           told  == [d \in Calls |-> IF pc[d] = "answered" THEN answer[d] ELSE Null]
<1>1. about' = [about EXCEPT ![c] = Null] /\ told' = told
  BY DEF GatewayInv, GatewayTypeOK, QuietInv, Unasked, NoAsk
<1>2. state[c] = "none" /\ state' = [state EXCEPT ![c] = "away"]
  BY CallMoves, StatesOfStages DEF Stages
<1>3. Contract!TurnedAway(c, Null)
  BY <1>1, <1>2 DEF Contract!TurnedAway, Contract!Ask, StateOf
<1> QED
  BY <1>3 DEF Contract!Next

\* A call ends with the truth or fails.
LEMMA EndingKeepsContract ==
  ASSUME GatewayInv, GatewayInv', NEW c \in Calls, Answers(c) \/ Throws(c) \/ TimesOut(c)
  PROVE  Contract!Next
<1> DEFINE state == [d \in Calls |-> StateOf(pc[d])]
           about == [d \in Calls |-> ask[d].of]
           told  == [d \in Calls |-> IF pc[d] = "answered" THEN answer[d] ELSE Null]
<1>1. pc[c] = "await" /\ state[c] = "out" /\ UNCHANGED <<ask, paid>>
  BY StatesOfStages DEF Answers, Throws, TimesOut
<1>2. CASE Answers(c)
  <2>1. pc' = [pc EXCEPT ![c] = "answered"]
        /\ answer' = [answer EXCEPT ![c] = answer'[c]]
    BY <1>2 DEF Answers, GatewayInv, GatewayTypeOK
  <2>2. state' = [state EXCEPT ![c] = "told"]
    BY <1>1, <2>1, CallMoves, StatesOfStages DEF Stages
  <2>3. /\ answer'[c] \in Contract!Answer /\ answer'[c].charge = about[c]
        /\ answer'[c].status \in {"captured", "refunded"} => answer'[c].charge \in paid
    <3>1. pc'[c] = "answered"
      BY <2>1 DEF GatewayInv, GatewayTypeOK
    <3>2. /\ (answer[c] \in Contract!Answer)' /\ answer'[c].charge = ask'[c].of
          /\ answer'[c].status \in {"captured", "refunded"} => answer'[c].charge \in paid'
      <4>1. ask'[c].of \in Calls /\ answer'[c].charge = ask'[c].of
        BY <3>1 DEF GatewayInv, QuestionInv, AnswerInv, Unasked
      <4>2. answer'[c] \in Report
        BY <4>1, GatewayAssumption DEF GatewayInv, GatewayTypeOK, NoReport, Calls
      <4> QED
        BY <3>1, <4>1, <4>2 DEF GatewayInv, AnswerInv, Money, Contract!Answer, Report
    <3> QED
      BY <1>1, <3>2 DEF Contract!Answer
  <2>4. told' = [told EXCEPT ![c] = answer'[c]]
    BY <2>1 DEF GatewayInv, GatewayTypeOK
  <2>5. about' = about
    BY <1>1
  <2>6. PICK a \in Contract!Answer : a = answer'[c]
    BY <2>3
  <2>7. Contract!Tell(c, a)
    BY <1>1, <2>2, <2>3, <2>4, <2>5, <2>6 DEF Contract!Tell, StateOf
  <2> QED
    BY <2>7, ContractSteps
<1>3. CASE Throws(c) \/ TimesOut(c)
  <2>1. pc' = [pc EXCEPT ![c] = "threw"] /\ answer' = answer
    BY <1>3 DEF Throws, TimesOut
  <2>2. state' = [state EXCEPT ![c] = "failed"]
    BY <1>1, <2>1, CallMoves, StatesOfStages DEF Stages
  <2>3. state' = [d \in Calls |-> IF d \in {c} THEN "failed" ELSE state[d]]
    BY <2>2
  <2>4. told' = told /\ about' = about
    BY <1>1, <2>1 DEF GatewayInv, GatewayTypeOK
  <2>5. Contract!Fail({c})
    BY <1>1, <2>3, <2>4 DEF Contract!Fail, StateOf
  <2> QED
    BY <2>5 DEF Contract!Next
<1> QED
  BY <1>2, <1>3
\* What the provider says or does to a charge takes money for it, or is not seen.
LEMMA ChargeKeepsContract ==
  ASSUME GatewayInv, RefusedInv, NEW d \in Calls, runs[d] # Null, ask[d].op = "createCharge",
         UNCHANGED <<pc, ask, answer>>, paid' = paid \/ paid' = paid \cup {d}
  PROVE  [Contract!Next]_(Contract!callVars)
<1> DEFINE state == [c \in Calls |-> StateOf(pc[c])]
           about == [c \in Calls |-> ask[c].of]
           told  == [c \in Calls |-> IF pc[c] = "answered" THEN answer[c] ELSE Null]
<1>1. state' = state /\ about' = about /\ told' = told
  OBVIOUS
<1>2. CASE paid' = paid
  BY <1>1, <1>2 DEF Contract!callVars, StateOf
<1>3. CASE paid' = paid \cup {d}
  <2>1. about[d] = d
    BY WaitingCall
  <2>2. state[d] \notin {"none", "away"}
    BY WaitingCall, StatesOfStages DEF RefusedInv
  <2>3. Contract!Take(d)
    BY <1>1, <1>3, <2>1, <2>2 DEF Contract!Take, StateOf
  <2> QED
    BY <2>3 DEF Contract!Next
<1> QED
  BY <1>2, <1>3

\* A restart fails every call that waits, and no other.
LEMMA RestartKeepsContract ==
  ASSUME GatewayInv, Restarts PROVE Contract!Next
<1> DEFINE state == [c \in Calls |-> StateOf(pc[c])]
           about == [c \in Calls |-> ask[c].of]
           told  == [c \in Calls |-> IF pc[c] = "answered" THEN answer[c] ELSE Null]
           waiting == {c \in Calls : pc[c] = "await"}
<1>1. /\ pc' = [c \in Calls |-> IF pc[c] = "await" THEN "lost" ELSE pc[c]]
      /\ UNCHANGED <<ask, answer, paid>>
  BY DEF Restarts
<1>2. state' = [c \in Calls |-> IF c \in waiting THEN "failed" ELSE state[c]]
  BY <1>1, StatesOfStages
<1>3. \A c \in waiting : state[c] = "out"
  BY StatesOfStages
<1>4. about' = about /\ told' = told
  BY <1>1
<1>5. PICK C \in SUBSET Calls : C = waiting
  OBVIOUS
<1>6. Contract!Fail(C)
  BY <1>1, <1>2, <1>3, <1>4, <1>5 DEF Contract!Fail, StateOf
<1> QED
  BY <1>6, ContractSteps

LEMMA StepKeepsContract ==
  ASSUME GatewayInv, GatewayInv', RefusedInv, [GatewayNext]_gatewayVars
  PROVE  [Contract!Next]_(Contract!callVars)
<1>1. ASSUME NEW c \in Calls,
             \/ \E pair \in Pairs : CreateCharge(c, pair)
             \/ \E d \in Calls, op \in Ops \ {"createCharge"} : AskAbout(c, d, op)
      PROVE  Contract!Next
  BY <1>1, CallsMade, AskedKeepsContract, UnservedKeepsContract
<1>2. ASSUME NEW c \in Calls, Answers(c) \/ Throws(c) \/ TimesOut(c)
      PROVE  Contract!Next
  BY <1>2, EndingKeepsContract
<1>3. ASSUME UNCHANGED <<pc, ask, answer, paid>> PROVE UNCHANGED Contract!callVars
  BY <1>3 DEF Contract!callVars
<1>4. ASSUME NEW c \in Calls, ProviderActs(c)
      PROVE  [Contract!Next]_(Contract!callVars)
  <2>1. runs[c] = c /\ runs[c] # Null /\ UNCHANGED <<pc, ask, answer>>
    BY <1>4, WaitingCall DEF ProviderActs
  <2>2. CASE paid' = paid
    BY <1>3, <2>1, <2>2
  <2>3. CASE paid' # paid
    <3>1. ask[c].op = "createCharge" /\ paid' = paid \cup {c}
      BY <1>4, <2>1, <2>3 DEF ProviderActs, ChargeGets
    <3> QED
      BY <2>1, <3>1, ChargeKeepsContract
  <2> QED
    BY <2>2, <2>3
<1>5. ASSUME NEW d \in Calls, ChargeMoves(d)
      PROVE  [Contract!Next]_(Contract!callVars)
  <2>1. /\ runs[d] # Null /\ ask[d].op = "createCharge" /\ UNCHANGED <<pc, ask, answer>>
        /\ paid' = paid \/ paid' = paid \cup {d}
    BY <1>5 DEF ChargeMoves, ChargeGets, GatewayInv, QuietInv, ChargeInv
  <2> QED
    BY <2>1, ChargeKeepsContract
<1>6. ASSUME NEW k \in Keys, Resets(k) PROVE UNCHANGED Contract!callVars
  BY <1>3, <1>6 DEF Resets
<1>7. CASE Restarts
  BY <1>7, RestartKeepsContract
<1>8. CASE UNCHANGED gatewayVars
  BY <1>3, <1>8 DEF gatewayVars
<1> QED
  BY <1>1, <1>2, <1>4, <1>5, <1>6, <1>7, <1>8 DEF GatewayNext

\* The registry, the adapters and the breakers together keep what the services take for
\* granted of a call to a provider, for any number of calls, adapters and restarts.
THEOREM GatewayKeepsContract == GatewaySpec => KeepsContract
<1>1. GatewayInit => RefusedInv
  BY DEF GatewayInit, RefusedInv
<1>2. GatewayInv /\ RefusedInv /\ [GatewayNext]_gatewayVars => RefusedInv'
  BY RefusedPreserved
<1>3. GatewayInv /\ GatewayInv' /\ RefusedInv /\ [GatewayNext]_gatewayVars
        => [Contract!Next]_(Contract!callVars)
  BY StepKeepsContract
<1> QED
  BY <1>1, <1>2, <1>3, ContractStarts, GatewayInvariant, PTL
     DEF GatewaySpec, KeepsContract, Contract!Spec
=============================================================================

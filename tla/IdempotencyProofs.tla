------------------------- MODULE IdempotencyProofs -------------------------
(***************************************************************************)
(* Behind the interceptor create() is what it is without it, and what its  *)
(* clients hear is an idempotent charge too, for any number of requests.   *)
(***************************************************************************)
EXTENDS IdempotencyInterceptor, LedgerProofs

-----------------------------------------------------------------------------
\* The interceptor.

LEMMA GuardedStep ==
  ASSUME [GuardedNext]_guardedVars PROVE [PaymentNext]_paymentVars
<1>1. ASSUME NEW r \in CreateRequests, Handler(r) PROVE PaymentNext
  BY <1>1 DEF Handler, PaymentNext, ServiceStep
<1>2. ASSUME NEW r \in CreateRequests,
             GetMisses(r) \/ GetReplays(r) \/ GetConflicts(r) \/ GetThrows(r)
      PROVE  UNCHANGED paymentVars
  BY <1>2 DEF GetMisses, GetReplays, GetConflicts, GetThrows, FrontGoes
<1>3. /\ \A k \in RedisKeys : EntryExpires(k) => UNCHANGED paymentVars
      /\ \A r \in CreateRequests : EntryStored(r) => UNCHANGED paymentVars
  BY DEF EntryExpires, EntryStored
<1>4. CASE ProviderStep /\ UNCHANGED <<serviceVars, interceptorVars>>
  BY <1>4 DEF PaymentNext
<1>5. CASE GuardedCrash
  BY <1>5 DEF GuardedCrash, PaymentNext
<1> QED
  BY <1>1, <1>2, <1>3, <1>4, <1>5 DEF GuardedNext, guardedVars

\* Whatever Redis keeps, loses or forgets, behind the interceptor create() behaves as it
\* does without it: all that is proved of PaymentSpec holds with the interceptor too.
THEOREM GuardedIsService == GuardedSpec => PaymentSpec
<1>1. [GuardedNext]_guardedVars => [PaymentNext]_paymentVars
  BY GuardedStep
<1> QED
  BY <1>1, PTL DEF GuardedSpec, PaymentSpec

\* So whatever Redis does, no key is charged twice, all 201 answers of create() to it name
\* one payment, the gauge covers what is in flight ...
THEOREM GuardedServiceIsSafe ==
  GuardedSpec => [](PaymentTypeOK /\ OneChargePerKey /\ SameKeySameAnswer /\ GaugeCoversInFlight)
  BY GuardedIsService, PaymentTypeCorrect, OneChargePerKeyHolds, SameKeySameAnswerHolds,
     GaugeAlwaysCovers, PTL

\* ... and a payment create() gave up on is never revived.
THEOREM GuardedGivenUpForGood == GuardedSpec => ProviderErrorIsFinal
  BY GuardedIsService, GivenUpForGood, PTL

\* Only who is in create() has moved in it; only who was answered has heard something.
FrontInv ==
  /\ \A r \in CreateRequests : front[r] # "handler" => pc[r] = "idle"
  /\ \A r \in CreateRequests :
       pc[r] # "answered" /\ front[r] # "replayed" => heard[r] = Null
  /\ \A r \in CreateRequests :
       heard[r] # Null => heard[r].payment \in SameKeyRows(r)

\* What is on its way to Redis is an answer that was given.
StoringInv == \A r \in storing : pc[r] = "answered" /\ heard[r] \in Response

\* An entry is an answer of create() to a request with its key and its body.
EntryInv ==
  \A k \in RedisKeys : entry[k] # Null =>
    \E o \in Executed : /\ OrgKey(o) = k /\ BodyHash(o) = entry[k].hash
                        /\ heard[o] = entry[k].response

GuardInv == InterceptorTypeOK /\ FrontInv /\ EntryInv /\ ReplyWasEarned

LEMMA InitGuarded == PaymentInit /\ InterceptorInit => GuardInv
<1> SUFFICES ASSUME PaymentInit, InterceptorInit PROVE GuardInv
  OBVIOUS
<1>1. front \in [CreateRequests -> {"idle", "handler"}]
  BY DEF InterceptorInit, Arrival
<1>2. InterceptorTypeOK
  BY <1>1 DEF InterceptorInit, InterceptorTypeOK
<1>3. FrontInv /\ EntryInv /\ ReplyWasEarned
  BY <1>1 DEF PaymentInit, ServiceInit, InterceptorInit, FrontInv, EntryInv, ReplyWasEarned
<1> QED
  BY <1>2, <1>3 DEF GuardInv

\* Same key, same organization, same hash: the same body.
LEMMA HashTellsBodies ==
  ASSUME PaymentTypeOK, NEW o \in CreateRequests, NEW r \in CreateRequests,
         OrgKey(o) = OrgKey(r), BodyHash(o) = BodyHash(r)
  PROVE  body[o] = body[r]
<1>1. body[o] \in Body /\ body[r] \in Body
  BY StoreAssumption DEF PaymentTypeOK, StoreTypeOK
<1>2. /\ body[o].org = body[r].org /\ body[o].key = body[r].key
      /\ body[o].amount = body[r].amount /\ body[o].method = body[r].method
  BY DEF OrgKey, BodyHash
<1>3. body[o].routable = body[r].routable
  BY DEF BodyHash
<1> QED
  BY <1>1, <1>2, <1>3 DEF Body

\* What ReplyWasEarned says of one request.
Earned(c) ==
  /\ front[c] = "replayed" =>
       \E o \in Executed : /\ OrgKey(o) = OrgKey(c) /\ body[o] = body[c]
                           /\ heard[o] = heard[c]
  /\ front[c] = "conflict" =>
       \E o \in Executed : OrgKey(o) = OrgKey(c) /\ body[o] # body[c]

\* A request stays earned while nothing that was answered is answered otherwise.
LEMMA EarnedStays ==
  ASSUME NEW c \in CreateRequests, Earned(c), body' = body, Executed \subseteq Executed',
         \A o \in Executed : heard'[o] = heard[o],
         front'[c] \in {"replayed", "conflict"} => front'[c] = front[c],
         front[c] = "replayed" => heard'[c] = heard[c]
  PROVE  Earned(c)'
<1>1. \A o \in CreateRequests : OrgKey(o)' = OrgKey(o)
  BY DEF OrgKey
<1>2. Executed \subseteq CreateRequests
  BY DEF Executed
<1>3. ASSUME front'[c] = "replayed"
      PROVE  \E o \in Executed' : /\ OrgKey(o)' = OrgKey(c)' /\ body'[o] = body'[c]
                                  /\ heard'[o] = heard'[c]
  <2>1. PICK o \in Executed : /\ OrgKey(o) = OrgKey(c) /\ body[o] = body[c]
                              /\ heard[o] = heard[c]
    BY <1>3 DEF Earned
  <2>2. o \in CreateRequests /\ o \in Executed' /\ heard'[o] = heard'[c]
    BY <1>2, <1>3, <2>1
  <2>3. OrgKey(o)' = OrgKey(c)' /\ body'[o] = body'[c]
    BY <1>1, <2>1, <2>2
  <2> QED
    BY <2>2, <2>3
<1>4. ASSUME front'[c] = "conflict"
      PROVE  \E o \in Executed' : OrgKey(o)' = OrgKey(c)' /\ body'[o] # body'[c]
  <2>1. PICK o \in Executed : OrgKey(o) = OrgKey(c) /\ body[o] # body[c]
    BY <1>4 DEF Earned
  <2>2. OrgKey(o)' = OrgKey(c)' /\ body'[o] # body'[c]
    BY <1>1, <1>2, <2>1
  <2> QED
    BY <1>2, <2>1, <2>2
<1> QED
  BY <1>3, <1>4 DEF Earned

\* A request that is looked up and goes nowhere, or to create(), says nothing new.
LEMMA FrontKeeps ==
  ASSUME PaymentTypeOK, GuardInv, NEW r \in CreateRequests,
         GetMisses(r) \/ GetReplays(r) \/ GetConflicts(r) \/ GetThrows(r)
  PROVE  GuardInv'
<1> USE DEF GuardInv, InterceptorTypeOK, FrontGoes, paymentVars, storeVars, serviceVars
<1>1. RedisKey(r) \in RedisKeys
  BY DEF RedisKey, RedisKeys, OrgKey, PaymentTypeOK, StoreTypeOK
<1>2. /\ UNCHANGED <<body, rows, pc, entry, storing, installed>>
      /\ front[r] = "idle" /\ pc[r] = "idle" /\ heard[r] = Null
      /\ \E there \in {"handler", "replayed", "conflict", "threw"} :
           front' = [front EXCEPT ![r] = there]
  BY DEF GetMisses, GetReplays, GetConflicts, GetThrows, FrontInv
<1>3. Executed' = Executed /\ r \notin Executed
  BY <1>2 DEF Executed
<1>4. \A o \in CreateRequests : /\ OrgKey(o)' = OrgKey(o) /\ BodyHash(o)' = BodyHash(o)
                                /\ SameKeyRows(o)' = SameKeyRows(o)
  BY <1>2 DEF OrgKey, BodyHash, SameKeyRows
<1>5. CASE GetMisses(r) \/ GetThrows(r)
  <2>1. front'[r] \in {"handler", "threw"} /\ heard' = heard
    BY <1>5, <1>2 DEF GetMisses, GetThrows
  <2>2. ASSUME NEW c \in CreateRequests PROVE Earned(c)'
    BY <1>2, <1>3, <2>1, EarnedStays DEF ReplyWasEarned, Earned
  <2>3. ReplyWasEarned'
    BY <2>2 DEF ReplyWasEarned, Earned
  <2>4. InterceptorTypeOK' /\ FrontInv'
    BY <1>2, <1>4, <2>1 DEF FrontInv
  <2>5. EntryInv'
    BY <1>2, <1>3, <1>4, <2>1 DEF EntryInv, Executed
  <2> QED
    BY <2>3, <2>4, <2>5
<1>6. CASE GetConflicts(r)
  <2>1. heard' = heard /\ entry[RedisKey(r)] # Null /\ entry[RedisKey(r)].hash # BodyHash(r)
        /\ front' = [front EXCEPT ![r] = "conflict"]
    BY <1>6 DEF GetConflicts
  <2>2. PICK o \in Executed :
          OrgKey(o) = OrgKey(r) /\ BodyHash(o) # BodyHash(r)
    BY <1>1, <2>1 DEF EntryInv, RedisKey
  <2>3. body[o] # body[r]
    BY <2>2 DEF BodyHash
  <2>4. ASSUME NEW c \in CreateRequests \ {r} PROVE Earned(c)'
    BY <1>2, <1>3, <2>1, EarnedStays DEF ReplyWasEarned, Earned
  <2>5. Earned(r)'
    <3>1. o \in CreateRequests /\ o \in Executed' /\ front'[r] = "conflict"
      BY <1>2, <1>3, <2>1, <2>2 DEF Executed
    <3>2. OrgKey(o)' = OrgKey(r)' /\ body'[o] # body'[r]
      BY <1>2, <1>4, <2>2, <2>3, <3>1
    <3> QED
      BY <3>1, <3>2 DEF Earned
  <2>6. ReplyWasEarned'
    BY <2>4, <2>5 DEF ReplyWasEarned, Earned
  <2>7. InterceptorTypeOK' /\ FrontInv'
    BY <1>2, <1>4, <2>1 DEF FrontInv
  <2>8. EntryInv'
    BY <1>2, <1>3, <1>4, <2>1 DEF EntryInv, Executed
  <2> QED
    BY <2>6, <2>7, <2>8
<1>7. CASE GetReplays(r)
  <2> DEFINE known == entry[RedisKey(r)]
  <2>1. /\ known # Null /\ known.hash = BodyHash(r)
        /\ front' = [front EXCEPT ![r] = "replayed"]
        /\ heard' = [heard EXCEPT ![r] = known.response]
    BY <1>7 DEF GetReplays
  <2>2. PICK o \in Executed : /\ OrgKey(o) = OrgKey(r) /\ BodyHash(o) = BodyHash(r)
                              /\ heard[o] = known.response
    BY <1>1, <2>1 DEF EntryInv, RedisKey
  <2>3. o \in CreateRequests /\ o # r /\ body[o] = body[r]
    BY <1>3, <2>2, HashTellsBodies DEF Executed
  <2>4. known.response \in Response
    BY <1>1, <2>1 DEF Entry
  <2>5. InterceptorTypeOK'
    BY <1>2, <2>1, <2>4
  <2>6. FrontInv'
    <3>1. known.response # Null => known.response.payment \in SameKeyRows(r)
      BY <2>2, <2>3 DEF FrontInv, SameKeyRows
    <3> QED
      BY <1>2, <1>4, <2>1, <3>1 DEF FrontInv
  <2>7. EntryInv'
    BY <1>2, <1>3, <1>4, <2>1 DEF EntryInv, Executed
  <2>8. ASSUME NEW c \in CreateRequests \ {r} PROVE Earned(c)'
    BY <1>2, <1>3, <2>1, EarnedStays DEF ReplyWasEarned, Earned
  <2>9. Earned(r)'
    <3>1. o \in Executed' /\ front'[r] = "replayed" /\ heard'[o] = heard'[r]
      BY <1>2, <1>3, <2>1, <2>2, <2>3
    <3>2. OrgKey(o)' = OrgKey(r)' /\ body'[o] = body'[r]
      BY <1>2, <1>4, <2>2, <2>3
    <3> QED
      BY <3>1, <3>2 DEF Earned
  <2>10. ReplyWasEarned'
    BY <2>8, <2>9 DEF ReplyWasEarned, Earned
  <2> QED
    BY <2>5, <2>6, <2>7, <2>10
<1> QED
  BY <1>5, <1>6, <1>7

\* An answer of create() that is on its way to Redis has been given.
LEMMA HandlerKeeps ==
  ASSUME PaymentTypeOK, PaymentTypeOK', KeyInv, GuardInv, NEW r \in CreateRequests, Handler(r)
  PROVE  GuardInv'
<1> USE DEF GuardInv, InterceptorTypeOK
<1>1. Effect(r) /\ front[r] = "handler" /\ UNCHANGED <<installed, front, entry>>
  BY CreateEffect DEF Handler
<1>2. \A o \in CreateRequests : OrgKey(o)' = OrgKey(o) /\ BodyHash(o)' = BodyHash(o)
  BY <1>1 DEF Effect, OrgKey, BodyHash
<1>3. \A o \in CreateRequests : SameKeyRows(o) \subseteq SameKeyRows(o)'
  BY <1>1 DEF Effect, SameKeyRows, OrgKey
<1>4. \A o \in CreateRequests \ {r} : pc'[o] = pc[o]
  BY <1>1 DEF Effect, PaymentTypeOK, ServiceTypeOK
<1>5. pc[r] # "answered"
  BY DEF Handler, CreateStep, CreateWithoutKey, CreateFindsRow, CreateStarts, CreateInserts,
     CreateInsertThrows, CreateCalls, CreateSettles, CreateThrows, CreateCatches
<1>6. CASE pc'[r] # "answered"
  <2>1. UNCHANGED <<heard, storing>>
    BY <1>6 DEF Handler
  <2>2. Executed' = Executed
    BY <1>4, <1>5, <1>6 DEF Executed
  <2>3. InterceptorTypeOK' /\ FrontInv'
    BY <1>1, <1>3, <1>4, <1>5, <1>6, <2>1, <2>2 DEF FrontInv
  <2>4. EntryInv'
    BY <1>1, <1>2, <2>1, <2>2 DEF EntryInv, Executed
  <2>5. ASSUME NEW c \in CreateRequests PROVE Earned(c)'
    BY <1>1, <2>1, <2>2, EarnedStays DEF ReplyWasEarned, Earned, Effect
  <2>6. ReplyWasEarned'
    BY <2>5 DEF ReplyWasEarned, Earned
  <2> QED
    BY <2>3, <2>4, <2>6
<1>7. CASE pc'[r] = "answered"
  <2> DEFINE response == [payment |-> answer'[r], status |-> status'[answer'[r]]]
  <2>1. PICK p \in SameKeyRows(r) : answer' = [answer EXCEPT ![r] = p]
    BY <1>1, <1>7 DEF Effect
  <2>2. heard' = [heard EXCEPT ![r] = response] /\ storing' \in {storing, storing \cup {r}}
    BY <1>7 DEF Handler
  <2>3. response \in Response /\ response.payment = p
    BY <2>1 DEF PaymentTypeOK, StoreTypeOK, ServiceTypeOK, SameKeyRows, Response
  <2>4. Executed' = Executed \cup {r} /\ r \notin Executed
    BY <1>4, <1>5, <1>7 DEF Executed
  <2>5. InterceptorTypeOK'
    BY <1>1, <2>2, <2>3
  <2>6. FrontInv'
    BY <1>1, <1>3, <1>4, <1>7, <2>1, <2>2, <2>3, <2>4 DEF FrontInv, Effect
  <2>7. EntryInv'
    BY <1>1, <1>2, <2>2, <2>4 DEF EntryInv, Executed
  <2>8. ASSUME NEW c \in CreateRequests PROVE Earned(c)'
    BY <1>1, <2>2, <2>4, EarnedStays DEF ReplyWasEarned, Earned, Effect
  <2>9. ReplyWasEarned'
    BY <2>8 DEF ReplyWasEarned, Earned
  <2> QED
    BY <2>5, <2>6, <2>7, <2>9
<1> QED
  BY <1>6, <1>7

\* What setex leaves in Redis is what the request was answered.
LEMMA StoreKeeps ==
  ASSUME PaymentTypeOK, GuardInv, StoringInv, NEW r \in CreateRequests, EntryStored(r)
  PROVE  GuardInv'
<1> USE DEF GuardInv, InterceptorTypeOK
<1> DEFINE stored == [hash |-> BodyHash(r), response |-> heard[r]]
<1>1. /\ UNCHANGED <<body, rows, pc, installed, front, heard>>
      /\ r \in storing /\ storing' = storing \ {r}
      /\ entry' = [entry EXCEPT ![RedisKey(r)] = stored]
  BY DEF EntryStored, paymentVars, storeVars, serviceVars
<1>2. r \in Executed /\ Executed' = Executed
  BY <1>1 DEF StoringInv, Executed
<1>3. \A o \in CreateRequests : OrgKey(o)' = OrgKey(o) /\ BodyHash(o)' = BodyHash(o)
  BY <1>1 DEF OrgKey, BodyHash
<1>4. FrontInv'
  <2>1. \A o \in CreateRequests : SameKeyRows(o)' = SameKeyRows(o)
    BY <1>1 DEF SameKeyRows, OrgKey
  <2> QED
    BY <1>1, <2>1 DEF FrontInv
<1>5. ReplyWasEarned'
  BY <1>1, <1>2, <1>3 DEF ReplyWasEarned, Executed
<1>6. EntryInv'
  BY <1>1, <1>2, <1>3 DEF EntryInv, Executed, RedisKey
<1>7. InterceptorTypeOK'
  <2>1. BodyHash(r) \in {<<b.amount, b.method, b.routable>> : b \in Bodies}
    BY DEF BodyHash, PaymentTypeOK, StoreTypeOK
  <2>2. heard[r] \in Response
    BY <1>1 DEF StoringInv
  <2>3. stored \in Entry
    BY <2>1, <2>2 DEF Entry
  <2> QED
    BY <1>1, <2>3
<1> QED
  BY <1>4, <1>5, <1>6, <1>7

LEMMA StepStoring ==
  ASSUME PaymentTypeOK, PaymentTypeOK', KeyInv, GuardInv, StoringInv, [GuardedNext]_guardedVars
  PROVE  StoringInv'
<1> USE DEF GuardInv, InterceptorTypeOK, StoringInv
<1>1. ASSUME NEW r \in CreateRequests,
             GetMisses(r) \/ GetReplays(r) \/ GetConflicts(r) \/ GetThrows(r)
      PROVE  StoringInv'
  <2>1. /\ UNCHANGED <<pc, storing>> /\ pc[r] = "idle"
        /\ \A o \in CreateRequests \ {r} : heard'[o] = heard[o]
    BY <1>1 DEF GetMisses, GetReplays, GetConflicts, GetThrows, FrontGoes, FrontInv,
       paymentVars, serviceVars
  <2> QED
    BY <2>1
<1>2. ASSUME NEW r \in CreateRequests, Handler(r) PROVE StoringInv'
  <2>1. Effect(r)
    BY <1>2, CreateEffect DEF Handler
  <2>2. pc[r] # "answered" /\ \A o \in CreateRequests \ {r} : pc'[o] = pc[o]
    BY <1>2, <2>1 DEF Effect, PaymentTypeOK, ServiceTypeOK, Handler, CreateStep,
       CreateWithoutKey, CreateFindsRow, CreateStarts, CreateInserts, CreateInsertThrows,
       CreateCalls, CreateSettles, CreateThrows, CreateCatches
  <2>3. CASE pc'[r] # "answered"
    BY <1>2, <2>2, <2>3 DEF Handler
  <2>4. CASE pc'[r] = "answered"
    <3> DEFINE response == [payment |-> answer'[r], status |-> status'[answer'[r]]]
    <3>1. /\ heard' = [heard EXCEPT ![r] = response]
          /\ storing' \in {storing, storing \cup {r}}
      BY <1>2, <2>4 DEF Handler
    <3>2. response \in Response
      BY <2>1, <2>4 DEF Effect, PaymentTypeOK, StoreTypeOK, ServiceTypeOK, SameKeyRows,
         Response
    <3> HIDE DEF response
    <3> QED
      BY <2>2, <2>4, <3>1, <3>2
  <2> QED
    BY <2>3, <2>4
<1>3. ASSUME NEW r \in CreateRequests, EntryStored(r) PROVE StoringInv'
  BY <1>3 DEF EntryStored, paymentVars, serviceVars
<1>4. ASSUME NEW k \in RedisKeys, EntryExpires(k) PROVE StoringInv'
  BY <1>4 DEF EntryExpires, paymentVars, serviceVars
<1>5. CASE UNCHANGED <<serviceVars, interceptorVars>>
  BY <1>5 DEF serviceVars, interceptorVars
<1>6. CASE GuardedCrash
  BY <1>6 DEF GuardedCrash
<1> QED
  BY <1>1, <1>2, <1>3, <1>4, <1>5, <1>6 DEF GuardedNext, guardedVars, paymentVars

LEMMA StepGuarded ==
  ASSUME PaymentTypeOK, PaymentTypeOK', KeyInv, GuardInv, StoringInv,
         [GuardedNext]_guardedVars
  PROVE  GuardInv'
<1> USE DEF GuardInv, InterceptorTypeOK
<1>1. ASSUME UNCHANGED <<body, rows, pc, interceptorVars>> PROVE GuardInv'
  BY <1>1 DEF interceptorVars, FrontInv, EntryInv, ReplyWasEarned, Executed, OrgKey,
     BodyHash, SameKeyRows
<1>2. ASSUME NEW k \in RedisKeys, EntryExpires(k) PROVE GuardInv'
  <2>1. /\ UNCHANGED <<body, rows, pc, installed, front, storing, heard>>
        /\ entry' = [entry EXCEPT ![k] = Null]
    BY <1>2 DEF EntryExpires, paymentVars, storeVars, serviceVars
  <2> QED
    BY <2>1 DEF FrontInv, EntryInv, ReplyWasEarned, Executed, OrgKey, BodyHash, SameKeyRows
<1>3. CASE ProviderStep /\ UNCHANGED <<serviceVars, interceptorVars>>
  BY <1>1, <1>3, ProviderEffect DEF serviceVars
<1>4. CASE GuardedCrash
  <2>1. /\ UNCHANGED <<body, rows, installed, entry, heard>> /\ storing' = {}
        /\ \A r \in CreateRequests : /\ pc'[r] = "idle" <=> pc[r] = "idle"
                                     /\ pc'[r] = "answered" <=> pc[r] = "answered"
    BY <1>4, CrashEffect DEF GuardedCrash
  <2>2. front' \in [CreateRequests ->
                     {"idle", "handler", "replayed", "conflict", "threw"}]
    BY <1>4 DEF GuardedCrash, Arrival
  <2>3. \A r \in CreateRequests :
          /\ front'[r] \in {"replayed", "conflict"} => front'[r] = front[r]
          /\ front[r] = "replayed" => front'[r] = "replayed"
          /\ front'[r] # "handler" => front[r] # "handler" \/ pc[r] = "idle"
    BY <1>4 DEF GuardedCrash, Arrival
  <2> QED
    BY <2>1, <2>2, <2>3 DEF FrontInv, EntryInv, ReplyWasEarned, Executed, OrgKey, BodyHash,
       SameKeyRows
<1>5. CASE UNCHANGED guardedVars
  BY <1>1, <1>5 DEF guardedVars, paymentVars, storeVars, serviceVars
<1> QED
  BY <1>2, <1>3, <1>4, <1>5, FrontKeeps, HandlerKeeps, StoreKeeps DEF GuardedNext

LEMMA GuardHolds == GuardedSpec => [](GuardInv /\ StoringInv)
<1>1. PaymentTypeOK /\ PaymentTypeOK' /\ KeyInv /\ GuardInv /\ StoringInv
        /\ [GuardedNext]_guardedVars => GuardInv' /\ StoringInv'
  BY StepGuarded, StepStoring
<1>2. InterceptorInit => StoringInv
  BY DEF InterceptorInit, StoringInv
<1> QED
  BY <1>1, <1>2, InitGuarded, GuardedIsService, PaymentTypeCorrect, KeysHold, PTL
     DEF GuardedSpec

\* The variables of the interceptor stay in their domains.
THEOREM InterceptorTypeCorrect == GuardedSpec => []InterceptorTypeOK
<1>1. GuardInv => InterceptorTypeOK
  BY DEF GuardInv
<1> QED
  BY <1>1, GuardHolds, PTL

\* Whatever is lost, late or expired in Redis, a replay repeats what create() answered to
\* the same request, and a 409 goes only to a body that differs from an answered one.
THEOREM RepliesAreEarned == GuardedSpec => []ReplyWasEarned
<1>1. GuardInv => ReplyWasEarned
  BY DEF GuardInv
<1> QED
  BY <1>1, GuardHolds, PTL
-----------------------------------------------------------------------------
\* What clients hear is one behaviour of IdempotentCharge as well.

LEMMA GuardedInitImplements == PaymentInit /\ InterceptorInit => Guarded!Init
<1> SUFFICES ASSUME PaymentInit, InterceptorInit PROVE Guarded!Init
  OBVIOUS
<1>1. \A r \in CreateRequests : front[r] # "replayed" /\ heard[r] = Null
  BY DEF InterceptorInit, Arrival
<1>2. \A r \in CreateRequests : pc[r] = "idle" /\ charge[r] = "none"
  BY DEF PaymentInit, ServiceInit, ProviderInit
<1>3. \A a : OwnerOf(a) = Null
  BY DEF PaymentInit, StoreInit, OwnerOf
<1> QED
  BY <1>1, <1>2, <1>3 DEF Guarded!Init

\* A replay asks and is told the owner of its key at once.
LEMMA ReplayImplements ==
  ASSUME PaymentTypeOK, KeyInv, GuardInv, NEW r \in CreateRequests, GetReplays(r),
         NEW k \in Accounts, k = OrgKey(r), k # Null
  PROVE  Guarded!Next
<1> DEFINE want(o) == IF pc[o] = "idle" /\ front[o] # "replayed" THEN Null ELSE OrgKey(o)
           wants   == [o \in CreateRequests |-> want(o)]
           hears(o) == IF heard[o] = Null THEN Null ELSE heard[o].payment
           told    == [o \in CreateRequests |-> hears(o)]
           owners  == [a \in Accounts |-> OwnerOf(a)]
           known   == entry[RedisKey(r)]
<1>1. /\ UNCHANGED <<body, rows, pc, charge>>
      /\ front[r] = "idle" /\ pc[r] = "idle" /\ heard[r] = Null
      /\ front' = [front EXCEPT ![r] = "replayed"]
      /\ heard' = [heard EXCEPT ![r] = known.response] /\ known # Null
  BY DEF GetReplays, FrontGoes, GuardInv, FrontInv, paymentVars, storeVars, serviceVars,
     providerVars
<1>2. Charged' = Charged /\ owners' = owners /\ \A o : OrgKey(o)' = OrgKey(o)
  BY <1>1, OwnersStay DEF Charged, OrgKey
<1>3. wants[r] = Null /\ wants' = [wants EXCEPT ![r] = k]
  BY <1>1, <1>2 DEF GuardInv, InterceptorTypeOK
<1>4. RedisKey(r) \in RedisKeys
  BY DEF RedisKey, RedisKeys, OrgKey, PaymentTypeOK, StoreTypeOK
<1>5. PICK o \in Executed : OrgKey(o) = OrgKey(r) /\ heard[o] = known.response
  BY <1>1, <1>4 DEF GuardInv, EntryInv, RedisKey
<1>6. heard[o] # Null => heard[o].payment \in rows /\ OrgKey(heard[o].payment) = k
  BY <1>5 DEF GuardInv, FrontInv, SameKeyRows, Executed
<1>7. heard[o] # Null => owners[k] = heard[o].payment
  BY <1>6, OwnerIsRow
<1>8. told' \in {told, [told EXCEPT ![r] = owners[k]]}
  BY <1>1, <1>5, <1>7 DEF GuardInv, InterceptorTypeOK
<1>9. Guarded!Ask(r, k)
  BY <1>2, <1>3, <1>8 DEF Guarded!Ask, Charged
<1> QED
  BY <1>9 DEF Guarded!Next

\* A step of create() asks, claims or tells, behind the interceptor too.
LEMMA HandlerImplements ==
  ASSUME PaymentTypeOK, PaymentTypeOK', KeyInv, GuardInv, NEW r \in CreateRequests, Handler(r),
         NEW k \in Accounts, k = OrgKey(r), k # Null
  PROVE  [Guarded!Next]_(Guarded!abstractVars)
<1> DEFINE want(o) == IF pc[o] = "idle" /\ front[o] # "replayed" THEN Null ELSE OrgKey(o)
           wants   == [o \in CreateRequests |-> want(o)]
           hears(o) == IF heard[o] = Null THEN Null ELSE heard[o].payment
           told    == [o \in CreateRequests |-> hears(o)]
           owners  == [a \in Accounts |-> OwnerOf(a)]
<1>1. Effect(r) /\ front[r] = "handler" /\ front' = front
  BY CreateEffect DEF Handler
<1>2. Charged' = Charged /\ \A o : OrgKey(o)' = OrgKey(o)
  BY <1>1 DEF Effect, Charged, OrgKey
<1>3. /\ pc[r] = "idle" => wants[r] = Null /\ wants' = [wants EXCEPT ![r] = k]
      /\ pc[r] # "idle" => wants[r] = k /\ wants' = wants
  <2>1. want(r)' = k /\ \A o \in CreateRequests \ {r} : want(o)' = want(o)
    BY <1>1, <1>2 DEF Effect, PaymentTypeOK, ServiceTypeOK
  <2>2. (pc[r] = "idle" => want(r) = Null) /\ (pc[r] # "idle" => want(r) = k)
    BY <1>1
  <2> HIDE DEF want
  <2> QED
    BY <2>1, <2>2
<1>4. CASE pc'[r] # "answered" /\ UNCHANGED <<rows, answer>>
  <2>1. owners' = owners /\ told' = told
    BY <1>1, <1>4, OwnersStay DEF Effect, Handler
  <2>2. CASE pc[r] = "idle"
    <3>1. Guarded!Ask(r, k)
      BY <1>2, <1>3, <2>1, <2>2 DEF Guarded!Ask, Charged
    <3> QED
      BY <3>1 DEF Guarded!Next
  <2>3. CASE pc[r] # "idle"
    BY <1>2, <1>3, <2>1, <2>3 DEF Guarded!abstractVars, Charged
  <2> QED
    BY <2>2, <2>3
<1>5. CASE /\ pc'[r] # "answered" /\ pc[r] = "insert" /\ SameKeyRows(r) = {}
           /\ rows' = rows \cup {r} /\ answer' = answer
  <2>1. \A a : OwnerOf(a)' = IF a = k THEN r ELSE OwnerOf(a)
    BY <1>1, <1>5, OwnersClaimed DEF Effect
  <2>2. OwnerOf(k) = Null
    BY <1>5, NoRowNoOwner DEF SameKeyRows
  <2>3. owners' = [owners EXCEPT ![k] = r] /\ owners[k] = Null
    BY <2>1, <2>2
  <2>4. told' = told
    BY <1>5 DEF Handler
  <2>5. Guarded!Claim(r)
    BY <1>2, <1>3, <1>5, <2>3, <2>4 DEF Guarded!Claim, Charged
  <2> QED
    BY <2>5 DEF Guarded!Next
<1>6. ASSUME pc'[r] = "answered", pc[r] \in {"idle", "await"}, rows' = rows,
             NEW p \in SameKeyRows(r), answer' = [answer EXCEPT ![r] = p]
      PROVE  [Guarded!Next]_(Guarded!abstractVars)
  <2>1. owners' = owners /\ owners[k] = p
    BY <1>1, <1>6, OwnersStay, OwnerIsRow DEF Effect, SameKeyRows
  <2>2. heard[r] = Null
    BY <1>1, <1>6 DEF GuardInv, FrontInv
  <2>3. PICK said : heard' = [heard EXCEPT ![r] = said] /\ said.payment = p
    <3> DEFINE response == [payment |-> answer'[r], status |-> status'[answer'[r]]]
    <3>1. answer'[r] = p
      BY <1>6 DEF PaymentTypeOK, ServiceTypeOK
    <3>2. heard' = [heard EXCEPT ![r] = response]
      BY <1>6 DEF Handler
    <3>3. response.payment = p
      BY <3>1
    <3> HIDE DEF response
    <3> QED
      BY <3>2, <3>3
  <2>4. told' \in {told, [told EXCEPT ![r] = p]} /\ told[r] = Null
    BY <2>2, <2>3 DEF GuardInv, InterceptorTypeOK
  <2>5. CASE pc[r] = "idle"
    <3>1. Guarded!Ask(r, k)
      BY <1>2, <1>3, <1>6, <2>1, <2>4, <2>5 DEF Guarded!Ask, Charged
    <3> QED
      BY <3>1 DEF Guarded!Next
  <2>6. CASE pc[r] = "await" /\ told' = [told EXCEPT ![r] = p]
    <3>1. Guarded!Tell(r)
      BY <1>2, <1>3, <1>6, <2>1, <2>4, <2>6 DEF Guarded!Tell, Charged
    <3> QED
      BY <3>1 DEF Guarded!Next
  <2>7. CASE pc[r] = "await" /\ told' = told
    BY <1>2, <1>3, <1>6, <2>1, <2>7 DEF Guarded!abstractVars, Charged
  <2> QED
    BY <1>6, <2>4, <2>5, <2>6, <2>7
<1> QED
  BY <1>1, <1>4, <1>5, <1>6 DEF Effect

LEMMA GuardedStepImplements ==
  ASSUME PaymentTypeOK, PaymentTypeOK', KeyInv, ClaimInv, GuardInv,
         [GuardedNext]_guardedVars
  PROVE  [Guarded!Next]_(Guarded!abstractVars)
<1> DEFINE wants == [o \in CreateRequests |->
                       IF pc[o] = "idle" /\ front[o] # "replayed" THEN Null ELSE OrgKey(o)]
           told  == [o \in CreateRequests |->
                       IF heard[o] = Null THEN Null ELSE heard[o].payment]
           owners == [a \in Accounts |-> OwnerOf(a)]
<1>1. ASSUME UNCHANGED <<body, rows, heard>>, Charged' = Charged,
             \A r \in CreateRequests : /\ pc'[r] = "idle" <=> pc[r] = "idle"
                                       /\ front'[r] = "replayed" <=> front[r] = "replayed"
      PROVE  UNCHANGED Guarded!abstractVars
  <2>1. owners' = owners
    BY <1>1, OwnersStay
  <2>2. wants' = wants /\ told' = told
    BY <1>1 DEF OrgKey
  <2> QED
    BY <1>1, <2>1, <2>2 DEF Guarded!abstractVars, Charged
<1>2. ASSUME NEW r \in CreateRequests, Handler(r)
      PROVE  [Guarded!Next]_(Guarded!abstractVars)
  <2>1. PICK k \in Accounts : k = OrgKey(r) /\ k # Null
    BY KeyIsAccount
  <2> QED
    BY <1>2, <2>1, HandlerImplements
<1>3. ASSUME NEW r \in CreateRequests, GetReplays(r)
      PROVE  Guarded!Next
  <2>1. PICK k \in Accounts : k = OrgKey(r) /\ k # Null
    BY KeyIsAccount
  <2> QED
    BY <1>3, <2>1, ReplayImplements
<1>4. ASSUME NEW r \in CreateRequests, GetMisses(r) \/ GetConflicts(r) \/ GetThrows(r)
      PROVE  UNCHANGED Guarded!abstractVars
  <2>1. /\ UNCHANGED <<body, rows, pc, charge, heard>> /\ front[r] = "idle"
        /\ \E there \in {"handler", "conflict", "threw"} :
             front' = [front EXCEPT ![r] = there]
    BY <1>4 DEF GetMisses, GetConflicts, GetThrows, FrontGoes, paymentVars, storeVars,
       serviceVars, providerVars
  <2>2. \A o \in CreateRequests : front'[o] = "replayed" <=> front[o] = "replayed"
    BY <2>1 DEF GuardInv, InterceptorTypeOK
  <2> QED
    BY <1>1, <2>1, <2>2 DEF Charged
<1>5. /\ \A k \in RedisKeys : EntryExpires(k) => UNCHANGED Guarded!abstractVars
      /\ \A r \in CreateRequests : EntryStored(r) => UNCHANGED Guarded!abstractVars
  BY <1>1 DEF EntryExpires, EntryStored, paymentVars, storeVars, serviceVars, providerVars,
     Charged
<1>6. CASE ProviderStep /\ UNCHANGED <<serviceVars, interceptorVars>>
  <2>1. /\ UNCHANGED <<body, rows, pc, front, heard>>
        /\ Charged' = Charged \/ \E r \in sent \ Charged : Charged' = Charged \cup {r}
    BY <1>6, ProviderEffect DEF serviceVars, interceptorVars
  <2>2. CASE Charged' = Charged
    BY <1>1, <2>1, <2>2
  <2>3. ASSUME NEW r \in sent \ Charged, Charged' = Charged \cup {r}
        PROVE  Guarded!Next
    <3>1. r \in rows /\ r \in CreateRequests /\ pc[r] # "idle"
      BY DEF KeyInv, ClaimInv, PaymentTypeOK, StoreTypeOK
    <3>2. PICK k \in Accounts : k = OrgKey(r) /\ k # Null
      BY <3>1, KeyIsAccount
    <3>3. wants[r] = k /\ owners[k] = r
      BY <3>1, <3>2, OwnerIsRow
    <3>4. owners' = owners /\ wants' = wants /\ told' = told
      BY <2>1, OwnersStay DEF OrgKey
    <3>5. Guarded!Charge(r)
      BY <2>3, <3>2, <3>3, <3>4 DEF Guarded!Charge, Charged
    <3> QED
      BY <3>1, <3>5 DEF Guarded!Next
  <2> QED
    BY <2>1, <2>2, <2>3
<1>7. CASE GuardedCrash
  <2>1. /\ UNCHANGED <<body, rows, charge, heard>>
        /\ \A r \in CreateRequests : pc'[r] = "idle" <=> pc[r] = "idle"
    BY <1>7, CrashEffect DEF GuardedCrash
  <2>2. \A r \in CreateRequests : front'[r] = "replayed" <=> front[r] = "replayed"
    BY <1>7 DEF GuardedCrash, Arrival
  <2> QED
    BY <1>1, <2>1, <2>2 DEF Charged
<1>8. CASE UNCHANGED guardedVars
  BY <1>1, <1>8 DEF guardedVars, interceptorVars, paymentVars, storeVars, providerVars,
     serviceVars, Charged
<1> QED
  BY <1>2, <1>3, <1>4, <1>5, <1>6, <1>7, <1>8 DEF GuardedNext

\* With the interceptor and Redis in front, what clients are told is still one behaviour
\* of the abstract idempotent charge, for any number of requests, keys and crashes.
THEOREM RepliesAreIdempotent == GuardedSpec => RepliesImplementIdempotentCharge
<1>1. PaymentTypeOK /\ PaymentTypeOK' /\ KeyInv /\ ClaimInv /\ GuardInv
        /\ [GuardedNext]_guardedVars => [Guarded!Next]_(Guarded!abstractVars)
  BY GuardedStepImplements
<1> QED
  BY <1>1, GuardedInitImplements, GuardedIsService, GuardHolds, PaymentTypeCorrect, KeysHold,
     ClaimsHold, PTL DEF GuardedSpec, RepliesImplementIdempotentCharge, Guarded!Spec
=============================================================================

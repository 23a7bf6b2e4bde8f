---------------------------- MODULE WebhookProofs ----------------------------
(***************************************************************************)
(* What the workers do in the composed system.  A webhook is marked        *)
(* processed only once an event log tells of its status, and a run writes  *)
(* it to a row once in a row, as long as locks outlive their runs: both    *)
(* rest on a log that grows at its end, and whose last event tells of the  *)
(* status of its row.                                                      *)
(* Webhooks alone, and the reconciliation alone, keep the state machine.   *)
(***************************************************************************)
EXTENDS PaymentSystemProofs

\* The event goes to the end of the log of row p, and the row gets the status it tells of.
Writes(p, event) ==
  /\ Tells(p, event) \in PaymentStatus /\ RecordStatus(p, Tells(p, event), event)
  /\ rows' = rows \cup {p}

\* The status each kind of event tells of.
LEMMA Told ==
  ASSUME NEW p \in CreateRequests
  PROVE  /\ Tells(p, [type |-> "payment.created"]) = "PENDING"
         /\ \A s \in ChargeStatus :
              /\ Tells(p, [type |-> "provider", status |-> s]) = MapProviderStatus(s)
              /\ Tells(p, [type |-> "webhook", status |-> s]) = STATUS_MAP[s]
         /\ \A s \in PaymentStatus : Tells(p, [type |-> "reconciliation.updated", to |-> s]) = s
         /\ \A n \in Nat : Tells(p, [type |-> "payment.refunded", amount |-> n])
                             = RefundStatus([payment |-> p, amount |-> n])
BY DEF Tells

\* The webhook worker is the only one to log a webhook; without an event only the catch
\* of create() writes, to a row without a charge.
LEMMA SystemLogs ==
  ASSUME SystemInv, [Next]_vars
  PROVE  \/ UNCHANGED <<rows, status, eventLog>>
         \/ /\ UNCHANGED <<rows, eventLog>>
            /\ \E r \in CreateRequests : /\ externalId[r] = Null /\ r \in providerError'
                                         /\ status' = [status EXCEPT ![r] = "FAILED"]
         \/ \E p \in CreateRequests, event \in Event : event.type # "webhook" /\ Writes(p, event)
         \/ \E w \in HookWorkers : WorkApplies(w)
<1> USE DEF SystemInv, CoreInv
<1> DEFINE logs == \E p \in CreateRequests, event \in Event :
                     event.type # "webhook" /\ Writes(p, event)
<1>1. CASE UNCHANGED storeVars
  BY <1>1 DEF storeVars
<1>2. ASSUME NEW k \in RecWorkers, RecApplies(k) PROVE logs
  <2>1. PICK p \in CreateRequests : p = kjob[k] /\ externalId[p] # Null /\ p \in rows
    BY <1>2 DEF RecApplies, RecInv, LinkInv
  <2>2. PICK s \in PaymentStatus : s = kresult[k]
    BY DEF ReconciliationTypeOK
  <2>3. PICK event \in Event : event = [type |-> "reconciliation.updated", to |-> s]
    BY EventsTyped
  <2>4. RecordStatus(p, s, event) /\ rows' = rows /\ Tells(p, event) = s
    BY <1>2, <2>1, <2>2, <2>3, Told DEF RecApplies
  <2> QED
    BY <2>1, <2>3, <2>4 DEF Writes
<1>3. ASSUME NEW r \in CreateRequests, CreateInserts(r) PROVE logs
  <2>1. PICK event \in Event : event = [type |-> "payment.created"]
    BY EventsTyped
  <2>2. /\ RecordStatus(r, "PENDING", event) /\ rows' = rows \cup {r}
        /\ Tells(r, event) = "PENDING"
    BY <1>3, <2>1, Told DEF CreateInserts
  <2> QED
    BY <2>1, <2>2 DEF Writes, PaymentStatus
<1>4. ASSUME NEW r \in CreateRequests, CreateSettles(r) PROVE logs
  <2>1. replyStatus[r] \in ChargeStatus /\ r \in rows
    BY <1>4 DEF CreateSettles, PaymentTypeOK, ProviderTypeOK, KeyInv
  <2>2. PICK s \in PaymentStatus : s = MapProviderStatus(replyStatus[r])
    BY <2>1, StatusTables
  <2>3. PICK event \in Event : event = [type |-> "provider", status |-> replyStatus[r]]
    BY <2>1, EventsTyped
  <2>4. RecordStatus(r, s, event) /\ rows' = rows /\ Tells(r, event) = s
    BY <1>4, <2>1, <2>2, <2>3, Told DEF CreateSettles
  <2> QED
    BY <2>1, <2>3, <2>4 DEF Writes
<1>5. ASSUME NEW r \in CreateRequests, CreateCatches(r)
      PROVE  /\ UNCHANGED <<rows, eventLog>> /\ externalId[r] = Null
             /\ \/ status' = status
                \/ status' = [status EXCEPT ![r] = "FAILED"] /\ r \in providerError'
  BY <1>5 DEF CreateCatches, LinkInv
<1>6. ASSUME NEW call \in refundCalls, RefundSettles(call) PROVE logs
  <2>1. PICK p \in CreateRequests : p = call.payment /\ p \in rows
    <3>1. call.payment \in CreateRequests /\ call.charge \in CreateRequests
      BY DEF PaymentTypeOK, ProviderTypeOK, RefundCall
    <3>2. externalId[call.payment] # Null
      BY <3>1, StoreAssumption DEF LinkInv
    <3> QED
      BY <3>1, <3>2 DEF LinkInv
  <2>2. PICK n \in Nat : n = call.amount
    BY ProviderAssumption DEF PaymentTypeOK, ProviderTypeOK, RefundCall
  <2>3. PICK s \in PaymentStatus : s = RefundStatus(call)
    BY RefundStatusTyped
  <2>4. PICK event \in Event : event = [type |-> "payment.refunded", amount |-> n]
    BY EventsTyped
  <2>5. RefundStatus([payment |-> p, amount |-> n]) = s
    BY <2>1, <2>2, <2>3 DEF RefundStatus
  <2>6. RecordStatus(p, s, event) /\ rows' = rows /\ Tells(p, event) = s
    BY <1>6, <2>1, <2>2, <2>3, <2>4, <2>5, Told DEF RefundSettles
  <2> QED
    BY <2>1, <2>4, <2>6 DEF Writes
<1> HIDE DEF logs
<1>7. CASE [PaymentNext]_paymentVars
  <2>1. CASE ProviderStep \/ ServiceCrash \/ UNCHANGED paymentVars
    BY <1>1, <2>1, ProviderGrows DEF ServiceCrash, paymentVars
  <2>2. CASE RefundStep
    BY <1>1, <1>6, <2>2, RefundWrites DEF logs
  <2>3. ASSUME NEW r \in CreateRequests, CreateStep(r)
        PROVE  CreateInserts(r) \/ CreateSettles(r) \/ CreateCatches(r) \/ UNCHANGED storeVars
    BY <2>3, CreateWrites
  <2> QED
    BY <1>1, <1>3, <1>4, <1>5, <1>7, <2>1, <2>2, <2>3 DEF PaymentNext, ServiceStep, logs
<1> QED
  BY <1>1, <1>2, <1>7, SystemWrites DEF logs

\* What the webhook worker writes.
LEMMA WorkWrites ==
  ASSUME SystemInv, NEW w \in HookWorkers, WorkApplies(w),
         NEW p \in CreateRequests, p = wread[w],
         NEW c \in CreateRequests, c = wjob[w]
  PROVE  /\ p \in rows /\ externalId[p] = c /\ Accepted(c) /\ hookData[c] \in ChargeStatus
         /\ STATUS_MAP[hookData[c]] \in PaymentStatus
         /\ RecordStatus(p, STATUS_MAP[hookData[c]], [type |-> "webhook", status |-> hookData[c]])
         /\ UNCHANGED <<rows, externalId, providerError, dpc, notice, inbound, hookJob,
                        hookData, wjob, wread>>
         /\ wpc[w] = "apply" /\ wpc' = [wpc EXCEPT ![w] = "mark"]
<1> USE DEF SystemInv, CoreInv
<1>1. /\ wpc[w] = "apply" /\ externalId[p] = c /\ Accepted(c)
      /\ hookData[c] \in ChargeStatus
  BY DEF WorkApplies, HookInv
<1>2. p \in rows
  BY <1>1, StoreAssumption DEF LinkInv
<1>3. STATUS_MAP[hookData[c]] \in PaymentStatus
  BY <1>1, StatusTables
<1> QED
  BY <1>1, <1>2, <1>3 DEF WorkApplies

\* So does it log the webhook, which tells of the status it writes.
LEMMA WorkLogs ==
  ASSUME SystemInv, NEW w \in HookWorkers, WorkApplies(w)
  PROVE  \E p \in CreateRequests, event \in Event : Writes(p, event)
<1>1. PICK p \in CreateRequests, c \in CreateRequests : p = wread[w] /\ c = wjob[w]
  BY DEF WorkApplies, SystemInv, HookInv
<1>2. PICK s \in ChargeStatus : s = hookData[c]
  BY <1>1, WorkWrites
<1>3. PICK event \in Event : event = [type |-> "webhook", status |-> s]
  BY EventsTyped
<1>4. /\ p \in rows /\ rows' = rows /\ RecordStatus(p, STATUS_MAP[s], event)
      /\ Tells(p, event) = STATUS_MAP[s] /\ STATUS_MAP[s] \in PaymentStatus
  BY <1>1, <1>2, <1>3, WorkWrites, Told
<1> QED
  BY <1>4 DEF Writes

-----------------------------------------------------------------------------
\* Logs only grow: what was written stays where it is.
LEMMA WrittenStays ==
  ASSUME SystemInv, NEW p \in CreateRequests, NEW s \in PaymentStatus, NEW event \in Event,
         RecordStatus(p, s, event)
  PROVE  /\ status' = [status EXCEPT ![p] = s]
         /\ eventLog'[p] = Append(eventLog[p], event)
         /\ eventLog'[p] \in Seq(Event) /\ Len(eventLog'[p]) = Len(eventLog[p]) + 1
         /\ eventLog'[p][Len(eventLog[p]) + 1] = event
         /\ \A i \in DOMAIN eventLog[p] :
              i \in DOMAIN eventLog'[p] /\ eventLog'[p][i] = eventLog[p][i]
         /\ \A o \in CreateRequests \ {p} : eventLog'[o] = eventLog[o]
<1>1. eventLog \in [CreateRequests -> Seq(Event)]
  BY DEF SystemInv, CoreInv, PaymentTypeOK, StoreTypeOK
<1>2. /\ status' = [status EXCEPT ![p] = s]
      /\ eventLog' = [eventLog EXCEPT ![p] = Append(@, event)]
  BY DEF RecordStatus
<1>3. PICK log \in Seq(Event) : log = eventLog[p]
  BY <1>1
<1>4. /\ eventLog'[p] = Append(log, event)
      /\ \A o \in CreateRequests \ {p} : eventLog'[o] = eventLog[o]
  BY <1>1, <1>2, <1>3
<1>5. /\ Append(log, event) \in Seq(Event) /\ Len(Append(log, event)) = Len(log) + 1
      /\ Append(log, event)[Len(log) + 1] = event
      /\ \A i \in DOMAIN log : i \in DOMAIN Append(log, event) /\ Append(log, event)[i] = log[i]
  BY <1>1
<1> QED
  BY <1>2, <1>3, <1>4, <1>5

\* The last event of a row tells of its status, but for the FAILED of the catch of create().
Explained(p) ==
  \/ \E event \in Event : /\ event = eventLog[p][Len(eventLog[p])]
                          /\ status[p] = Tells(p, event)
  \/ status[p] = "FAILED" /\ p \in providerError

LogInv ==
  /\ \A p \in CreateRequests \ rows : eventLog[p] = << >>
  /\ \A p \in rows : eventLog[p] # << >> /\ Explained(p)

LEMMA SystemKeepsLog ==
  ASSUME SystemInv, LogInv, [Next]_vars PROVE LogInv'
<1>1. \A p \in CreateRequests, event \in Event : Tells(p, event)' = Tells(p, event)
  BY SystemWrites DEF OnlyGrow, Tells, RefundStatus
<1>2. /\ \A p \in CreateRequests : eventLog[p] \in Seq(Event)
      /\ rows \subseteq CreateRequests /\ status \in [CreateRequests -> PaymentStatus]
  BY DEF SystemInv, CoreInv, PaymentTypeOK, StoreTypeOK
<1>3. ASSUME NEW p \in rows, eventLog'[p] = eventLog[p],
             \/ status'[p] = status[p]
             \/ status'[p] = "FAILED" /\ p \in providerError'
      PROVE  eventLog'[p] # << >> /\ Explained(p)'
  <2>1. CASE status'[p] = "FAILED" /\ p \in providerError'
    BY <1>3, <2>1 DEF LogInv, Explained
  <2>2. CASE status'[p] = status[p] /\ status[p] = "FAILED" /\ p \in providerError
    BY <1>3, <2>2, SystemWrites DEF LogInv, Explained, OnlyGrow
  <2>3. ASSUME status'[p] = status[p], NEW event \in Event,
               event = eventLog[p][Len(eventLog[p])], status[p] = Tells(p, event)
        PROVE  eventLog'[p] # << >> /\ Explained(p)'
    <3>1. p \in CreateRequests
      BY <1>2
    <3>2. status'[p] = Tells(p, event)'
      BY <1>1, <2>3, <3>1
    <3> QED
      BY <1>3, <2>3, <3>2 DEF LogInv, Explained
  <2> QED
    BY <1>3, <2>1, <2>2, <2>3 DEF LogInv, Explained
<1>4. ASSUME NEW p \in CreateRequests, NEW event \in Event, Writes(p, event) PROVE LogInv'
  <2>1. PICK s \in PaymentStatus : s = Tells(p, event) /\ RecordStatus(p, s, event)
    BY <1>4 DEF Writes
  <2>2. /\ eventLog'[p] \in Seq(Event) /\ Len(eventLog'[p]) = Len(eventLog[p]) + 1
        /\ eventLog'[p][Len(eventLog[p]) + 1] = event
        /\ \A o \in CreateRequests \ {p} : eventLog'[o] = eventLog[o]
        /\ status' = [status EXCEPT ![p] = s]
    BY <2>1, WrittenStays
  <2>3. /\ eventLog'[p] # << >> /\ eventLog'[p][Len(eventLog'[p])] = event
        /\ status'[p] = Tells(p, event)'
    BY <1>1, <1>2, <2>1, <2>2
  <2>4. \A o \in rows \ {p} : eventLog'[o] = eventLog[o] /\ status'[o] = status[o]
    BY <1>2, <2>2
  <2>5. rows' = rows \cup {p}
    BY <1>4 DEF Writes
  <2> QED
    <3>1. Explained(p)'
      BY <2>3 DEF Explained
    <3> QED
      BY <1>3, <2>2, <2>3, <2>4, <2>5, <3>1 DEF LogInv
<1>5. CASE UNCHANGED <<rows, status, eventLog>>
  BY <1>2, <1>3, <1>5 DEF LogInv
<1>6. ASSUME NEW r \in CreateRequests, r \in providerError', UNCHANGED <<rows, eventLog>>,
             status' = [status EXCEPT ![r] = "FAILED"]
      PROVE  LogInv'
  BY <1>2, <1>3, <1>6 DEF LogInv
<1> QED
  BY <1>4, <1>5, <1>6, SystemLogs, WorkLogs

LEMMA SystemLogHolds == Spec => []LogInv
<1>1. Init => LogInv
  BY DEF Init, PaymentInit, StoreInit, LogInv
<1>2. SystemInv /\ LogInv /\ [Next]_vars => LogInv'
  BY SystemKeepsLog
<1> QED
  BY <1>1, <1>2, SystemHolds, PTL DEF Spec

LEMMA LogsGrow ==
  ASSUME SystemInv, [Next]_vars, NEW p \in CreateRequests, NEW i \in DOMAIN eventLog[p]
  PROVE  i \in DOMAIN eventLog'[p] /\ eventLog'[p][i] = eventLog[p][i]
<1>1. ASSUME NEW o \in CreateRequests, NEW event \in Event, Writes(o, event)
      PROVE  i \in DOMAIN eventLog'[p] /\ eventLog'[p][i] = eventLog[p][i]
  <2>1. PICK s \in PaymentStatus : RecordStatus(o, s, event)
    BY <1>1 DEF Writes
  <2>2. CASE o = p
    BY <2>1, <2>2, WrittenStays
  <2>3. CASE o # p
    BY <2>1, <2>3, WrittenStays
  <2> QED
    BY <2>2, <2>3
<1> QED
  BY <1>1, SystemLogs, WorkLogs

\* A charge whose webhook was accepted stays so, and the data of its job are fixed.
LEMMA AcceptedStays ==
  ASSUME SystemInv, [Next]_vars, NEW c \in CreateRequests, Accepted(c)
  PROVE  Accepted(c)' /\ hookData'[c] = hookData[c]
<1> USE DEF SystemInv
<1>1. CASE UNCHANGED webhookVars
  BY <1>1 DEF webhookVars, Accepted
<1>2. CASE WebhookCrash
  BY <1>2 DEF WebhookCrash, Accepted
<1>3. ASSUME NEW d \in Deliveries, DeliveryStep(d)
      PROVE  Accepted(c)' /\ hookData'[c] = hookData[c]
  <2>1. dpc[d] # "accepted"
    BY <1>3 DEF DeliveryStep, HookRefused, HookReceived, HookPersists, HookEnqueues,
       HookEnqueueThrows
  <2>2. \A e \in Deliveries \ {d} : dpc'[e] = dpc[e] /\ notice'[e] = notice[e]
    BY <1>3 DEF DeliveryStep, HookRefused, HookReceived, HookPersists, HookEnqueues,
       HookEnqueueThrows, DeliveryGoes, WebhookTypeOK
  <2>3. hookData'[c] = hookData[c]
    <3>1. CASE HookEnqueues(d)
      <4>1. notice[d].charge # c
        BY <3>1 DEF HookEnqueues, HookInv, OneDeliveryEnqueues, Accepted
      <4>2. \/ hookData' = hookData
            \/ hookData' = [hookData EXCEPT ![notice[d].charge] = notice[d].status]
        BY <3>1 DEF HookEnqueues
      <4> QED
        BY <4>1, <4>2 DEF WebhookTypeOK
    <3> QED
      BY <1>3, <3>1 DEF DeliveryStep, HookRefused, HookReceived, HookPersists,
         HookEnqueueThrows
  <2> QED
    BY <2>1, <2>2, <2>3 DEF Accepted
<1>4. ASSUME NEW w \in HookWorkers, WorkStep(w)
      PROVE  Accepted(c)' /\ hookData'[c] = hookData[c]
  BY <1>4 DEF WorkStep, WorkTakes, WorkReads, WorkApplies, WorkMarks, WorkFails, Accepted
<1>5. ASSUME NEW e \in CreateRequests, HookJobStalls(e) \/ HookJobRemoved(e)
      PROVE  Accepted(c)' /\ hookData'[c] = hookData[c]
  BY <1>5 DEF HookJobStalls, HookJobRemoved, Accepted
<1> QED
  BY <1>1, <1>2, <1>3, <1>4, <1>5, SystemWrites DEF WebhookStep

-----------------------------------------------------------------------------
\* The log of some row linked to charge c tells of the status of its webhook.
Recorded(c) ==
  \E p \in LinkedRows(c) :
    \E i \in DOMAIN eventLog[p] : Tells(p, eventLog[p][i]) = STATUS_MAP[hookData[c]]

\* A run that is about to mark its webhook has recorded it, or found it recorded.
RecordedInv ==
  /\ \A c \in CreateRequests : inbound[c] = "processed" => Accepted(c)
  /\ \A w \in HookWorkers : wpc[w] = "mark" /\ hookData[wjob[w]] \in ChargeStatus
       => Recorded(wjob[w])
  /\ ProcessedMeansRecorded

LEMMA RecordedStays ==
  ASSUME SystemInv, [Next]_vars, NEW c \in CreateRequests, hookData'[c] = hookData[c],
         Recorded(c)
  PROVE  Recorded(c)'
<1>1. PICK p \in LinkedRows(c) :
        \E i \in DOMAIN eventLog[p] : Tells(p, eventLog[p][i]) = STATUS_MAP[hookData[c]]
  BY DEF Recorded
<1>2. PICK i \in DOMAIN eventLog[p] : Tells(p, eventLog[p][i]) = STATUS_MAP[hookData[c]]
  BY <1>1
<1>3. p \in CreateRequests /\ p \in rows /\ externalId[p] = c
  BY DEF LinkedRows, SystemInv, CoreInv, PaymentTypeOK, StoreTypeOK
<1>4. p \in LinkedRows(c)'
  BY <1>3, SystemWrites, StoreAssumption DEF LinkedRows, OnlyGrow
<1>5. i \in DOMAIN eventLog'[p] /\ eventLog'[p][i] = eventLog[p][i]
  BY <1>2, <1>3, LogsGrow
<1>6. (Tells(p, eventLog[p][i]) = STATUS_MAP[hookData[c]])'
  BY <1>2, <1>5, SystemWrites DEF OnlyGrow, Tells, RefundStatus
<1> QED
  BY <1>4, <1>5, <1>6 DEF Recorded

\* Enough for a step that marks only what was recorded and gets to the mark only with it.
LEMMA RunsKeepRecorded ==
  ASSUME SystemInv, RecordedInv, [Next]_vars,
         \A c \in CreateRequests : inbound'[c] = "processed" =>
           \/ inbound[c] = "processed"
           \/ \E w \in HookWorkers : wpc[w] = "mark" /\ wjob[w] = c,
         \A w \in HookWorkers : wpc'[w] = "mark" =>
           \/ wpc[w] = "mark" /\ wjob'[w] = wjob[w]
           \/ hookData'[wjob'[w]] \in ChargeStatus => Recorded(wjob[w])' /\ wjob'[w] = wjob[w]
  PROVE  RecordedInv'
<1>1. \A w \in HookWorkers : wpc[w] = "mark" =>
        wjob[w] \in CreateRequests /\ Accepted(wjob[w])
  BY DEF SystemInv, HookInv
<1>2. ASSUME NEW c \in CreateRequests, Accepted(c), hookData'[c] \in ChargeStatus,
             \/ inbound[c] = "processed"
             \/ \E w \in HookWorkers : wpc[w] = "mark" /\ wjob[w] = c
      PROVE  Recorded(c)'
  <2>1. hookData'[c] = hookData[c]
    BY <1>2, AcceptedStays
  <2>2. Recorded(c)
    BY <1>2, <2>1 DEF RecordedInv, ProcessedMeansRecorded, Recorded
  <2> QED
    BY <2>1, <2>2, RecordedStays
<1>3. ASSUME NEW c \in CreateRequests, inbound'[c] = "processed"
      PROVE  Accepted(c)' /\ (hookData'[c] \in ChargeStatus => Recorded(c)')
  <2>1. Accepted(c)
    BY <1>1, <1>3 DEF RecordedInv
  <2> QED
    BY <1>2, <1>3, <2>1, AcceptedStays
<1>4. ASSUME NEW w \in HookWorkers, wpc'[w] = "mark", hookData'[wjob'[w]] \in ChargeStatus
      PROVE  Recorded(wjob[w])' /\ wjob'[w] = wjob[w]
  <2>1. CASE wpc[w] = "mark" /\ wjob'[w] = wjob[w]
    <3>1. PICK c \in CreateRequests : c = wjob[w] /\ Accepted(c)
      BY <1>1, <2>1
    <3>2. Recorded(c)'
      BY <1>2, <1>4, <2>1, <3>1
    <3> QED
      BY <2>1, <3>1, <3>2 DEF Recorded
  <2> QED
    BY <1>4, <2>1
<1>5. ProcessedMeansRecorded'
  BY <1>3 DEF ProcessedMeansRecorded, Recorded
<1> QED
  BY <1>3, <1>4, <1>5 DEF RecordedInv, Recorded

LEMMA StepRecorded ==
  ASSUME SystemInv, LogInv, RecordedInv, [Next]_vars PROVE RecordedInv'
<1> USE DEF SystemInv, WebhookTypeOK
<1>1. CASE UNCHANGED webhookVars
  BY <1>1, RunsKeepRecorded DEF webhookVars
<1>2. CASE WebhookCrash
  BY <1>2, RunsKeepRecorded DEF WebhookCrash
<1>3. ASSUME NEW d \in Deliveries, DeliveryStep(d) PROVE RecordedInv'
  <2>1. UNCHANGED <<wpc, wjob>>
    BY <1>3 DEF DeliveryStep, HookRefused, HookReceived, HookPersists, HookEnqueues,
       HookEnqueueThrows
  <2>2. \A c \in CreateRequests : inbound'[c] = "processed" => inbound[c] = "processed"
    <3>1. \/ inbound' = inbound
          \/ inbound' = [inbound EXCEPT ![notice[d].charge] = "received"]
      BY <1>3 DEF DeliveryStep, HookRefused, HookReceived, HookPersists, HookEnqueues,
         HookEnqueueThrows
    <3> QED
      BY <3>1
  <2> QED
    BY <2>1, <2>2, RunsKeepRecorded
<1>4. ASSUME NEW w \in HookWorkers, wpc'[w] = "idle" \/ wpc'[w] = "read" \/ wpc'[w] = "apply",
             \A v \in HookWorkers \ {w} : wpc'[v] = wpc[v] /\ wjob'[v] = wjob[v],
             UNCHANGED inbound
      PROVE  RecordedInv'
  BY <1>4, RunsKeepRecorded
<1>5. ASSUME NEW w \in HookWorkers, WorkThrows(w), UNCHANGED <<inbound, wjob>>
      PROVE  RecordedInv'
  <2>1. wpc' = [wpc EXCEPT ![w] = "idle"]
    BY <1>5 DEF WorkThrows
  <2> QED
    BY <1>4, <1>5, <2>1
<1>6. ASSUME NEW w \in HookWorkers, NEW c \in CreateRequests, WorkTakes(w, c)
      PROVE  RecordedInv'
  <2>1. /\ wpc' = [wpc EXCEPT ![w] = "read"] /\ wjob' = [wjob EXCEPT ![w] = c]
        /\ UNCHANGED inbound
    BY <1>6 DEF WorkTakes
  <2> QED
    BY <1>4, <2>1
<1>7. ASSUME NEW w \in HookWorkers, WorkReads(w) PROVE RecordedInv'
  <2>1. PICK c \in CreateRequests : c = wjob[w]
    BY <1>7 DEF WorkReads, HookInv
  <2>2. UNCHANGED <<inbound, hookData, wjob, storeVars>>
    BY <1>7 DEF WorkReads
  <2>3. CASE WorkThrows(w)
    BY <1>5, <2>2, <2>3
  <2>4. CASE wpc' = [wpc EXCEPT ![w] = "apply"]
    BY <1>4, <2>2, <2>4
  <2>5. ASSUME NEW p \in LinkedRows(c), wpc' = [wpc EXCEPT ![w] = "mark"],
               hookData[c] \in ChargeStatus => status[p] = STATUS_MAP[hookData[c]]
        PROVE  RecordedInv'
    <3>1. ASSUME hookData[c] \in ChargeStatus PROVE Recorded(c)
      <4>1. p \in rows /\ externalId[p] = c /\ p \in CreateRequests
        BY DEF LinkedRows, CoreInv, PaymentTypeOK, StoreTypeOK
      <4>2. p \notin providerError
        BY <4>1, StoreAssumption DEF CoreInv, SettleInv
      <4>3. eventLog[p] # << >> /\ status[p] = Tells(p, eventLog[p][Len(eventLog[p])])
        BY <4>1, <4>2 DEF LogInv, Explained
      <4>4. eventLog[p] \in Seq(Event)
        BY <4>1 DEF CoreInv, PaymentTypeOK, StoreTypeOK
      <4>5. Len(eventLog[p]) \in DOMAIN eventLog[p]
        BY <4>3, <4>4
      <4> QED
        BY <2>5, <3>1, <4>3, <4>5 DEF Recorded
    <3>2. hookData[c] \in ChargeStatus => Recorded(c)'
      BY <2>2, <3>1, RecordedStays
    <3> QED
      BY <2>1, <2>2, <2>5, <3>2, RunsKeepRecorded DEF Recorded
  <2>6. ASSUME NEW p \in LinkedRows(c), wpc' = [wpc EXCEPT ![w] = "mark"],
               \/ hookData[c] = "unrecognised"
               \/ hookData[c] \in ChargeStatus /\ status[p] = STATUS_MAP[hookData[c]]
        PROVE  RecordedInv'
    BY <2>5, <2>6 DEF ChargeStatus
  <2> QED
    BY <1>7, <2>1, <2>3, <2>4, <2>6 DEF WorkReads
<1>8. ASSUME NEW w \in HookWorkers, WorkApplies(w) PROVE RecordedInv'
  <2>1. PICK p \in CreateRequests, c \in CreateRequests : p = wread[w] /\ c = wjob[w]
    BY <1>8 DEF WorkApplies, HookInv
  <2>2. PICK s \in PaymentStatus, event \in Event :
          /\ s = STATUS_MAP[hookData[c]] /\ event = [type |-> "webhook", status |-> hookData[c]]
          /\ Tells(p, event) = s
    <3>1. PICK n \in ChargeStatus : n = hookData[c] /\ STATUS_MAP[n] \in PaymentStatus
      BY <1>8, <2>1, WorkWrites
    <3>2. [type |-> "webhook", status |-> n] \in Event
      BY EventsTyped
    <3>3. Tells(p, [type |-> "webhook", status |-> n]) = STATUS_MAP[n]
      BY Told
    <3> QED
      BY <3>1, <3>2, <3>3
  <2>3. /\ RecordStatus(p, s, event) /\ p \in rows /\ externalId[p] = c
        /\ UNCHANGED <<rows, externalId, inbound, hookData, wjob>>
        /\ wpc' = [wpc EXCEPT ![w] = "mark"]
    BY <1>8, <2>1, <2>2, WorkWrites
  <2>4. /\ eventLog'[p] \in Seq(Event) /\ Len(eventLog'[p]) = Len(eventLog[p]) + 1
        /\ eventLog'[p][Len(eventLog[p]) + 1] = event
    BY <2>3, WrittenStays
  <2>5. eventLog[p] \in Seq(Event)
    BY DEF CoreInv, PaymentTypeOK, StoreTypeOK
  <2>6. Len(eventLog[p]) + 1 \in DOMAIN eventLog'[p]
    BY <2>4, <2>5
  <2>7. \E i \in DOMAIN eventLog'[p] : (Tells(p, eventLog[p][i]) = STATUS_MAP[hookData[c]])'
    <3>1. PICK i \in DOMAIN eventLog'[p] : eventLog'[p][i] = event
      BY <2>4, <2>6
    <3>2. (Tells(p, eventLog[p][i]) = STATUS_MAP[hookData[c]])'
      BY <2>2, <2>3, <3>1, SystemWrites DEF OnlyGrow, Tells, RefundStatus
    <3> QED
      BY <3>2
  <2>8. Recorded(c)'
    BY <2>3, <2>7 DEF Recorded, LinkedRows
  <2> QED
    BY <2>1, <2>3, <2>8, RunsKeepRecorded DEF Recorded
<1>9. ASSUME NEW w \in HookWorkers, WorkMarks(w) PROVE RecordedInv'
  <2>1. /\ wpc[w] = "mark" /\ wpc' = [wpc EXCEPT ![w] = "idle"] /\ wjob' = wjob
        /\ inbound' = [inbound EXCEPT ![wjob[w]] = "processed"]
    BY <1>9 DEF WorkMarks
  <2> QED
    BY <2>1, RunsKeepRecorded
<1>10. ASSUME NEW w \in HookWorkers, WorkFails(w) PROVE RecordedInv'
  BY <1>5, <1>10 DEF WorkFails
<1>11. ASSUME NEW c \in CreateRequests, HookJobStalls(c) \/ HookJobRemoved(c)
       PROVE  RecordedInv'
  BY <1>11, RunsKeepRecorded DEF HookJobStalls, HookJobRemoved
<1> QED
  BY <1>1, <1>2, <1>3, <1>6, <1>7, <1>8, <1>9, <1>10, <1>11, SystemWrites
     DEF WebhookStep, WorkStep

\* A webhook is marked processed only when the log of a payment linked to its charge tells
\* of its status, also when locks expire under live runs and the process crashes.
THEOREM ProcessedIsRecorded == Spec => []ProcessedMeansRecorded
<1>1. Init => RecordedInv
  BY DEF Init, WebhookInit, RecordedInv, ProcessedMeansRecorded
<1>2. SystemInv /\ LogInv /\ RecordedInv /\ [Next]_vars => RecordedInv'
  BY StepRecorded
<1>3. RecordedInv => ProcessedMeansRecorded
  BY DEF RecordedInv
<1> QED
  BY <1>1, <1>2, <1>3, SystemHolds, SystemLogHolds, PTL DEF Spec
-----------------------------------------------------------------------------
\* With locks that outlive their runs a job has one run at most: the holder of its lock.
HolderInv ==
  /\ \A w \in HookWorkers : wpc[w] # "idle" => hookJob[wjob[w]].holder = w
  /\ \A c \in CreateRequests : hookJob[c].state # "active" => hookJob[c].holder = NoWorker

LEMMA StepHolder ==
  ASSUME ~ LocksExpire, SystemInv, HolderInv, [Next]_vars PROVE HolderInv'
<1> USE DEF SystemInv, WebhookTypeOK, Job
<1>1. CASE UNCHANGED webhookVars
  BY <1>1 DEF webhookVars, HolderInv
<1>2. CASE WebhookCrash
  BY <1>2 DEF WebhookCrash, HolderInv, Orphaned
<1>3. \A w \in HookWorkers : wpc[w] # "idle" => wjob[w] \in CreateRequests /\ Accepted(wjob[w])
  BY DEF HookInv
<1>4. \A w \in HookWorkers : w # NoWorker /\ w \in Workers
  BY WebhookAssumption, QueueAssumption
\* A job nobody works on may become any job with a holder only while it is active.
<1>5. ASSUME UNCHANGED <<wpc, wjob>>,
             NEW c \in CreateRequests, NEW j,
             \A w \in HookWorkers : wpc[w] # "idle" => wjob[w] # c,
             hookJob' = [hookJob EXCEPT ![c] = j],
             j.state # "active" => j.holder = NoWorker
      PROVE  HolderInv'
  BY <1>3, <1>5 DEF HolderInv
<1>6. ASSUME NEW d \in Deliveries, DeliveryStep(d) PROVE HolderInv'
  <2>1. UNCHANGED <<wpc, wjob>>
    BY <1>6 DEF DeliveryStep, HookRefused, HookReceived, HookPersists, HookEnqueues,
       HookEnqueueThrows
  <2>2. CASE HookEnqueues(d)
    <3>1. PICK c \in CreateRequests : c = notice[d].charge
      BY <2>2 DEF HookEnqueues, HookInv, Notice
    <3>2. ~ Accepted(c)
      BY <2>2, <3>1 DEF HookEnqueues, Accepted, HookInv, OneDeliveryEnqueues
    <3>3. \A w \in HookWorkers : wpc[w] # "idle" => wjob[w] # c
      BY <1>3, <3>2
    <3>4. hookJob[c].state = "absent"
      BY <3>2 DEF HookInv
    <3>5. /\ hookJob' = [hookJob EXCEPT ![c] = [NoJob EXCEPT !.state = "waiting"]]
          /\ [NoJob EXCEPT !.state = "waiting"].holder = NoWorker
      BY <2>2, <3>1, <3>4 DEF HookEnqueues, Added, NoJob
    <3> QED
      BY <1>5, <2>1, <3>3, <3>5
  <2>3. CASE UNCHANGED hookJob
    BY <2>1, <2>3 DEF HolderInv
  <2> QED
    BY <1>6, <2>2, <2>3 DEF DeliveryStep, HookRefused, HookReceived, HookPersists,
       HookEnqueueThrows
<1>7. ASSUME NEW c \in CreateRequests, HookJobStalls(c) \/ HookJobRemoved(c) PROVE HolderInv'
  <2>1. hookJob[c].holder = NoWorker /\ UNCHANGED <<wpc, wjob>>
    BY <1>7 DEF HookJobStalls, HookJobRemoved, MayStall, Finished, HolderInv
  <2>2. \A w \in HookWorkers : wpc[w] # "idle" => wjob[w] # c
    BY <1>4, <2>1 DEF HolderInv
  <2>3. PICK j \in {Stalled(hookJob[c]), NoJob} : hookJob' = [hookJob EXCEPT ![c] = j]
    BY <1>7 DEF HookJobStalls, HookJobRemoved
  <2>4. NoJob.holder = NoWorker
    BY DEF NoJob
  <2>5. Stalled(hookJob[c]).holder = NoWorker
    <3>1. hookJob[c] \in Job
      OBVIOUS
    <3> QED
      BY <3>1 DEF Stalled
  <2> QED
    BY <1>5, <2>1, <2>2, <2>3, <2>4, <2>5
<1>8. ASSUME NEW w \in HookWorkers, NEW c \in CreateRequests, WorkTakes(w, c)
      PROVE  HolderInv'
  <2>1. /\ hookJob[c].state = "waiting" /\ hookJob' = [hookJob EXCEPT ![c] = Taken(@, w)]
        /\ wpc' = [wpc EXCEPT ![w] = "read"] /\ wjob' = [wjob EXCEPT ![w] = c]
    BY <1>8 DEF WorkTakes
  <2>2. \A v \in HookWorkers : wpc[v] # "idle" => wjob[v] # c
    BY <1>4, <2>1 DEF HolderInv
  <2>3. Taken(hookJob[c], w).state = "active" /\ Taken(hookJob[c], w).holder = w
    BY DEF Taken
  <2> QED
    BY <1>3, <2>1, <2>2, <2>3 DEF HolderInv
\* A run that ends gives its lock back.
<1>9. ASSUME NEW w \in HookWorkers, wpc[w] # "idle", wpc' = [wpc EXCEPT ![w] = "idle"],
             UNCHANGED wjob, NEW j, hookJob' = [hookJob EXCEPT ![wjob[w]] = j],
             j.holder = NoWorker
      PROVE  HolderInv'
  <2>1. \A v \in HookWorkers \ {w} : wpc[v] # "idle" => wjob[v] # wjob[w]
    BY <1>9 DEF HolderInv
  <2> QED
    BY <1>3, <1>9, <2>1 DEF HolderInv
<1>10. ASSUME NEW w \in HookWorkers, wpc[w] # "idle", WorkThrows(w), UNCHANGED wjob
       PROVE  HolderInv'
  <2>1. hookJob[wjob[w]].holder = w /\ hookJob[wjob[w]] \in Job
    BY <1>3, <1>10 DEF HolderInv
  <2>2. Thrown(hookJob[wjob[w]], w, HookAttempts).holder = NoWorker
    BY <2>1 DEF Thrown
  <2> QED
    BY <1>9, <1>10, <2>2 DEF WorkThrows
<1>11. ASSUME NEW w \in HookWorkers, UNCHANGED <<hookJob, wjob>>, wpc[w] # "idle",
              \A v \in HookWorkers \ {w} : wpc'[v] = wpc[v]
       PROVE  HolderInv'
  BY <1>11 DEF HolderInv
<1>12. ASSUME NEW w \in HookWorkers, WorkReads(w) PROVE HolderInv'
  <2>1. wpc[w] # "idle" /\ UNCHANGED wjob
    BY <1>12 DEF WorkReads
  <2>2. \/ WorkThrows(w)
        \/ UNCHANGED hookJob /\ \E there \in {"mark", "apply"} : wpc' = [wpc EXCEPT ![w] = there]
    BY <1>12 DEF WorkReads
  <2> QED
    BY <1>10, <1>11, <2>1, <2>2
<1>13. ASSUME NEW w \in HookWorkers, WorkApplies(w) PROVE HolderInv'
  BY <1>11, <1>13 DEF WorkApplies
<1>14. ASSUME NEW w \in HookWorkers, WorkMarks(w) PROVE HolderInv'
  <2>1. /\ wpc[w] = "mark" /\ wpc' = [wpc EXCEPT ![w] = "idle"] /\ UNCHANGED wjob
        /\ hookJob' = [hookJob EXCEPT ![wjob[w]] = Completed(@, w)]
    BY <1>14 DEF WorkMarks
  <2>2. hookJob[wjob[w]].holder = w /\ hookJob[wjob[w]] \in Job
    BY <1>3, <2>1 DEF HolderInv
  <2>3. Completed(hookJob[wjob[w]], w).holder = NoWorker
    BY <2>2 DEF Completed
  <2> QED
    BY <1>9, <2>1, <2>3
<1>15. ASSUME NEW w \in HookWorkers, WorkFails(w) PROVE HolderInv'
  BY <1>10, <1>15 DEF WorkFails
<1> QED
  BY <1>1, <1>2, <1>6, <1>7, <1>8, <1>12, <1>13, <1>14, <1>15, SystemWrites
     DEF WebhookStep, WorkStep

\* The last event of a row is a webhook's.
EndsWithWebhook(p) ==
  eventLog[p] # << >> /\ eventLog[p][Len(eventLog[p])].type = "webhook"

\* A row that ends with a webhook has the status of the one webhook of its charge, so
\* that no run goes on to write it.
OnceInv ==
  /\ \A p \in CreateRequests : EndsWithWebhook(p) =>
       /\ externalId[p] \in CreateRequests /\ Accepted(externalId[p])
       /\ status[p] = STATUS_MAP[hookData[externalId[p]]]
  /\ \A w \in HookWorkers : wpc[w] = "apply" => ~ EndsWithWebhook(wread[w])
  /\ WebhookNotRewritten

\* Another handler than the webhook worker writes to the log of p.
LoggedElse(p) ==
  /\ Len(eventLog'[p]) = Len(eventLog[p]) + 1 /\ eventLog'[p] \in Seq(Event)
  /\ eventLog'[p][Len(eventLog[p]) + 1].type # "webhook"
  /\ \A i \in DOMAIN eventLog[p] : eventLog'[p][i] = eventLog[p][i]

\* A handler that is not the webhook worker logs its own type, on one row.
LEMMA OtherWrites ==
  ASSUME SystemInv, NEW p \in CreateRequests, NEW s \in PaymentStatus, NEW event \in Event,
         event.type # "webhook", RecordStatus(p, s, event)
  PROVE  /\ LoggedElse(p)
         /\ \A o \in CreateRequests \ {p} : eventLog'[o] = eventLog[o] /\ status'[o] = status[o]
<1>1. /\ status' = [status EXCEPT ![p] = s]
      /\ eventLog'[p] \in Seq(Event) /\ Len(eventLog'[p]) = Len(eventLog[p]) + 1
      /\ eventLog'[p][Len(eventLog[p]) + 1] = event
      /\ \A i \in DOMAIN eventLog[p] : eventLog'[p][i] = eventLog[p][i]
      /\ \A o \in CreateRequests \ {p} : eventLog'[o] = eventLog[o]
  BY WrittenStays
<1>2. LoggedElse(p)
  BY <1>1 DEF LoggedElse
<1>3. \A o \in CreateRequests \ {p} : status'[o] = status[o]
  BY <1>1 DEF SystemInv, CoreInv, PaymentTypeOK, StoreTypeOK
<1> QED
  BY <1>1, <1>2, <1>3

\* Enough for a step that writes to no log, or writes something else than a webhook.
LEMMA OthersKeepOnce ==
  ASSUME SystemInv, LogInv, OnceInv, [Next]_vars,
         \A p \in CreateRequests :
           \/ LoggedElse(p)
           \/ eventLog'[p] = eventLog[p] /\ (status'[p] = status[p] \/ externalId[p] = Null),
         \A w \in HookWorkers : wpc'[w] = "apply" =>
           /\ wread'[w] \in CreateRequests
           /\ ~ EndsWithWebhook(wread'[w])
  PROVE  OnceInv'
<1>1. \A p \in CreateRequests : eventLog[p] \in Seq(Event)
  BY DEF SystemInv, CoreInv, PaymentTypeOK, StoreTypeOK
<1>2. ASSUME NEW p \in CreateRequests, EndsWithWebhook(p)'
      PROVE  ~ LoggedElse(p) /\ EndsWithWebhook(p)
  <2>1. ~ LoggedElse(p)
    BY <1>1, <1>2 DEF EndsWithWebhook, LoggedElse
  <2> QED
    BY <1>2, <2>1 DEF EndsWithWebhook
<1>3. ASSUME NEW p \in CreateRequests, EndsWithWebhook(p)'
      PROVE  /\ externalId'[p] \in CreateRequests /\ Accepted(externalId[p])'
             /\ status'[p] = STATUS_MAP[hookData'[externalId'[p]]]
  <2>1. PICK c \in CreateRequests :
          c = externalId[p] /\ Accepted(c) /\ status[p] = STATUS_MAP[hookData[c]]
    BY <1>2, <1>3 DEF OnceInv
  <2>2. status'[p] = status[p] /\ externalId'[p] = c
    BY <1>2, <1>3, <2>1, SystemWrites, StoreAssumption DEF OnlyGrow
  <2>3. Accepted(c)' /\ hookData'[c] = hookData[c]
    BY <2>1, AcceptedStays
  <2> QED
    BY <2>1, <2>2, <2>3 DEF Accepted
<1>4. ASSUME NEW p \in rows', NEW j \in DOMAIN eventLog'[p],
             j > 1, eventLog'[p][j].type = "webhook"
      PROVE  eventLog'[p][j - 1].type # "webhook"
  <2>1. p \in CreateRequests
    BY StepSystem DEF SystemInv, CoreInv, PaymentTypeOK, StoreTypeOK
  <2>2. j \in DOMAIN eventLog[p] /\ eventLog'[p][j] = eventLog[p][j]
        /\ eventLog'[p][j - 1] = eventLog[p][j - 1]
    <3>1. CASE LoggedElse(p)
      <4>1. j \in Nat /\ j <= Len(eventLog[p]) + 1 /\ j # Len(eventLog[p]) + 1
        BY <1>4, <3>1 DEF LoggedElse
      <4>2. j \in DOMAIN eventLog[p] /\ j - 1 \in DOMAIN eventLog[p]
        BY <1>1, <1>4, <2>1, <4>1
      <4> QED
        BY <3>1, <4>2 DEF LoggedElse
    <3>2. CASE ~ LoggedElse(p)
      BY <1>4, <2>1, <3>2
    <3> QED
      BY <3>1, <3>2
  <2>3. p \in rows
    BY <1>1, <2>1, <2>2 DEF LogInv
  <2> QED
    BY <1>4, <2>2, <2>3 DEF OnceInv, WebhookNotRewritten
<1>5. ASSUME NEW w \in HookWorkers, wpc'[w] = "apply"
      PROVE  ~ (EndsWithWebhook(wread[w])')
  <2>1. PICK p \in CreateRequests : p = wread'[w] /\ ~ EndsWithWebhook(p)
    BY <1>5
  <2>2. ~ (EndsWithWebhook(p)')
    BY <1>2, <2>1
  <2> QED
    BY <2>1, <2>2 DEF EndsWithWebhook
<1> QED
  BY <1>3, <1>4, <1>5 DEF OnceInv, WebhookNotRewritten, EndsWithWebhook

\* A run that gets to the write found another status on its row than its webhook's.
LEMMA WorkReadsOnce ==
  ASSUME SystemInv, OnceInv, NEW w \in HookWorkers, WorkReads(w),
         NEW v \in HookWorkers, wpc'[v] = "apply"
  PROVE  wread'[v] \in CreateRequests /\ ~ EndsWithWebhook(wread'[v])
<1> USE DEF SystemInv, WebhookTypeOK
<1>1. wpc[v] = "apply" => wread[v] \in CreateRequests /\ ~ EndsWithWebhook(wread[v])
  BY DEF OnceInv, HookInv
<1>2. CASE WorkThrows(w)
  BY <1>1, <1>2 DEF WorkThrows
<1>3. CASE wpc' = [wpc EXCEPT ![w] = "mark"] /\ UNCHANGED wread
  BY <1>1, <1>3
<1>4. PICK c \in CreateRequests : c = wjob[w]
  BY DEF WorkReads, HookInv
<1>5. ASSUME NEW p \in LinkedRows(c), status[p] # STATUS_MAP[hookData[c]],
             wpc' = [wpc EXCEPT ![w] = "apply"], wread' = [wread EXCEPT ![w] = p]
      PROVE  wread'[v] \in CreateRequests /\ ~ EndsWithWebhook(wread'[v])
  <2>1. p \in CreateRequests /\ externalId[p] = c
    BY DEF LinkedRows, CoreInv, PaymentTypeOK, StoreTypeOK
  <2>2. ~ EndsWithWebhook(p)
    BY <1>5, <2>1 DEF OnceInv
  <2>3. CASE v = w
    <3>1. wread'[v] = p
      BY <1>5, <2>3
    <3> QED
      BY <2>1, <2>2, <3>1
  <2>4. CASE v # w
    <3>1. wread'[v] = wread[v] /\ wpc[v] = "apply"
      BY <1>5, <2>4
    <3> QED
      BY <1>1, <3>1
  <2> QED
    BY <2>3, <2>4
<1> QED
  BY <1>2, <1>3, <1>4, <1>5 DEF WorkReads

LEMMA StepOnce ==
  ASSUME SystemInv, LogInv, HolderInv, OnceInv, [Next]_vars PROVE OnceInv'
<1> USE DEF SystemInv, WebhookTypeOK
<1> DEFINE ready == \A v \in HookWorkers : wpc'[v] = "apply" =>
                      wread'[v] \in CreateRequests /\ ~ EndsWithWebhook(wread'[v])
<1>1. \A v \in HookWorkers : wpc[v] = "apply" =>
        wread[v] \in CreateRequests /\ ~ EndsWithWebhook(wread[v])
  BY DEF OnceInv, HookInv
<1>2. ASSUME NEW w \in HookWorkers, WorkThrows(w) PROVE ready
  <2>1. UNCHANGED wread /\ wpc' = [wpc EXCEPT ![w] = "idle"]
    BY <1>2 DEF WorkThrows
  <2> QED
    BY <1>1, <2>1
<1>3. ASSUME NEW d \in Deliveries, DeliveryStep(d) PROVE ready
  <2>1. UNCHANGED <<wpc, wread>>
    BY <1>3 DEF DeliveryStep, HookRefused, HookReceived, HookPersists, HookEnqueues,
       HookEnqueueThrows
  <2> QED
    BY <1>1, <2>1
<1>4. ASSUME NEW w \in HookWorkers, WorkStep(w), ~ WorkApplies(w) PROVE ready
  <2>1. CASE WorkReads(w)
    BY <2>1, WorkReadsOnce
  <2>2. CASE WorkFails(w)
    BY <1>2, <2>2 DEF WorkFails
  <2>3. CASE \/ WorkMarks(w)
             \/ \E c \in CreateRequests : WorkTakes(w, c)
    <3>1. UNCHANGED wread /\ \E there \in {"idle", "read"} : wpc' = [wpc EXCEPT ![w] = there]
      BY <2>3 DEF WorkMarks, WorkTakes
    <3> QED
      BY <1>1, <3>1
  <2> QED
    BY <1>4, <2>1, <2>2, <2>3 DEF WorkStep
<1>5. ASSUME NEW c \in CreateRequests, HookJobStalls(c) \/ HookJobRemoved(c) PROVE ready
  <2>1. UNCHANGED <<wpc, wread>>
    BY <1>5 DEF HookJobStalls, HookJobRemoved
  <2> QED
    BY <1>1, <2>1
<1>6. ready \/ \E w \in HookWorkers : WorkApplies(w)
  <2>1. CASE UNCHANGED webhookVars \/ WebhookCrash
    BY <1>1, <2>1 DEF webhookVars, WebhookCrash
  <2>2. CASE WebhookStep
    BY <1>3, <1>4, <1>5, <2>2 DEF WebhookStep
  <2> QED
    BY <2>1, <2>2, SystemWrites
<1> HIDE DEF ready
<1>7. CASE ready /\ UNCHANGED <<rows, status, eventLog>>
  BY <1>7, OthersKeepOnce DEF ready
<1>8. ASSUME ready, UNCHANGED eventLog, NEW r \in CreateRequests, externalId[r] = Null,
             status' = [status EXCEPT ![r] = "FAILED"]
      PROVE  OnceInv'
  <2>1. \A p \in CreateRequests :
          eventLog'[p] = eventLog[p] /\ (status'[p] = status[p] \/ externalId[p] = Null)
    BY <1>8 DEF CoreInv, PaymentTypeOK, StoreTypeOK
  <2> QED
    BY <1>8, <2>1, OthersKeepOnce DEF ready
<1>9. ASSUME ready, NEW p \in CreateRequests, NEW event \in Event, event.type # "webhook",
             Writes(p, event)
      PROVE  OnceInv'
  <2>1. PICK s \in PaymentStatus : RecordStatus(p, s, event)
    BY <1>9 DEF Writes
  <2>2. /\ LoggedElse(p)
        /\ \A o \in CreateRequests \ {p} : eventLog'[o] = eventLog[o] /\ status'[o] = status[o]
    BY <1>9, <2>1, OtherWrites
  <2> QED
    BY <1>9, <2>2, OthersKeepOnce DEF ready
<1>10. ASSUME NEW w \in HookWorkers, WorkApplies(w) PROVE OnceInv'
  <2>1. PICK p \in CreateRequests, c \in CreateRequests : p = wread[w] /\ c = wjob[w]
    BY <1>10 DEF WorkApplies, HookInv
  <2>2. PICK s \in PaymentStatus, event \in Event :
          s = STATUS_MAP[hookData[c]] /\ event = [type |-> "webhook", status |-> hookData[c]]
    <3>1. PICK n \in ChargeStatus : n = hookData[c] /\ STATUS_MAP[n] \in PaymentStatus
      BY <1>10, <2>1, WorkWrites
    <3>2. [type |-> "webhook", status |-> n] \in Event
      BY EventsTyped
    <3> QED
      BY <3>1, <3>2
  <2>3. /\ RecordStatus(p, s, event) /\ p \in rows /\ externalId[p] = c /\ Accepted(c)
        /\ UNCHANGED <<rows, externalId, dpc, notice, hookData, wjob, wread>>
        /\ wpc[w] = "apply" /\ wpc' = [wpc EXCEPT ![w] = "mark"]
    BY <1>10, <2>1, <2>2, WorkWrites
  <2>4. ~ EndsWithWebhook(p) /\ eventLog[p] \in Seq(Event)
    BY <2>1, <2>3 DEF OnceInv, CoreInv, PaymentTypeOK, StoreTypeOK
  <2>5. /\ status' = [status EXCEPT ![p] = s]
        /\ eventLog'[p] \in Seq(Event) /\ Len(eventLog'[p]) = Len(eventLog[p]) + 1
        /\ \A i \in DOMAIN eventLog[p] : eventLog'[p][i] = eventLog[p][i]
        /\ \A o \in CreateRequests \ {p} : eventLog'[o] = eventLog[o]
    BY <2>3, WrittenStays
  <2>6. status'[p] = s /\ \A o \in CreateRequests \ {p} : status'[o] = status[o]
    BY <2>5 DEF CoreInv, PaymentTypeOK, StoreTypeOK
  <2>7. ASSUME NEW o \in CreateRequests, EndsWithWebhook(o)'
        PROVE  /\ externalId'[o] \in CreateRequests /\ Accepted(externalId[o])'
               /\ status'[o] = STATUS_MAP[hookData'[externalId'[o]]]
    <3>1. CASE o = p
      BY <2>2, <2>3, <2>6, <3>1 DEF Accepted
    <3>2. CASE o # p
      <4>1. EndsWithWebhook(o)
        BY <2>5, <2>7, <3>2 DEF EndsWithWebhook
      <4> QED
        BY <2>3, <2>6, <3>2, <4>1 DEF OnceInv, Accepted
    <3> QED
      BY <3>1, <3>2
  <2>8. ASSUME NEW v \in HookWorkers, wpc'[v] = "apply" PROVE ~ (EndsWithWebhook(wread[v])')
    <3>1. v # w /\ wpc[v] = "apply" /\ wread'[v] = wread[v]
      BY <2>3, <2>8
    <3>2. PICK o \in CreateRequests : o = wread[v] /\ externalId[o] = wjob[v]
      BY <3>1 DEF HookInv
    <3>3. o # p
      BY <2>1, <2>3, <3>1, <3>2 DEF HolderInv
    <3>4. ~ EndsWithWebhook(o) /\ eventLog'[o] = eventLog[o]
      BY <2>5, <3>1, <3>2, <3>3 DEF OnceInv
    <3> QED
      BY <3>1, <3>2, <3>4 DEF EndsWithWebhook
  <2>9. ASSUME NEW o \in rows, NEW j \in DOMAIN eventLog'[o],
               j > 1, eventLog'[o][j].type = "webhook"
        PROVE  eventLog'[o][j - 1].type # "webhook"
    <3>1. o \in CreateRequests
      BY DEF CoreInv, PaymentTypeOK, StoreTypeOK
    <3>2. CASE o # p
      BY <2>5, <2>9, <3>1, <3>2 DEF OnceInv, WebhookNotRewritten
    <3>3. CASE o = p /\ j \in DOMAIN eventLog[p]
      <4>1. j - 1 \in DOMAIN eventLog[p]
        BY <2>4, <2>9, <3>3
      <4> QED
        BY <2>5, <2>9, <3>3, <4>1 DEF OnceInv, WebhookNotRewritten
    <3>4. CASE o = p /\ j \notin DOMAIN eventLog[p]
      <4>1. j - 1 = Len(eventLog[p]) /\ j - 1 \in DOMAIN eventLog[p] /\ eventLog[p] # << >>
        BY <2>4, <2>5, <2>9, <3>4
      <4> QED
        BY <2>4, <2>5, <3>4, <4>1 DEF EndsWithWebhook
    <3> QED
      BY <3>2, <3>3, <3>4
  <2> QED
    BY <2>3, <2>7, <2>8, <2>9 DEF OnceInv, WebhookNotRewritten
<1> QED
  BY <1>6, <1>7, <1>8, <1>9, <1>10, SystemLogs

\* With locks that outlive their runs, a webhook is written to a row again only after
\* another handler has overwritten it, through any retries, redeliveries and crashes.
THEOREM WebhooksWrittenOnce ==
  ASSUME ~ LocksExpire PROVE Spec => []WebhookNotRewritten
<1>1. Init => HolderInv /\ OnceInv
  <2>1. Init => HolderInv
    BY DEF Init, WebhookInit, HolderInv, NoJob
  <2>2. Init => OnceInv
    BY DEF Init, PaymentInit, StoreInit, WebhookInit, OnceInv, EndsWithWebhook,
       WebhookNotRewritten
  <2> QED
    BY <2>1, <2>2
<1>2. SystemInv /\ LogInv /\ HolderInv /\ OnceInv /\ [Next]_vars => HolderInv' /\ OnceInv'
  BY StepHolder, StepOnce
<1>3. OnceInv => WebhookNotRewritten
  BY DEF OnceInv
<1> QED
  BY <1>1, <1>2, <1>3, SystemHolds, SystemLogHolds, PTL DEF Spec

-----------------------------------------------------------------------------
\* The state machine with one kind of worker at work next to create().  With no refunds
\* the core leaves the status of every row that has a charge alone.
LEMMA CoreFollows ==
  ASSUME RefundRequests = {}, CoreInv, [PaymentNext]_paymentVars
  PROVE  Follows /\ \A p \in CreateRequests : externalId[p] # Null => status'[p] = status[p]
<1>1. CASE UNCHANGED status
  BY <1>1 DEF Follows, ValidTransition
<1>2. refundCalls = {}
  BY DEF CoreInv, PaymentTypeOK, ProviderTypeOK, RefundCall
<1>3. CASE RefundStep
  BY <1>1, <1>2, <1>3, RefundWrites DEF storeVars
<1>4. CASE ProviderStep
  BY <1>1, <1>4, ProviderGrows DEF CoreInv, storeVars
<1>5. CASE ServiceCrash \/ UNCHANGED paymentVars
  BY <1>1, <1>5 DEF ServiceCrash, paymentVars, storeVars
<1> QED
  BY <1>3, <1>4, <1>5, CreateFollows DEF PaymentNext, ServiceStep

\* What a run of the processor is about to write is a transition from the status the row
\* has, not only from the one it read: who wrote in between wrote the same.
HookReadInv ==
  \A w \in HookWorkers : wpc[w] = "apply" =>
    ValidTransition(status[wread[w]], STATUS_MAP[hookData[wjob[w]]])

\* How a run gets to the write, and that it knows what it will write until then.
LEMMA ApplyReached ==
  ASSUME SystemInv, [Next]_vars, NEW w \in HookWorkers, wpc'[w] = "apply"
  PROVE  /\ wjob'[w] = wjob[w] /\ wjob[w] \in CreateRequests
         /\ hookData'[wjob[w]] = hookData[wjob[w]]
         /\ \/ wpc[w] = "apply" /\ wread'[w] = wread[w]
            \/ /\ UNCHANGED storeVars /\ wread'[w] \in rows
               /\ status[wread'[w]] # STATUS_MAP[hookData[wjob[w]]]
               /\ ValidTransition(status[wread'[w]], STATUS_MAP[hookData[wjob[w]]])
<1> USE DEF SystemInv, WebhookTypeOK
<1>1. ASSUME wpc[w] # "idle"
      PROVE  wjob[w] \in CreateRequests /\ hookData'[wjob[w]] = hookData[wjob[w]]
  <2>1. PICK c \in CreateRequests : c = wjob[w] /\ Accepted(c)
    BY <1>1 DEF HookInv
  <2> QED
    BY <2>1, AcceptedStays
<1>2. CASE UNCHANGED <<wpc, wjob, wread>>
  BY <1>1, <1>2
<1>3. CASE WebhookCrash
  BY <1>3 DEF WebhookCrash
<1>4. ASSUME NEW v \in HookWorkers \ {w}, WorkStep(v)
      PROVE  wpc[w] = "apply" /\ wjob'[w] = wjob[w] /\ wread'[w] = wread[w]
  BY <1>4 DEF WorkStep, WorkTakes, WorkReads, WorkApplies, WorkMarks, WorkFails, WorkThrows
<1>5. ASSUME WorkStep(w)
      PROVE  /\ wpc[w] # "idle" /\ wjob' = wjob /\ UNCHANGED storeVars
             /\ wread'[w] \in rows /\ status[wread'[w]] # STATUS_MAP[hookData[wjob[w]]]
             /\ ValidTransition(status[wread'[w]], STATUS_MAP[hookData[wjob[w]]])
  <2>1. WorkReads(w)
    BY <1>5 DEF WorkStep, WorkTakes, WorkApplies, WorkMarks, WorkFails, WorkThrows
  <2>2. ~ WorkThrows(w)
    BY DEF WorkThrows
  <2> QED
    BY <2>1, <2>2 DEF WorkReads, LinkedRows
<1>6. ASSUME NEW d \in Deliveries, DeliveryStep(d) PROVE UNCHANGED <<wpc, wjob, wread>>
  BY <1>6 DEF DeliveryStep, HookRefused, HookReceived, HookPersists, HookEnqueues,
     HookEnqueueThrows
<1>7. ASSUME NEW c \in CreateRequests, HookJobStalls(c) \/ HookJobRemoved(c)
      PROVE  UNCHANGED <<wpc, wjob, wread>>
  BY <1>7 DEF HookJobStalls, HookJobRemoved
<1>8. CASE UNCHANGED webhookVars
  BY <1>2, <1>8 DEF webhookVars
<1> QED
  BY <1>1, <1>2, <1>3, <1>4, <1>5, <1>6, <1>7, <1>8, SystemWrites DEF WebhookStep

LEMMA StepHookFollows ==
  ASSUME RefundRequests = {}, RecWorkers = {}, SystemInv, HookReadInv, [Next]_vars
  PROVE  HookReadInv' /\ Follows
<1> USE DEF SystemInv
<1>1. \A w \in HookWorkers : wpc[w] = "apply" =>
        /\ wread[w] \in CreateRequests /\ externalId[wread[w]] = wjob[w]
        /\ wjob[w] \in CreateRequests /\ wjob[w] # Null
  BY StoreAssumption DEF HookInv
<1>2. ASSUME \A p \in CreateRequests : externalId[p] # Null => status'[p] = status[p]
      PROVE  HookReadInv'
  BY <1>1, <1>2, ApplyReached DEF HookReadInv, storeVars
<1>3. CASE [PaymentNext]_paymentVars
  BY <1>2, <1>3, CoreFollows
<1>4. ASSUME NEW w \in HookWorkers, WorkApplies(w) PROVE HookReadInv' /\ Follows
  <2>1. PICK p \in CreateRequests, c \in CreateRequests :
          p = wread[w] /\ c = wjob[w] /\ externalId[p] = c
    BY <1>1, <1>4 DEF WorkApplies
  <2>2. PICK s \in PaymentStatus : 
          /\ s = STATUS_MAP[hookData[c]]
          /\ RecordStatus(p, s, [type |-> "webhook", status |-> hookData[c]])
    BY <1>4, <2>1, WorkWrites
  <2>3. /\ \A o \in CreateRequests : status'[o] = IF o = p THEN s ELSE status[o]
        /\ wpc[w] = "apply" /\ UNCHANGED <<wread, wjob, hookData>>
    BY <1>4, <2>2 DEF WorkApplies, RecordStatus, CoreInv, PaymentTypeOK, StoreTypeOK
  <2>4. ValidTransition(status[p], s) /\ \A o : ValidTransition(o, o)
    BY <2>1, <2>2, <2>3 DEF HookReadInv, ValidTransition
  <2>5. \A v \in HookWorkers : wpc'[v] = "apply" => wpc[v] = "apply"
    BY <1>4 DEF WorkApplies, WebhookTypeOK
  <2>6. HookReadInv'
    BY <1>1, <2>1, <2>2, <2>3, <2>4, <2>5 DEF HookReadInv
  <2> QED
    BY <2>3, <2>4, <2>6 DEF Follows, CoreInv, PaymentTypeOK, StoreTypeOK
<1> QED
  BY <1>3, <1>4, SystemWrites

\* Webhooks alone, however many runs work on one job after its lock expired, however often
\* it is retried and whatever charges rows share, never take a row off the table: all runs
\* for a charge write what the one accepted delivery said.
THEOREM SoleWebhooksFollow ==
  ASSUME RefundRequests = {}, RecWorkers = {} PROVE Spec => FollowsStateMachine
<1>1. Init => HookReadInv
  BY DEF Init, WebhookInit, HookReadInv
<1>2. SystemInv /\ HookReadInv /\ [Next]_vars => HookReadInv' /\ Follows
  BY StepHookFollows
<1>3. Follows => [\A p \in rows : ValidTransition(status[p], status'[p])]_paymentVars
  BY DEF Follows
<1> QED
  BY <1>1, <1>2, <1>3, SystemHolds, PTL DEF Spec, FollowsStateMachine

-----------------------------------------------------------------------------
\* The reconciliation alone.  With locks that outlive their runs a payment has one run at
\* most, and nobody else writes to its row: it still has the status the run read.
RecHolderInv ==
  /\ \A k \in RecWorkers : kpc[k] # "idle" => recJob[kjob[k]].holder = k
  /\ \A p \in CreateRequests : recJob[p].state # "active" => recJob[p].holder = NoWorker

RecReadInv ==
  /\ \A k \in RecWorkers : kpc[k] # "idle" => status[kjob[k]] = kread[k]
  /\ \A k \in RecWorkers : kpc[k] = "apply" => ValidTransition(kread[k], kresult[k])

\* A job that no run works on, and that nobody holds unless it is active.
LEMMA FreeJobKeeps ==
  ASSUME SystemInv, RecHolderInv, UNCHANGED <<kpc, kjob>>, recJob' \in [CreateRequests -> Job],
         \A p \in CreateRequests :
           \/ recJob'[p] = recJob[p]
           \/ /\ recJob[p].holder = NoWorker /\ recJob'[p].holder = NoWorker
  PROVE  RecHolderInv'
<1>1. \A k \in RecWorkers : kpc[k] # "idle" => kjob[k] \in CreateRequests /\ k # NoWorker
  BY ReconciliationAssumption, QueueAssumption DEF SystemInv, RecInv
<1> QED
  BY <1>1 DEF RecHolderInv

LEMMA StepRecHolder ==
  ASSUME ~ LocksExpire, SystemInv, RecHolderInv, [Next]_vars PROVE RecHolderInv'
<1> USE DEF SystemInv, ReconciliationTypeOK
<1>1. CASE UNCHANGED reconciliationVars
  BY <1>1 DEF reconciliationVars, RecHolderInv
<1>2. CASE ReconciliationCrash
  BY <1>2 DEF ReconciliationCrash, RecHolderInv, Orphaned, Job
<1>3. ReconciliationTypeOK'
  BY StepSystem
<1>4. \A k \in RecWorkers : k # NoWorker /\ (kpc[k] # "idle" => kjob[k] \in CreateRequests)
  BY ReconciliationAssumption, QueueAssumption DEF RecInv
<1>5. CASE CronRuns
  <2>1. \A p \in CreateRequests : recJob'[p] \in {recJob[p], Added(recJob[p])}
    BY <1>5 DEF CronRuns
  <2>2. \A p \in CreateRequests :
          \/ Added(recJob[p]) = recJob[p]
          \/ recJob[p].state = "absent" /\ Added(recJob[p]).holder = NoWorker
    BY DEF Added, NoJob
  <2> QED
    BY <1>3, <1>5, <2>1, <2>2, FreeJobKeeps DEF CronRuns, RecHolderInv
<1>6. ASSUME NEW p \in CreateRequests, RowAges(p) \/ RecJobStalls(p) \/ RecJobRemoved(p)
      PROVE  RecHolderInv'
  <2>1. CASE RowAges(p)
    BY <2>1 DEF RowAges, RecHolderInv
  <2>2. CASE RecJobStalls(p)
    <3>1. recJob[p].holder = NoWorker /\ recJob' = [recJob EXCEPT ![p] = Stalled(recJob[p])]
      BY <2>2 DEF RecJobStalls, MayStall
    <3>2. recJob[p] \in Job
      OBVIOUS
    <3>3. Stalled(recJob[p]).holder = NoWorker
      BY <3>2 DEF Stalled, Job
    <3> QED
      BY <1>3, <2>2, <3>1, <3>3, FreeJobKeeps DEF RecJobStalls
  <2>3. CASE RecJobRemoved(p)
    BY <1>3, <2>3, FreeJobKeeps DEF RecJobRemoved, RecHolderInv, Finished, NoJob
  <2> QED
    BY <1>6, <2>1, <2>2, <2>3
<1>7. ASSUME NEW k \in RecWorkers, NEW p \in CreateRequests, RecReads(k, p)
      PROVE  RecHolderInv'
  <2>1. /\ recJob[p].state = "waiting" /\ recJob' = [recJob EXCEPT ![p] = Taken(recJob[p], k)]
        /\ kpc' = [kpc EXCEPT ![k] = "retrieve"] /\ kjob' = [kjob EXCEPT ![k] = p]
    BY <1>7 DEF RecReads
  <2>2. \A o \in RecWorkers : kpc[o] # "idle" => kjob[o] # p
    BY <1>4, <2>1 DEF RecHolderInv
  <2>3. Taken(recJob[p], k).state = "active" /\ Taken(recJob[p], k).holder = k
    BY DEF Taken, Job
  <2> QED
    BY <1>4, <2>1, <2>2, <2>3 DEF RecHolderInv
\* A run that ends gives its lock back.
<1>8. ASSUME NEW k \in RecWorkers, kpc[k] # "idle", kpc' = [kpc EXCEPT ![k] = "idle"],
             UNCHANGED kjob, NEW j, recJob' = [recJob EXCEPT ![kjob[k]] = j],
             j.holder = NoWorker
      PROVE  RecHolderInv'
  <2>1. \A o \in RecWorkers \ {k} : kpc[o] # "idle" => kjob[o] # kjob[k]
    BY <1>8 DEF RecHolderInv
  <2> QED
    BY <1>4, <1>8, <2>1 DEF RecHolderInv
<1>9. ASSUME NEW k \in RecWorkers, kpc[k] # "idle"
      PROVE  /\ Completed(recJob[kjob[k]], k).holder = NoWorker
             /\ Thrown(recJob[kjob[k]], k, RecAttempts).holder = NoWorker
  <2>1. recJob[kjob[k]] \in Job /\ recJob[kjob[k]].holder = k
    BY <1>4, <1>9 DEF RecHolderInv
  <2> QED
    BY <2>1 DEF Completed, Thrown, Job
<1>10. ASSUME NEW k \in RecWorkers, RecRetrieves(k) PROVE RecHolderInv'
  <2>1. CASE RecEnds(k)
    BY <1>8, <1>9, <1>10, <2>1 DEF RecRetrieves, RecEnds
  <2>2. CASE kpc' = [kpc EXCEPT ![k] = "apply"] /\ UNCHANGED recJob
    BY <1>10, <2>2 DEF RecRetrieves, RecHolderInv
  <2> QED
    BY <1>10, <2>1, <2>2 DEF RecRetrieves
<1>11. ASSUME NEW k \in RecWorkers, RecApplies(k) PROVE RecHolderInv'
  BY <1>8, <1>9, <1>11 DEF RecApplies, RecEnds
<1>12. ASSUME NEW k \in RecWorkers, RecThrows(k) PROVE RecHolderInv'
  BY <1>8, <1>9, <1>12 DEF RecThrows
<1> QED
  BY <1>1, <1>2, <1>5, <1>6, <1>7, <1>10, <1>11, <1>12, SystemWrites
     DEF ReconciliationStep, RecStep

\* How a run gets where it is, and that it forgets nothing on the way.
LEMMA RunReached ==
  ASSUME SystemInv, [Next]_vars, NEW k \in RecWorkers, kpc'[k] # "idle"
  PROVE  \/ UNCHANGED storeVars /\ kpc'[k] = "retrieve" /\ kread'[k] = status[kjob'[k]]
         \/ /\ kpc[k] # "idle" /\ kjob'[k] = kjob[k] /\ kread'[k] = kread[k]
            /\ \/ kpc'[k] # "apply"
               \/ kread[k] # kresult'[k] /\ ValidTransition(kread[k], kresult'[k])
               \/ kpc[k] = "apply" /\ kresult'[k] = kresult[k]
<1> USE DEF SystemInv, ReconciliationTypeOK
<1>1. CASE UNCHANGED <<kpc, kjob, kread, kresult>>
  BY <1>1
<1>2. CASE ReconciliationCrash
  BY <1>2 DEF ReconciliationCrash
<1>3. ASSUME NEW o \in RecWorkers \ {k}, RecStep(o)
      PROVE  /\ kpc'[k] = kpc[k] /\ kjob'[k] = kjob[k]
             /\ kread'[k] = kread[k] /\ kresult'[k] = kresult[k]
  BY <1>3 DEF RecStep, RecReads, RecRetrieves, RecApplies, RecThrows, RecEnds
<1>4. ASSUME NEW p \in CreateRequests, RecReads(k, p)
      PROVE  UNCHANGED storeVars /\ kpc'[k] = "retrieve" /\ kread'[k] = status[kjob'[k]]
  BY <1>4 DEF RecReads
<1>5. ASSUME RecRetrieves(k)
      PROVE  /\ kpc[k] # "idle" /\ kjob'[k] = kjob[k] /\ kread'[k] = kread[k]
             /\ kread[k] # kresult'[k] /\ ValidTransition(kread[k], kresult'[k])
  <2>1. ~ RecEnds(k)
    BY DEF RecEnds
  <2>2. kresult'[k] = STATUS_MAP[charge[externalId[kjob[k]]]]
    BY <1>5 DEF RecRetrieves
  <2> QED
    BY <1>5, <2>1, <2>2 DEF RecRetrieves
<1>6. ~ RecApplies(k) /\ ~ RecThrows(k)
  BY DEF RecApplies, RecThrows, RecEnds
<1>7. CASE CronRuns \/ \E p \in CreateRequests :
                           RowAges(p) \/ RecJobStalls(p) \/ RecJobRemoved(p)
  BY <1>1, <1>7 DEF CronRuns, RowAges, RecJobStalls, RecJobRemoved
<1>8. CASE UNCHANGED reconciliationVars
  BY <1>1, <1>8 DEF reconciliationVars
<1>9. CASE \E o \in RecWorkers : RecStep(o)
  <2>1. PICK o \in RecWorkers : RecStep(o)
    BY <1>9
  <2>2. CASE o # k
    BY <1>1, <1>3, <2>1, <2>2
  <2>3. CASE o = k
    BY <1>4, <1>5, <1>6, <2>1, <2>3 DEF RecStep
  <2> QED
    BY <2>2, <2>3
<1> QED
  BY <1>2, <1>7, <1>8, <1>9, SystemWrites DEF ReconciliationStep

LEMMA StepRecFollows ==
  ASSUME RefundRequests = {}, HookWorkers = {}, SystemInv, RecHolderInv, RecReadInv, [Next]_vars
  PROVE  RecReadInv' /\ Follows
<1> USE DEF SystemInv
<1>1. \A k \in RecWorkers : kpc[k] # "idle" =>
        kjob[k] \in CreateRequests /\ externalId[kjob[k]] # Null
  BY DEF RecInv
<1>2. ASSUME \A k \in RecWorkers : kpc[k] # "idle" /\ kpc'[k] # "idle" =>
                 status'[kjob[k]] = status[kjob[k]]
      PROVE  RecReadInv'
  BY <1>2, RunReached DEF RecReadInv, storeVars
<1>3. CASE [PaymentNext]_paymentVars
  BY <1>1, <1>2, <1>3, CoreFollows
<1>4. ASSUME NEW k \in RecWorkers, RecApplies(k) PROVE RecReadInv' /\ Follows
  <2>1. PICK p \in CreateRequests : p = kjob[k]
    BY <1>1, <1>4 DEF RecApplies
  <2>2. PICK s \in PaymentStatus : s = kresult[k]
    BY DEF ReconciliationTypeOK
  <2>3. /\ kpc[k] = "apply" /\ kpc'[k] = "idle"
        /\ \A o \in CreateRequests : status'[o] = IF o = p THEN s ELSE status[o]
    BY <1>4, <2>1, <2>2 DEF RecApplies, RecEnds, RecordStatus, ReconciliationTypeOK, CoreInv,
       PaymentTypeOK, StoreTypeOK
  <2>4. ValidTransition(status[p], s) /\ \A o : ValidTransition(o, o)
    BY <2>1, <2>2, <2>3 DEF RecReadInv, ValidTransition
  <2>5. \A o \in RecWorkers \ {k} : kpc[o] # "idle" => kjob[o] # p
    BY <2>1, <2>3 DEF RecHolderInv
  <2>6. RecReadInv'
    BY <1>1, <1>2, <2>3, <2>5
  <2> QED
    BY <2>3, <2>4, <2>6 DEF Follows, CoreInv, PaymentTypeOK, StoreTypeOK
<1> QED
  BY <1>3, <1>4, SystemWrites DEF WorkApplies

\* Nor does the reconciliation, however often its jobs are retried, as long as a lock does
\* not expire under a run: then two runs may write what the provider said in turn.
THEOREM SoleReconciliationFollows ==
  ASSUME ~ LocksExpire, RefundRequests = {}, HookWorkers = {}
  PROVE  Spec => FollowsStateMachine
<1>1. Init => RecHolderInv /\ RecReadInv
  BY DEF Init, ReconciliationInit, RecHolderInv, RecReadInv, NoJob
<1>2. SystemInv /\ RecHolderInv /\ RecReadInv /\ [Next]_vars
        => RecHolderInv' /\ RecReadInv' /\ Follows
  BY StepRecHolder, StepRecFollows
<1>3. Follows => [\A p \in rows : ValidTransition(status[p], status'[p])]_paymentVars
  BY DEF Follows
<1> QED
  BY <1>1, <1>2, <1>3, SystemHolds, PTL DEF Spec, FollowsStateMachine
-----------------------------------------------------------------------------
\* A worker that gets to its write has judged another status than the one it writes by the
\* table, which has no way back to PENDING: however old that judgement is by then, the
\* write decides the row.
DecideInv ==
  /\ \A w \in HookWorkers : wpc[w] = "apply" => STATUS_MAP[hookData[wjob[w]]] # "PENDING"
  /\ \A k \in RecWorkers : kpc[k] = "apply" => kresult[k] # "PENDING"

LEMMA StepDecides ==
  ASSUME SystemInv, DecideInv, [Next]_vars PROVE DecideInv'
<1> USE DEF SystemInv, ReconciliationTypeOK
<1>1. SystemInv'
  BY StepSystem
<1>2. ASSUME NEW w \in HookWorkers, wpc'[w] = "apply"
      PROVE  STATUS_MAP[hookData'[wjob'[w]]] # "PENDING"
  <2>1. wjob'[w] = wjob[w] /\ hookData'[wjob[w]] = hookData[wjob[w]]
    BY <1>2, ApplyReached
  <2>2. CASE wpc[w] = "apply"
    BY <2>1, <2>2 DEF DecideInv
  <2>3. CASE wpc[w] # "apply"
    <3>1. PICK p \in rows :
            /\ p = wread'[w] /\ status[p] # STATUS_MAP[hookData[wjob[w]]]
            /\ ValidTransition(status[p], STATUS_MAP[hookData[wjob[w]]])
      BY <1>2, <2>3, ApplyReached
    <3>2. hookData'[wjob'[w]] \in ChargeStatus
      BY <1>1, <1>2 DEF HookInv
    <3>3. STATUS_MAP[hookData[wjob[w]]] \in PaymentStatus
      BY <2>1, <3>2, StatusTables
    <3> QED
      BY <2>1, <3>1, <3>3, NoWayBack DEF CoreInv, PaymentTypeOK, StoreTypeOK
  <2> QED
    BY <2>2, <2>3
<1>3. ASSUME NEW k \in RecWorkers, kpc'[k] = "apply" PROVE kresult'[k] # "PENDING"
  <2>1. \/ kpc[k] = "apply" /\ kresult'[k] = kresult[k]
        \/ kread[k] # kresult'[k] /\ ValidTransition(kread[k], kresult'[k])
    BY <1>3, RunReached
  <2>2. kread[k] \in PaymentStatus /\ kresult'[k] \in PaymentStatus
    BY <1>1
  <2> QED
    BY <2>1, <2>2, NoWayBack DEF DecideInv
<1> QED
  BY <1>2, <1>3 DEF DecideInv

LEMMA StepKeepsDecided ==
  ASSUME SystemInv, DecideInv, [Next]_vars PROVE StaysDecided
<1> USE DEF SystemInv, CoreInv, PaymentTypeOK, StoreTypeOK
<1>1. ASSUME NEW p \in CreateRequests, NEW s \in PaymentStatus \ {"PENDING"}, NEW event,
             RecordStatus(p, s, event)
      PROVE  StaysDecided
  BY <1>1 DEF RecordStatus, StaysDecided
<1>2. ASSUME NEW w \in HookWorkers, WorkApplies(w) PROVE StaysDecided
  BY <1>1, <1>2, StatusTables DEF WorkApplies, HookInv, DecideInv
<1>3. ASSUME NEW k \in RecWorkers, RecApplies(k) PROVE StaysDecided
  BY <1>1, <1>3 DEF RecApplies, RecInv, DecideInv, ReconciliationTypeOK
<1> QED
  BY <1>2, <1>3, SystemWrites, StepStaysDecided

\* A decided row is never PENDING again, whoever overwrites whom: create(), refund(), and
\* any number of workers whose locks have expired and whose reads are as old as they like.
THEOREM SystemDecidedForGood == Spec => DecidedForGood
<1>1. Init => DecideInv
  BY DEF Init, WebhookInit, ReconciliationInit, DecideInv
<1>2. SystemInv /\ DecideInv /\ [Next]_vars => DecideInv' /\ StaysDecided
  BY StepDecides, StepKeepsDecided
<1>3. StaysDecided
        => [\A p \in rows : status[p] # "PENDING" => status'[p] # "PENDING"]_paymentVars
  BY DEF StaysDecided
<1> QED
  BY <1>1, <1>2, <1>3, SystemHolds, PTL DEF Spec, DecidedForGood

-----------------------------------------------------------------------------
\* What handle() drops.  The table of inbound webhooks has the row of a charge only because
\* some delivery about that charge was past the deduplication before.
Stored(c) ==
  \E e \in Deliveries :
    notice[e] \in Notice /\ notice[e].charge = c /\ dpc[e] \in {"enqueue", "accepted", "failed", "lost"}

StoredInv ==
  /\ \A c \in CreateRequests : inbound[c] # "absent" => Stored(c)
  /\ \A d \in Deliveries : dpc[d] = "duplicate" =>
       notice[d] \in Notice /\ inbound[notice[d].charge] # "absent"

LEMMA StepStored ==
  ASSUME SystemInv, StoredInv, [Next]_vars PROVE StoredInv'
<1> USE DEF SystemInv, WebhookTypeOK
\* Deliveries that have stored what they carry stay that, also after a crash.
<1>1. ASSUME NEW c \in CreateRequests, Stored(c),
             \A e \in Deliveries : dpc[e] \in {"enqueue", "accepted", "failed", "lost"} =>
               /\ dpc'[e] \in {"enqueue", "accepted", "failed", "lost"}
               /\ notice'[e] = notice[e]
      PROVE  Stored(c)'
  BY <1>1 DEF Stored
<1>2. CASE UNCHANGED <<dpc, notice, inbound>>
  BY <1>2 DEF StoredInv, Stored
<1>3. ASSUME NEW d \in Deliveries, NEW c \in CreateRequests, NEW s \in EventStatus,
             HookReceived(d, c, s)
      PROVE  StoredInv'
  <2>1. /\ dpc[d] = "idle" /\ inbound' = inbound
        /\ notice' = [notice EXCEPT ![d] = [charge |-> c, status |-> s]]
        /\ dpc' = [dpc EXCEPT ![d] = IF inbound[c] # "absent" THEN "duplicate" ELSE "persist"]
    BY <1>3 DEF HookReceived, DeliveryGoes
  <2>2. \A b \in CreateRequests : inbound'[b] # "absent" => Stored(b)'
    BY <1>1, <2>1 DEF StoredInv
  <2> QED
    BY <2>1, <2>2 DEF StoredInv, Notice
<1>4. ASSUME NEW d \in Deliveries, HookPersists(d) PROVE StoredInv'
  <2>1. PICK c \in CreateRequests : c = notice[d].charge /\ notice[d] \in Notice
    BY <1>4 DEF HookPersists, HookInv, Notice
  <2>2. /\ dpc[d] = "persist" /\ notice' = notice
        /\ \/ /\ inbound' = [inbound EXCEPT ![c] = "received"]
              /\ dpc' = [dpc EXCEPT ![d] = "enqueue"]
           \/ dpc' = [dpc EXCEPT ![d] = "failed"] /\ inbound' = inbound
    BY <1>4, <2>1 DEF HookPersists, DeliveryGoes
  <2>3. Stored(c)' /\ \A b \in CreateRequests : Stored(b) => Stored(b)'
    BY <1>1, <2>1, <2>2 DEF Stored
  <2> QED
    BY <2>2, <2>3 DEF StoredInv, Notice
<1>5. ASSUME NEW d \in Deliveries, HookRefused(d) \/ HookEnqueues(d) \/ HookEnqueueThrows(d)
      PROVE  StoredInv'
  <2>1. /\ UNCHANGED <<notice, inbound>>
        /\ \/ dpc[d] = "idle" /\ dpc' = [dpc EXCEPT ![d] = "refused"]
           \/ dpc[d] = "enqueue" /\ dpc' = [dpc EXCEPT ![d] = "accepted"]
           \/ dpc[d] = "enqueue" /\ dpc' = [dpc EXCEPT ![d] = "failed"]
    BY <1>5 DEF HookRefused, HookEnqueues, HookEnqueueThrows, DeliveryGoes
  <2> QED
    BY <1>1, <2>1 DEF StoredInv
\* markProcessed() marks the row of a charge whose delivery was accepted.
<1>6. ASSUME NEW w \in HookWorkers, WorkMarks(w) PROVE StoredInv'
  <2>1. PICK c \in CreateRequests : c = wjob[w] /\ Accepted(c)
    BY <1>6 DEF WorkMarks, HookInv
  <2>2. UNCHANGED <<dpc, notice>> /\ inbound' = [inbound EXCEPT ![c] = "processed"]
    BY <1>6, <2>1 DEF WorkMarks
  <2>3. Stored(c)
    BY <2>1 DEF Accepted, Stored, HookInv
  <2> QED
    BY <1>1, <2>2, <2>3 DEF StoredInv, Notice
<1>7. ASSUME NEW w \in HookWorkers, WorkStep(w), ~ WorkMarks(w)
      PROVE  UNCHANGED <<dpc, notice, inbound>>
  BY <1>7, Zenon DEF WorkStep, WorkTakes, WorkReads, WorkApplies, WorkFails
<1>8. ASSUME NEW c \in CreateRequests, HookJobStalls(c) \/ HookJobRemoved(c)
      PROVE  UNCHANGED <<dpc, notice, inbound>>
  BY <1>8 DEF HookJobStalls, HookJobRemoved
<1>9. CASE WebhookCrash
  <2>1. /\ UNCHANGED <<notice, inbound>>
        /\ \A d \in Deliveries :
             dpc'[d] = IF dpc[d] \in {"persist", "enqueue"} THEN "lost" ELSE dpc[d]
    BY <1>9 DEF WebhookCrash
  <2> QED
    BY <1>1, <2>1 DEF StoredInv
<1>10. UNCHANGED webhookVars => UNCHANGED <<dpc, notice, inbound>>
  BY DEF webhookVars
<1> QED
  BY <1>2, <1>3, <1>4, <1>5, <1>6, <1>7, <1>8, <1>9, <1>10, SystemWrites
     DEF WebhookStep, DeliveryStep

\* A delivery is dropped as a duplicate only if another one about the same charge has
\* been before the table of inbound webhooks.  No more than that holds: not that it said
\* the same, nor that it was ever enqueued (src/src/modules/webhooks/webhooks.controller.ts:59).
THEOREM DuplicatesHaveAFirst ==
  Spec => [](\A d \in Deliveries : dpc[d] = "duplicate" =>
               \E e \in Deliveries \ {d} :
                 /\ notice[e].charge = notice[d].charge
                 /\ dpc[e] \in {"enqueue", "accepted", "failed", "lost"})
<1>1. Init => StoredInv
  BY DEF Init, WebhookInit, StoredInv
<1>2. SystemInv /\ StoredInv /\ [Next]_vars => StoredInv'
  BY StepStored
<1>3. StoredInv =>
        \A d \in Deliveries : dpc[d] = "duplicate" =>
          \E e \in Deliveries \ {d} :
            /\ notice[e].charge = notice[d].charge
            /\ dpc[e] \in {"enqueue", "accepted", "failed", "lost"}
  BY DEF StoredInv, Stored, Notice
<1> QED
  BY <1>1, <1>2, <1>3, SystemHolds, PTL DEF Spec
=============================================================================

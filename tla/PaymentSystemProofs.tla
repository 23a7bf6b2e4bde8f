------------------------ MODULE PaymentSystemProofs ------------------------
(***************************************************************************)
(* The invariants of the payments core survive the webhook pipeline and    *)
(* the reconciliation: these write a status without looking at the row     *)
(* again, but only statuses the provider reported, and only on rows that   *)
(* create() has finished with.  For any number of deliveries, workers,     *)
(* payments, retries and crashes, and with locks that expire.              *)
(***************************************************************************)
EXTENDS PaymentSystem, LedgerProofs

USE WebhookAssumption, ReconciliationAssumption, QueueAssumption

\* The operations of the queue return jobs.
LEMMA JobTyped ==
  ASSUME NEW j \in Job
  PROVE  /\ NoJob \in Job /\ Added(j) \in Job /\ Stalled(j) \in Job /\ Orphaned(j) \in Job
         /\ Orphaned(j).state = j.state
<1> USE DEF Job, JobState
<1>1. Added(j) \in Job /\ NoJob \in Job
  BY DEF Added, NoJob
<1>2. Orphaned(j) \in Job /\ Orphaned(j).state = j.state
  BY DEF Orphaned
<1>3. Stalled(j) \in Job
  <2>1. PICK s \in {"waiting", "failed"} :
          Stalled(j) = [j EXCEPT !.stalls = @ + 1, !.holder = NoWorker, !.state = s]
    BY DEF Stalled
  <2>2. j.stalls + 1 \in Nat
    OBVIOUS
  <2>3. Stalled(j) = [state |-> s, attempts |-> j.attempts, stalls |-> j.stalls + 1,
                      holder |-> NoWorker]
    BY <2>1
  <2> QED
    BY <2>2, <2>3
<1> QED
  BY <1>1, <1>2, <1>3

LEMMA RunTyped ==
  ASSUME NEW j \in Job, NEW w \in Workers, NEW n \in Nat
  PROVE  Taken(j, w) \in Job /\ Completed(j, w) \in Job /\ Thrown(j, w, n) \in Job
<1> USE DEF Job, JobState
<1>1. Taken(j, w) \in Job
  BY DEF Taken
<1>2. Completed(j, w) \in Job
  BY DEF Completed
<1>3. Thrown(j, w, n) \in Job
  <2>1. CASE j.holder # w
    BY <2>1 DEF Thrown
  <2>2. CASE j.holder = w
    <3>1. PICK s \in {"waiting", "failed"} :
            Thrown(j, w, n) = [j EXCEPT !.attempts = @ + 1, !.holder = NoWorker, !.state = s]
      BY <2>2 DEF Thrown
    <3>2. j.attempts + 1 \in Nat
      OBVIOUS
    <3>3. Thrown(j, w, n) = [state |-> s, attempts |-> j.attempts + 1, stalls |-> j.stalls,
                             holder |-> NoWorker]
      BY <3>1
    <3> QED
      BY <3>2, <3>3
  <2> QED
    BY <2>1, <2>2
<1> QED
  BY <1>1, <1>2, <1>3

\* The step of a worker, as the payments core sees it: it writes, on a linked row, a
\* status the provider has reported of its charge.
LEMMA WorkerWrite ==
  ASSUME CoreInv, NEW p \in CreateRequests, NEW s \in PaymentStatus, NEW event \in Event,
         externalId[p] # Null, Justified(s, Grounds(p)), RecordStatus(p, s, event),
         UNCHANGED <<body, rows, externalId, providerError, refundRows, providerVars,
                     serviceVars>>
  PROVE  CoreInv' /\ OnlyGrow
<1> USE DEF CoreInv
<1>1. OnlyGrow
  BY DEF OnlyGrow, providerVars
<1>2. status' = [status EXCEPT ![p] = s]
  BY DEF RecordStatus
<1>3. PaymentTypeOK'
  <2>1. StoreTypeOK'
    BY RecordStatusTyped DEF PaymentTypeOK, StoreTypeOK
  <2> QED
    BY <2>1, ProviderStutters, ServiceStutters DEF PaymentTypeOK
<1>4. KeyInv' /\ LinkInv'
  BY DEF KeyInv, LinkInv, OrgKey, providerVars, serviceVars
<1>5. LedgerNeverAhead'
  <2>1. status'[p] = s /\ Grounds(p)' = Grounds(p)
    BY <1>2 DEF PaymentTypeOK, StoreTypeOK, Grounds, providerVars
  <2> QED
    BY <1>1, <1>2, <2>1, JustifiedWrite DEF PaymentTypeOK, StoreTypeOK
<1>6. SettleInv'
  BY <1>2, LinkedWriteSettles DEF PaymentTypeOK, StoreTypeOK, serviceVars
<1> QED
  BY <1>1, <1>3, <1>4, <1>5, <1>6

-----------------------------------------------------------------------------
\* Why a webhook carries only what the provider reported: the charge had the status it
\* announces, one delivery per charge gets past the unique index, and so the data of a
\* job never change under the run that works on it.
Accepted(c) == \E d \in Deliveries : dpc[d] = "accepted" /\ notice[d].charge = c

HookInv ==
  /\ \A d \in Deliveries : dpc[d] \in {"persist", "enqueue", "accepted"} =>
       /\ notice[d] \in Notice
       /\ notice[d].status \in Reported(notice[d].charge) \cup {"unrecognised"}
  /\ \A d \in Deliveries : dpc[d] \in {"enqueue", "accepted"} =>
       inbound[notice[d].charge] # "absent"
  /\ OneDeliveryEnqueues
  /\ \A c \in CreateRequests : hookData[c] \in Reported(c) \cup {"unrecognised"}
  /\ \A c \in CreateRequests : hookJob[c].state # "absent" => Accepted(c)
  /\ \A w \in HookWorkers : wpc[w] # "idle" =>
       wjob[w] \in CreateRequests /\ Accepted(wjob[w])
  /\ \A w \in HookWorkers : wpc[w] = "apply" =>
       /\ wread[w] \in CreateRequests /\ externalId[wread[w]] = wjob[w]
       /\ hookData[wjob[w]] \in ChargeStatus

\* What the rest of the system does to the variables above.
LEMMA OthersKeepHooks ==
  ASSUME CoreInv, WebhookTypeOK, HookInv, OnlyGrow, UNCHANGED webhookVars
  PROVE  WebhookTypeOK' /\ HookInv'
<1> USE DEF webhookVars
<1>1. WebhookTypeOK'
  BY DEF WebhookTypeOK
<1>3. \A d \in Deliveries : dpc[d] \in {"persist", "enqueue", "accepted"} =>
        notice[d].charge \in CreateRequests
  BY DEF HookInv, Notice
<1>4. \A w \in HookWorkers : wpc[w] = "apply" => wjob[w] \in CreateRequests
  BY DEF HookInv
<1>5. OneDeliveryEnqueues'
  BY DEF HookInv, OneDeliveryEnqueues
<1>2. \A c \in CreateRequests : Reported(c) \subseteq Reported(c)'
  BY DEF Reported, OnlyGrow
<1>6. \A d \in Deliveries : dpc'[d] \in {"persist", "enqueue", "accepted"} =>
        /\ notice'[d] \in Notice
        /\ notice'[d].status \in Reported(notice[d].charge)' \cup {"unrecognised"}
  BY <1>2, <1>3 DEF HookInv
<1>7. \A c \in CreateRequests : hookData'[c] \in Reported(c)' \cup {"unrecognised"}
  BY <1>2 DEF HookInv
<1>8. \A w \in HookWorkers : wpc'[w] = "apply" =>
        /\ wread'[w] \in CreateRequests /\ externalId'[wread'[w]] = wjob'[w]
        /\ hookData'[wjob'[w]] \in ChargeStatus
  BY <1>4, StoreAssumption DEF HookInv, OnlyGrow
<1>9. \A d \in Deliveries : dpc'[d] \in {"enqueue", "accepted"} =>
        inbound'[notice'[d].charge] # "absent"
  BY DEF HookInv
<1>10. /\ \A c \in CreateRequests : hookJob'[c].state # "absent" => Accepted(c)'
       /\ \A w \in HookWorkers : wpc'[w] # "idle" =>
            wjob'[w] \in CreateRequests /\ Accepted(wjob[w])'
  BY DEF HookInv, Accepted
<1> QED
  BY <1>1, <1>5, <1>6, <1>7, <1>8, <1>9, <1>10, Zenon DEF HookInv

\* A step of the queue or of a run keeps the invariant if every job it leaves and every
\* run that goes on is for a charge whose delivery was accepted.
LEMMA RunsKeepHooks ==
  ASSUME WebhookTypeOK, HookInv, WebhookTypeOK',
         UNCHANGED <<dpc, notice, hookData, externalId, history, refunded>>,
         \A c \in CreateRequests :
           /\ inbound[c] # "absent" => inbound'[c] # "absent"
           /\ hookJob'[c].state # "absent" => hookJob[c].state # "absent" \/ Accepted(c),
         \A w \in HookWorkers : wpc'[w] # "idle" =>
           wjob'[w] \in CreateRequests /\ Accepted(wjob'[w]),
         \A w \in HookWorkers : wpc'[w] = "apply" =>
           /\ wread'[w] \in CreateRequests /\ externalId[wread'[w]] = wjob'[w]
           /\ hookData[wjob'[w]] \in ChargeStatus
  PROVE  HookInv'
<1>1. \A d \in Deliveries : dpc[d] \in {"enqueue", "accepted"} =>
        notice[d].charge \in CreateRequests
  BY DEF HookInv, Notice
<1>2. \A d \in Deliveries : dpc'[d] \in {"enqueue", "accepted"} =>
        inbound'[notice'[d].charge] # "absent"
  BY <1>1 DEF HookInv
<1>3. OneDeliveryEnqueues'
  BY DEF HookInv, OneDeliveryEnqueues
<1>4. \A c \in CreateRequests : hookJob'[c].state # "absent" => Accepted(c)'
  BY DEF HookInv, Accepted
<1>5. \A w \in HookWorkers : wpc'[w] # "idle" =>
        wjob'[w] \in CreateRequests /\ Accepted(wjob[w])'
  BY DEF Accepted
<1>6. \A d \in Deliveries : dpc'[d] \in {"persist", "enqueue", "accepted"} =>
        /\ notice'[d] \in Notice
        /\ notice'[d].status \in Reported(notice[d].charge)' \cup {"unrecognised"}
  BY DEF HookInv, Reported
<1>7. /\ \A c \in CreateRequests : hookData'[c] \in Reported(c)' \cup {"unrecognised"}
      /\ \A w \in HookWorkers : wpc'[w] = "apply" =>
           /\ wread'[w] \in CreateRequests /\ externalId'[wread'[w]] = wjob'[w]
           /\ hookData'[wjob'[w]] \in ChargeStatus
  BY DEF HookInv, Reported
<1> QED
  BY <1>2, <1>3, <1>4, <1>5, <1>6, <1>7, Zenon DEF HookInv

LEMMA DeliverySteps ==
  ASSUME CoreInv, WebhookTypeOK, HookInv, UNCHANGED serviceVars,
         NEW d \in Deliveries, DeliveryStep(d)
  PROVE  WebhookTypeOK' /\ HookInv' /\ CoreInv' /\ OnlyGrow
<1> USE DEF WebhookTypeOK
<1>1. ASSUME UNCHANGED <<storeVars, providerVars>>
      PROVE  CoreInv' /\ OnlyGrow /\ UNCHANGED <<externalId, history, refunded>>
  BY <1>1, StepCore, StepGrows DEF paymentVars, CoreInv, storeVars, providerVars
<1>2. CASE HookRefused(d)
  <2>1. /\ dpc' = [dpc EXCEPT ![d] = "refused"] /\ dpc[d] = "idle"
        /\ UNCHANGED <<notice, inbound, hookJob, hookData, wpc, wjob, wread>>
        /\ UNCHANGED <<storeVars, providerVars>>
    BY <1>2 DEF HookRefused, DeliveryGoes
  <2>2. \A c \in CreateRequests : Accepted(c) => Accepted(c)'
    BY <2>1 DEF Accepted
  <2>3. OneDeliveryEnqueues'
    BY <2>1 DEF HookInv, OneDeliveryEnqueues
  <2> QED
    BY <1>1, <2>1, <2>2, <2>3 DEF HookInv, Reported
<1>3. ASSUME NEW c \in CreateRequests, NEW s \in EventStatus,
             HookReceived(d, c, s)
      PROVE  WebhookTypeOK' /\ HookInv' /\ CoreInv' /\ OnlyGrow
  <2>1. /\ dpc[d] = "idle"
        /\ \E there \in {"duplicate", "persist"} : dpc' = [dpc EXCEPT ![d] = there]
        /\ notice' = [notice EXCEPT ![d] = [charge |-> c, status |-> s]]
        /\ s \in Reported(c) \cup {"unrecognised"}
        /\ UNCHANGED <<inbound, hookJob, hookData, wpc, wjob, wread>>
        /\ UNCHANGED <<storeVars, providerVars>>
    BY <1>3 DEF HookReceived, DeliveryGoes
  <2>2. \A e \in CreateRequests : Accepted(e) => Accepted(e)'
    BY <2>1 DEF Accepted
  <2>3. [charge |-> c, status |-> s] \in Notice
    BY DEF Notice
  <2>4. OneDeliveryEnqueues'
    BY <2>1 DEF HookInv, OneDeliveryEnqueues
  <2>5. WebhookTypeOK'
    BY <2>1, <2>3
  <2> QED
    BY <1>1, <2>1, <2>2, <2>3, <2>4, <2>5 DEF HookInv, Reported
<1>4. CASE HookPersists(d)
  <2> DEFINE c == notice[d].charge
  <2>1. /\ dpc[d] = "persist" /\ c \in CreateRequests
        /\ UNCHANGED <<notice, hookJob, hookData, wpc, wjob, wread>>
        /\ UNCHANGED <<storeVars, providerVars>>
    BY <1>4 DEF HookPersists, HookInv, Notice
  <2>2. \A e \in CreateRequests : Accepted(e) => Accepted(e)'
    BY <1>4, <2>1 DEF Accepted, HookPersists, DeliveryGoes
  <2>3. CASE inbound[c] = "absent"
    <3>1. /\ inbound' = [inbound EXCEPT ![c] = "received"]
          /\ dpc' = [dpc EXCEPT ![d] = "enqueue"]
      BY <1>4, <2>3 DEF HookPersists, DeliveryGoes
    <3>2. \A e \in Deliveries : dpc[e] \in {"enqueue", "accepted"} => notice[e].charge # c
      BY <2>3 DEF HookInv
    <3>3. OneDeliveryEnqueues'
      BY <2>1, <3>1, <3>2 DEF HookInv, OneDeliveryEnqueues
    <3> QED
      BY <1>1, <2>1, <2>2, <3>1, <3>3 DEF HookInv, Reported, Notice
  <2>4. CASE inbound[c] # "absent"
    <3>1. UNCHANGED inbound /\ dpc' = [dpc EXCEPT ![d] = "failed"]
      BY <1>4, <2>4 DEF HookPersists, DeliveryGoes
    <3>2. OneDeliveryEnqueues'
      BY <2>1, <3>1 DEF HookInv, OneDeliveryEnqueues
    <3> QED
      BY <1>1, <2>1, <2>2, <3>1, <3>2 DEF HookInv, Reported
  <2> QED
    BY <2>3, <2>4
<1>5. CASE HookEnqueues(d)
  <2> DEFINE c == notice[d].charge
  <2>1. /\ dpc[d] = "enqueue" /\ c \in CreateRequests
        /\ notice[d].status \in EventStatus
        /\ dpc' = [dpc EXCEPT ![d] = "accepted"]
        /\ hookJob' = [hookJob EXCEPT ![c] = Added(@)]
        /\ UNCHANGED <<notice, inbound, wpc, wjob, wread>>
        /\ UNCHANGED <<storeVars, providerVars>>
    BY <1>5 DEF HookEnqueues, HookInv, Notice, DeliveryGoes
  <2>2. Accepted(c)' /\ \A e \in CreateRequests : Accepted(e) => Accepted(e)'
    BY <2>1 DEF Accepted
  <2>3. ~ Accepted(c)
    BY <2>1 DEF Accepted, HookInv, OneDeliveryEnqueues
  <2>4. \A w \in HookWorkers : wpc[w] # "idle" => wjob[w] # c
    BY <2>3 DEF HookInv
  <2>5. hookData' = [hookData EXCEPT ![c] = notice[d].status]
    BY <1>5, <2>1, <2>3 DEF HookEnqueues, HookInv
  <2>6. hookJob' \in [CreateRequests -> Job]
    <3>1. Added(hookJob[c]) \in Job
      BY <2>1 DEF Added, NoJob, Job, JobState
    <3> QED
      BY <2>1, <3>1
  <2>7. OneDeliveryEnqueues'
    BY <2>1 DEF HookInv, OneDeliveryEnqueues
  <2>8. WebhookTypeOK'
    BY <2>1, <2>5, <2>6
  <2> QED
    BY <1>1, <2>1, <2>2, <2>4, <2>5, <2>7, <2>8 DEF HookInv, Reported, Notice
<1>6. CASE HookEnqueueThrows(d)
  <2>1. /\ dpc' = [dpc EXCEPT ![d] = "failed"] /\ dpc[d] = "enqueue"
        /\ UNCHANGED <<notice, inbound, hookJob, hookData, wpc, wjob, wread>>
        /\ UNCHANGED <<storeVars, providerVars>>
    BY <1>6 DEF HookEnqueueThrows, DeliveryGoes
  <2>2. \A c \in CreateRequests : Accepted(c) => Accepted(c)'
    BY <2>1 DEF Accepted
  <2>3. OneDeliveryEnqueues'
    BY <2>1 DEF HookInv, OneDeliveryEnqueues
  <2> QED
    BY <1>1, <2>1, <2>2, <2>3 DEF HookInv, Reported
<1> QED
  BY <1>2, <1>3, <1>4, <1>5, <1>6 DEF DeliveryStep

LEMMA WorkSteps ==
  ASSUME CoreInv, WebhookTypeOK, HookInv, UNCHANGED serviceVars,
         NEW w \in HookWorkers, WorkStep(w)
  PROVE  WebhookTypeOK' /\ HookInv' /\ CoreInv' /\ OnlyGrow
<1> USE DEF WebhookTypeOK
<1>1. ASSUME UNCHANGED <<storeVars, providerVars>>
      PROVE  CoreInv' /\ OnlyGrow /\ UNCHANGED <<externalId, history, refunded>>
  BY <1>1, StepCore, StepGrows DEF paymentVars, CoreInv, storeVars, providerVars
<1>2. w \in Workers /\ HookAttempts \in Nat
  BY WebhookAssumption
<1>3. wpc[w] # "idle" => wjob[w] \in CreateRequests /\ Accepted(wjob[w])
  BY DEF HookInv
<1>4. ASSUME NEW c \in CreateRequests, WorkTakes(w, c)
      PROVE  WebhookTypeOK' /\ HookInv' /\ CoreInv' /\ OnlyGrow
  <2>1. /\ wpc[w] = "idle" /\ hookJob[c].state = "waiting"
        /\ hookJob' = [hookJob EXCEPT ![c] = Taken(hookJob[c], w)]
        /\ wpc' = [wpc EXCEPT ![w] = "read"] /\ wjob' = [wjob EXCEPT ![w] = c]
        /\ UNCHANGED <<dpc, notice, inbound, hookData, wread>>
        /\ UNCHANGED <<storeVars, providerVars>>
    BY <1>4 DEF WorkTakes
  <2>2. Taken(hookJob[c], w) \in Job
    BY <1>2, RunTyped
  <2>3. WebhookTypeOK'
    BY <2>1, <2>2
  <2>4. Accepted(c)
    BY <2>1 DEF HookInv
  <2>5. \A v \in HookWorkers : wpc'[v] # "idle" =>
          wjob'[v] \in CreateRequests /\ Accepted(wjob'[v])
    BY <2>1, <2>4 DEF HookInv
  <2>6. HookInv'
    BY <1>1, <2>1, <2>3, <2>5, RunsKeepHooks DEF HookInv
  <2> QED
    BY <1>1, <2>1, <2>3, <2>6
<1>5. ASSUME wpc[w] # "idle", WorkThrows(w),
             UNCHANGED <<dpc, notice, inbound, hookData, wjob, storeVars, providerVars>>
      PROVE  WebhookTypeOK' /\ HookInv' /\ CoreInv' /\ OnlyGrow
  <2>1. /\ hookJob' = [hookJob EXCEPT ![wjob[w]] = Thrown(hookJob[wjob[w]], w, HookAttempts)]
        /\ wpc' = [wpc EXCEPT ![w] = "idle"] /\ UNCHANGED wread
    BY <1>5 DEF WorkThrows
  <2>2. wjob[w] \in CreateRequests /\ hookJob[wjob[w]] \in Job
    BY <1>3, <1>5
  <2> DEFINE j == Thrown(hookJob[wjob[w]], w, HookAttempts)
  <2>3. j \in Job
    BY <1>2, <2>2, RunTyped
  <2>4. WebhookTypeOK' /\ UNCHANGED <<dpc, notice, inbound, hookData, wjob, wread>>
    BY <1>5, <2>1, <2>2, <2>3
  <2>5. HookInv'
    <3>1. \A c \in CreateRequests : c = wjob[w] \/ hookJob'[c] = hookJob[c]
      BY <2>1
    <3>2. \A v \in HookWorkers : wpc'[v] # "idle" => v # w /\ wpc'[v] = wpc[v]
      BY <2>1
    <3> QED
      BY <1>1, <1>3, <1>5, <2>4, <3>1, <3>2, RunsKeepHooks DEF HookInv
  <2> QED
    BY <1>1, <1>5, <2>4, <2>5
<1>6. ASSUME NEW there \in {"mark", "apply"}, wpc[w] = "read",
             wpc' = [wpc EXCEPT ![w] = there],
             wread' \in [HookWorkers -> CreateRequests \cup {Null}],
             \A v \in HookWorkers \ {w} : wread'[v] = wread[v],
             there = "apply" =>
               /\ wread'[w] \in CreateRequests /\ externalId[wread'[w]] = wjob[w]
               /\ hookData[wjob[w]] \in ChargeStatus,
             UNCHANGED <<dpc, notice, inbound, hookJob, hookData, wjob, storeVars, providerVars>>
      PROVE  WebhookTypeOK' /\ HookInv' /\ CoreInv' /\ OnlyGrow
  <2>1. WebhookTypeOK'
    BY <1>6
  <2>2. HookInv'
    BY <1>1, <1>3, <1>6, <2>1, RunsKeepHooks DEF HookInv
  <2> QED
    BY <1>1, <1>6, <2>1, <2>2
<1>7. CASE WorkReads(w)
  <2> DEFINE s == hookData[wjob[w]]
  <2>1. /\ wpc[w] = "read"
        /\ UNCHANGED <<dpc, notice, inbound, hookData, wjob, storeVars, providerVars>>
    BY <1>7 DEF WorkReads
  <2>2. CASE WorkThrows(w)
    BY <1>5, <2>1, <2>2
  <2>3. CASE wpc' = [wpc EXCEPT ![w] = "mark"] /\ UNCHANGED <<hookJob, wread>>
    BY <1>6, <2>1, <2>3
  <2>4. ASSUME NEW p \in LinkedRows(wjob[w]), s \in ChargeStatus,
               wpc' = [wpc EXCEPT ![w] = "apply"], wread' = [wread EXCEPT ![w] = p],
               UNCHANGED hookJob
        PROVE  WebhookTypeOK' /\ HookInv' /\ CoreInv' /\ OnlyGrow
    <3>1. p \in CreateRequests /\ externalId[p] = wjob[w]
      BY DEF LinkedRows, CoreInv, PaymentTypeOK, StoreTypeOK
    <3> QED
      BY <1>6, <2>1, <2>4, <3>1
  <2> QED
    BY <1>7, <2>2, <2>3, <2>4 DEF WorkReads
<1>8. CASE WorkApplies(w)
  <2> DEFINE s == hookData[wjob[w]]
             p == wread[w]
  <2>1. /\ wpc[w] = "apply" /\ wpc' = [wpc EXCEPT ![w] = "mark"]
        /\ RecordStatus(p, STATUS_MAP[s], [type |-> "webhook", status |-> s])
        /\ UNCHANGED <<body, rows, externalId, providerError, refundRows, providerVars>>
        /\ UNCHANGED <<dpc, notice, inbound, hookJob, hookData, wjob, wread>>
    BY <1>8 DEF WorkApplies
  <2>2. /\ p \in CreateRequests /\ externalId[p] = wjob[w] /\ wjob[w] \in CreateRequests
        /\ s \in ChargeStatus /\ s \in Reported(wjob[w])
    BY <2>1 DEF HookInv, ChargeStatus
  <2>3. history[wjob[w]] \subseteq Grounds(p) /\ externalId[p] # Null
    BY <2>2, StoreAssumption DEF Grounds
  <2>4. Justified(STATUS_MAP[s], Grounds(p)) /\ STATUS_MAP[s] \in PaymentStatus
    <3>1. CASE s \in history[wjob[w]]
      BY <2>2, <2>3, <3>1, Justifications, StatusTables
    <3>2. CASE s = "pending"
      BY <3>2 DEF Justified, STATUS_MAP, ChargeStatus, PaymentStatus
    <3>3. CASE s = "refunded" /\ refunded[wjob[w]] > 0
      <4>1. Grounds(p) \cap Took # {}
        BY <2>2, <2>3, <3>3 DEF CoreInv, LinkInv
      <4> QED
        BY <3>3, <4>1 DEF Justified, STATUS_MAP, ChargeStatus, PaymentStatus
    <3> QED
      BY <2>2, <3>1, <3>2, <3>3 DEF Reported
  <2>5. CoreInv' /\ OnlyGrow
    <3>1. PICK event \in Event : event = [type |-> "webhook", status |-> s]
      BY <2>2, EventsTyped
    <3> QED
      BY <2>1, <2>2, <2>3, <2>4, <3>1, WorkerWrite
  <2>6. WebhookTypeOK'
    BY <2>1
  <2>7. UNCHANGED <<history, refunded>>
    BY <2>1 DEF providerVars
  <2>8. HookInv'
    BY <1>3, <2>1, <2>6, <2>7, RunsKeepHooks DEF HookInv
  <2> QED
    BY <2>5, <2>6, <2>8
<1>9. CASE WorkMarks(w)
  <2>1. /\ wpc[w] = "mark" /\ wpc' = [wpc EXCEPT ![w] = "idle"]
        /\ inbound' = [inbound EXCEPT ![wjob[w]] = "processed"]
        /\ hookJob' = [hookJob EXCEPT ![wjob[w]] = Completed(hookJob[wjob[w]], w)]
        /\ UNCHANGED <<dpc, notice, hookData, wjob, wread>>
        /\ UNCHANGED <<storeVars, providerVars>>
    BY <1>9 DEF WorkMarks
  <2>2. wjob[w] \in CreateRequests /\ hookJob[wjob[w]] \in Job
    BY <1>3, <2>1
  <2> DEFINE j == Completed(hookJob[wjob[w]], w)
  <2>3. j \in Job
    BY <1>2, <2>2, RunTyped
  <2>4. WebhookTypeOK'
    BY <2>1, <2>2, <2>3
  <2>5. HookInv'
    <3>1. \A c \in CreateRequests :
            /\ c = wjob[w] \/ hookJob'[c] = hookJob[c]
            /\ inbound[c] # "absent" => inbound'[c] # "absent"
      BY <2>1
    <3>2. \A v \in HookWorkers : wpc'[v] # "idle" => v # w /\ wpc'[v] = wpc[v]
      BY <2>1
    <3> QED
      BY <1>1, <1>3, <2>1, <2>4, <3>1, <3>2, RunsKeepHooks DEF HookInv
  <2> QED
    BY <1>1, <2>1, <2>4, <2>5
<1>10. CASE WorkFails(w)
  <2>1. /\ wpc[w] # "idle" /\ WorkThrows(w)
        /\ UNCHANGED <<dpc, notice, inbound, hookData, wjob, storeVars, providerVars>>
    BY <1>10 DEF WorkFails
  <2> QED
    BY <1>5, <2>1
<1> QED
  BY <1>4, <1>7, <1>8, <1>9, <1>10 DEF WorkStep

LEMMA HookQueueSteps ==
  ASSUME CoreInv, WebhookTypeOK, HookInv, UNCHANGED serviceVars,
         NEW c \in CreateRequests, HookJobStalls(c) \/ HookJobRemoved(c)
  PROVE  WebhookTypeOK' /\ HookInv' /\ CoreInv' /\ OnlyGrow
<1> USE DEF WebhookTypeOK
<1>1. PICK j \in {Stalled(hookJob[c]), NoJob} : hookJob' = [hookJob EXCEPT ![c] = j]
  BY DEF HookJobStalls, HookJobRemoved
<1>2. /\ hookJob[c].state # "absent"
      /\ UNCHANGED <<dpc, notice, inbound, hookData, wpc, wjob, wread, storeVars, providerVars>>
  BY DEF HookJobStalls, HookJobRemoved, MayStall, Finished
<1>3. CoreInv' /\ OnlyGrow /\ UNCHANGED <<externalId, history, refunded>>
  BY <1>2, StepCore, StepGrows DEF paymentVars, CoreInv, storeVars, providerVars
<1>4. j \in Job
  <2>1. hookJob[c] \in Job
    OBVIOUS
  <2>2. Stalled(hookJob[c]) \in Job /\ NoJob \in Job
    BY <2>1, JobTyped
  <2> QED
    BY <2>2
<1>5. WebhookTypeOK'
  BY <1>1, <1>2, <1>4
<1>6. HookInv'
  BY <1>1, <1>2, <1>3, <1>5, RunsKeepHooks DEF HookInv
<1> QED
  BY <1>3, <1>5, <1>6

LEMMA HookSteps ==
  ASSUME CoreInv, WebhookTypeOK, HookInv, WebhookStep, UNCHANGED serviceVars
  PROVE  WebhookTypeOK' /\ HookInv' /\ CoreInv' /\ OnlyGrow
  BY DeliverySteps, WorkSteps, HookQueueSteps DEF WebhookStep

LEMMA HookCrash ==
  ASSUME CoreInv, WebhookTypeOK, HookInv, WebhookCrash, UNCHANGED <<storeVars, providerVars>>
  PROVE  WebhookTypeOK' /\ HookInv'
<1> USE DEF WebhookTypeOK
<1>1. /\ UNCHANGED <<notice, inbound, hookData, wjob, wread, externalId, history, refunded>>
      /\ \A w \in HookWorkers : wpc'[w] = "idle"
      /\ \A d \in Deliveries :
           \/ dpc'[d] = dpc[d] /\ dpc[d] \notin {"persist", "enqueue"}
           \/ dpc'[d] = "lost" /\ dpc[d] \in {"persist", "enqueue"}
      /\ \A c \in CreateRequests : hookJob'[c] = Orphaned(hookJob[c])
  BY DEF WebhookCrash, storeVars, providerVars
<1>2. \A c \in CreateRequests :
        Orphaned(hookJob[c]) \in Job /\ Orphaned(hookJob[c]).state = hookJob[c].state
  BY JobTyped
<1>3. WebhookTypeOK'
  BY <1>1, <1>2 DEF WebhookCrash
<1>4. \A c \in CreateRequests : Accepted(c) => Accepted(c)'
  BY <1>1 DEF Accepted
<1>5. OneDeliveryEnqueues'
  BY <1>1 DEF HookInv, OneDeliveryEnqueues
<1> QED
  BY <1>1, <1>2, <1>3, <1>4, <1>5 DEF HookInv, Reported

-----------------------------------------------------------------------------
\* Why the reconciliation always has a charge to ask about, and writes only what the
\* provider answered: the cron takes linked rows, and links are for ever.
RecInv ==
  /\ \A p \in CreateRequests : recJob[p].state # "absent" => externalId[p] # Null
  /\ \A k \in RecWorkers : kpc[k] # "idle" =>
       kjob[k] \in CreateRequests /\ externalId[kjob[k]] # Null
  /\ \A k \in RecWorkers : kpc[k] = "apply" => Justified(kresult[k], Grounds(kjob[k]))

LEMMA OthersKeepRec ==
  ASSUME CoreInv, ReconciliationTypeOK, RecInv, OnlyGrow, UNCHANGED reconciliationVars
  PROVE  ReconciliationTypeOK' /\ RecInv'
<1> USE DEF reconciliationVars
<1>1. ReconciliationTypeOK'
  BY DEF ReconciliationTypeOK
<1>2. \A p \in CreateRequests : Grounds(p) \subseteq Grounds(p)'
  BY GroundsGrow DEF CoreInv
<1>3. ASSUME NEW k \in RecWorkers, kpc[k] = "apply"
      PROVE  Justified(kresult[k], Grounds(kjob[k]))'
  <2>1. kjob[k] \in CreateRequests /\ Justified(kresult[k], Grounds(kjob[k]))
    BY <1>3 DEF RecInv
  <2>2. Grounds(kjob[k]) \subseteq Grounds(kjob[k])'
    BY <1>2, <2>1 DEF Grounds
  <2> QED
    BY <2>1, <2>2, Justifications
<1>4. \A p \in CreateRequests : externalId[p] # Null => externalId'[p] # Null
  BY DEF OnlyGrow
<1> QED
  BY <1>1, <1>3, <1>4 DEF RecInv

\* A step of the queue, the cron or a run that leaves the payments core alone.
LEMMA RunsKeepRec ==
  ASSUME CoreInv, RecInv, UNCHANGED <<storeVars, providerVars, serviceVars>>,
         \A p \in CreateRequests : recJob'[p].state # "absent" => externalId[p] # Null,
         \A k \in RecWorkers : kpc'[k] # "idle" =>
           kjob'[k] \in CreateRequests /\ externalId[kjob'[k]] # Null,
         \A k \in RecWorkers : kpc'[k] = "apply" => Justified(kresult'[k], Grounds(kjob'[k]))
  PROVE  RecInv' /\ CoreInv' /\ OnlyGrow
<1>1. CoreInv' /\ OnlyGrow
  BY StepCore, StepGrows DEF paymentVars, CoreInv
<1> QED
  BY <1>1 DEF RecInv, Grounds, storeVars, providerVars

LEMMA RecRuns ==
  ASSUME CoreInv, ReconciliationTypeOK, RecInv, UNCHANGED serviceVars,
         NEW k \in RecWorkers, RecStep(k)
  PROVE  ReconciliationTypeOK' /\ RecInv' /\ CoreInv' /\ OnlyGrow
<1> USE DEF ReconciliationTypeOK
<1>1. k \in Workers /\ RecAttempts \in Nat
  BY ReconciliationAssumption
<1>2. kpc[k] # "idle" => kjob[k] \in CreateRequests /\ externalId[kjob[k]] # Null
  BY DEF RecInv
<1>3. ASSUME NEW p \in CreateRequests, RecReads(k, p)
      PROVE  ReconciliationTypeOK' /\ RecInv' /\ CoreInv' /\ OnlyGrow
  <2>1. /\ recJob[p].state = "waiting" /\ kjob' = [kjob EXCEPT ![k] = p]
        /\ recJob' = [recJob EXCEPT ![p] = Taken(recJob[p], k)]
        /\ kread' = [kread EXCEPT ![k] = status[p]]
        /\ kpc' = [kpc EXCEPT ![k] = "retrieve"]
        /\ UNCHANGED <<aged, kresult, storeVars, providerVars>>
    BY <1>3 DEF RecReads
  <2>2. Taken(recJob[p], k) \in Job /\ status[p] \in PaymentStatus
    BY <1>1, RunTyped DEF CoreInv, PaymentTypeOK, StoreTypeOK
  <2>3. ReconciliationTypeOK'
    BY <2>1, <2>2
  <2>4. externalId[p] # Null
    BY <2>1 DEF RecInv
  <2> QED
    BY <2>1, <2>3, <2>4, RunsKeepRec DEF RecInv
<1>4. ASSUME NEW j \in Job, NEW there \in {"idle", "retrieve", "apply"}, kpc[k] # "idle",
             recJob' = [recJob EXCEPT ![kjob[k]] = j],
             kpc' = [kpc EXCEPT ![k] = there],
             there = "apply" => Justified(kresult'[k], Grounds(kjob[k])),
             kresult' \in [RecWorkers -> PaymentStatus],
             \A o \in RecWorkers \ {k} : kresult'[o] = kresult[o],
             UNCHANGED <<aged, kjob, kread, storeVars, providerVars>>
      PROVE  ReconciliationTypeOK' /\ RecInv' /\ CoreInv' /\ OnlyGrow
  <2>1. ReconciliationTypeOK'
    BY <1>2, <1>4
  <2>2. \A p \in CreateRequests : recJob'[p].state # "absent" => externalId[p] # Null
    BY <1>2, <1>4 DEF RecInv
  <2>3. \A o \in RecWorkers : kpc'[o] # "idle" =>
          kjob'[o] \in CreateRequests /\ externalId[kjob'[o]] # Null
    BY <1>2, <1>4 DEF RecInv
  <2>4. \A o \in RecWorkers : kpc'[o] = "apply" => Justified(kresult'[o], Grounds(kjob'[o]))
    BY <1>4 DEF RecInv
  <2> QED
    BY <1>4, <2>1, <2>2, <2>3, <2>4, RunsKeepRec
<1>5. CASE RecRetrieves(k)
  <2> DEFINE new == STATUS_MAP[charge[externalId[kjob[k]]]]
  <2>1. kpc[k] = "retrieve" /\ UNCHANGED <<aged, kjob, kread, storeVars, providerVars>>
    BY <1>5 DEF RecRetrieves
  <2>2. charge[externalId[kjob[k]]] \in Grounds(kjob[k]) \cap ChargeStatus
    <3>1. /\ kjob[k] \in CreateRequests /\ externalId[kjob[k]] # Null
          /\ externalId[kjob[k]] \in CreateRequests
      BY <1>2, <2>1 DEF CoreInv, PaymentTypeOK, StoreTypeOK
    <3>2. charge[externalId[kjob[k]]] \in history[externalId[kjob[k]]]
      BY <3>1 DEF CoreInv, LinkInv
    <3>3. charge[externalId[kjob[k]]] \in ChargeStatus
      BY <3>1, <3>2 DEF CoreInv, PaymentTypeOK, ProviderTypeOK
    <3> QED
      BY <3>1, <3>2, <3>3 DEF Grounds
  <2>3. new \in PaymentStatus /\ Justified(new, Grounds(kjob[k]))
    <3>1. new \in PaymentStatus
      BY <2>2, StatusTables
    <3>2. \A s \in Grounds(kjob[k]) \cap ChargeStatus :
            Justified(STATUS_MAP[s], Grounds(kjob[k]))
      BY Justifications
    <3> QED
      BY <2>2, <3>1, <3>2
  <2>4. kresult' = [kresult EXCEPT ![k] = new]
    BY <1>5 DEF RecRetrieves
  <2>5. kresult' \in [RecWorkers -> PaymentStatus] /\ kresult'[k] = new
    BY <2>3, <2>4
  <2>6. CASE RecEnds(k)
    BY <1>1, <1>2, <1>4, <2>1, <2>4, <2>5, <2>6, RunTyped DEF RecEnds
  <2>7. CASE kpc' = [kpc EXCEPT ![k] = "apply"] /\ UNCHANGED recJob
    <3>1. recJob' = [recJob EXCEPT ![kjob[k]] = recJob[kjob[k]]] /\ recJob[kjob[k]] \in Job
      BY <1>2, <2>1, <2>7
    <3> QED
      BY <1>4, <2>1, <2>3, <2>4, <2>5, <2>7, <3>1
  <2> QED
    BY <1>5, <2>6, <2>7 DEF RecRetrieves
<1>6. CASE RecThrows(k)
  BY <1>1, <1>2, <1>4, <1>6, RunTyped DEF RecThrows
<1>7. CASE RecApplies(k)
  <2> DEFINE p == kjob[k]
  <2>1. /\ kpc[k] = "apply"
        /\ RecordStatus(p, kresult[k], [type |-> "reconciliation.updated", to |-> kresult[k]])
        /\ recJob' = [recJob EXCEPT ![p] = Completed(recJob[p], k)]
        /\ kpc' = [kpc EXCEPT ![k] = "idle"]
        /\ UNCHANGED <<body, rows, externalId, providerError, refundRows, providerVars>>
        /\ UNCHANGED <<aged, kjob, kread, kresult>>
    BY <1>7 DEF RecApplies, RecEnds
  <2>2. /\ p \in CreateRequests /\ externalId[p] # Null /\ kresult[k] \in PaymentStatus
        /\ Justified(kresult[k], Grounds(p))
    BY <1>2, <2>1 DEF RecInv
  <2>3. CoreInv' /\ OnlyGrow
    <3>1. PICK event \in Event : event = [type |-> "reconciliation.updated", to |-> kresult[k]]
      BY <2>2, EventsTyped
    <3> QED
      BY <2>1, <2>2, <3>1, WorkerWrite
  <2>4. Completed(recJob[p], k) \in Job
    BY <1>1, <2>2, RunTyped
  <2>5. ReconciliationTypeOK'
    BY <2>1, <2>2, <2>4
  <2>6. \A o \in CreateRequests : Grounds(o)' = Grounds(o)
    BY <2>1 DEF Grounds, providerVars
  <2>7. \A o \in RecWorkers : kpc'[o] # "idle" => o # k /\ kpc'[o] = kpc[o]
    BY <2>1
  <2>8. \A o \in CreateRequests : o = p \/ recJob'[o] = recJob[o]
    BY <2>1
  <2>9. \A o \in RecWorkers : kpc'[o] = "apply" =>
          kjob[o] \in CreateRequests /\ Justified(kresult[o], Grounds(kjob[o]))
    BY <2>7 DEF RecInv
  <2>10. \A o \in RecWorkers : kpc'[o] = "apply" => Justified(kresult[o], Grounds(kjob[o]))'
    BY <2>1, <2>9 DEF Grounds, providerVars
  <2>11. RecInv'
    BY <2>1, <2>2, <2>7, <2>8, <2>10 DEF RecInv
  <2> QED
    BY <2>3, <2>5, <2>11
<1> QED
  BY <1>3, <1>5, <1>6, <1>7 DEF RecStep

LEMMA RecQueueSteps ==
  ASSUME CoreInv, ReconciliationTypeOK, RecInv, UNCHANGED serviceVars,
         NEW p \in CreateRequests, RowAges(p) \/ RecJobStalls(p) \/ RecJobRemoved(p)
  PROVE  ReconciliationTypeOK' /\ RecInv' /\ CoreInv' /\ OnlyGrow
<1> USE DEF ReconciliationTypeOK
<1>1. UNCHANGED <<kpc, kjob, kread, kresult, storeVars, providerVars>>
  BY DEF RowAges, RecJobStalls, RecJobRemoved
<1>2. aged' \subseteq aged \cup {p}
  BY DEF RowAges, RecJobStalls, RecJobRemoved
<1>3. \/ UNCHANGED recJob
      \/ /\ recJob[p].state # "absent"
         /\ \E j \in {Stalled(recJob[p]), NoJob} : recJob' = [recJob EXCEPT ![p] = j]
  BY DEF RowAges, RecJobStalls, RecJobRemoved, MayStall, Finished
<1>4. recJob[p] \in Job
  OBVIOUS
<1>5. Stalled(recJob[p]) \in Job /\ NoJob \in Job
  BY <1>4, JobTyped
<1>6. ReconciliationTypeOK'
  BY <1>1, <1>2, <1>3, <1>5
<1>7. \A o \in CreateRequests : recJob'[o].state # "absent" => externalId[o] # Null
  BY <1>3 DEF RecInv
<1> QED
  BY <1>1, <1>6, <1>7, RunsKeepRec DEF RecInv

LEMMA RecCron ==
  ASSUME CoreInv, ReconciliationTypeOK, RecInv, UNCHANGED serviceVars, CronRuns
  PROVE  ReconciliationTypeOK' /\ RecInv' /\ CoreInv' /\ OnlyGrow
<1> USE DEF ReconciliationTypeOK
<1>1. PICK batch \in SUBSET StalePending :
        recJob' = [p \in CreateRequests |-> IF p \in batch THEN Added(recJob[p]) ELSE recJob[p]]
  BY DEF CronRuns
<1>2. UNCHANGED <<aged, kpc, kjob, kread, kresult, storeVars, providerVars>>
  BY DEF CronRuns
<1>3. \A p \in CreateRequests : recJob[p] \in Job /\ Added(recJob[p]) \in Job
  BY JobTyped
<1>4. ReconciliationTypeOK'
  BY <1>1, <1>2, <1>3
<1>5. \A p \in batch : externalId[p] # Null
  BY DEF StalePending
<1>6. \A p \in CreateRequests : recJob'[p].state # "absent" => externalId[p] # Null
  BY <1>1, <1>5 DEF RecInv
<1> QED
  BY <1>2, <1>4, <1>6, RunsKeepRec DEF RecInv

LEMMA RecSteps ==
  ASSUME CoreInv, ReconciliationTypeOK, RecInv, ReconciliationStep, UNCHANGED serviceVars
  PROVE  ReconciliationTypeOK' /\ RecInv' /\ CoreInv' /\ OnlyGrow
  BY RecRuns, RecQueueSteps, RecCron DEF ReconciliationStep

LEMMA RecCrash ==
  ASSUME CoreInv, ReconciliationTypeOK, RecInv, ReconciliationCrash,
         UNCHANGED <<storeVars, providerVars>>
  PROVE  ReconciliationTypeOK' /\ RecInv'
<1> USE DEF ReconciliationTypeOK
<1>1. /\ UNCHANGED <<aged, kjob, kread, kresult, externalId>>
      /\ \A k \in RecWorkers : kpc'[k] = "idle"
      /\ \A p \in CreateRequests : recJob'[p] = Orphaned(recJob[p])
  BY DEF ReconciliationCrash, storeVars
<1>2. \A p \in CreateRequests :
        Orphaned(recJob[p]) \in Job /\ Orphaned(recJob[p]).state = recJob[p].state
  BY JobTyped
<1>3. ReconciliationTypeOK'
  BY <1>1, <1>2 DEF ReconciliationCrash
<1> QED
  BY <1>1, <1>2, <1>3 DEF RecInv

-----------------------------------------------------------------------------
\* The inductive invariant of the composed system.
SystemInv ==
  CoreInv /\ WebhookTypeOK /\ HookInv /\ ReconciliationTypeOK /\ RecInv

LEMMA InitSystem == Init => SystemInv
<1> SUFFICES ASSUME Init PROVE SystemInv
  OBVIOUS
<1>1. CoreInv
  BY InitCore DEF Init
<1>2. NoJob \in Job
  BY DEF NoJob, Job, JobState
<1>3. WebhookTypeOK
  BY <1>2 DEF Init, WebhookInit, WebhookTypeOK, EventStatus
<1>4. HookInv
  <2>1. /\ \A d \in Deliveries : dpc[d] = "idle"
        /\ \A c \in CreateRequests :
             hookJob[c].state = "absent" /\ hookData[c] = "unrecognised"
        /\ \A w \in HookWorkers : wpc[w] = "idle"
    BY DEF Init, WebhookInit, NoJob
  <2> QED
    BY <2>1 DEF HookInv, OneDeliveryEnqueues
<1>5. ReconciliationTypeOK
  BY <1>2 DEF Init, ReconciliationInit, ReconciliationTypeOK, PaymentStatus
<1>6. RecInv
  <2>1. /\ \A p \in CreateRequests : recJob[p].state = "absent"
        /\ \A k \in RecWorkers : kpc[k] = "idle"
    BY DEF Init, ReconciliationInit, NoJob
  <2> QED
    BY <2>1 DEF RecInv
<1> QED
  BY <1>1, <1>3, <1>4, <1>5, <1>6 DEF SystemInv

\* A step of one component is a step of the payments core or leaves it to the lemmas
\* above, and the other components only see that rows, links and histories grow.
LEMMA StepSystem ==
  ASSUME SystemInv, [Next]_vars PROVE SystemInv'
<1> USE DEF SystemInv
<1>1. ASSUME [PaymentNext]_paymentVars
      PROVE  CoreInv' /\ OnlyGrow
  BY <1>1, StepCore, StepGrows DEF CoreInv
<1>2. CASE ServiceStep /\ UNCHANGED <<webhookVars, reconciliationVars>>
  BY <1>1, <1>2, OthersKeepHooks, OthersKeepRec DEF PaymentNext
<1>3. CASE ProviderStep /\ UNCHANGED <<serviceVars, webhookVars, reconciliationVars>>
  BY <1>1, <1>3, OthersKeepHooks, OthersKeepRec DEF PaymentNext
<1>4. CASE WebhookStep /\ UNCHANGED <<serviceVars, reconciliationVars>>
  BY <1>4, HookSteps, OthersKeepRec
<1>5. CASE ReconciliationStep /\ UNCHANGED <<serviceVars, webhookVars>>
  BY <1>5, RecSteps, OthersKeepHooks
<1>6. CASE Crash
  <2>1. CoreInv' /\ UNCHANGED <<storeVars, providerVars>>
    BY <1>1, <1>6 DEF Crash, PaymentNext, ServiceCrash
  <2> QED
    BY <1>6, <2>1, HookCrash, RecCrash DEF Crash
<1>7. CASE UNCHANGED vars
  <2>1. UNCHANGED paymentVars /\ UNCHANGED <<webhookVars, reconciliationVars>>
    BY <1>7 DEF vars, paymentVars
  <2> QED
    BY <1>1, <2>1, OthersKeepHooks, OthersKeepRec
<1> QED
  BY <1>2, <1>3, <1>4, <1>5, <1>6, <1>7 DEF Next

LEMMA SystemHolds == Spec => []SystemInv
<1>1. SystemInv /\ [Next]_vars => SystemInv'
  BY StepSystem
<1> QED
  BY InitSystem, <1>1, PTL DEF Spec

-----------------------------------------------------------------------------
\* A step of the composed system is a step of the payments core, as it is alone, or the
\* write of a worker; what webhooks and reconciliations keep for themselves changes only
\* by their own steps.
LEMMA SystemWrites ==
  ASSUME SystemInv, [Next]_vars
  PROVE  /\ OnlyGrow
         /\ UNCHANGED webhookVars \/ WebhookStep \/ WebhookCrash
         /\ UNCHANGED reconciliationVars \/ ReconciliationStep \/ ReconciliationCrash
         /\ \/ [PaymentNext]_paymentVars
            \/ UNCHANGED serviceVars /\ \E k \in RecWorkers : RecApplies(k)
            \/ UNCHANGED serviceVars /\ \E w \in HookWorkers : WorkApplies(w)
<1> USE DEF SystemInv
<1> DEFINE idle == UNCHANGED <<storeVars, providerVars>>
<1>1. ASSUME [PaymentNext]_paymentVars PROVE OnlyGrow
  BY <1>1, StepGrows DEF CoreInv
<1>2. CASE ServiceStep /\ UNCHANGED <<webhookVars, reconciliationVars>>
  BY <1>1, <1>2 DEF PaymentNext
<1>3. CASE ProviderStep /\ UNCHANGED <<serviceVars, webhookVars, reconciliationVars>>
  BY <1>1, <1>3 DEF PaymentNext
<1>4. CASE WebhookStep /\ UNCHANGED <<serviceVars, reconciliationVars>>
  <2>1. OnlyGrow
    BY <1>4, HookSteps
  <2>2. ASSUME NEW d \in Deliveries, DeliveryStep(d) PROVE idle
    BY <2>2, Zenon DEF DeliveryStep, HookRefused, HookReceived, HookPersists, HookEnqueues,
       HookEnqueueThrows
  <2>3. ASSUME NEW w \in HookWorkers, WorkStep(w) PROVE WorkApplies(w) \/ idle
    BY <2>3, Zenon DEF WorkStep, WorkTakes, WorkReads, WorkMarks, WorkFails
  <2>4. ASSUME NEW c \in CreateRequests, HookJobStalls(c) \/ HookJobRemoved(c) PROVE idle
    BY <2>4 DEF HookJobStalls, HookJobRemoved
  <2>5. idle \/ \E w \in HookWorkers : WorkApplies(w)
    BY <1>4, <2>2, <2>3, <2>4 DEF WebhookStep
  <2> QED
    BY <1>4, <2>1, <2>5 DEF paymentVars
<1>5. CASE ReconciliationStep /\ UNCHANGED <<serviceVars, webhookVars>>
  <2>1. OnlyGrow
    BY <1>5, RecSteps
  <2>2. ASSUME NEW k \in RecWorkers, RecStep(k) PROVE RecApplies(k) \/ idle
    BY <2>2, Zenon DEF RecStep, RecReads, RecRetrieves, RecThrows
  <2>3. ASSUME NEW p \in CreateRequests, RowAges(p) \/ RecJobStalls(p) \/ RecJobRemoved(p)
        PROVE  idle
    BY <2>3 DEF RowAges, RecJobStalls, RecJobRemoved
  <2>4. CronRuns => idle
    BY DEF CronRuns
  <2>5. idle \/ \E k \in RecWorkers : RecApplies(k)
    BY <1>5, <2>2, <2>3, <2>4 DEF ReconciliationStep
  <2> QED
    BY <1>5, <2>1, <2>5 DEF paymentVars
<1>6. CASE Crash
  BY <1>1, <1>6 DEF Crash, PaymentNext
<1>7. CASE UNCHANGED vars
  BY <1>1, <1>7 DEF vars, paymentVars
<1> QED
  BY <1>2, <1>3, <1>4, <1>5, <1>6, <1>7 DEF Next

\* The write of a worker: a status, with its event, on a row that has a charge.
WorkerWrites(p, s, event) ==
  /\ externalId[p] # Null /\ RecordStatus(p, s, event)
  /\ UNCHANGED <<body, rows, externalId, providerError, refundRows, providerVars, serviceVars>>

LEMMA SystemSteps ==
  ASSUME SystemInv, [Next]_vars
  PROVE  \/ [PaymentNext]_paymentVars
         \/ \E p \in rows, s \in PaymentStatus, event \in Event : WorkerWrites(p, s, event)
<1> USE DEF SystemInv, CoreInv
<1>1. ASSUME NEW k \in RecWorkers, RecApplies(k), UNCHANGED serviceVars
      PROVE  \E p \in rows, s \in PaymentStatus, event \in Event : WorkerWrites(p, s, event)
  <2>1. PICK p \in rows : p = kjob[k] /\ externalId[p] # Null
    BY <1>1 DEF RecApplies, RecInv, LinkInv
  <2>2. PICK s \in PaymentStatus : s = kresult[k]
    BY DEF ReconciliationTypeOK
  <2>3. PICK event \in Event : event = [type |-> "reconciliation.updated", to |-> s]
    BY EventsTyped
  <2> QED
    BY <1>1, <2>1, <2>2, <2>3 DEF RecApplies, WorkerWrites
<1>2. ASSUME NEW w \in HookWorkers, WorkApplies(w), UNCHANGED serviceVars
      PROVE  \E p \in rows, s \in PaymentStatus, event \in Event : WorkerWrites(p, s, event)
  <2>1. PICK p \in rows : p = wread[w] /\ externalId[p] # Null
    BY <1>2, StoreAssumption DEF WorkApplies, HookInv, LinkInv
  <2>2. PICK s \in PaymentStatus : s = STATUS_MAP[hookData[wjob[w]]]
    BY <1>2, StatusTables DEF WorkApplies, HookInv
  <2>3. PICK event \in Event : event = [type |-> "webhook", status |-> hookData[wjob[w]]]
    BY <1>2, EventsTyped DEF WorkApplies, HookInv
  <2> QED
    BY <1>2, <2>1, <2>2, <2>3 DEF WorkApplies, WorkerWrites
<1> QED
  BY <1>1, <1>2, SystemWrites

\* Every variable of the composed system stays in its domain.
THEOREM SystemTypeCorrect == Spec => []SystemTypeOK
<1>1. SystemInv => SystemTypeOK
  BY DEF SystemInv, CoreInv, SystemTypeOK
<1> QED
  BY <1>1, SystemHolds, PTL

\* Whichever of the four writers wrote it last, a row claims only what happened to the
\* charge it is linked to.
THEOREM SystemLedgerHolds == Spec => []LedgerNeverAhead
<1>1. SystemInv => LedgerNeverAhead
  BY DEF SystemInv, CoreInv
<1> QED
  BY <1>1, SystemHolds, PTL

\* Nobody but create() touches a row that create() has not settled.
THEOREM SystemUnsettledUntouched == Spec => []UnsettledRowUntouched
<1>1. SystemInv => UnsettledRowUntouched
  BY CoreGivesUnsettled DEF SystemInv
<1> QED
  BY <1>1, SystemHolds, PTL

\* However many deliveries race, one at most is enqueued for a charge.
THEOREM SystemOneDelivery == Spec => []OneDeliveryEnqueues
<1>1. SystemInv => OneDeliveryEnqueues
  BY DEF SystemInv, HookInv
<1> QED
  BY <1>1, SystemHolds, PTL

\* The reconciliation never asks about a row without a charge.
THEOREM SystemReconciledLinked == Spec => []ReconciledRowIsLinked
<1>1. SystemInv => ReconciledRowIsLinked
  BY DEF SystemInv, CoreInv, LinkInv, RecInv, ReconciledRowIsLinked
<1> QED
  BY <1>1, SystemHolds, PTL

-----------------------------------------------------------------------------
\* What clients are promised survives the workers: they change no request, no claim to a
\* key, no charge and no answer.
ServiceInv == ClaimInv /\ GaugeInv /\ FreshInv

LEMMA WorkerKeepsService ==
  ASSUME ServiceInv, NEW p, NEW s, NEW event, WorkerWrites(p, s, event)
  PROVE  ServiceInv' /\ UNCHANGED Idempotent!abstractVars
<1>1. /\ UNCHANGED <<body, rows, charge, sent>>
      /\ UNCHANGED <<pc, answer, pendingGauge>>
  BY DEF WorkerWrites, providerVars, serviceVars
<1>2. ServiceInv'
  BY <1>1 DEF ServiceInv, ClaimInv, GaugeInv, Waiting, FreshInv
<1>3. \A a : OwnerOf(a)' = OwnerOf(a)
  BY <1>1, OwnersStay
<1>4. [a \in Accounts |-> OwnerOf(a)]' = [a \in Accounts |-> OwnerOf(a)]
  BY <1>3
<1>5. [r \in CreateRequests |-> IF pc[r] = "idle" THEN Null ELSE OrgKey(r)]'
        = [r \in CreateRequests |-> IF pc[r] = "idle" THEN Null ELSE OrgKey(r)]
  BY <1>1 DEF OrgKey
<1>6. {c \in CreateRequests : charge[c] # "none"}' = {c \in CreateRequests : charge[c] # "none"}
  BY <1>1
<1> QED
  BY <1>1, <1>2, <1>4, <1>5, <1>6 DEF Idempotent!abstractVars

LEMMA SystemKeepsService ==
  ASSUME SystemInv, ServiceInv, [Next]_vars
  PROVE  ServiceInv' /\ [Idempotent!Next]_(Idempotent!abstractVars)
<1>1. CASE [PaymentNext]_paymentVars
  BY <1>1, StepClaims, StepKeepsGauge, StepKeepsFresh, StepImplements
     DEF SystemInv, CoreInv, ServiceInv
<1>2. ASSUME NEW p, NEW s, NEW event, WorkerWrites(p, s, event)
      PROVE  ServiceInv' /\ [Idempotent!Next]_(Idempotent!abstractVars)
  BY <1>2, WorkerKeepsService
<1> QED
  BY <1>1, <1>2, SystemSteps

LEMMA SystemServiceHolds == Spec => []ServiceInv
<1>1. Init => ServiceInv
  <2>1. PaymentInit => ClaimInv
    BY DEF PaymentInit, ServiceInit, StoreInit, ClaimInv
  <2> QED
    BY <2>1, InitGauge, InitBooks DEF Init, ServiceInv
<1>2. SystemInv /\ ServiceInv /\ [Next]_vars => ServiceInv'
  BY SystemKeepsService
<1> QED
  BY <1>1, <1>2, SystemHolds, PTL DEF Spec

\* With webhooks and reconciliations at work, and any number of crashes, create() is still
\* the abstract idempotent charge.
THEOREM SystemIsIdempotent == Spec => ImplementsIdempotentCharge
<1>1. Init => Idempotent!Init
  BY InitImplements DEF Init
<1>2. SystemInv /\ ServiceInv /\ [Next]_vars => [Idempotent!Next]_(Idempotent!abstractVars)
  BY SystemKeepsService
<1> QED
  BY <1>1, <1>2, SystemHolds, SystemServiceHolds, PTL
     DEF Spec, ImplementsIdempotentCharge, Idempotent!Spec

\* So a key is charged once, all 201 answers to it name one payment, the assertion of
\* refund() never throws after the money went back, and the gauge covers what is in flight.
THEOREM SystemServiceIsSafe ==
  Spec => [](OneChargePerKey /\ SameKeySameAnswer /\ RefundAssertHolds /\ GaugeCoversInFlight)
<1>1. SystemInv => OneChargePerKey /\ SameKeySameAnswer
  BY DEF SystemInv, CoreInv, KeyInv, OneChargePerKey, SameKeySameAnswer
<1>2. SystemInv => RefundAssertHolds
  BY DEF SystemInv, CoreInv, LinkInv, RefundAssertHolds, Refundable, RefundStatus,
         ValidTransition, VALID_TRANSITIONS
<1>3. ServiceInv => GaugeCoversInFlight
  BY DEF ServiceInv, GaugeInv, GaugeCoversInFlight, Waiting
<1> QED
  BY <1>1, <1>2, <1>3, SystemHolds, SystemServiceHolds, PTL

\* Neither a webhook nor the reconciliation revives a payment create() gave up on: both
\* write only to rows with a charge.
THEOREM SystemGivenUpForGood == Spec => ProviderErrorIsFinal
<1>1. SystemInv /\ SystemInv' /\ [Next]_vars =>
        [\A p \in providerError : p \in providerError' /\ status'[p] = "FAILED"]_paymentVars
  <2> SUFFICES ASSUME SystemInv, SystemInv', [Next]_vars, NEW p \in providerError
               PROVE  p \in providerError' /\ status'[p] = "FAILED"
    OBVIOUS
  <2>1. p \in providerError'
    BY SystemWrites DEF OnlyGrow
  <2> QED
    BY <2>1 DEF SystemInv, CoreInv, SettleInv
<1> QED
  BY <1>1, SystemHolds, PTL DEF Spec, ProviderErrorIsFinal

-----------------------------------------------------------------------------
\* Refunds: a webhook says "refunded" and the reconciliation is told so only of a charge on
\* which money went back, and money never comes back.
RecBackInv ==
  \A k \in RecWorkers :
    kpc[k] = "apply" /\ kresult[k] \in {"PARTIALLY_REFUNDED", "REFUNDED"} =>
      GaveBack(externalId[kjob[k]])

SystemBooksInv == BooksInv /\ RecBackInv

LEMMA SystemKeepsRecBack ==
  ASSUME SystemInv, BackInv, RecBackInv, [Next]_vars PROVE RecBackInv'
<1> USE DEF SystemInv, CoreInv, RecBackInv, GaveBack
<1>1. ASSUME NEW k \in RecWorkers, kpc[k] = "apply",
             kresult[k] \in {"PARTIALLY_REFUNDED", "REFUNDED"}
      PROVE  GaveBack(externalId[kjob[k]])'  \/ kjob'[k] # kjob[k]
  <2>1. /\ kjob[k] \in CreateRequests /\ externalId[kjob[k]] # Null
        /\ externalId[kjob[k]] \in CreateRequests /\ refunded[externalId[kjob[k]]] > 0
    BY <1>1 DEF RecInv, PaymentTypeOK, StoreTypeOK
  <2>2. externalId'[kjob[k]] = externalId[kjob[k]] /\ refunded'[externalId[kjob[k]]] > 0
    BY <2>1, SystemWrites DEF OnlyGrow
  <2> QED
    BY <2>2
<1>2. ASSUME NEW k \in RecWorkers,
             kpc'[k] = "apply" => /\ kpc[k] = "apply"
                                  /\ kjob'[k] = kjob[k] /\ kresult'[k] = kresult[k]
      PROVE  kpc'[k] = "apply" /\ kresult'[k] \in {"PARTIALLY_REFUNDED", "REFUNDED"}
               => GaveBack(externalId[kjob[k]])'
  BY <1>1, <1>2
<1>3. ASSUME NEW k \in RecWorkers, RecRetrieves(k),
             kpc'[k] = "apply", kresult'[k] \in {"PARTIALLY_REFUNDED", "REFUNDED"}
      PROVE  GaveBack(externalId[kjob[k]])'
  <2>1. PICK p \in CreateRequests, c \in CreateRequests : p = kjob[k] /\ c = externalId[p]
    BY <1>3 DEF RecRetrieves, RecInv, PaymentTypeOK, StoreTypeOK
  <2>2. /\ kresult'[k] = STATUS_MAP[charge[c]]
        /\ UNCHANGED <<kjob, externalId, refunded>>
    BY <1>3, <2>1 DEF RecRetrieves, storeVars, providerVars, ReconciliationTypeOK
  <2>3. charge[c] # "none"
    BY <1>3, <2>1, StoreAssumption DEF LinkInv
  <2>4. charge[c] = "refunded"
    BY <1>3, <2>2, <2>3 DEF STATUS_MAP, ChargeStatus, PaymentTypeOK, ProviderTypeOK
  <2>5. GaveBack(c)
    BY <2>4 DEF LinkInv, BackInv
  <2> QED
    BY <2>1, <2>2, <2>5
<1>4. CASE UNCHANGED reconciliationVars
  BY <1>2, <1>4 DEF reconciliationVars
<1>5. CASE ReconciliationCrash
  BY <1>5 DEF ReconciliationCrash
<1>6. ASSUME NEW k \in RecWorkers, RecStep(k) PROVE RecBackInv'
  <2>1. \A o \in RecWorkers \ {k} :
          kpc'[o] = kpc[o] /\ kjob'[o] = kjob[o] /\ kresult'[o] = kresult[o]
    BY <1>6 DEF RecStep, RecReads, RecRetrieves, RecApplies, RecThrows, RecEnds,
                ReconciliationTypeOK
  <2>2. RecRetrieves(k) \/ kpc'[k] # "apply"
    BY <1>6 DEF RecStep, RecReads, RecApplies, RecThrows, RecEnds, ReconciliationTypeOK
  <2> QED
    BY <1>2, <1>3, <2>1, <2>2
<1>7. ASSUME CronRuns \/ \E p \in CreateRequests :
                           RowAges(p) \/ RecJobStalls(p) \/ RecJobRemoved(p)
      PROVE  RecBackInv'
  <2>1. UNCHANGED <<kpc, kjob, kresult>>
    BY <1>7 DEF CronRuns, RowAges, RecJobStalls, RecJobRemoved
  <2> QED
    BY <1>2, <2>1
<1> QED
  BY <1>4, <1>5, <1>6, <1>7, SystemWrites DEF ReconciliationStep

\* Of the workers' writes a refund is on the books.
LEMMA WorkerKeepsBooks ==
  ASSUME SystemInv, SystemInv', BooksInv, NEW p \in rows, NEW s \in PaymentStatus, NEW event,
         WorkerWrites(p, s, event),
         s \in {"PARTIALLY_REFUNDED", "REFUNDED"} => GaveBack(externalId[p])
  PROVE  BooksInv'
<1> USE DEF SystemInv, CoreInv, BooksInv
<1>1. /\ UNCHANGED <<body, rows, externalId, charge, history, refunded, refundCalls>>
      /\ UNCHANGED <<refundReply, rpc, refundRows>>
      /\ externalId[p] # Null /\ p \in CreateRequests
      /\ status' = [status EXCEPT ![p] = s]
  BY DEF WorkerWrites, RecordStatus, providerVars, serviceVars, PaymentTypeOK, StoreTypeOK
<1>2. BackInv'
  BY <1>1 DEF BackInv, GaveBack
<1>3. BooksGrow
  BY <1>1 DEF BooksGrow, GaveBack
<1>4. \A o \in CreateRequests \cap rows' :
        status'[o] \in {"PARTIALLY_REFUNDED", "REFUNDED"} =>
          \/ o \in rows /\ status'[o] = status[o]
          \/ Cleared(o)'
  BY <1>1 DEF Cleared, GaveBack, TakenOn, PaymentTypeOK, StoreTypeOK
<1> QED
  BY <1>2, <1>3, <1>4, BooksKept

LEMMA SystemKeepsBooks ==
  ASSUME SystemInv, SystemInv', FreshInv, SystemBooksInv, [Next]_vars PROVE SystemBooksInv'
<1> USE DEF SystemInv, SystemBooksInv
<1>1. RecBackInv'
  BY SystemKeepsRecBack DEF BooksInv
<1>2. CASE [PaymentNext]_paymentVars
  BY <1>1, <1>2, StepKeepsBooks
<1>3. ASSUME NEW k \in RecWorkers, RecApplies(k), UNCHANGED serviceVars PROVE BooksInv'
  <2>1. PICK p \in rows : p = kjob[k] /\ externalId[p] # Null
    BY <1>3 DEF RecApplies, RecInv, CoreInv, LinkInv
  <2>2. PICK s \in PaymentStatus : s = kresult[k]
    BY DEF ReconciliationTypeOK
  <2>3. WorkerWrites(p, s, [type |-> "reconciliation.updated", to |-> s])
    BY <1>3, <2>1, <2>2 DEF RecApplies, WorkerWrites
  <2>4. s \in {"PARTIALLY_REFUNDED", "REFUNDED"} => GaveBack(externalId[p])
    BY <1>3, <2>1, <2>2 DEF RecApplies, RecBackInv
  <2> QED
    BY <2>3, <2>4, WorkerKeepsBooks
<1>4. ASSUME NEW w \in HookWorkers, WorkApplies(w), UNCHANGED serviceVars PROVE BooksInv'
  <2>1. PICK p \in rows, c \in CreateRequests :
          p = wread[w] /\ c = wjob[w] /\ externalId[p] = c /\ hookData[c] \in ChargeStatus
    BY <1>4, StoreAssumption DEF WorkApplies, HookInv, CoreInv, LinkInv
  <2>2. PICK s \in PaymentStatus : s = STATUS_MAP[hookData[c]]
    BY <2>1, StatusTables
  <2>3. WorkerWrites(p, s, [type |-> "webhook", status |-> hookData[c]])
    BY <1>4, <2>1, <2>2, StoreAssumption DEF WorkApplies, WorkerWrites
  <2>4. ASSUME s \in {"PARTIALLY_REFUNDED", "REFUNDED"} PROVE GaveBack(c)
    <3>1. hookData[c] = "refunded"
      BY <2>1, <2>2, <2>4 DEF STATUS_MAP, ChargeStatus
    <3>2. hookData[c] \in Reported(c)
      BY <2>1, <3>1 DEF HookInv
    <3> QED
      BY <3>1, <3>2 DEF Reported, BooksInv, BackInv, GaveBack
  <2> QED
    BY <2>1, <2>3, <2>4, WorkerKeepsBooks
<1> QED
  BY <1>1, <1>2, <1>3, <1>4, SystemWrites

\* Whoever of create(), refund(), a webhook and the reconciliation marked a row refunded:
\* money went back on its charge, or there is the Refund row of a refund of that payment
\* whose call the provider took on.
THEOREM SystemRefundsAccountedFor == Spec => []RefundAccountedFor
<1>1. Init => SystemBooksInv
  <2>1. Init => RecBackInv
    BY DEF Init, ReconciliationInit, RecBackInv
  <2> QED
    BY <2>1, InitBooks DEF Init, SystemBooksInv
<1>2. SystemInv /\ SystemInv' /\ ServiceInv /\ SystemBooksInv /\ [Next]_vars => SystemBooksInv'
  BY SystemKeepsBooks DEF ServiceInv
<1>3. SystemBooksInv => RefundAccountedFor
  BY DEF SystemBooksInv, BooksInv
<1> QED
  BY <1>1, <1>2, <1>3, SystemHolds, SystemServiceHolds, PTL DEF Spec

-----------------------------------------------------------------------------
\* Workers write to rows that have a charge and know nothing of create(): they neither
\* strand a row nor find one.
LEMMA SystemStrands ==
  ASSUME SystemInv, StrandedOnlyByFailure, [Next]_vars
  PROVE  /\ StrandedOnlyByFailure'
         /\ \A p \in CreateRequests : Stranded(p) => Stranded(p)' /\ status'[p] = status[p]
<1>1. CASE [PaymentNext]_paymentVars
  BY <1>1, StepStrands DEF SystemInv
<1>2. ASSUME NEW p, NEW s, NEW event, WorkerWrites(p, s, event)
      PROVE  /\ StrandedOnlyByFailure'
             /\ \A o \in CreateRequests : Stranded(o) => Stranded(o)' /\ status'[o] = status[o]
  <2>1. /\ UNCHANGED <<rows, externalId, providerError, pc>> /\ externalId[p] # Null
        /\ \A o \in CreateRequests : o # p => status'[o] = status[o]
    BY <1>2 DEF WorkerWrites, RecordStatus, serviceVars, SystemInv, CoreInv, PaymentTypeOK,
       StoreTypeOK
  <2> QED
    BY <2>1 DEF StrandedOnlyByFailure, Stranded
<1> QED
  BY <1>1, <1>2, SystemSteps

LEMMA SystemStrandedHolds == Spec => []StrandedOnlyByFailure
<1>1. Init => StrandedOnlyByFailure
  BY InitStrands DEF Init
<1>2. SystemInv /\ StrandedOnlyByFailure /\ [Next]_vars => StrandedOnlyByFailure'
  BY SystemStrands
<1> QED
  BY <1>1, <1>2, SystemHolds, PTL DEF Spec

\* Whatever breaks off and whoever writes, a row is left with neither a charge nor a failure
\* only by a crash or by a database that rejects the write of the catch.
THEOREM SystemStrandsOnlyByFailure == Spec => []StrandedOnlyByFailure
  BY SystemStrandedHolds

\* And no retry of the client, webhook, refund or cron run ever finds such a row again.
THEOREM SystemStrandsForGood == Spec => StrandedForGood
<1>1. SystemInv /\ StrandedOnlyByFailure /\ [Next]_vars =>
        [\A p \in CreateRequests :
           Stranded(p) => Stranded(p)' /\ status'[p] = "PENDING"]_paymentVars
  <2> SUFFICES ASSUME SystemInv, StrandedOnlyByFailure, [Next]_vars,
                      NEW p \in CreateRequests, Stranded(p)
               PROVE  Stranded(p)' /\ status'[p] = "PENDING"
    OBVIOUS
  <2> QED
    BY SystemStrands, StrandedIsPending DEF SystemInv
<1> QED
  BY <1>1, SystemHolds, SystemStrandedHolds, PTL DEF Spec, StrandedForGood
=============================================================================

------------------------------ MODULE Webhooks ------------------------------
(***************************************************************************)
(* The inbound side: WebhooksController.handle stores and enqueues what a  *)
(* provider notifies, WebhookProcessor applies it.  Notifications may come *)
(* late, twice, concurrently and in any order: a handler may be given any  *)
(* status the adapters can report of the charge.                           *)
(***************************************************************************)
EXTENDS PaymentProvider, JobQueue

CONSTANTS Deliveries,   \* POST /webhooks/:providerId calls the provider may make
          HookAttempts, \* attempts of a webhook job (the code says 5)
          HookWorkers,  \* concurrent runs of the processor (the code says 5)
          QueueMayFail  \* Redis may refuse an add

ASSUME WebhookAssumption ==
  /\ HookAttempts \in Nat \ {0}
  /\ HookWorkers \subseteq Workers
  /\ QueueMayFail \in BOOLEAN

VARIABLES
  dpc,      \* where a delivery is
  notice,   \* what it carries
  inbound,  \* WebhookInbound.status of a charge: the table is unique on it
  hookJob,  \* the job webhook:<provider>:<charge>
  hookData, \* the status in the job's event
  wpc,      \* where a run of the processor is
  wjob,     \* the job (charge) it runs
  wread     \* the payment its read found

webhookVars == <<dpc, notice, inbound, hookJob, hookData, wpc, wjob, wread>>

\* An event's status is passed on as the provider wrote it: it may be none of ours.
EventStatus == ChargeStatus \cup {"unrecognised"}

Notice == [charge : CreateRequests, status : EventStatus]

WebhookInit ==
  /\ dpc = [d \in Deliveries |-> "idle"]
  /\ notice = [d \in Deliveries |-> Null]
  /\ inbound = [c \in CreateRequests |-> "absent"]
  /\ hookJob = [c \in CreateRequests |-> NoJob]
  /\ hookData = [c \in CreateRequests |-> "unrecognised"]
  /\ wpc = [w \in HookWorkers |-> "idle"]
  /\ wjob = [w \in HookWorkers |-> Null]
  /\ wread = [w \in HookWorkers |-> Null]

DeliveryGoes(d, there) == dpc' = [dpc EXCEPT ![d] = there]

-----------------------------------------------------------------------------
\* handle(): unknown provider or a signature that does not verify.
HookRefused(d) ==
  /\ dpc[d] = "idle"
  /\ DeliveryGoes(d, "refused")
  /\ UNCHANGED <<notice, inbound, hookJob, hookData, wpc, wjob, wread,
                 storeVars, providerVars>>

\* handle(): the event is verified and looked up by the charge it is about.
HookReceived(d, c, s) ==
  /\ dpc[d] = "idle"
  /\ charge[c] # "none" /\ s \in Reported(c) \cup {"unrecognised"}
  /\ notice' = [notice EXCEPT ![d] = [charge |-> c, status |-> s]]
  /\ DeliveryGoes(d, IF inbound[c] # "absent" THEN "duplicate" ELSE "persist")
  /\ UNCHANGED <<inbound, hookJob, hookData, wpc, wjob, wread, storeVars, providerVars>>

\* Mutant of HookPersists: an upsert instead of an insert.
HookUpserts(d) ==
  /\ dpc[d] = "persist"
  /\ inbound' = [inbound EXCEPT ![notice[d].charge] = "received"]
  /\ DeliveryGoes(d, "enqueue")
  /\ UNCHANGED <<notice, hookJob, hookData, wpc, wjob, wread, storeVars, providerVars>>

\* handle(): the inbound row is inserted, or the unique index rejects it (a 500).
HookPersists(d) ==
  /\ dpc[d] = "persist"
  /\ LET c == notice[d].charge
     IN IF inbound[c] = "absent"
        THEN /\ inbound' = [inbound EXCEPT ![c] = "received"]
             /\ DeliveryGoes(d, "enqueue")
        ELSE DeliveryGoes(d, "failed") /\ UNCHANGED inbound
  /\ UNCHANGED <<notice, hookJob, hookData, wpc, wjob, wread, storeVars, providerVars>>

\* Mutant of HookEnqueues: the delivery is accepted and nothing enqueued.
HookEnqueuesNothing(d) ==
  /\ dpc[d] = "enqueue"
  /\ DeliveryGoes(d, "accepted")
  /\ UNCHANGED <<notice, inbound, hookJob, hookData, wpc, wjob, wread,
                 storeVars, providerVars>>

\* handle(): the job is added, unless one of that id is still kept.
HookEnqueues(d) ==
  /\ dpc[d] = "enqueue"
  /\ LET c == notice[d].charge
     IN /\ hookJob' = [hookJob EXCEPT ![c] = Added(@)]
        /\ hookData' = IF hookJob[c].state = "absent"
                       THEN [hookData EXCEPT ![c] = notice[d].status] ELSE hookData
  /\ DeliveryGoes(d, "accepted")
  /\ UNCHANGED <<notice, inbound, wpc, wjob, wread, storeVars, providerVars>>

\* handle(): Redis refuses the add; the inbound row stays.
HookEnqueueThrows(d) ==
  /\ dpc[d] = "enqueue" /\ QueueMayFail
  /\ DeliveryGoes(d, "failed")
  /\ UNCHANGED <<notice, inbound, hookJob, hookData, wpc, wjob, wread,
                 storeVars, providerVars>>

-----------------------------------------------------------------------------
\* A worker takes the job of charge c.
WorkTakes(w, c) ==
  /\ wpc[w] = "idle" /\ hookJob[c].state = "waiting"
  /\ hookJob' = [hookJob EXCEPT ![c] = Taken(@, w)]
  /\ wpc' = [wpc EXCEPT ![w] = "read"]
  /\ wjob' = [wjob EXCEPT ![w] = c]
  /\ UNCHANGED <<dpc, notice, inbound, hookData, wread, storeVars, providerVars>>

\* Mutant of WorkThrows: an event that cannot be applied is marked processed.
WorkSwallows(w) == wpc' = [wpc EXCEPT ![w] = "mark"] /\ UNCHANGED <<hookJob, wread>>

WorkThrows(w) ==
  /\ hookJob' = [hookJob EXCEPT ![wjob[w]] = Thrown(@, w, HookAttempts)]
  /\ wpc' = [wpc EXCEPT ![w] = "idle"]
  /\ UNCHANGED wread

\* Mutant of LinkedRows: a payment is also found by its own reference.
RowsNamed(c) == {p \in rows : externalId[p] = c \/ p = c}

LinkedRows(c) == {p \in rows : externalId[p] = c}

\* Mutant of WorkReads: a row that has the status already is not skipped.
WorkReadsAlways(w) ==
  LET s == hookData[wjob[w]]
  IN /\ wpc[w] = "read"
     /\ \/ LinkedRows(wjob[w]) = {} /\ WorkThrows(w)
        \/ \E p \in LinkedRows(wjob[w]) :
             \/ /\ s = "unrecognised"
                /\ wpc' = [wpc EXCEPT ![w] = "mark"]
                /\ UNCHANGED <<hookJob, wread>>
             \/ /\ s \in ChargeStatus /\ ValidTransition(status[p], STATUS_MAP[s])
                /\ wpc' = [wpc EXCEPT ![w] = "apply"]
                /\ wread' = [wread EXCEPT ![w] = p]
                /\ UNCHANGED hookJob
     /\ UNCHANGED <<dpc, notice, inbound, hookData, wjob, storeVars, providerVars>>

\* process(): the row is read (any of those linked to the charge) and the event
\* judged against what was read.
WorkReads(w) ==
  LET s == hookData[wjob[w]]
  IN /\ wpc[w] = "read"
     /\ \/ LinkedRows(wjob[w]) = {} /\ WorkThrows(w)
        \/ \E p \in LinkedRows(wjob[w]) :
             \/ /\ s = "unrecognised" \/ (s \in ChargeStatus /\ status[p] = STATUS_MAP[s])
                /\ wpc' = [wpc EXCEPT ![w] = "mark"]
                /\ UNCHANGED <<hookJob, wread>>
             \/ /\ s \in ChargeStatus /\ ~ ValidTransition(status[p], STATUS_MAP[s])
                /\ WorkThrows(w)
             \/ /\ s \in ChargeStatus /\ status[p] # STATUS_MAP[s]
                /\ ValidTransition(status[p], STATUS_MAP[s])
                /\ wpc' = [wpc EXCEPT ![w] = "apply"]
                /\ wread' = [wread EXCEPT ![w] = p]
                /\ UNCHANGED hookJob
     /\ UNCHANGED <<dpc, notice, inbound, hookData, wjob, storeVars, providerVars>>

\* process(): the status is written over the row as it is by now.
WorkApplies(w) ==
  /\ wpc[w] = "apply"
  /\ RecordStatus(wread[w], STATUS_MAP[hookData[wjob[w]]],
                  [type |-> "webhook", status |-> hookData[wjob[w]]])
  /\ wpc' = [wpc EXCEPT ![w] = "mark"]
  /\ UNCHANGED <<body, rows, externalId, providerError, refundRows,
                 dpc, notice, inbound, hookJob, hookData, wjob, wread, providerVars>>

\* markProcessed(), after which the job is complete.
WorkMarks(w) ==
  /\ wpc[w] = "mark"
  /\ inbound' = [inbound EXCEPT ![wjob[w]] = "processed"]
  /\ hookJob' = [hookJob EXCEPT ![wjob[w]] = Completed(@, w)]
  /\ wpc' = [wpc EXCEPT ![w] = "idle"]
  /\ UNCHANGED <<dpc, notice, hookData, wjob, wread, storeVars, providerVars>>

\* A write of the run is rejected by the database.
WorkFails(w) ==
  /\ wpc[w] \in {"read", "apply", "mark"}
  /\ WorkThrows(w)
  /\ UNCHANGED <<dpc, notice, inbound, hookData, wjob, storeVars, providerVars>>

\* BullMQ: the lock of the job expires.
HookJobStalls(c) ==
  /\ MayStall(hookJob[c])
  /\ hookJob' = [hookJob EXCEPT ![c] = Stalled(@)]
  /\ UNCHANGED <<dpc, notice, inbound, hookData, wpc, wjob, wread, storeVars, providerVars>>

\* BullMQ: removeOnComplete / removeOnFail drop an old finished job.
HookJobRemoved(c) ==
  /\ Finished(hookJob[c])
  /\ hookJob' = [hookJob EXCEPT ![c] = NoJob]
  /\ UNCHANGED <<dpc, notice, inbound, hookData, wpc, wjob, wread, storeVars, providerVars>>

\* The part of a process crash that concerns this module.
WebhookCrash ==
  /\ dpc' = [d \in Deliveries |->
               IF dpc[d] \in {"persist", "enqueue"} THEN "lost" ELSE dpc[d]]
  /\ wpc' = [w \in HookWorkers |-> "idle"]
  /\ hookJob' = [c \in CreateRequests |-> Orphaned(hookJob[c])]
  /\ UNCHANGED <<notice, inbound, hookData, wjob, wread>>

DeliveryStep(d) ==
  \/ HookRefused(d)
  \/ \E c \in CreateRequests, s \in EventStatus : HookReceived(d, c, s)
  \/ HookPersists(d) \/ HookEnqueues(d) \/ HookEnqueueThrows(d)

WorkStep(w) ==
  \/ \E c \in CreateRequests : WorkTakes(w, c)
  \/ WorkReads(w) \/ WorkApplies(w) \/ WorkMarks(w) \/ WorkFails(w)

WebhookStep ==
  \/ \E d \in Deliveries : DeliveryStep(d)
  \/ \E w \in HookWorkers : WorkStep(w)
  \/ \E c \in CreateRequests : HookJobStalls(c) \/ HookJobRemoved(c)

WebhookTypeOK ==
  /\ dpc \in [Deliveries -> {"idle", "refused", "duplicate", "persist", "enqueue",
                             "accepted", "failed", "lost"}]
  /\ notice \in [Deliveries -> Notice \cup {Null}]
  /\ inbound \in [CreateRequests -> {"absent", "received", "processed"}]
  /\ hookJob \in [CreateRequests -> Job]
  /\ hookData \in [CreateRequests -> EventStatus]
  /\ wpc \in [HookWorkers -> {"idle", "read", "apply", "mark"}]
  /\ wjob \in [HookWorkers -> CreateRequests \cup {Null}]
  /\ wread \in [HookWorkers -> CreateRequests \cup {Null}]
=============================================================================

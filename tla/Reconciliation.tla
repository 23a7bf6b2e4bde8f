--------------------------- MODULE Reconciliation ---------------------------
(***************************************************************************)
(* ReconciliationService: a cron enqueues the PENDING payments that have   *)
(* grown old, and ReconcileProcessor asks the provider about each of them  *)
(* and writes what it says.                                                *)
(***************************************************************************)
EXTENDS PaymentProvider, JobQueue

CONSTANTS BatchSize,   \* rows one cron run takes (the code says 100)
          RecWorkers,  \* concurrent runs of the processor (the code says 3)
          RecAttempts  \* attempts of a reconciliation job (the code says 3)

ASSUME ReconciliationAssumption ==
  /\ BatchSize \in Nat \ {0} /\ RecAttempts \in Nat \ {0}
  /\ RecWorkers \subseteq Workers

VARIABLES
  aged,    \* rows created more than 30 minutes ago
  recJob,  \* the job reconcile:<payment>
  kpc,     \* where a run of the processor is
  kjob,    \* the payment it reconciles
  kread,   \* the status its read returned
  kresult  \* the status the provider's answer maps to

reconciliationVars == <<aged, recJob, kpc, kjob, kread, kresult>>

ReconciliationInit ==
  /\ aged = {}
  /\ recJob = [p \in CreateRequests |-> NoJob]
  /\ kpc = [k \in RecWorkers |-> "idle"]
  /\ kjob = [k \in RecWorkers |-> Null]
  /\ kread = [k \in RecWorkers |-> "PENDING"]
  /\ kresult = [k \in RecWorkers |-> "PENDING"]

\* Half an hour passes over a row.
RowAges(p) ==
  /\ p \in rows \ aged
  /\ aged' = aged \cup {p}
  /\ UNCHANGED <<recJob, kpc, kjob, kread, kresult, storeVars, providerVars>>

\* Mutant of StalePending: rows that never got an externalId are taken too.
StaleUnlinked == {p \in aged : status[p] = "PENDING"}

StalePending == {p \in aged : status[p] = "PENDING" /\ externalId[p] # Null}

\* schedulePendingReconciliation(): any batch of the stale rows, as nothing orders
\* them; a job that is still kept is not added again. That the read and the addBulk
\* are two calls shows nowhere: a job waits as long as it likes before it is taken,
\* and then reads its row afresh.
CronRuns ==
  /\ StalePending # {}
  /\ \E batch \in SUBSET StalePending :
       /\ \/ Cardinality(batch) = BatchSize
          \/ batch = StalePending /\ Cardinality(batch) < BatchSize
       /\ recJob' = [p \in CreateRequests |->
                       IF p \in batch THEN Added(recJob[p]) ELSE recJob[p]]
  /\ UNCHANGED <<aged, kpc, kjob, kread, kresult, storeVars, providerVars>>

RecEnds(k) ==
  /\ recJob' = [recJob EXCEPT ![kjob[k]] = Completed(@, k)]
  /\ kpc' = [kpc EXCEPT ![k] = "idle"]

\* A worker takes a job; reconcileOne() reads the row and keeps the status it saw. Its
\* early return for a row with no externalId is never taken from the cron
\* (ReconciledRowIsLinked).
RecReads(k, p) ==
  /\ kpc[k] = "idle" /\ recJob[p].state = "waiting"
  /\ kjob' = [kjob EXCEPT ![k] = p]
  /\ recJob' = [recJob EXCEPT ![p] = Taken(@, k)]
  /\ kread' = [kread EXCEPT ![k] = status[p]]
  /\ kpc' = [kpc EXCEPT ![k] = "retrieve"]
  /\ UNCHANGED <<aged, kresult, storeVars, providerVars>>

\* reconcileOne(): the provider answers with the status of the charge at that moment.
RecRetrieves(k) ==
  LET new == STATUS_MAP[charge[externalId[kjob[k]]]]
  IN /\ kpc[k] = "retrieve"
     /\ kresult' = [kresult EXCEPT ![k] = new]
     /\ IF kread[k] = new \/ ~ ValidTransition(kread[k], new)
        THEN RecEnds(k)
        ELSE kpc' = [kpc EXCEPT ![k] = "apply"] /\ UNCHANGED recJob
     /\ UNCHANGED <<aged, kjob, kread, storeVars, providerVars>>

\* reconcileOne(): the result is written over the row as it is by now.
RecApplies(k) ==
  /\ kpc[k] = "apply"
  /\ RecordStatus(kjob[k], kresult[k],
                  [type |-> "reconciliation.updated", to |-> kresult[k]])
  /\ RecEnds(k)
  /\ UNCHANGED <<body, rows, externalId, providerError, refundRows,
                 aged, kjob, kread, kresult, providerVars>>

\* The provider or the database fails: the job is retried.
RecThrows(k) ==
  /\ kpc[k] \in {"retrieve", "apply"}
  /\ recJob' = [recJob EXCEPT ![kjob[k]] = Thrown(@, k, RecAttempts)]
  /\ kpc' = [kpc EXCEPT ![k] = "idle"]
  /\ UNCHANGED <<aged, kjob, kread, kresult, storeVars, providerVars>>

\* BullMQ: the lock of the job expires.
RecJobStalls(p) ==
  /\ MayStall(recJob[p])
  /\ recJob' = [recJob EXCEPT ![p] = Stalled(@)]
  /\ UNCHANGED <<aged, kpc, kjob, kread, kresult, storeVars, providerVars>>

\* BullMQ: removeOnComplete / removeOnFail drop an old finished job.
RecJobRemoved(p) ==
  /\ Finished(recJob[p])
  /\ recJob' = [recJob EXCEPT ![p] = NoJob]
  /\ UNCHANGED <<aged, kpc, kjob, kread, kresult, storeVars, providerVars>>

\* The part of a process crash that concerns this module.
ReconciliationCrash ==
  /\ kpc' = [k \in RecWorkers |-> "idle"]
  /\ recJob' = [p \in CreateRequests |-> Orphaned(recJob[p])]
  /\ UNCHANGED <<aged, kjob, kread, kresult>>

RecStep(k) ==
  \/ \E p \in CreateRequests : RecReads(k, p)
  \/ RecRetrieves(k) \/ RecApplies(k) \/ RecThrows(k)

ReconciliationStep ==
  \/ CronRuns
  \/ \E k \in RecWorkers : RecStep(k)
  \/ \E p \in CreateRequests : RowAges(p) \/ RecJobStalls(p) \/ RecJobRemoved(p)

ReconciliationTypeOK ==
  /\ aged \subseteq CreateRequests
  /\ recJob \in [CreateRequests -> Job]
  /\ kpc \in [RecWorkers -> {"idle", "retrieve", "apply"}]
  /\ kjob \in [RecWorkers -> CreateRequests \cup {Null}]
  /\ kread \in [RecWorkers -> PaymentStatus]
  /\ kresult \in [RecWorkers -> PaymentStatus]
=============================================================================

---------------------------- MODULE PaymentSystem ----------------------------
(***************************************************************************)
(* The payments core, the webhook pipeline and the reconciliation, working *)
(* on the same tables and the same provider in one process.                *)
(***************************************************************************)
EXTENDS PaymentsService, Webhooks, Reconciliation

vars == <<storeVars, providerVars, serviceVars, webhookVars, reconciliationVars>>

Init == PaymentInit /\ WebhookInit /\ ReconciliationInit

Crash == ServiceCrash /\ WebhookCrash /\ ReconciliationCrash

Next ==
  \/ ServiceStep        /\ UNCHANGED <<webhookVars, reconciliationVars>>
  \/ ProviderStep       /\ UNCHANGED <<serviceVars, webhookVars, reconciliationVars>>
  \/ WebhookStep        /\ UNCHANGED <<serviceVars, reconciliationVars>>
  \/ ReconciliationStep /\ UNCHANGED <<serviceVars, webhookVars>>
  \/ Crash

Spec == Init /\ [][Next]_vars

\* The event loop runs what is ready; idle workers take waiting jobs; a lock nobody
\* renews expires; time passes and the cron fires; a provider and a database that are
\* asked again and again by the reconciliation answer at last. Nothing is asked of
\* clients, of what happens to a charge, or of the removal of finished jobs, which
\* only later jobs bring about.
DeliveryProgress(d) == HookPersists(d) \/ HookEnqueues(d) \/ HookEnqueueThrows(d)

FairSpec ==
  /\ Spec
  /\ \A r \in CreateRequests :
       /\ WF_vars(CreateProgress(r) /\ UNCHANGED <<webhookVars, reconciliationVars>>)
       /\ WF_vars(RowAges(r) /\ UNCHANGED <<serviceVars, webhookVars>>)
       /\ WF_vars(HookJobStalls(r) /\ UNCHANGED <<serviceVars, reconciliationVars>>)
       /\ WF_vars(RecJobStalls(r) /\ UNCHANGED <<serviceVars, webhookVars>>)
  /\ \A d \in Deliveries :
       WF_vars(DeliveryProgress(d) /\ UNCHANGED <<serviceVars, reconciliationVars>>)
  /\ \A w \in HookWorkers :
       WF_vars(WorkStep(w) /\ UNCHANGED <<serviceVars, reconciliationVars>>)
  /\ \A k \in RecWorkers :
       /\ WF_vars(RecStep(k) /\ UNCHANGED <<serviceVars, webhookVars>>)
       /\ SF_vars(RecRetrieves(k) /\ UNCHANGED <<serviceVars, webhookVars>>)
       /\ SF_vars(RecApplies(k) /\ UNCHANGED <<serviceVars, webhookVars>>)
  /\ WF_vars(CronRuns /\ UNCHANGED <<serviceVars, webhookVars>>)

-----------------------------------------------------------------------------
\* Properties.

\* Every variable of the composed system stays in its domain.
SystemTypeOK == PaymentTypeOK /\ WebhookTypeOK /\ ReconciliationTypeOK

\* However many deliveries of a provider race, one at most gets past the
\* deduplication of handle() for a charge.
OneDeliveryEnqueues ==
  \A d, e \in Deliveries :
    /\ dpc[d] \in {"enqueue", "accepted"} /\ dpc[e] \in {"enqueue", "accepted"}
    /\ notice[d].charge = notice[e].charge
    => d = e

\* The status of row p that a reader of its log takes event e for.
Tells(p, e) ==
  CASE e.type = "payment.created"        -> "PENDING"
    [] e.type = "provider"               -> MapProviderStatus(e.status)
    [] e.type = "webhook"                -> STATUS_MAP[e.status]
    [] e.type = "reconciliation.updated" -> e.to
    [] e.type = "payment.refunded"       -> RefundStatus([payment |-> p, amount |-> e.amount])

\* A webhook is marked processed only after the log of some payment linked to its charge
\* tells of the status that the webhook reported, from whomever it came, with a crash,
\* a rejected write or an overlapping run at any point between the two.
ProcessedMeansRecorded ==
  \A c \in CreateRequests :
    inbound[c] = "processed" /\ hookData[c] \in ChargeStatus =>
      \E p \in LinkedRows(c) :
        \E i \in DOMAIN eventLog[p] : Tells(p, eventLog[p][i]) = STATUS_MAP[hookData[c]]

\* Through retries, redeliveries and crashes a webhook is written to a row again only
\* after some other handler has overwritten it: never twice in a row.
WebhookNotRewritten ==
  \A p \in rows : \A j \in DOMAIN eventLog[p] :
    j > 1 /\ eventLog[p][j].type = "webhook" => eventLog[p][j - 1].type # "webhook"

\* A run of the reconciliation never has a row without a charge to ask about.
ReconciledRowIsLinked ==
  \A k \in RecWorkers : kpc[k] # "idle" =>
    kjob[k] \in rows /\ externalId[kjob[k]] # Null /\ charge[externalId[kjob[k]]] # "none"

\* What handle() stored is eventually marked processed, or its job has used up its attempts,
\* unless the process died or Redis refused the job before it was enqueued: then nobody
\* applies it. A crash at any later point loses nothing.
InboundHandled ==
  \A d \in Deliveries, c \in CreateRequests :
    dpc[d] = "enqueue" /\ notice[d].charge = c
      ~> \/ inbound[c] = "processed" \/ hookJob[c].state = "failed"
         \/ dpc[d] \in {"lost", "failed"}

-----------------------------------------------------------------------------
\* Statements of the repository's tests, logs and runbooks that the code does not keep.

\* "Webhook duplicado ignorado": a delivery dropped as a duplicate tells nothing that
\* an earlier delivery has not told.
DuplicateTellsNothingNew ==
  \A d \in Deliveries : dpc[d] = "duplicate" =>
    \E e \in Deliveries :
      dpc[e] \in {"enqueue", "accepted", "lost"} /\ notice[e] = notice[d]

\* "Los pagos PENDING > 30 min se reconcilian automaticamente": an old PENDING payment
\* whose charge is decided at the provider does not stay PENDING.
OldPendingReconciled ==
  \A p \in CreateRequests :
    p \in aged /\ status[p] = "PENDING" /\ charge[p] \in {"captured", "cancelled"}
      ~> status[p] # "PENDING" \/ charge[p] = "refunded"

\* "Cada 5 minutos busca pagos PENDING > 30 min y los encola para reconciliar": the cron
\* enqueues every old PENDING payment the provider has a charge for sooner or later, unless
\* it is decided first.
OldPendingQueued ==
  \A p \in CreateRequests :
    p \in aged /\ status[p] = "PENDING" /\ charge[p] # "none"
      ~> recJob[p].state # "absent" \/ status[p] # "PENDING"
=============================================================================

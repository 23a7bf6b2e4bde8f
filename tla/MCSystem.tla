------------------------------ MODULE MCSystem ------------------------------
(* PaymentSystem on small instances. *)
EXTENDS PaymentSystem, TLC

CONSTANTS r1, r2, q1, q2, d1, d2, d3, w1, w2

Valid(org) ==
  [org |-> org, key |-> "k", amount |-> 2, method |-> "card", routable |-> TRUE]

OneBody == {Valid("acme")}

\* A creation that goes through, and those that end before they insert anything.
EarlyExits ==
  OneBody \cup
  { [Valid("acme") EXCEPT !.key = ""], [Valid("acme") EXCEPT !.routable = FALSE],
    [Valid("acme") EXCEPT !.method = "CARD"] }

Symmetric == Permutations(CreateRequests) \cup Permutations(RefundRequests)
               \cup Permutations(Deliveries)

\* States that differ only in what nobody reads again are one: how a delivery ended, or
\* will end when every charge has its inbound row, the notice of one that is over, what a
\* run remembers when it is idle or has done with it, the answer to a createCharge that
\* nobody waits for, the age of a decided row (DecidedForGood), and the record of a
\* finished webhook job that none will follow.
Over(d) ==
  \/ dpc[d] \in {"refused", "duplicate", "failed", "lost"}
  \/ dpc[d] = "idle" /\ \A c \in CreateRequests : inbound[c] # "absent"

LiveJobs(jobs) ==
  [c \in DOMAIN jobs |-> IF Finished(jobs[c]) THEN [NoJob EXCEPT !.state = jobs[c].state]
                                               ELSE jobs[c]]

\* No job of charge c will be added any more.
NoMoreHooks(c) == inbound[c] # "absent" /\ \A d \in Deliveries : dpc[d] # "enqueue"

LiveHooks ==
  [c \in CreateRequests |-> IF Finished(hookJob[c]) /\ NoMoreHooks(c) THEN NoJob
                            ELSE LiveJobs(hookJob)[c]]

OnlyIf(live, f) == [x \in DOMAIN f |-> IF live[x] THEN f[x] ELSE Null]

Live ==
  << body, rows, status, externalId, providerError, eventLog, refundRows,
     charge, history, sent, refunded, refundCalls, refundReply, refundsMade,
     OnlyIf([r \in CreateRequests |-> pc[r] = "await"], replyCharge),
     OnlyIf([r \in CreateRequests |-> pc[r] = "await"], replyStatus),
     serviceVars,
     [d \in Deliveries |-> IF Over(d) THEN "over" ELSE dpc[d]],
     OnlyIf([d \in Deliveries |-> dpc[d] \in {"persist", "enqueue"}], notice),
     inbound, LiveHooks, hookData, wpc,
     OnlyIf([w \in HookWorkers |-> wpc[w] # "idle"], wjob),
     OnlyIf([w \in HookWorkers |-> wpc[w] = "apply"], wread),
     {p \in aged : status[p] = "PENDING"}, LiveJobs(recJob), kpc,
     OnlyIf([k \in RecWorkers |-> kpc[k] # "idle"], kjob),
     OnlyIf([k \in RecWorkers |-> kpc[k] # "idle"], kread),
     OnlyIf([k \in RecWorkers |-> kpc[k] = "apply"], kresult) >>
=============================================================================

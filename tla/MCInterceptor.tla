--------------------------- MODULE MCInterceptor ---------------------------
(* PaymentsService.create, with and without the interceptor in front of it. *)
EXTENDS MCPayments, IdempotencyInterceptor

\* Creations race for one key; behind the interceptor one of them may be by the other
\* organization or have another body.
MCInit ==
  /\ PaymentInit /\ InterceptorInit
  /\ Cardinality({r \in CreateRequests : body[r] # Valid("acme", "k")}) <=
       IF installed THEN 1 ELSE 0

MCSpec == MCInit /\ [][GuardedNext]_guardedVars
=============================================================================

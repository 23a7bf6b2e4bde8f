----------------------- MODULE IdempotencyInterceptor -----------------------
(***************************************************************************)
(* The interceptor that keeps the answers to creations in Redis for a day, *)
(* in front of PaymentsService.create.  The application registers it       *)
(* nowhere: `installed` says whether it is there, and without it the       *)
(* module is PaymentsService on its own.                                   *)
(***************************************************************************)
EXTENDS PaymentsService

VARIABLES
  installed, \* the interceptor is registered
  front,     \* where a POST /payments is, before create() and instead of it
  entry,     \* what Redis holds under idemp:{tenant}:{key}, Null for nothing
  storing,   \* the requests whose setex is on its way to Redis
  heard      \* the response a 201 carried, Null before

interceptorVars == <<installed, front, entry, storing, heard>>
guardedVars == <<paymentVars, interceptorVars>>

RedisKeys == {<<b.org, b.key>> : b \in Bodies}

\* Mutant of RedisKey: the tenant is left out, so that all share the first one's keys.
KeyOfNoTenant(r) ==
  CHOOSE k \in RedisKeys : k[2] = body[r].key

\* idemp:{tenant}:{key}. TenantGuard has set the tenant of every caller.
RedisKey(r) == OrgKey(r)

\* The hash of the body tells bodies apart, not who sends them.
BodyHash(r) == <<body[r].amount, body[r].method, body[r].routable>>

Response == [payment : CreateRequests, status : PaymentStatus]
Entry == [hash : {<<b.amount, b.method, b.routable>> : b \in Bodies}, response : Response]

\* Where a request is when it arrives.
Arrival == IF installed THEN "idle" ELSE "handler"

InterceptorInit ==
  /\ installed \in BOOLEAN
  /\ front = [r \in CreateRequests |-> Arrival]
  /\ entry = [k \in RedisKeys |-> Null]
  /\ storing = {}
  /\ heard = [r \in CreateRequests |-> Null]

FrontGoes(r, there) ==
  /\ front[r] = "idle"
  /\ front' = [front EXCEPT ![r] = there]
  /\ UNCHANGED <<installed, entry, storing, paymentVars>>

-----------------------------------------------------------------------------
\* intercept(): no key to look up, or nothing under it: create() is called.
GetMisses(r) ==
  /\ body[r].key = "" \/ entry[RedisKey(r)] = Null
  /\ FrontGoes(r, "handler")
  /\ UNCHANGED heard

\* intercept(): the key was answered before, to this body: the same response again.
GetReplays(r) ==
  LET known == entry[RedisKey(r)]
  IN /\ body[r].key # "" /\ known # Null
     /\ known.hash = BodyHash(r)
     /\ FrontGoes(r, "replayed")
     /\ heard' = [heard EXCEPT ![r] = known.response]

\* intercept(): the key was answered before, to another body: 409.
GetConflicts(r) ==
  LET known == entry[RedisKey(r)]
  IN /\ body[r].key # "" /\ known # Null
     /\ known.hash # BodyHash(r)
     /\ FrontGoes(r, "conflict")
     /\ UNCHANGED heard

\* intercept(): Redis does not answer, and neither does create().
GetThrows(r) ==
  /\ body[r].key # ""
  /\ FrontGoes(r, "threw")
  /\ UNCHANGED heard

\* create() runs a step. tap() sees only what it returns, and sends that to Redis
\* without holding the answer back.
Handler(r) ==
  /\ front[r] = "handler"
  /\ CreateStep(r)
  /\ \/ /\ pc'[r] # "answered"
        /\ UNCHANGED <<heard, storing>>
     \/ /\ pc'[r] = "answered"
        /\ heard' = [heard EXCEPT ![r] =
                       [payment |-> answer'[r], status |-> status'[answer'[r]]]]
        /\ storing' = IF installed THEN storing \cup {r} ELSE storing
  /\ UNCHANGED <<installed, front, entry>>

\* setex arrives, whenever it does, and overwrites what is there.
EntryStored(r) ==
  /\ r \in storing
  /\ storing' = storing \ {r}
  /\ entry' = [entry EXCEPT ![RedisKey(r)] = [hash |-> BodyHash(r), response |-> heard[r]]]
  /\ UNCHANGED <<installed, front, heard, paymentVars>>

\* A day has passed, or Redis has lost the entry.
EntryExpires(k) ==
  /\ entry[k] # Null
  /\ entry' = [entry EXCEPT ![k] = Null]
  /\ UNCHANGED <<installed, front, storing, heard, paymentVars>>

\* The process dies, also of a setex that is rejected with nobody to catch it: what was
\* on its way is lost. A request before its first write has left no trace and may as
\* well come later.
GuardedCrash ==
  /\ ServiceCrash
  /\ front' = [r \in CreateRequests |->
                 IF front[r] = "handler" /\ pc[r] = "idle" THEN Arrival ELSE front[r]]
  /\ storing' = {}
  /\ UNCHANGED <<installed, entry, heard>>

GuardedNext ==
  \/ \E r \in CreateRequests :
       \/ GetMisses(r) \/ GetReplays(r) \/ GetConflicts(r) \/ GetThrows(r)
       \/ Handler(r) \/ EntryStored(r)
  \/ \E k \in RedisKeys : EntryExpires(k)
  \/ ProviderStep /\ UNCHANGED <<serviceVars, interceptorVars>>
  \/ GuardedCrash

\* Creations alone: the clients of refund() send no key.
GuardedSpec == PaymentInit /\ InterceptorInit /\ [][GuardedNext]_guardedVars

-----------------------------------------------------------------------------
\* Properties.

\* Every variable of the interceptor stays in its domain.
InterceptorTypeOK ==
  /\ installed \in BOOLEAN
  /\ front \in [CreateRequests -> {"idle", "handler", "replayed", "conflict", "threw"}]
  /\ entry \in [RedisKeys -> Entry \cup {Null}]
  /\ storing \subseteq CreateRequests
  /\ heard \in [CreateRequests -> Response \cup {Null}]

\* The requests that create() has answered.
Executed == {r \in CreateRequests : pc[r] = "answered"}

\* The interceptor answers nothing of its own: a replay is what create() once answered
\* to the same key, organization and body, and a 409 goes only to a body that differs
\* from one which create() answered under that key and organization.
ReplyWasEarned ==
  \A r \in CreateRequests :
    /\ front[r] = "replayed" =>
         \E o \in Executed : /\ OrgKey(o) = OrgKey(r) /\ body[o] = body[r]
                             /\ heard[o] = heard[r]
    /\ front[r] = "conflict" =>
         \E o \in Executed : OrgKey(o) = OrgKey(r) /\ body[o] # body[r]

\* What clients hear, from create() or out of Redis, is still one behaviour of
\* IdempotentCharge: Redis never names another payment for a key than the tables do,
\* however late an entry is stored, lost or read.
Guarded == INSTANCE IdempotentCharge WITH
  Requests <- CreateRequests,
  None     <- Null,
  wants    <- [r \in CreateRequests |->
                 IF pc[r] = "idle" /\ front[r] # "replayed" THEN Null ELSE OrgKey(r)],
  owner    <- [a \in Accounts |-> OwnerOf(a)],
  charged  <- {c \in CreateRequests : charge[c] # "none"},
  told     <- [r \in CreateRequests |-> IF heard[r] = Null THEN Null ELSE heard[r].payment]

RepliesImplementIdempotentCharge == Guarded!Spec
=============================================================================

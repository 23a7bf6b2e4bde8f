------------------------------ MODULE JobQueue ------------------------------
(***************************************************************************)
(* One job of a BullMQ queue, as the code of src/ relies on it: at most    *)
(* one job per jobId while the record is kept, a lock held by the worker   *)
(* that took it, retries up to the attempts of the job, redelivery of a    *)
(* job whose lock expired, and removal of old finished jobs.  Pure         *)
(* operators on a job record; the queues are functions from jobId to it.   *)
(***************************************************************************)
EXTENDS Naturals

CONSTANTS Workers,     \* the concurrent runs of the processors
          NoWorker,    \* the holder of a job nobody has locked
          LocksExpire  \* a lock may expire while its run is still going

ASSUME QueueAssumption == NoWorker \notin Workers /\ LocksExpire \in BOOLEAN

JobState == {"absent", "waiting", "active", "completed", "failed"}

Job == [ state    : JobState,
         attempts : Nat,                      \* runs that threw
         stalls   : Nat,                      \* locks that expired
         holder   : Workers \cup {NoWorker} ] \* who has the lock

NoJob == [state |-> "absent", attempts |-> 0, stalls |-> 0, holder |-> NoWorker]

\* queue.add / addBulk with a jobId: ignored while any record of that id is kept.
Added(j) == IF j.state = "absent" THEN [NoJob EXCEPT !.state = "waiting"] ELSE j

Taken(j, w) == [j EXCEPT !.state = "active", !.holder = w]

\* A run ends: only the holder of the lock may move the job.
Completed(j, w) ==
  IF j.holder = w THEN [j EXCEPT !.state = "completed", !.holder = NoWorker] ELSE j

Thrown(j, w, maxAttempts) ==
  IF j.holder # w THEN j
  ELSE [j EXCEPT !.attempts = @ + 1,
                 !.holder   = NoWorker,
                 !.state    = IF j.attempts + 1 < maxAttempts
                              THEN "waiting" ELSE "failed"]

\* The lock of an active job expires: its process died, or its event loop was blocked
\* for too long, and then its run is still going.
MayStall(j) == j.state = "active" /\ (j.holder = NoWorker \/ LocksExpire)

\* Redelivered once, failed the second time (maxStalledCount is left at its default, 1).
Stalled(j) ==
  [j EXCEPT !.stalls = @ + 1,
            !.holder = NoWorker,
            !.state  = IF j.stalls = 0 THEN "waiting" ELSE "failed"]

\* The process died: nobody holds the lock any more.
Orphaned(j) == [j EXCEPT !.holder = NoWorker]

Finished(j) == j.state \in {"completed", "failed"}
=============================================================================

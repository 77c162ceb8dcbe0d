--------------------------- MODULE EventPipeline ---------------------------
(***************************************************************************)
(* The way of a billing event through the orchestrator: the webhook        *)
(* request that claims the row in processed_events and adds the Bull job,  *)
(* the worker that runs the job and reports on the row, and the operator's *)
(* manual retry and purge.  Every await of the code is a step boundary, so *)
(* requests, worker runs and the crash of the (single) process interleave  *)
(* between any two database or Redis calls.                                *)
(***************************************************************************)
EXTENDS Naturals, FiniteSets

CONSTANTS
  Events,       \* the eventIds the billing system sends
  Requests,     \* concurrent HTTP requests (webhook deliveries, admin retries)
  Slots,        \* jobs the worker runs at once
  MaxAttempts,  \* attempts of a job (3 in queue.service.ts)
  MaxStalled,   \* Bull's maxStalledCount, its default 1
  MaxRetries,   \* bound: manual retry jobs per event
  MaxCrashes,   \* bound: crashes of the process
  Lapsing       \* bound: the jobs whose locks may expire under a live run

ASSUME PipelineAssumption ==
  /\ MaxAttempts \in Nat \ {0}
  /\ MaxStalled \in Nat
  /\ MaxRetries \in Nat
  /\ MaxCrashes \in Nat

VARIABLES
  row,       \* processed_events: the event's status, "none" without a row
  job,       \* Bull: the state of each job
  attempts,  \* Bull: attemptsMade of each job
  stalls,    \* Bull: stalledCounter of each job
  lock,      \* Bull: the active jobs whose lock has not expired
  slot,      \* what each worker slot is doing
  req,       \* what each HTTP request is doing
  crashes,   \* crashes so far
  acked,     \* history: events some delivery was answered queued=true
  handled,   \* history: events whose handler has run to its end
  starts,    \* history: how often each job has been started
  lapsed     \* history: jobs whose lock expired under a live run

bull == <<job, attempts, stalls, lock>>
history == <<acked, handled, starts, lapsed>>
vars == <<row, bull, slot, req, crashes, history>>

(* Job <<e, 0>> is the webhook's, with jobId = eventId; <<e, k>> is the    *)
(* k-th manual retry, with jobId manual-retry:eventId:now.                 *)
Jobs == Events \X (0 .. MaxRetries)

RowStatus == {"received", "queued", "processing", "completed", "failed"}
JobState == {"none", "waiting", "active", "delayed", "completed", "failed"}
SlotPc == {"idle", "taken", "handling", "handled", "returned", "catching",
           "thrown"}
ReqPc == {"idle", "claimed", "enqueued", "retrying", "requeued"}

Idle == [pc |-> "idle"]
(* A run keeps the attempts it read with the job: made.                    *)
Run(pc, j) == [pc |-> pc, job |-> j, made |-> attempts[j]]
Call(pc, e) == [pc |-> pc, ev |-> e]

TypeOK ==
  /\ row \in [Events -> RowStatus \cup {"none"}]
  /\ job \in [Jobs -> JobState]
  /\ attempts \in [Jobs -> Nat]
  /\ stalls \in [Jobs -> Nat]
  /\ lock \subseteq Jobs
  /\ slot \in [Slots -> {Idle} \cup [pc : SlotPc \ {"idle"}, job : Jobs, made : Nat]]
  /\ req \in [Requests -> {Idle} \cup [pc : ReqPc \ {"idle"}, ev : Events]]
  /\ crashes \in 0 .. MaxCrashes
  /\ acked \subseteq Events
  /\ handled \subseteq Events
  /\ starts \in [Jobs -> Nat]
  /\ lapsed \subseteq Jobs

Init ==
  /\ row = [e \in Events |-> "none"]
  /\ job = [j \in Jobs |-> "none"]
  /\ attempts = [j \in Jobs |-> 0]
  /\ stalls = [j \in Jobs |-> 0]
  /\ lock = {}
  /\ slot = [s \in Slots |-> Idle]
  /\ req = [r \in Requests |-> Idle]
  /\ crashes = 0
  /\ acked = {}
  /\ handled = {}
  /\ starts = [j \in Jobs |-> 0]
  /\ lapsed = {}

(* markStatus: an UPDATE by eventId, with no condition on the old status;  *)
(* it touches nothing when the row has been purged.                        *)
MarkStatus(e, status) ==
  row' = IF row[e] = "none" THEN row ELSE [row EXCEPT ![e] = status]

Goto(s, pc) == slot' = [slot EXCEPT ![s].pc = pc]

(* Bull's scripts move a job out of the active list only with its lock,    *)
(* and delete the lock with it.                                            *)
Unlock(j, state) ==
  /\ job' = [job EXCEPT ![j] = state]
  /\ lock' = lock \ {j}
-----------------------------------------------------------------------------
(* Faulty variants of definitions below.  Nothing here uses them: put in   *)
(* the place of the definition each names, they show that a property       *)
(* notices the mistake.                                                    *)

(* MarkQueued without the queue.add before it. *)
MarkQueuedUnadded(r) ==
  /\ req[r].pc \in {"claimed", "enqueued"}
  /\ MarkStatus(req[r].ev, "queued")
  /\ acked' = acked \cup {req[r].ev}
  /\ req' = [req EXCEPT ![r] = Idle]
  /\ UNCHANGED <<bull, slot, crashes, handled, starts, lapsed>>

(* RetryCheck that accepts any row, as if only failed ones were listed. *)
RetryCheckAnyRow(r, e) ==
  /\ req[r] = Idle
  /\ row[e] # "none"
  /\ req' = [req EXCEPT ![r] = Call("retrying", e)]
  /\ UNCHANGED <<row, bull, slot, crashes, history>>

(* MarkCompleted that does not await the handler. *)
MarkCompletedUnawaited(s) ==
  /\ slot[s].pc = "handling"
  /\ MarkStatus(slot[s].job[1], "completed")
  /\ Goto(s, "returned")
  /\ UNCHANGED <<bull, req, crashes, history>>

(* MarkFailed that writes a job state of Bull's instead of a row status. *)
MarkFailedDelayed(s) ==
  /\ slot[s].pc = "catching"
  /\ MarkStatus(slot[s].job[1], "delayed")
  /\ Goto(s, "thrown")
  /\ UNCHANGED <<bull, req, crashes, history>>

(* Fail with one attempt too many. *)
FailOffByOne(s) ==
  LET j == slot[s].job
  IN  /\ slot[s].pc = "thrown"
      /\ attempts' = [attempts EXCEPT ![j] = slot[s].made + 1]
      /\ IF j \in lock
         THEN Unlock(j, IF slot[s].made + 1 <= MaxAttempts
                        THEN "delayed" ELSE "failed")
         ELSE UNCHANGED <<job, lock>>
      /\ slot' = [slot EXCEPT ![s] = Idle]
      /\ UNCHANGED <<row, stalls, req, crashes, history>>

(* Add that revives a finished job of the same jobId. *)
AddRevives(j) ==
  job' = IF job[j] \in {"none", "completed"}
         THEN [job EXCEPT ![j] = "waiting"] ELSE job

(* Orphan that does not look at the job's lock. *)
OrphanAnyActive(j) == job[j] = "active"

(* Orphan that overlooks jobs which never stalled before. *)
OrphanOnlyAgain(j) == job[j] = "active" /\ j \notin lock /\ stalls[j] > 0
-----------------------------------------------------------------------------
(* queue.add: Bull ignores a jobId it already knows, in whatever state.    *)
Add(j) ==
  job' = IF job[j] = "none" THEN [job EXCEPT ![j] = "waiting"] ELSE job
-----------------------------------------------------------------------------
(* HTTP requests                                                           *)

(* claim: INSERT of a "received" row.  A unique violation (there is a row) *)
(* ends the request with queued=false and changes nothing.                 *)
Claim(r, e) ==
  /\ req[r] = Idle
  /\ row[e] = "none"
  /\ row' = [row EXCEPT ![e] = "received"]
  /\ req' = [req EXCEPT ![r] = Call("claimed", e)]
  /\ UNCHANGED <<bull, slot, crashes, history>>

Enqueue(r) ==
  /\ req[r].pc = "claimed"
  /\ Add(<<req[r].ev, 0>>)
  /\ req' = [req EXCEPT ![r].pc = "enqueued"]
  /\ UNCHANGED <<row, attempts, stalls, lock, slot, crashes, history>>

MarkQueued(r) ==
  /\ req[r].pc = "enqueued"
  /\ MarkStatus(req[r].ev, "queued")
  /\ acked' = acked \cup {req[r].ev}
  /\ req' = [req EXCEPT ![r] = Idle]
  /\ UNCHANGED <<bull, slot, crashes, handled, starts, lapsed>>

(* POST processed-events/:id/retry reads the row before it adds the job.   *)
RetryCheck(r, e) ==
  /\ req[r] = Idle
  /\ row[e] = "failed"
  /\ req' = [req EXCEPT ![r] = Call("retrying", e)]
  /\ UNCHANGED <<row, bull, slot, crashes, history>>

(* The jobId carries the millisecond: it is new, or that of a retry added  *)
(* in the same millisecond, whose job is still waiting.                    *)
RetryEnqueue(r) ==
  /\ req[r].pc = "retrying"
  /\ \E k \in 1 .. MaxRetries :
       /\ job[<<req[r].ev, k>>] \in {"none", "waiting"}
       /\ \A i \in 1 .. (k - 1) : job[<<req[r].ev, i>>] # "none"
       /\ Add(<<req[r].ev, k>>)
  /\ req' = [req EXCEPT ![r].pc = "requeued"]
  /\ UNCHANGED <<row, attempts, stalls, lock, slot, crashes, history>>

RetryMark(r) ==
  /\ req[r].pc = "requeued"
  /\ MarkStatus(req[r].ev, "queued")
  /\ req' = [req EXCEPT ![r] = Idle]
  /\ UNCHANGED <<bull, slot, crashes, history>>

(* Redis or Postgres refuses the request's next call: the exception leaves *)
(* the handler, nothing done so far is undone.                             *)
RequestFails(r) ==
  /\ req[r] # Idle
  /\ req' = [req EXCEPT ![r] = Idle]
  /\ UNCHANGED <<row, bull, slot, crashes, history>>

(* POST processed-events/purge deletes old rows of the chosen statuses.    *)
(* A row counts as old only if it is a day old at least; the delivery that *)
(* created it has been answered by then (jobs and retries may be open).    *)
PurgeChoice == {{"completed"}, {"failed"}, {"completed", "failed"}}

InFlight(e) ==
  \E r \in Requests : req[r].pc \in {"claimed", "enqueued"} /\ req[r].ev = e

Purge(statuses, old) ==
  LET gone == {e \in old : row[e] \in statuses}
  IN  /\ gone # {}
      /\ \A e \in old : ~ InFlight(e)
      /\ row' = [e \in Events |-> IF e \in gone THEN "none" ELSE row[e]]
      /\ UNCHANGED <<bull, slot, req, crashes, history>>
-----------------------------------------------------------------------------
(* The worker: handleBillingEvent in billing.worker.ts                     *)

Take(s, j) ==
  /\ slot[s] = Idle
  /\ job[j] = "waiting"
  /\ job' = [job EXCEPT ![j] = "active"]
  /\ lock' = lock \cup {j}
  /\ slot' = [slot EXCEPT ![s] = Run("taken", j)]
  /\ starts' = [starts EXCEPT ![j] = @ + 1]
  /\ UNCHANGED <<row, attempts, stalls, req, crashes, acked, handled, lapsed>>

MarkProcessing(s) ==
  /\ slot[s].pc = "taken"
  /\ MarkStatus(slot[s].job[1], "processing")
  /\ Goto(s, "handling")
  /\ UNCHANGED <<bull, req, crashes, history>>

Handle(s) ==
  /\ slot[s].pc = "handling"
  /\ handled' = handled \cup {slot[s].job[1]}
  /\ Goto(s, "handled")
  /\ UNCHANGED <<row, bull, req, crashes, acked, starts, lapsed>>

MarkCompleted(s) ==
  /\ slot[s].pc = "handled"
  /\ MarkStatus(slot[s].job[1], "completed")
  /\ Goto(s, "returned")
  /\ UNCHANGED <<bull, req, crashes, history>>

(* Any of the three awaited calls of the try block may throw. *)
Throw(s) ==
  /\ slot[s].pc \in {"taken", "handling", "handled"}
  /\ Goto(s, "catching")
  /\ UNCHANGED <<row, bull, req, crashes, history>>

(* The catch block; its own UPDATE may throw too, which leaves the row.    *)
MarkFailed(s) ==
  /\ slot[s].pc = "catching"
  /\ \/ MarkStatus(slot[s].job[1], "failed")
     \/ UNCHANGED row
  /\ Goto(s, "thrown")
  /\ UNCHANGED <<bull, req, crashes, history>>
-----------------------------------------------------------------------------
(* Bull                                                                    *)

(* moveToCompleted after the processor returned.  A run whose job has no   *)
(* lock gets an error for it ("Missing lock"), which ends the run or is    *)
(* handled like a throw of the processor.  The token of a lock is the      *)
(* queue instance's: of two runs of a job, the first to end uses the lock. *)
Complete(s) ==
  LET j == slot[s].job
  IN  /\ slot[s].pc = "returned"
      /\ \/ j \in lock /\ Unlock(j, "completed") /\ slot' = [slot EXCEPT ![s] = Idle]
         \/ /\ j \notin lock
            /\ slot' = [slot EXCEPT ![s] = Idle] \/ Goto(s, "thrown")
            /\ UNCHANGED <<job, lock>>
      /\ UNCHANGED <<row, attempts, stalls, req, crashes, history>>

(* moveToFailed after it threw: another attempt after the backoff, or the  *)
(* end of the job.  The attempts are those the run was taken with plus one,*)
(* and they are saved also when the lock is missing.                       *)
Fail(s) ==
  LET j == slot[s].job
  IN  /\ slot[s].pc = "thrown"
      /\ attempts' = [attempts EXCEPT ![j] = slot[s].made + 1]
      /\ IF j \in lock
         THEN Unlock(j, IF slot[s].made + 1 < MaxAttempts
                        THEN "delayed" ELSE "failed")
         ELSE UNCHANGED <<job, lock>>
      /\ slot' = [slot EXCEPT ![s] = Idle]
      /\ UNCHANGED <<row, stalls, req, crashes, history>>

Promote(j) ==
  /\ job[j] = "delayed"
  /\ job' = [job EXCEPT ![j] = "waiting"]
  /\ UNCHANGED <<row, attempts, stalls, lock, slot, req, crashes, history>>

Runs(s, j) == slot[s] # Idle /\ slot[s].job = j

(* The run does not renew the lock in time (the event loop is blocked, or  *)
(* Redis does not answer), and does not learn of it.                       *)
Lapse(j) ==
  /\ j \in lock \cap Lapsing
  /\ lock' = lock \ {j}
  /\ lapsed' = lapsed \cup {j}
  /\ UNCHANGED <<row, job, attempts, stalls, slot, req, crashes, acked, handled,
                 starts>>

Orphan(j) == job[j] = "active" /\ j \notin lock

(* The stalled-job check: an active job without a lock waits again at most *)
(* MaxStalled times and then fails without being run, whether its run is   *)
(* dead or goes on.                                                        *)
StallCheck(j) ==
  /\ Orphan(j)
  /\ stalls' = [stalls EXCEPT ![j] = @ + 1]
  /\ job' = [job EXCEPT ![j] = IF stalls[j] + 1 > MaxStalled
                               THEN "failed" ELSE "waiting"]
  /\ UNCHANGED <<row, attempts, lock, slot, req, crashes, history>>

(* The process dies: every request and every run is gone, and the locks    *)
(* expire before anything looks at them.                                   *)
Crash ==
  /\ crashes < MaxCrashes
  /\ crashes' = crashes + 1
  /\ slot' = [s \in Slots |-> Idle]
  /\ req' = [r \in Requests |-> Idle]
  /\ lock' = {}
  /\ UNCHANGED <<row, job, attempts, stalls, history>>
-----------------------------------------------------------------------------
RequestStep(r) ==
  \/ \E e \in Events : Claim(r, e) \/ RetryCheck(r, e)
  \/ Enqueue(r) \/ MarkQueued(r)
  \/ RetryEnqueue(r) \/ RetryMark(r)
  \/ RequestFails(r)

SlotStep(s) ==
  \/ \E j \in Jobs : Take(s, j)
  \/ MarkProcessing(s) \/ Handle(s) \/ MarkCompleted(s)
  \/ Throw(s) \/ MarkFailed(s)
  \/ Complete(s) \/ Fail(s)

Next ==
  \/ \E r \in Requests : RequestStep(r)
  \/ \E s \in Slots : SlotStep(s)
  \/ \E j \in Jobs : Promote(j) \/ Lapse(j) \/ StallCheck(j)
  \/ \E statuses \in PurgeChoice, old \in SUBSET Events : Purge(statuses, old)
  \/ Crash

Spec == Init /\ [][Next]_vars

(* Bull keeps polling: a free slot takes a waiting job, a started run goes *)
(* on, delayed jobs become due and stalled ones are found.  Nothing is     *)
(* assumed of the billing system, of operators, of open requests, nor that *)
(* a lock is kept.                                                         *)
FairSpec ==
  /\ Spec
  /\ \A s \in Slots : WF_vars(SlotStep(s))
  /\ \A j \in Jobs : WF_vars(Promote(j)) /\ WF_vars(StallCheck(j))
-----------------------------------------------------------------------------
(* The promise to the billing system, read off Bull's job states.          *)

Outstanding(j) == job[j] \in {"waiting", "active", "delayed"}
JobsOf(e) == {e} \X (0 .. MaxRetries)

Outcome(e) ==
  LET states == {job[j] : j \in JobsOf(e)}
  IN  IF "completed" \in states THEN "done"
      ELSE IF states = {"none"} THEN "unseen"
      ELSE IF states \subseteq {"none", "failed"} THEN "dead"
      ELSE "pending"

outcome == [e \in Events |-> Outcome(e)]

Delivery == INSTANCE EventDelivery
              WITH Events <- Events, outcome <- outcome, handled <- handled

(* The pipeline implements the promise: a settled "done" is never taken    *)
(* back, nothing is done before its handler ran to the end, only an        *)
(* operator's retry reopens a dead event (webhook.service.ts enqueuePayload,*)
(* billing.worker.ts handleBillingEvent, processed-events.controller.ts    *)
(* retry, over every crash and failed call).                               *)
DeliverySpec == Delivery!Spec

(* ... and every job it has taken on comes to an end, through crashes,     *)
(* stalls and backoffs, as long as Bull keeps polling.                     *)
DeliveryFairSpec == Delivery!FairSpec
-----------------------------------------------------------------------------
(* A delivery answered queued=true stands for a job: no failed call, crash *)
(* or purge between the three awaits of enqueuePayload leaves an           *)
(* acknowledged event without one.                                         *)
AckedIsAccepted == \A e \in acked : outcome[e] # "unseen"

(* A row says completed only if the handler has run to its end, whichever  *)
(* of the event's overlapping runs, retries and re-deliveries wrote it.    *)
CompletedIsApplied == \A e \in Events : row[e] = "completed" => e \in handled

(* The retry policy of queue.service.ts bounds the work, though a run that *)
(* lost its lock may set the attempts back: a job is started at most once  *)
(* per attempt and per tolerated stall, and if its lock ever lapsed, each  *)
(* tolerated stall may cost another round of attempts.                     *)
StartBudget ==
  \A j \in Jobs :
    starts[j] <= IF j \in lapsed THEN MaxAttempts * (1 + MaxStalled)
                 ELSE MaxAttempts + MaxStalled

Runners(j) == {s \in Slots : Runs(s, j)}

(* handleBillingEvent does not run twice at once for a job, however crashes*)
(* and stalls come, but for a lapsed lock: then each stall of the job pays *)
(* for one more run beside the first (billing.worker.ts handles any run).  *)
OneRunPerJob ==
  \A j \in Jobs :
    Cardinality(Runners(j)) <= 1 + (IF j \in lapsed THEN stalls[j] ELSE 0)

(* A manual retry is never the first run of an event: its own job has been *)
(* started before, even if the row was purged and claimed again since.     *)
RetryIsNotFirst ==
  \A j \in Jobs : j[2] > 0 /\ job[j] # "none" => starts[<<j[1], 0>>] > 0
-----------------------------------------------------------------------------
(* What the documents say and the code does not do.                        *)

(* Nobody is working on the event. *)
Quiet(e) ==
  /\ ~ \E r \in Requests : req[r] # Idle /\ req[r].ev = e
  /\ ~ \E s \in Slots : slot[s] # Idle /\ slot[s].job[1] = e

(* API.txt:99: queued=false is the answer for an eventId already           *)
(* processed.  A claim whose queue.add failed gets that answer too.        *)
DuplicateIsKnown ==
  \A e \in Events :
    row[e] # "none" /\ ~ InFlight(e) => outcome[e] # "unseen"

(* "Orchestrator -- FLOWS v1.0.txt":74: the processed event ends as        *)
(* completed.  enqueuePayload's late "queued" replaces it.                 *)
DoneIsCompleted ==
  \A e \in Events :
    Quiet(e) /\ outcome[e] = "done" => row[e] \in {"completed", "none"}
=============================================================================

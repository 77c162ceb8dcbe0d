------------------------ MODULE EventPipelineProofs ------------------------
(***************************************************************************)
(* Machine-checked facts about EventPipeline, for any number of events,    *)
(* requests and worker slots and any attempt, stall, retry and crash       *)
(* bounds, with locks that lapse at any time: its invariants, and that it implements EventDelivery.           *)
(***************************************************************************)
EXTENDS EventPipeline, FiniteSetTheorems, TLAPS

(* Jobs are pairs of an event and a number; an event's own job is one.     *)
LEMMA JobFacts ==
  /\ \A e \in Events : <<e, 0>> \in Jobs
  /\ \A e \in Events : \A k \in 1 .. MaxRetries : <<e, k>> \in Jobs
  /\ \A j \in Jobs : j[1] \in Events /\ j[2] \in 0 .. MaxRetries
  /\ \A j \in Jobs : j = <<j[1], j[2]>>
BY PipelineAssumption DEF Jobs

(* UPDATE ... SET status and queue.add keep their tables well-typed.       *)
LEMMA TableTypes ==
  ASSUME TypeOK
  PROVE  /\ \A e \in Events, status \in RowStatus :
              MarkStatus(e, status) => row' \in [Events -> RowStatus \cup {"none"}]
         /\ \A j \in Jobs : Add(j) => job' \in [Jobs -> JobState]
BY DEF TypeOK, MarkStatus, Add, JobState

(* A busy slot and an open request carry a job and an event.               *)
LEMMA RecordTypes ==
  ASSUME TypeOK
  PROVE  /\ \A s \in Slots : slot[s].pc # "idle" =>
              /\ slot[s] \in [pc : SlotPc \ {"idle"}, job : Jobs, made : Nat]
              /\ slot[s].job \in Jobs
              /\ slot[s].made \in Nat
         /\ \A r \in Requests : req[r].pc # "idle" =>
              /\ req[r] \in [pc : ReqPc \ {"idle"}, ev : Events]
              /\ req[r].ev \in Events
BY DEF TypeOK, Idle

(* A slot that goes on to another pc, or lets go of its job, and a request *)
(* that does, keep the types.                                              *)
LEMMA GotoTypes ==
  ASSUME TypeOK, NEW s \in Slots, NEW pc \in SlotPc \ {"idle"},
         slot[s].pc # "idle", Goto(s, pc)
  PROVE  slot' \in [Slots -> {Idle} \cup [pc : SlotPc \ {"idle"}, job : Jobs, made : Nat]]
<1>1. [slot[s] EXCEPT !.pc = pc] \in [pc : SlotPc \ {"idle"}, job : Jobs, made : Nat]
  BY RecordTypes
<1>2. QED
  BY <1>1 DEF TypeOK, Goto

(* Every variable of the pipeline keeps its type, whatever interleaves.    *)
THEOREM TypeCorrect == Spec => []TypeOK
<1>1. Init => TypeOK
  BY PipelineAssumption DEF Init, TypeOK, JobState
<1>2. TypeOK /\ [Next]_vars => TypeOK'
  <2> SUFFICES ASSUME TypeOK, [Next]_vars PROVE TypeOK'
    OBVIOUS
  <2> USE JobFacts, RecordTypes, TableTypes DEF bull, history
  <2>1. ASSUME NEW r \in Requests, NEW e \in Events, Claim(r, e) PROVE TypeOK'
    BY <2>1 DEF Claim, TypeOK, Call, ReqPc, RowStatus
  <2>2. ASSUME NEW r \in Requests, Enqueue(r) PROVE TypeOK'
    BY <2>2 DEF Enqueue, TypeOK, ReqPc
  <2>3. ASSUME NEW r \in Requests, MarkQueued(r) PROVE TypeOK'
    BY <2>3 DEF MarkQueued, TypeOK, RowStatus
  <2>4. ASSUME NEW r \in Requests, NEW e \in Events, RetryCheck(r, e) PROVE TypeOK'
    BY <2>4 DEF RetryCheck, TypeOK, Call, ReqPc
  <2>5. ASSUME NEW r \in Requests, RetryEnqueue(r) PROVE TypeOK'
    BY <2>5 DEF RetryEnqueue, TypeOK, ReqPc
  <2>6. ASSUME NEW r \in Requests, RetryMark(r) PROVE TypeOK'
    BY <2>6 DEF RetryMark, TypeOK, RowStatus
  <2>7. ASSUME NEW r \in Requests, RequestFails(r) PROVE TypeOK'
    BY <2>7 DEF RequestFails, TypeOK
  <2>8. ASSUME NEW statuses \in PurgeChoice, NEW old \in SUBSET Events,
               Purge(statuses, old)
        PROVE  TypeOK'
    BY <2>8 DEF Purge, TypeOK
  <2>9. ASSUME NEW s \in Slots, NEW j \in Jobs, Take(s, j) PROVE TypeOK'
    BY <2>9 DEF Take, TypeOK, Run, SlotPc, JobState
  <2>10. ASSUME NEW s \in Slots, MarkProcessing(s) PROVE TypeOK'
    BY <2>10, GotoTypes DEF MarkProcessing, TypeOK, RowStatus, SlotPc
  <2>11. ASSUME NEW s \in Slots, Handle(s) PROVE TypeOK'
    BY <2>11, GotoTypes DEF Handle, TypeOK, SlotPc
  <2>12. ASSUME NEW s \in Slots, MarkCompleted(s) PROVE TypeOK'
    BY <2>12, GotoTypes DEF MarkCompleted, TypeOK, RowStatus, SlotPc
  <2>13. ASSUME NEW s \in Slots, Throw(s) PROVE TypeOK'
    BY <2>13, GotoTypes DEF Throw, TypeOK, SlotPc
  <2>14. ASSUME NEW s \in Slots, MarkFailed(s) PROVE TypeOK'
    BY <2>14, GotoTypes DEF MarkFailed, TypeOK, RowStatus, SlotPc
  <2>15. ASSUME NEW s \in Slots, Complete(s) PROVE TypeOK'
    BY <2>15, GotoTypes DEF Complete, Unlock, TypeOK, JobState, SlotPc
  <2>16. ASSUME NEW s \in Slots, Fail(s) PROVE TypeOK'
    BY <2>16, PipelineAssumption DEF Fail, Unlock, TypeOK, JobState
  <2>17. ASSUME NEW j \in Jobs, Promote(j) PROVE TypeOK'
    BY <2>17 DEF Promote, TypeOK, JobState
  <2>18. ASSUME NEW j \in Jobs, StallCheck(j) PROVE TypeOK'
    BY <2>18, PipelineAssumption DEF StallCheck, TypeOK, JobState
  <2>21. ASSUME NEW j \in Jobs, Lapse(j) PROVE TypeOK'
    BY <2>21 DEF Lapse, TypeOK
  <2>19. ASSUME Crash PROVE TypeOK'
    BY <2>19, PipelineAssumption DEF Crash, TypeOK
  <2>20. CASE UNCHANGED vars
    BY <2>20 DEF vars, TypeOK
  <2> QED
    BY <2>1, <2>2, <2>3, <2>4, <2>5, <2>6, <2>7, <2>8, <2>9, <2>10, <2>11,
       <2>12, <2>13, <2>14, <2>15, <2>16, <2>17, <2>18, <2>19, <2>20, <2>21
    DEF Next, RequestStep, SlotStep
<1>3. QED
  BY <1>1, <1>2, PTL DEF Spec
-----------------------------------------------------------------------------
(* The inductive invariant.                                                *)

Busy(s) == slot[s].pc # "idle"
Open(r) == req[r].pc # "idle"

(* A run's job has been added and started, and a locked job is active.     *)
RunsStarted ==
  /\ \A s \in Slots :
       Busy(s) => job[slot[s].job] # "none" /\ starts[slot[s].job] > 0
  /\ \A j \in lock : job[j] = "active"

(* Until a job's lock lapses, a run of it has the lock, is alone and knows *)
(* the job's attempts.                                                     *)
Alone ==
  \A s \in Slots :
    Busy(s) /\ slot[s].job \notin lapsed =>
      /\ slot[s].job \in lock
      /\ slot[s].made = attempts[slot[s].job]
      /\ \A t \in Slots : Busy(t) /\ slot[t].job = slot[s].job => s = t

(* Every run of a job but one, and a run that is due, has a stall that     *)
(* pays for it.                                                            *)
Due(j) == IF job[j] \in {"waiting", "delayed"} THEN 1 ELSE 0

Paid ==
  \A j \in Jobs :
    /\ IsFiniteSet(Runners(j))
    /\ Cardinality(Runners(j)) + Due(j) <= 1 + stalls[j]

(* Where the handler must have run to its end.                             *)
Applied ==
  /\ \A s \in Slots :
       slot[s].pc \in {"handled", "returned"} => slot[s].job[1] \in handled
  /\ \A j \in Jobs : job[j] = "completed" => j[1] \in handled
  /\ \A e \in Events : row[e] = "completed" => e \in handled

(* Every start of a job whose lock never lapsed is an attempt that threw,  *)
(* a stall, the current run or the one that completed it.                  *)
Account(j) ==
  /\ starts[j] = attempts[j] + stalls[j]
                   + (IF job[j] \in {"active", "completed"} THEN 1 ELSE 0)
  /\ job[j] # "failed" => attempts[j] < MaxAttempts /\ stalls[j] <= MaxStalled
  /\ job[j] = "failed" => attempts[j] + stalls[j] <= MaxAttempts + MaxStalled

Ledger ==
  /\ \A j \in Jobs : job[j] = "none" => attempts[j] = 0 /\ stalls[j] = 0
  /\ \A j \in Jobs \ lapsed : Account(j)

(* What has an own job of the event behind it.                             *)
Accepted ==
  /\ \A e \in acked : job[<<e, 0>>] # "none"
  /\ \A r \in Requests : req[r].pc = "enqueued" => job[<<req[r].ev, 0>>] # "none"

(* What has a start of the event's own job behind it.                      *)
Begun(e) == starts[<<e, 0>>] > 0

Started ==
  /\ \A e \in Events : row[e] \in {"processing", "completed", "failed"} => Begun(e)
  /\ \A r \in Requests : req[r].pc \in {"retrying", "requeued"} => Begun(req[r].ev)
  /\ \A j \in Jobs : j[2] > 0 /\ job[j] # "none" => Begun(j[1])

Running == RunsStarted /\ Alone /\ Paid

IInv == Running /\ Applied /\ Ledger /\ Accepted /\ Started

(* The pipeline starts, with no rows and no jobs, in the invariant.        *)
LEMMA InitIInv == Init => IInv
<1> SUFFICES ASSUME Init PROVE IInv
  OBVIOUS
<1>1. \A j \in Jobs : Runners(j) = {}
  BY DEF Init, Runners, Runs
<1>2. Paid
  BY <1>1, FS_EmptySet DEF Init, Paid, Due
<1>3. Applied /\ Accepted /\ Started
  BY JobFacts DEF Init, Applied, Accepted, Started, Idle
<1>4. Ledger
  BY PipelineAssumption DEF Init, Ledger, Account
<1>5. RunsStarted /\ Alone
  BY DEF Init, RunsStarted, Alone, Busy, Idle
<1>6. QED
  BY <1>2, <1>3, <1>4, <1>5 DEF IInv, Running

(* A slot is busy with a job exactly if it runs it.                        *)
LEMMA RunsFacts ==
  ASSUME TypeOK
  PROVE  \A s \in Slots, j \in Jobs :
           Runs(s, j) <=> Busy(s) /\ slot[s].job = j
BY DEF TypeOK, Runs, Busy, Idle, SlotPc

(* The event a slot works on has begun, also when it works on a retry.     *)
LEMMA BusyBegun ==
  ASSUME TypeOK, IInv, NEW s \in Slots, Busy(s)
  PROVE  Begun(slot[s].job[1])
<1> DEFINE j == slot[s].job
<1>1. j \in Jobs /\ job[j] # "none" /\ starts[j] > 0
  BY RecordTypes DEF IInv, Running, RunsStarted, Busy
<1>2. CASE j[2] = 0
  BY <1>1, <1>2, JobFacts DEF Begun
<1>3. CASE j[2] # 0
  BY <1>1, <1>3, JobFacts DEF IInv, Started
<1>4. QED
  BY <1>2, <1>3

(* What the runs are about does not change when no slot and no job does.   *)
LEMMA SameRuns ==
  ASSUME Running, UNCHANGED <<slot, bull, starts, lapsed>>
  PROVE  Running'
BY DEF Running, RunsStarted, Alone, Paid, Due, Runners, Runs, Busy, bull

(* A run that goes on stays the run of its job.                            *)
LEMMA GotoRuns ==
  ASSUME TypeOK, TypeOK', Running, NEW s \in Slots, NEW pc, Goto(s, pc), Busy(s),
         pc # "idle", UNCHANGED <<bull, starts, lapsed>>
  PROVE  Running'
<1>1. \A t \in Slots :
        /\ Busy(t)' <=> Busy(t)
        /\ slot'[t].job = slot[t].job
        /\ slot'[t].made = slot[t].made
  <2> SUFFICES ASSUME NEW t \in Slots
               PROVE  /\ Busy(t)' <=> Busy(t)
                      /\ slot'[t].job = slot[t].job
                      /\ slot'[t].made = slot[t].made
    OBVIOUS
  <2>1. slot'[t] = IF t = s THEN [slot[s] EXCEPT !.pc = pc] ELSE slot[t]
    BY DEF TypeOK, Goto
  <2>2. slot[s] \in [pc : SlotPc \ {"idle"}, job : Jobs, made : Nat]
    BY RecordTypes DEF Busy
  <2>3. QED
    BY <2>1, <2>2 DEF Busy
<1>2. RunsStarted'
  BY <1>1 DEF Running, RunsStarted, bull
<1>3. Alone'
  BY <1>1 DEF Running, Alone, bull
<1>4. \A j \in Jobs : Runners(j)' = Runners(j)
  <2>1. \A t \in Slots, j \in Jobs : Runs(t, j)' <=> Runs(t, j)
    BY <1>1, RunsFacts DEF TypeOK, Runs, Busy, Idle, SlotPc
  <2>2. QED
    BY <2>1 DEF Runners
<1>5. Paid'
  BY <1>4 DEF Running, Paid, Due, bull
<1>6. QED
  BY <1>2, <1>3, <1>5 DEF Running

(* A job that is added has no run yet.                                     *)
LEMMA AddRuns ==
  ASSUME TypeOK, IInv, NEW j \in Jobs, Add(j),
         UNCHANGED <<slot, attempts, stalls, lock, starts, lapsed>>
  PROVE  Running'
<1> USE DEF IInv, Running
<1>1. job[j] = "none" => Runners(j) = {} /\ stalls[j] = 0
  BY RunsFacts DEF Runners, RunsStarted, Ledger
<1>2. \A i \in Jobs : job'[i] = IF i = j /\ job[j] = "none" THEN "waiting" ELSE job[i]
  BY DEF Add, TypeOK
<1>3. RunsStarted'
  BY <1>2, RecordTypes DEF RunsStarted, Busy, TypeOK
<1>4. Alone'
  BY DEF Alone, Busy
<1>5. \A i \in Jobs : Runners(i)' = Runners(i)
  BY DEF Runners, Runs
<1>6. Paid'
  BY <1>1, <1>2, <1>5, FS_EmptySet DEF Paid, Due, TypeOK
<1>7. QED
  BY <1>3, <1>4, <1>6

(* The end of a run takes it from the runners of its job.                  *)
LEMMA EndRuns ==
  ASSUME TypeOK, Paid, NEW s \in Slots, Busy(s), slot' = [slot EXCEPT ![s] = Idle]
  PROVE  /\ \A t \in Slots : Busy(t)' <=> Busy(t) /\ t # s
         /\ \A t \in Slots : t # s => slot'[t] = slot[t]
         /\ \A i \in Jobs :
              /\ IsFiniteSet(Runners(i)')
              /\ Cardinality(Runners(i)) \in Nat /\ Cardinality(Runners(i)') \in Nat
              /\ i # slot[s].job => Runners(i)' = Runners(i)
              /\ i = slot[s].job => Cardinality(Runners(i)') = Cardinality(Runners(i)) - 1
<1>1. \A t \in Slots : slot'[t] = IF t = s THEN Idle ELSE slot[t]
  BY DEF TypeOK
<1>2. \A t \in Slots : Busy(t)' <=> Busy(t) /\ t # s
  BY <1>1 DEF Busy, Idle
<1>3. \A i \in Jobs : Runners(i)' = Runners(i) \ {s}
  BY <1>1 DEF Runners, Runs
<1>4. \A i \in Jobs : s \in Runners(i) <=> i = slot[s].job
  BY RunsFacts DEF Runners
<1>5. \A i \in Jobs : IsFiniteSet(Runners(i)) /\ Cardinality(Runners(i)) \in Nat
  BY FS_CardinalityType DEF Paid
<1>6. \A i \in Jobs :
        /\ IsFiniteSet(Runners(i) \ {s})
        /\ Cardinality(Runners(i) \ {s}) =
             IF s \in Runners(i) THEN Cardinality(Runners(i)) - 1
             ELSE Cardinality(Runners(i))
  BY <1>5, FS_RemoveElement
<1>7. \A i \in Jobs : Cardinality(Runners(i)') \in Nat
  BY <1>3, <1>6, FS_CardinalityType
<1>8. \A i \in Jobs : i # slot[s].job => Runners(i)' = Runners(i)
  BY <1>3, <1>4
<1>9. QED
  BY <1>1, <1>2, <1>3, <1>4, <1>5, <1>6, <1>7, <1>8

(* Every step of requests, worker, Bull and operators keeps it.            *)
LEMMA StepIInv == TypeOK /\ TypeOK' /\ IInv /\ [Next]_vars => IInv'
<1> SUFFICES ASSUME TypeOK, TypeOK', IInv, [Next]_vars PROVE IInv'
  OBVIOUS
<1> USE JobFacts, RecordTypes, BusyBegun, PipelineAssumption DEF bull, history, Idle
<1>1. ASSUME NEW r \in Requests, NEW e \in Events, Claim(r, e) PROVE IInv'
  <2>1. Running'
    BY <1>1, SameRuns DEF Claim, IInv
  <2>2. Ledger'
    BY <1>1 DEF Claim, IInv, Ledger, Account
  <2>3. Applied'
    BY <1>1 DEF Claim, Call, TypeOK, IInv, Applied
  <2>4. Accepted'
    BY <1>1 DEF Claim, Call, TypeOK, IInv, Accepted
  <2>5. Started'
    BY <1>1 DEF Claim, Call, TypeOK, IInv, Started, Begun, Busy
  <2> QED
    BY <2>1, <2>2, <2>3, <2>4, <2>5 DEF IInv
<1>2. ASSUME NEW r \in Requests, Enqueue(r) PROVE IInv'
  <2>1. Running'
    BY <1>2, AddRuns DEF Enqueue
  <2>2. Ledger'
    <3>1. /\ \A j \in Jobs : job'[j] = job[j] \/ (job[j] = "none" /\ job'[j] = "waiting")
          /\ UNCHANGED <<attempts, stalls, starts, lapsed>>
      BY <1>2 DEF Enqueue, Add, TypeOK
    <3>2. \A j \in Jobs \ lapsed : job[j] = "none" => attempts[j] = 0 /\ stalls[j] = 0
      BY DEF IInv, Ledger
    <3>3. QED
      BY <3>1, <3>2 DEF IInv, Ledger, Account
  <2>3. Applied'
    BY <1>2 DEF Enqueue, Add, TypeOK, IInv, Applied
  <2>4. Accepted'
    BY <1>2 DEF Enqueue, Add, TypeOK, IInv, Accepted
  <2>5. Started'
    BY <1>2 DEF Enqueue, Add, TypeOK, IInv, Started, Begun, Busy
  <2> QED
    BY <2>1, <2>2, <2>3, <2>4, <2>5 DEF IInv
<1>3. ASSUME NEW r \in Requests, MarkQueued(r) PROVE IInv'
  <2>1. Running'
    BY <1>3, SameRuns DEF MarkQueued, IInv
  <2>2. Ledger'
    BY <1>3 DEF MarkQueued, IInv, Ledger, Account
  <2>3. Applied'
    BY <1>3 DEF MarkQueued, MarkStatus, TypeOK, IInv, Applied
  <2>4. Accepted'
    BY <1>3 DEF MarkQueued, MarkStatus, TypeOK, IInv, Accepted
  <2>5. Started'
    BY <1>3 DEF MarkQueued, MarkStatus, TypeOK, IInv, Started, Begun, Busy
  <2> QED
    BY <2>1, <2>2, <2>3, <2>4, <2>5 DEF IInv
<1>4. ASSUME NEW r \in Requests, NEW e \in Events, RetryCheck(r, e) PROVE IInv'
  <2>1. Running'
    BY <1>4, SameRuns DEF RetryCheck, IInv
  <2>2. Ledger'
    BY <1>4 DEF RetryCheck, IInv, Ledger, Account
  <2>3. Applied'
    BY <1>4 DEF RetryCheck, IInv, Applied
  <2>4. Accepted'
    BY <1>4 DEF RetryCheck, Call, TypeOK, IInv, Accepted
  <2>5. Started'
    BY <1>4 DEF RetryCheck, Call, TypeOK, IInv, Started, Begun, Busy
  <2> QED
    BY <2>1, <2>2, <2>3, <2>4, <2>5 DEF IInv
<1>5. ASSUME NEW r \in Requests, RetryEnqueue(r) PROVE IInv'
  <2>1. Running'
    <3>1. PICK k \in 1 .. MaxRetries : Add(<<req[r].ev, k>>)
      BY <1>5 DEF RetryEnqueue
    <3>2. <<req[r].ev, k>> \in Jobs
      BY <1>5 DEF RetryEnqueue
    <3>3. QED
      BY <1>5, <3>1, <3>2, AddRuns DEF RetryEnqueue
  <2>2. Ledger'
    <3>1. /\ \A j \in Jobs : job'[j] = job[j] \/ (job[j] = "none" /\ job'[j] = "waiting")
          /\ UNCHANGED <<attempts, stalls, starts, lapsed>>
      BY <1>5 DEF RetryEnqueue, Add, TypeOK
    <3>2. \A j \in Jobs \ lapsed : job[j] = "none" => attempts[j] = 0 /\ stalls[j] = 0
      BY DEF IInv, Ledger
    <3>3. QED
      BY <3>1, <3>2 DEF IInv, Ledger, Account
  <2>3. Applied'
    BY <1>5 DEF RetryEnqueue, Add, TypeOK, IInv, Applied
  <2>4. Accepted'
    BY <1>5 DEF RetryEnqueue, Add, TypeOK, IInv, Accepted
  <2>5. Started'
    BY <1>5 DEF RetryEnqueue, Add, TypeOK, IInv, Started, Begun, Busy
  <2> QED
    BY <2>1, <2>2, <2>3, <2>4, <2>5 DEF IInv
<1>6. ASSUME NEW r \in Requests, RetryMark(r) PROVE IInv'
  <2>1. Running'
    BY <1>6, SameRuns DEF RetryMark, IInv
  <2>2. Ledger'
    BY <1>6 DEF RetryMark, IInv, Ledger, Account
  <2>3. Applied'
    BY <1>6 DEF RetryMark, MarkStatus, TypeOK, IInv, Applied
  <2>4. Accepted'
    BY <1>6 DEF RetryMark, MarkStatus, TypeOK, IInv, Accepted
  <2>5. Started'
    BY <1>6 DEF RetryMark, MarkStatus, TypeOK, IInv, Started, Begun, Busy
  <2> QED
    BY <2>1, <2>2, <2>3, <2>4, <2>5 DEF IInv
<1>7. ASSUME NEW r \in Requests, RequestFails(r) PROVE IInv'
  <2>1. Running'
    BY <1>7, SameRuns DEF RequestFails, IInv
  <2>2. Ledger'
    BY <1>7 DEF RequestFails, IInv, Ledger, Account
  <2>3. Applied'
    BY <1>7 DEF RequestFails, IInv, Applied
  <2>4. Accepted'
    BY <1>7 DEF RequestFails, TypeOK, IInv, Accepted
  <2>5. Started'
    BY <1>7 DEF RequestFails, TypeOK, IInv, Started, Begun, Busy
  <2> QED
    BY <2>1, <2>2, <2>3, <2>4, <2>5 DEF IInv
<1>8. ASSUME NEW statuses \in PurgeChoice, NEW old \in SUBSET Events,
             Purge(statuses, old)
      PROVE  IInv'
  <2>1. Running'
    BY <1>8, SameRuns DEF Purge, IInv
  <2>2. Ledger'
    BY <1>8 DEF Purge, IInv, Ledger, Account
  <2>3. Applied'
    BY <1>8 DEF Purge, TypeOK, IInv, Applied
  <2>4. Accepted'
    BY <1>8 DEF Purge, IInv, Accepted
  <2>5. Started'
    BY <1>8 DEF Purge, TypeOK, IInv, Started, Begun, Busy
  <2> QED
    BY <2>1, <2>2, <2>3, <2>4, <2>5 DEF IInv
<1>9. ASSUME NEW s \in Slots, NEW j \in Jobs, Take(s, j) PROVE IInv'
  <2>1. Running'
    <3>1. /\ j \in Jobs /\ job[j] = "waiting"
          /\ \A i \in Jobs : job'[i] = IF i = j THEN "active" ELSE job[i]
          /\ \A i \in Jobs : starts'[i] = IF i = j THEN starts[j] + 1 ELSE starts[i]
          /\ \A t \in Slots : slot'[t] = IF t = s THEN Run("taken", j) ELSE slot[t]
          /\ lock' = lock \cup {j} /\ slot[s] = Idle
          /\ UNCHANGED <<attempts, stalls, lapsed>>
      BY <1>9 DEF Take, TypeOK
    <3>2. \A t \in Slots : Busy(t)' <=> Busy(t) \/ t = s
      BY <3>1 DEF Busy, Run
    <3>3. ~ Busy(s) /\ Run("taken", j).job = j /\ Run("taken", j).made = attempts[j]
      BY <3>1 DEF Busy, Run
    <3>4. j \notin lock
      BY <3>1 DEF IInv, Running, RunsStarted
    <3>5. \A t \in Slots : Busy(t) => slot[t].job \in lapsed \/ slot[t].job # j
      BY <3>4 DEF IInv, Running, Alone
    <3>6. RunsStarted'
      BY <3>1, <3>2, <3>3 DEF IInv, Running, RunsStarted, TypeOK, Busy
    <3>7. Alone'
      BY <3>1, <3>2, <3>3, <3>5 DEF IInv, Running, Alone
    <3>8. \A i \in Jobs : Runners(i)' = IF i = j THEN Runners(i) \cup {s} ELSE Runners(i)
      BY <3>1, <3>3 DEF Runners, Runs, Run
    <3>9. s \notin Runners(j) /\ IsFiniteSet(Runners(j)) /\ Cardinality(Runners(j)) \in Nat
      BY <3>1, FS_CardinalityType DEF Runners, Runs, IInv, Running, Paid
    <3>10. /\ IsFiniteSet(Runners(j) \cup {s})
           /\ Cardinality(Runners(j) \cup {s}) = Cardinality(Runners(j)) + 1
      BY <3>9, FS_AddElement
    <3>11. Paid'
      <4> SUFFICES ASSUME NEW i \in Jobs
                   PROVE  /\ IsFiniteSet(Runners(i)')
                          /\ Cardinality(Runners(i)') + Due(i)' <= 1 + stalls'[i]
        BY DEF Paid
      <4>1. CASE i = j
        <5>1. Cardinality(Runners(j)) + 1 <= 1 + stalls[j] /\ stalls[j] \in Nat
          BY <3>1 DEF IInv, Running, Paid, Due, TypeOK
        <5>2. Due(j)' = 0 /\ stalls'[j] = stalls[j]
          BY <3>1 DEF Due
        <5>3. /\ Cardinality(Runners(j)') = Cardinality(Runners(j)) + 1
              /\ IsFiniteSet(Runners(j)')
          BY <3>1, <3>8, <3>10
        <5>4. QED
          BY <3>9, <4>1, <5>1, <5>2, <5>3
      <4>2. CASE i # j
        BY <3>1, <3>8, <4>2 DEF IInv, Running, Paid, Due
      <4>3. QED
        BY <4>1, <4>2
    <3>12. QED
      BY <3>6, <3>7, <3>11 DEF Running
  <2>2. Ledger'
    <3>1. \A i \in Jobs : /\ job'[i] = IF i = j THEN "active" ELSE job[i]
                          /\ starts'[i] = IF i = j THEN starts[i] + 1 ELSE starts[i]
      BY <1>9 DEF Take, TypeOK
    <3>2. job[j] = "waiting" /\ UNCHANGED <<attempts, stalls, lapsed>>
      BY <1>9 DEF Take
    <3>3. QED
      BY <3>1, <3>2 DEF IInv, Ledger, Account, TypeOK
  <2>3. Applied'
    BY <1>9 DEF Take, Run, TypeOK, IInv, Applied
  <2>4. Accepted'
    BY <1>9 DEF Take, Run, TypeOK, IInv, Accepted
  <2>5. Started'
    BY <1>9 DEF Take, Run, TypeOK, IInv, Started, Begun, Busy
  <2> QED
    BY <2>1, <2>2, <2>3, <2>4, <2>5 DEF IInv
<1>10. ASSUME NEW s \in Slots, MarkProcessing(s) PROVE IInv'
  <2>1. Running'
    BY <1>10, GotoRuns DEF MarkProcessing, IInv, Busy
  <2>2. Ledger'
    BY <1>10 DEF MarkProcessing, IInv, Ledger, Account
  <2>3. Applied'
    BY <1>10 DEF MarkProcessing, MarkStatus, Goto, TypeOK, IInv, Applied
  <2>4. Accepted'
    BY <1>10 DEF MarkProcessing, IInv, Accepted
  <2>5. Started'
    BY <1>10 DEF MarkProcessing, MarkStatus, Goto, TypeOK, IInv, Started, Begun, Busy
  <2> QED
    BY <2>1, <2>2, <2>3, <2>4, <2>5 DEF IInv
<1>11. ASSUME NEW s \in Slots, Handle(s) PROVE IInv'
  <2>1. Running'
    BY <1>11, GotoRuns DEF Handle, IInv, Busy
  <2>2. Ledger'
    BY <1>11 DEF Handle, IInv, Ledger, Account
  <2>3. Applied'
    BY <1>11 DEF Handle, Goto, TypeOK, IInv, Applied
  <2>4. Accepted'
    BY <1>11 DEF Handle, IInv, Accepted
  <2>5. Started'
    BY <1>11 DEF Handle, IInv, Started, Begun
  <2> QED
    BY <2>1, <2>2, <2>3, <2>4, <2>5 DEF IInv
<1>12. ASSUME NEW s \in Slots, MarkCompleted(s) PROVE IInv'
  <2>1. Running'
    BY <1>12, GotoRuns DEF MarkCompleted, IInv, Busy
  <2>2. Ledger'
    BY <1>12 DEF MarkCompleted, IInv, Ledger, Account
  <2>3. Applied'
    BY <1>12 DEF MarkCompleted, MarkStatus, Goto, TypeOK, IInv, Applied
  <2>4. Accepted'
    BY <1>12 DEF MarkCompleted, IInv, Accepted
  <2>5. Started'
    BY <1>12 DEF MarkCompleted, MarkStatus, Goto, TypeOK, IInv, Started, Begun, Busy
  <2> QED
    BY <2>1, <2>2, <2>3, <2>4, <2>5 DEF IInv
<1>13. ASSUME NEW s \in Slots, Throw(s) PROVE IInv'
  <2>1. Running'
    BY <1>13, GotoRuns DEF Throw, IInv, Busy
  <2>2. Ledger'
    BY <1>13 DEF Throw, IInv, Ledger, Account
  <2>3. Applied'
    BY <1>13 DEF Throw, Goto, TypeOK, IInv, Applied
  <2>4. Accepted'
    BY <1>13 DEF Throw, IInv, Accepted
  <2>5. Started'
    BY <1>13 DEF Throw, IInv, Started, Begun
  <2> QED
    BY <2>1, <2>2, <2>3, <2>4, <2>5 DEF IInv
<1>14. ASSUME NEW s \in Slots, MarkFailed(s) PROVE IInv'
  <2>1. Running'
    BY <1>14, GotoRuns DEF MarkFailed, IInv, Busy
  <2>2. Ledger'
    BY <1>14 DEF MarkFailed, IInv, Ledger, Account
  <2>3. Applied'
    BY <1>14 DEF MarkFailed, MarkStatus, Goto, TypeOK, IInv, Applied
  <2>4. Accepted'
    BY <1>14 DEF MarkFailed, IInv, Accepted
  <2>5. Started'
    <3>1. Begun(slot[s].job[1])
      BY <1>14 DEF MarkFailed, Busy
    <3>2. \A e \in Events : row'[e] = row[e] \/ e = slot[s].job[1]
      BY <1>14 DEF MarkFailed, MarkStatus, TypeOK
    <3>3. UNCHANGED <<req, job, starts>>
      BY <1>14 DEF MarkFailed
    <3>4. QED
      BY <3>1, <3>2, <3>3 DEF IInv, Started, Begun
  <2> QED
    BY <2>1, <2>2, <2>3, <2>4, <2>5 DEF IInv
<1>15. ASSUME NEW s \in Slots, Complete(s) PROVE IInv'
  <2>1. Running'
    <3> DEFINE j == slot[s].job
    <3>1. j \in Jobs /\ Busy(s) /\ UNCHANGED <<stalls, starts, lapsed>>
      BY <1>15 DEF Complete, Busy
    <3>2. CASE j \in lock /\ slot' = [slot EXCEPT ![s] = Idle]
      <4>1. PICK state \in {"completed", "delayed", "failed"} : Unlock(j, state)
        BY <1>15, <3>2 DEF Complete
      <4>2. /\ \A i \in Jobs : job'[i] = IF i = j THEN state ELSE job[i]
            /\ lock' = lock \ {j}
            /\ job[j] = "active"
            /\ \A i \in Jobs : i # j => attempts'[i] = attempts[i]
        BY <1>15, <3>1, <3>2, <4>1 DEF Complete, Unlock, TypeOK, IInv, Running, RunsStarted
      <4>3. /\ \A t \in Slots : Busy(t)' <=> Busy(t) /\ t # s
            /\ \A t \in Slots : t # s => slot'[t] = slot[t]
            /\ \A i \in Jobs :
                 /\ IsFiniteSet(Runners(i)')
                 /\ Cardinality(Runners(i)) \in Nat /\ Cardinality(Runners(i)') \in Nat
                 /\ i # slot[s].job => Runners(i)' = Runners(i)
                 /\ i = slot[s].job => Cardinality(Runners(i)') = Cardinality(Runners(i)) - 1
        BY <3>1, <3>2, EndRuns DEF IInv, Running
      <4> HIDE DEF j
      <4>4. RunsStarted'
        BY <3>1, <4>2, <4>3 DEF IInv, Running, RunsStarted, TypeOK, Busy
      <4>5. Alone'
        <5>1. \A t \in Slots : Busy(t) /\ t # s /\ slot[t].job \notin lapsed => slot[t].job # j
          BY <3>1 DEF IInv, Running, Alone, j
        <5>2. QED
          BY <3>1, <4>2, <4>3, <5>1 DEF IInv, Running, Alone, Busy
      <4>6. Paid'
        <5> SUFFICES ASSUME NEW i \in Jobs
                     PROVE  /\ IsFiniteSet(Runners(i)')
                            /\ Cardinality(Runners(i)') + Due(i)' <= 1 + stalls'[i]
          BY DEF Paid
        <5>1. Cardinality(Runners(i)) + Due(i) <= 1 + stalls[i] /\ stalls[i] \in Nat
          BY DEF IInv, Running, Paid, TypeOK
        <5>2. CASE i = j
          BY <3>1, <4>2, <4>3, <5>1, <5>2 DEF Due, j
        <5>3. CASE i # j
          BY <3>1, <4>2, <4>3, <5>1, <5>3 DEF Due, j
        <5>4. QED
          BY <5>2, <5>3, <4>3
      <4>7. QED
        BY <4>4, <4>5, <4>6 DEF Running
    <3>3. CASE j \notin lock
      <4>1. /\ UNCHANGED <<job, lock>> /\ j \in lapsed
            /\ \A i \in Jobs : i # j => attempts'[i] = attempts[i]
        BY <1>15, <3>1, <3>3 DEF Complete, TypeOK, IInv, Running, Alone
      <4>2. CASE slot' = [slot EXCEPT ![s] = Idle]
        <5>1. /\ \A t \in Slots : Busy(t)' <=> Busy(t) /\ t # s
              /\ \A t \in Slots : t # s => slot'[t] = slot[t]
              /\ \A i \in Jobs :
                   /\ IsFiniteSet(Runners(i)')
                   /\ Cardinality(Runners(i)) \in Nat /\ Cardinality(Runners(i)') \in Nat
                   /\ i # slot[s].job => Runners(i)' = Runners(i)
                   /\ i = slot[s].job => Cardinality(Runners(i)') = Cardinality(Runners(i)) - 1
          BY <3>1, <4>2, EndRuns DEF IInv, Running
        <5> HIDE DEF j
        <5>2. RunsStarted'
          BY <3>1, <4>1, <5>1 DEF IInv, Running, RunsStarted
        <5>3. Alone'
          BY <3>1, <4>1, <5>1 DEF IInv, Running, Alone, Busy
        <5>4. Paid'
          <6> SUFFICES ASSUME NEW i \in Jobs
                       PROVE  /\ IsFiniteSet(Runners(i)')
                              /\ Cardinality(Runners(i)') + Due(i)' <= 1 + stalls'[i]
            BY DEF Paid
          <6>1. /\ Cardinality(Runners(i)) + Due(i) <= 1 + stalls[i] /\ stalls[i] \in Nat
                /\ Due(i)' = Due(i) /\ Due(i) \in Nat
            BY <4>1 DEF IInv, Running, Paid, TypeOK, Due
          <6>2. QED
            BY <3>1, <5>1, <6>1
        <5>5. QED
          BY <5>2, <5>3, <5>4 DEF Running
      <4>3. CASE Goto(s, "thrown")
        BY <1>15, <3>1, <4>1, <4>3, GotoRuns DEF Complete, IInv
      <4>4. QED
        BY <1>15, <3>3, <4>2, <4>3 DEF Complete
    <3>4. QED
      BY <1>15, <3>2, <3>3 DEF Complete
  <2>2. Ledger'
    <3> DEFINE j == slot[s].job
    <3>1. /\ j \in Jobs /\ Busy(s)
          /\ UNCHANGED <<attempts, stalls, starts, lapsed>>
          /\ \A i \in Jobs : job'[i] = IF i = j /\ j \in lock THEN "completed" ELSE job[i]
          /\ j \in lock => job[j] = "active"
      BY <1>15 DEF Complete, Unlock, TypeOK, Busy, IInv, Running, RunsStarted
    <3>2. QED
      BY <3>1 DEF IInv, Ledger, Account
  <2>3. Applied'
    <3> DEFINE j == slot[s].job
    <3>1. /\ j \in Jobs /\ j[1] \in handled
          /\ \A i \in Jobs : job'[i] = job[i] \/ i = j
          /\ UNCHANGED <<row, handled>>
      BY <1>15 DEF Complete, Unlock, TypeOK, IInv, Applied
    <3>2. \A t \in Slots : slot'[t] = slot[t] \/ slot'[t].pc \in {"idle", "thrown"}
      BY <1>15 DEF Complete, Goto, TypeOK
    <3>3. QED
      BY <3>1, <3>2 DEF IInv, Applied
  <2>4. Accepted'
    BY <1>15 DEF Complete, Unlock, Goto, TypeOK, IInv, Accepted
  <2>5. Started'
    BY <1>15 DEF Complete, Unlock, Goto, TypeOK, IInv, Started, Begun, Busy
  <2> QED
    BY <2>1, <2>2, <2>3, <2>4, <2>5 DEF IInv
<1>16. ASSUME NEW s \in Slots, Fail(s) PROVE IInv'
  <2>1. Running'
    <3> DEFINE j == slot[s].job
    <3>1. j \in Jobs /\ Busy(s) /\ UNCHANGED <<stalls, starts, lapsed>>
      BY <1>16 DEF Fail, Busy
    <3>2. CASE j \in lock /\ slot' = [slot EXCEPT ![s] = Idle]
      <4>1. PICK state \in {"completed", "delayed", "failed"} : Unlock(j, state)
        BY <1>16, <3>2 DEF Fail
      <4>2. /\ \A i \in Jobs : job'[i] = IF i = j THEN state ELSE job[i]
            /\ lock' = lock \ {j}
            /\ job[j] = "active"
            /\ \A i \in Jobs : i # j => attempts'[i] = attempts[i]
        BY <1>16, <3>1, <3>2, <4>1 DEF Fail, Unlock, TypeOK, IInv, Running, RunsStarted
      <4>3. /\ \A t \in Slots : Busy(t)' <=> Busy(t) /\ t # s
            /\ \A t \in Slots : t # s => slot'[t] = slot[t]
            /\ \A i \in Jobs :
                 /\ IsFiniteSet(Runners(i)')
                 /\ Cardinality(Runners(i)) \in Nat /\ Cardinality(Runners(i)') \in Nat
                 /\ i # slot[s].job => Runners(i)' = Runners(i)
                 /\ i = slot[s].job => Cardinality(Runners(i)') = Cardinality(Runners(i)) - 1
        BY <3>1, <3>2, EndRuns DEF IInv, Running
      <4> HIDE DEF j
      <4>4. RunsStarted'
        BY <3>1, <4>2, <4>3 DEF IInv, Running, RunsStarted, TypeOK, Busy
      <4>5. Alone'
        <5>1. \A t \in Slots : Busy(t) /\ t # s /\ slot[t].job \notin lapsed => slot[t].job # j
          BY <3>1 DEF IInv, Running, Alone, j
        <5>2. QED
          BY <3>1, <4>2, <4>3, <5>1 DEF IInv, Running, Alone, Busy
      <4>6. Paid'
        <5> SUFFICES ASSUME NEW i \in Jobs
                     PROVE  /\ IsFiniteSet(Runners(i)')
                            /\ Cardinality(Runners(i)') + Due(i)' <= 1 + stalls'[i]
          BY DEF Paid
        <5>1. Cardinality(Runners(i)) + Due(i) <= 1 + stalls[i] /\ stalls[i] \in Nat
          BY DEF IInv, Running, Paid, TypeOK
        <5>2. CASE i = j
          BY <3>1, <4>2, <4>3, <5>1, <5>2 DEF Due, j
        <5>3. CASE i # j
          BY <3>1, <4>2, <4>3, <5>1, <5>3 DEF Due, j
        <5>4. QED
          BY <5>2, <5>3, <4>3
      <4>7. QED
        BY <4>4, <4>5, <4>6 DEF Running
    <3>3. CASE j \notin lock
      <4>1. /\ UNCHANGED <<job, lock>> /\ j \in lapsed
            /\ \A i \in Jobs : i # j => attempts'[i] = attempts[i]
        BY <1>16, <3>1, <3>3 DEF Fail, TypeOK, IInv, Running, Alone
      <4>2. CASE slot' = [slot EXCEPT ![s] = Idle]
        <5>1. /\ \A t \in Slots : Busy(t)' <=> Busy(t) /\ t # s
              /\ \A t \in Slots : t # s => slot'[t] = slot[t]
              /\ \A i \in Jobs :
                   /\ IsFiniteSet(Runners(i)')
                   /\ Cardinality(Runners(i)) \in Nat /\ Cardinality(Runners(i)') \in Nat
                   /\ i # slot[s].job => Runners(i)' = Runners(i)
                   /\ i = slot[s].job => Cardinality(Runners(i)') = Cardinality(Runners(i)) - 1
          BY <3>1, <4>2, EndRuns DEF IInv, Running
        <5> HIDE DEF j
        <5>2. RunsStarted'
          BY <3>1, <4>1, <5>1 DEF IInv, Running, RunsStarted
        <5>3. Alone'
          BY <3>1, <4>1, <5>1 DEF IInv, Running, Alone, Busy
        <5>4. Paid'
          <6> SUFFICES ASSUME NEW i \in Jobs
                       PROVE  /\ IsFiniteSet(Runners(i)')
                              /\ Cardinality(Runners(i)') + Due(i)' <= 1 + stalls'[i]
            BY DEF Paid
          <6>1. /\ Cardinality(Runners(i)) + Due(i) <= 1 + stalls[i] /\ stalls[i] \in Nat
                /\ Due(i)' = Due(i) /\ Due(i) \in Nat
            BY <4>1 DEF IInv, Running, Paid, TypeOK, Due
          <6>2. QED
            BY <3>1, <5>1, <6>1
        <5>5. QED
          BY <5>2, <5>3, <5>4 DEF Running
      <4>3. QED
        BY <1>16, <4>2 DEF Fail
    <3>4. QED
      BY <1>16, <3>2, <3>3 DEF Fail
  <2>2. Ledger'
    <3> DEFINE j == slot[s].job
               state == IF slot[s].made + 1 < MaxAttempts THEN "delayed" ELSE "failed"
    <3>1. /\ j \in Jobs /\ Busy(s) /\ job[j] # "none" /\ slot[s].made \in Nat
          /\ UNCHANGED <<stalls, starts, lapsed>>
          /\ \A i \in Jobs : job'[i] = IF i = j /\ j \in lock THEN state ELSE job[i]
          /\ \A i \in Jobs : attempts'[i] = IF i = j THEN slot[s].made + 1 ELSE attempts[i]
      BY <1>16 DEF Fail, Unlock, TypeOK, Busy, IInv, Running, RunsStarted
    <3>2. j \in lock => job[j] = "active"
      BY DEF IInv, Running, RunsStarted
    <3>3. j \notin lapsed => j \in lock /\ slot[s].made = attempts[j]
      BY <3>1 DEF IInv, Running, Alone
    <3>4. \A i \in Jobs : attempts[i] \in Nat /\ stalls[i] \in Nat /\ starts[i] \in Nat
      BY DEF TypeOK
    <3>5. \A i \in Jobs : job'[i] = "none" => attempts'[i] = 0 /\ stalls'[i] = 0
      BY <3>1 DEF IInv, Ledger
    <3>6. \A i \in Jobs \ lapsed : Account(i)'
      <4> SUFFICES ASSUME NEW i \in Jobs, i \notin lapsed PROVE Account(i)'
        OBVIOUS
      <4>1. CASE i # j
        BY <3>1, <4>1 DEF IInv, Ledger, Account
      <4>2. CASE i = j
        <5>1. /\ job'[j] = state /\ attempts'[j] = attempts[j] + 1 /\ job[j] = "active"
              /\ state = IF attempts[j] + 1 < MaxAttempts THEN "delayed" ELSE "failed"
              /\ stalls'[j] = stalls[j] /\ starts'[j] = starts[j]
          BY <3>1, <3>2, <3>3, <4>2
        <5>2. Account(j)
          BY <3>1, <4>2 DEF IInv, Ledger
        <5> HIDE DEF j, state
        <5>3. QED
          BY <3>4, <4>2, <5>1, <5>2 DEF Account
      <4>3. QED
        BY <4>1, <4>2
    <3>7. QED
      BY <3>1, <3>5, <3>6 DEF Ledger
  <2>3. Applied'
    BY <1>16 DEF Fail, Unlock, TypeOK, IInv, Applied
  <2>4. Accepted'
    BY <1>16 DEF Fail, Unlock, TypeOK, IInv, Accepted
  <2>5. Started'
    BY <1>16 DEF Fail, Unlock, TypeOK, IInv, Started, Begun, Busy
  <2> QED
    BY <2>1, <2>2, <2>3, <2>4, <2>5 DEF IInv
<1>17. ASSUME NEW j \in Jobs, Promote(j) PROVE IInv'
  <2>1. Running'
    <3>1. /\ \A i \in Jobs : job'[i] = IF i = j THEN "waiting" ELSE job[i]
          /\ job[j] = "delayed"
          /\ UNCHANGED <<slot, attempts, stalls, lock, starts, lapsed>>
      BY <1>17 DEF Promote, TypeOK
    <3>2. \A i \in Jobs : Runners(i)' = Runners(i)
      BY <3>1 DEF Runners, Runs
    <3>3. Paid'
      BY <3>1, <3>2 DEF IInv, Running, Paid, Due
    <3>4. RunsStarted' /\ Alone'
      BY <3>1 DEF IInv, Running, RunsStarted, Alone, Busy, TypeOK
    <3>5. QED
      BY <3>3, <3>4 DEF Running
  <2>2. Ledger'
    BY <1>17 DEF Promote, TypeOK, IInv, Ledger, Account
  <2>3. Applied'
    BY <1>17 DEF Promote, TypeOK, IInv, Applied
  <2>4. Accepted'
    BY <1>17 DEF Promote, TypeOK, IInv, Accepted
  <2>5. Started'
    BY <1>17 DEF Promote, TypeOK, IInv, Started, Begun, Busy
  <2> QED
    BY <2>1, <2>2, <2>3, <2>4, <2>5 DEF IInv
<1>18. ASSUME NEW j \in Jobs, StallCheck(j) PROVE IInv'
  <2>1. Running'
    <3>1. /\ \A i \in Jobs : job'[i] = IF i = j
                THEN IF stalls[j] + 1 > MaxStalled THEN "failed" ELSE "waiting"
                ELSE job[i]
          /\ \A i \in Jobs : stalls'[i] = IF i = j THEN stalls[i] + 1 ELSE stalls[i]
          /\ job[j] = "active" /\ j \notin lock
          /\ UNCHANGED <<slot, attempts, lock, starts, lapsed>>
      BY <1>18 DEF StallCheck, Orphan, TypeOK
    <3>2. \A i \in Jobs : Runners(i)' = Runners(i)
      BY <3>1 DEF Runners, Runs
    <3>3. \A i \in Jobs : IsFiniteSet(Runners(i)) /\ Cardinality(Runners(i)) \in Nat
      BY FS_CardinalityType DEF IInv, Running, Paid
    <3>4. Paid'
      BY <3>1, <3>2, <3>3 DEF IInv, Running, Paid, Due, TypeOK
    <3>5. RunsStarted' /\ Alone'
      BY <3>1 DEF IInv, Running, RunsStarted, Alone, Busy, TypeOK
    <3>6. QED
      BY <3>4, <3>5 DEF Running
  <2>2. Ledger'
    <3>1. /\ \A i \in Jobs : job'[i] = IF i = j
                THEN IF stalls[j] + 1 > MaxStalled THEN "failed" ELSE "waiting"
                ELSE job[i]
          /\ \A i \in Jobs : stalls'[i] = IF i = j THEN stalls[i] + 1 ELSE stalls[i]
          /\ job[j] = "active" /\ UNCHANGED <<attempts, starts, lapsed>>
      BY <1>18 DEF StallCheck, Orphan, TypeOK
    <3>2. /\ \A i \in Jobs : attempts[i] \in Nat /\ stalls[i] \in Nat /\ starts[i] \in Nat
          /\ \A i \in Jobs \ lapsed : Account(i)
      BY DEF TypeOK, IInv, Ledger
    <3>3. \A i \in Jobs \ lapsed : Account(i)'
      <4> SUFFICES ASSUME NEW i \in Jobs \ lapsed PROVE Account(i)'
        OBVIOUS
      <4>1. CASE i = j
        BY <3>1, <3>2, <4>1 DEF Account
      <4>2. CASE i # j
        BY <3>1, <3>2, <4>2 DEF Account
      <4>3. QED
        BY <4>1, <4>2
    <3>4. QED
      BY <3>1, <3>3 DEF IInv, Ledger
  <2>3. Applied'
    BY <1>18 DEF StallCheck, Orphan, TypeOK, IInv, Applied
  <2>4. Accepted'
    BY <1>18 DEF StallCheck, Orphan, TypeOK, IInv, Accepted
  <2>5. Started'
    BY <1>18 DEF StallCheck, Orphan, TypeOK, IInv, Started, Begun, Busy
  <2> QED
    BY <2>1, <2>2, <2>3, <2>4, <2>5 DEF IInv
<1>19. ASSUME NEW j \in Jobs, Lapse(j) PROVE IInv'
  <2>1. Running'
    <3>1. /\ j \in lock /\ lock' = lock \ {j} /\ lapsed' = lapsed \cup {j}
          /\ UNCHANGED <<slot, job, attempts, stalls, starts>>
      BY <1>19 DEF Lapse
    <3>2. Paid'
      BY <3>1 DEF IInv, Running, Paid, Due, Runners, Runs
    <3>3. RunsStarted' /\ Alone'
      BY <3>1 DEF IInv, Running, RunsStarted, Alone, Busy, TypeOK
    <3>4. QED
      BY <3>2, <3>3 DEF Running
  <2>2. Ledger'
    BY <1>19 DEF Lapse, TypeOK, IInv, Ledger, Account
  <2>3. Applied'
    BY <1>19 DEF Lapse, TypeOK, IInv, Applied
  <2>4. Accepted'
    BY <1>19 DEF Lapse, TypeOK, IInv, Accepted
  <2>5. Started'
    BY <1>19 DEF Lapse, TypeOK, IInv, Started, Begun, Busy
  <2> QED
    BY <2>1, <2>2, <2>3, <2>4, <2>5 DEF IInv
<1>20. ASSUME Crash PROVE IInv'
  <2>1. Running'
    <3>1. /\ \A t \in Slots : slot'[t] = Idle
          /\ lock' = {} /\ UNCHANGED <<job, attempts, stalls, starts, lapsed>>
      BY <1>20 DEF Crash
    <3>2. \A i \in Jobs : Runners(i)' = {}
      BY <3>1 DEF Runners, Runs
    <3>3. \A i \in Jobs : IsFiniteSet(Runners(i)) /\ Cardinality(Runners(i)) \in Nat
      BY FS_CardinalityType DEF IInv, Running, Paid
    <3>4. Paid'
      <4> SUFFICES ASSUME NEW i \in Jobs
                   PROVE  /\ IsFiniteSet(Runners(i)')
                          /\ Cardinality(Runners(i)') + Due(i)' <= 1 + stalls'[i]
        BY DEF Paid
      <4>1. IsFiniteSet(Runners(i)') /\ Cardinality(Runners(i)') = 0
        BY <3>2, FS_EmptySet
      <4>2. Due(i)' \in {0, 1} /\ stalls'[i] = stalls[i] /\ stalls[i] \in Nat
        BY <3>1 DEF Due, TypeOK
      <4>3. QED
        BY <4>1, <4>2
    <3>5. RunsStarted' /\ Alone'
      BY <3>1 DEF RunsStarted, Alone, Busy
    <3>6. QED
      BY <3>4, <3>5 DEF Running
  <2>2. Ledger'
    BY <1>20 DEF Crash, IInv, Ledger, Account
  <2>3. Applied'
    BY <1>20 DEF Crash, TypeOK, IInv, Applied
  <2>4. Accepted'
    BY <1>20 DEF Crash, TypeOK, IInv, Accepted
  <2>5. Started'
    BY <1>20 DEF Crash, TypeOK, IInv, Started, Begun, Busy
  <2> QED
    BY <2>1, <2>2, <2>3, <2>4, <2>5 DEF IInv
<1>21. CASE UNCHANGED vars
  <2>1. Running'
    BY <1>21, SameRuns DEF vars, IInv
  <2>2. Ledger' /\ Accepted' /\ Started' /\ Applied'
    BY <1>21 DEF vars, IInv, Applied, Ledger, Account, Accepted, Started, Begun
  <2> QED
    BY <2>1, <2>2 DEF IInv
<1> QED
  BY <1>1, <1>2, <1>3, <1>4, <1>5, <1>6, <1>7, <1>8, <1>9, <1>10,
     <1>11, <1>12, <1>13, <1>14, <1>15, <1>16, <1>17, <1>18, <1>19, <1>20,
     <1>21
  DEF Next, RequestStep, SlotStep

(* The inductive invariant: a run of a job with its lock is alone, completed*)
(* means applied, the attempts and stalls account for every start, and     *)
(* retries come after a first start.                                       *)
THEOREM Invariance == Spec => []IInv
BY InitIInv, StepIInv, TypeCorrect, PTL DEF Spec
-----------------------------------------------------------------------------
(* The safety properties the runs check.                                   *)

(* An event's outcome is read off the states of its jobs.                  *)
OutcomeFacts ==
  \A e \in Events :
    /\ outcome[e] = "done" <=> \E j \in JobsOf(e) : job[j] = "completed"
    /\ outcome[e] = "unseen" <=> \A j \in JobsOf(e) : job[j] = "none"
    /\ outcome[e] = "dead" <=>
         /\ \A j \in JobsOf(e) : job[j] \in {"none", "failed"}
         /\ \E j \in JobsOf(e) : job[j] # "none"
    /\ outcome[e] \in {"unseen", "pending", "done", "dead"}

(* The outcome of an event, case by case, from the states of its jobs.     *)
LEMMA OutcomeCases == OutcomeFacts
<1> SUFFICES ASSUME NEW e \in Events
             PROVE  OutcomeFacts!(e)
  BY DEF OutcomeFacts
<1> DEFINE states == {job[j] : j \in JobsOf(e)}
<1>1. outcome[e] = Outcome(e)
  BY DEF outcome
<1>2. <<e, 0>> \in JobsOf(e)
  BY PipelineAssumption DEF JobsOf
<1>3. /\ "completed" \in states <=> \E j \in JobsOf(e) : job[j] = "completed"
      /\ states = {"none"} <=> \A j \in JobsOf(e) : job[j] = "none"
      /\ states \subseteq {"none", "failed"} <=>
           \A j \in JobsOf(e) : job[j] \in {"none", "failed"}
  BY <1>2
<1>4. QED
  BY <1>1, <1>3 DEF Outcome

(* A delivery answered queued=true stands for a job (webhook.service.ts    *)
(* enqueuePayload), however requests, crashes and purges interleave.       *)
THEOREM AcceptedEvents == Spec => []AckedIsAccepted
<1>1. TypeOK /\ IInv => AckedIsAccepted
  <2> SUFFICES ASSUME TypeOK, IInv, NEW e \in acked
               PROVE  outcome[e] # "unseen"
    BY DEF AckedIsAccepted
  <2>1. e \in Events /\ job[<<e, 0>>] # "none"
    BY DEF TypeOK, IInv, Accepted
  <2>2. <<e, 0>> \in JobsOf(e)
    BY PipelineAssumption DEF JobsOf
  <2>3. QED
    BY <2>1, <2>2, OutcomeCases DEF OutcomeFacts
<1>2. QED
  BY <1>1, TypeCorrect, Invariance, PTL

(* completed on the row means that the handler has run to its end          *)
(* (billing.worker.ts handleBillingEvent).                                 *)
THEOREM CompletedEvents == Spec => []CompletedIsApplied
<1>1. IInv => CompletedIsApplied
  BY DEF IInv, Applied, CompletedIsApplied
<1>2. QED
  BY <1>1, Invariance, PTL

(* A job whose lock never lapsed is started at most once per attempt and   *)
(* per tolerated stall, through crashes, retries of calls and purges       *)
(* (queue.service.ts): the first part of StartBudget.                      *)
UnlapsedBudget == \A j \in Jobs \ lapsed : starts[j] <= MaxAttempts + MaxStalled

THEOREM BoundedStarts == Spec => []UnlapsedBudget
<1>1. TypeOK /\ IInv => UnlapsedBudget
  BY PipelineAssumption DEF TypeOK, IInv, Ledger, Account, UnlapsedBudget
<1>2. QED
  BY <1>1, TypeCorrect, Invariance, PTL

(* Runs of one job at once: one, and one more for each stall of a job whose*)
(* lock lapsed while a run of it went on.                                  *)
THEOREM ExclusiveRuns == Spec => []OneRunPerJob
<1>1. TypeOK /\ IInv => OneRunPerJob
  <2> SUFFICES ASSUME TypeOK, IInv, NEW j \in Jobs
               PROVE  Cardinality(Runners(j))
                        <= 1 + (IF j \in lapsed THEN stalls[j] ELSE 0)
    BY DEF OneRunPerJob
  <2>1. /\ IsFiniteSet(Runners(j)) /\ Cardinality(Runners(j)) \in Nat
        /\ Cardinality(Runners(j)) + Due(j) <= 1 + stalls[j]
        /\ Due(j) \in Nat /\ stalls[j] \in Nat
    BY FS_CardinalityType DEF IInv, Running, Paid, Due, TypeOK
  <2>2. CASE j \in lapsed
    BY <2>1, <2>2
  <2>3. CASE j \notin lapsed
    <3>1. \A s, t \in Runners(j) : s = t
      BY <2>3, RunsFacts DEF Runners, IInv, Running, Alone
    <3>2. CASE Runners(j) = {}
      BY <2>3, <3>2, FS_EmptySet
    <3>3. CASE Runners(j) # {}
      <4>1. PICK s \in Runners(j) : Runners(j) = {s}
        BY <3>1, <3>3
      <4>2. Cardinality({s}) = 1
        BY FS_Singleton
      <4>3. QED
        BY <2>3, <4>1, <4>2
    <3>4. QED
      BY <3>2, <3>3
  <2>4. QED
    BY <2>2, <2>3
<1>2. QED
  BY <1>1, TypeCorrect, Invariance, PTL

(* A retry job exists only for an event whose own job has been started.    *)
THEOREM RetriesFollow == Spec => []RetryIsNotFirst
<1>1. IInv => RetryIsNotFirst
  BY DEF IInv, Started, Begun, RetryIsNotFirst
<1>2. QED
  BY <1>1, Invariance, PTL
-----------------------------------------------------------------------------
(* The pipeline implements EventDelivery.                                  *)

(* Moving one job touches the outcome of its event only.                   *)
LEMMA OneJobMoves ==
  ASSUME TypeOK, NEW j \in Jobs, NEW b \in JobState \ {"none"},
         job[j] # "completed", job' = [job EXCEPT ![j] = b]
  PROVE  /\ outcome' = [outcome EXCEPT ![j[1]] = outcome'[j[1]]]
         /\ job[j] # "none" /\ b \notin {"completed", "failed"} /\ job[j] # "failed"
              => outcome'[j[1]] = outcome[j[1]]
         /\ job[j] = "none" /\ b = "waiting" /\ outcome[j[1]] \in {"unseen", "dead"}
              => outcome'[j[1]] = "pending"
         /\ job[j] = "none" /\ b = "waiting" /\ outcome[j[1]] \in {"pending", "done"}
              => outcome'[j[1]] = outcome[j[1]]
         /\ job[j] = "active" => outcome[j[1]] \in {"pending", "done"}
         /\ b = "completed" => outcome'[j[1]] = "done"
         /\ b = "failed" /\ outcome[j[1]] = "done" => outcome'[j[1]] = "done"
         /\ b = "failed" /\ outcome[j[1]] # "done"
              => outcome'[j[1]] \in {"pending", "dead"}
<1> USE DEF JobState
<1>1. OutcomeFacts /\ OutcomeFacts'
  BY OutcomeCases, PTL
<1>2. j[1] \in Events /\ j \in JobsOf(j[1])
  BY JobFacts DEF JobsOf
<1>3. \A e \in Events : JobsOf(e) \subseteq Jobs
  BY DEF JobsOf, Jobs
<1>4. \A i \in Jobs : job'[i] = IF i = j THEN b ELSE job[i]
  BY DEF TypeOK
<1>5. \A e \in Events : e # j[1] => outcome'[e] = outcome[e]
  <2> SUFFICES ASSUME NEW e \in Events, e # j[1] PROVE outcome'[e] = outcome[e]
    OBVIOUS
  <2>1. j \notin JobsOf(e)
    BY JobFacts DEF JobsOf
  <2>2. \A i \in JobsOf(e) : job'[i] = job[i]
    BY <2>1, <1>3, <1>4
  <2>3. QED
    BY <2>2, <1>1 DEF OutcomeFacts
<1>6. outcome' = [outcome EXCEPT ![j[1]] = outcome'[j[1]]]
  BY <1>2, <1>5 DEF outcome
<1> HIDE DEF JobState
<1>7. \A i \in JobsOf(j[1]) : job'[i] = IF i = j THEN b ELSE job[i]
  BY <1>2, <1>3, <1>4
<1> DEFINE e == j[1]
<1>8. /\ OutcomeFacts!(e) /\ OutcomeFacts!(e)'
  BY <1>1, <1>2 DEF OutcomeFacts
<1>9. QED
  BY <1>2, <1>6, <1>7, <1>8 DEF JobState

(* A step that moves no job leaves every outcome.                          *)
LEMMA NoJobMoves == ASSUME UNCHANGED job PROVE UNCHANGED outcome
BY DEF outcome, Outcome, JobsOf

(* An event that has a job has been accepted.                              *)
LEMMA JobMeansSeen ==
  ASSUME NEW j \in Jobs, job[j] # "none" PROVE outcome[j[1]] # "unseen"
BY JobFacts, OutcomeCases DEF OutcomeFacts, JobsOf

(* No job: every event is unseen.                                          *)
LEMMA RefinementInit == Init => Delivery!Init
<1> SUFFICES ASSUME Init PROVE Delivery!Init
  OBVIOUS
<1>1. \A e \in Events : outcome[e] = "unseen"
  BY JobFacts, OutcomeCases DEF OutcomeFacts, Init, JobsOf, Jobs
<1>2. QED
  BY <1>1 DEF Delivery!Init, outcome, Init

(* queue.add is acceptance, an operator's reopening, or nothing new.       *)
LEMMA RefinementAdd ==
  ASSUME TypeOK, IInv, NEW j \in Jobs, Add(j), UNCHANGED handled
  PROVE  [Delivery!Next]_(Delivery!dvars)
<1>1. CASE job[j] # "none"
  BY <1>1, NoJobMoves DEF Add, Delivery!dvars
<1>2. CASE job[j] = "none"
  <2>1. /\ job' = [job EXCEPT ![j] = "waiting"]
        /\ "waiting" \in JobState \ {"none"}
        /\ j[1] \in Events
    BY <1>2, JobFacts DEF Add, JobState
  <2>2. outcome[j[1]] \in {"unseen", "pending", "done", "dead"}
    BY <2>1, OutcomeCases DEF OutcomeFacts
  <2>3. CASE outcome[j[1]] = "unseen"
    <3>1. Delivery!Accept(j[1])
      BY <1>2, <2>1, <2>3, OneJobMoves DEF Delivery!Accept
    <3>2. QED
      BY <2>1, <3>1 DEF Delivery!Next
  <2>4. CASE outcome[j[1]] = "dead"
    <3>1. Delivery!Reopen(j[1])
      BY <1>2, <2>1, <2>4, OneJobMoves DEF Delivery!Reopen
    <3>2. QED
      BY <2>1, <3>1 DEF Delivery!Next
  <2>5. CASE outcome[j[1]] \in {"pending", "done"}
    <3>1. outcome' = [outcome EXCEPT ![j[1]] = outcome[j[1]]]
      BY <1>2, <2>1, <2>5, OneJobMoves
    <3>2. UNCHANGED outcome
      BY <3>1 DEF outcome
    <3>3. QED
      BY <3>2 DEF Delivery!dvars
  <2>6. QED
    BY <2>2, <2>3, <2>4, <2>5
<1>3. QED
  BY <1>1, <1>2

(* Taking, delaying, promoting or requeueing a job shows in no outcome.    *)
LEMMA RefinementKeep ==
  ASSUME TypeOK, NEW j \in Jobs, NEW b \in {"waiting", "active", "delayed"},
         job[j] \in {"waiting", "active", "delayed"},
         job' = [job EXCEPT ![j] = b], UNCHANGED handled
  PROVE  UNCHANGED Delivery!dvars
<1>1. b \in JobState \ {"none"}
  BY DEF JobState
<1>2. outcome' = [outcome EXCEPT ![j[1]] = outcome[j[1]]]
  BY <1>1, OneJobMoves
<1>3. UNCHANGED outcome
  BY <1>2 DEF outcome
<1>4. QED
  BY <1>3 DEF Delivery!dvars

(* A job that fails for good gives its event up, unless another job of the *)
(* event is done or still outstanding.                                     *)
LEMMA RefinementFail ==
  ASSUME TypeOK, NEW j \in Jobs, job[j] = "active",
         job' = [job EXCEPT ![j] = "failed"], UNCHANGED handled
  PROVE  [Delivery!Next]_(Delivery!dvars)
<1>1. "failed" \in JobState \ {"none"} /\ j[1] \in Events
  BY JobFacts DEF JobState
<1>2. /\ outcome' = [outcome EXCEPT ![j[1]] = outcome'[j[1]]]
      /\ outcome[j[1]] \in {"pending", "done"}
      /\ outcome[j[1]] = "done" => outcome'[j[1]] = "done"
      /\ outcome[j[1]] = "pending" => outcome'[j[1]] \in {"pending", "dead"}
  BY <1>1, OneJobMoves
<1>3. CASE outcome'[j[1]] = outcome[j[1]]
  <2>1. UNCHANGED outcome
    BY <1>2, <1>3 DEF outcome
  <2>2. QED
    BY <2>1 DEF Delivery!dvars
<1>4. CASE outcome'[j[1]] # outcome[j[1]]
  <2>1. Delivery!GiveUp(j[1])
    BY <1>2, <1>4 DEF Delivery!GiveUp
  <2>2. QED
    BY <1>1, <2>1 DEF Delivery!Next
<1>5. QED
  BY <1>3, <1>4

(* Every step of the pipeline is a step of the promise or leaves it alone. *)
LEMMA RefinementStep ==
  TypeOK /\ IInv /\ [Next]_vars => [Delivery!Next]_(Delivery!dvars)
<1> SUFFICES ASSUME TypeOK, IInv, [Next]_vars
             PROVE  [Delivery!Next]_(Delivery!dvars)
  OBVIOUS
<1> USE JobFacts, RecordTypes DEF bull, history
<1>1. ASSUME NEW r \in Requests, Enqueue(r) PROVE [Delivery!Next]_(Delivery!dvars)
  <2>1. <<req[r].ev, 0>> \in Jobs
    BY <1>1 DEF Enqueue
  <2>2. QED
    BY <1>1, <2>1, RefinementAdd DEF Enqueue
<1>2. ASSUME NEW r \in Requests, RetryEnqueue(r)
      PROVE  [Delivery!Next]_(Delivery!dvars)
  <2>1. PICK k \in 1 .. MaxRetries : Add(<<req[r].ev, k>>)
    BY <1>2 DEF RetryEnqueue
  <2>2. <<req[r].ev, k>> \in Jobs
    BY <1>2 DEF RetryEnqueue
  <2>3. QED
    BY <1>2, <2>1, <2>2, RefinementAdd DEF RetryEnqueue
<1>3. ASSUME NEW s \in Slots, NEW j \in Jobs, Take(s, j)
      PROVE  UNCHANGED Delivery!dvars
  BY <1>3, RefinementKeep DEF Take
<1>4. ASSUME NEW s \in Slots, Handle(s) PROVE [Delivery!Next]_(Delivery!dvars)
  <2> DEFINE j == slot[s].job
  <2>1. j \in Jobs /\ job[j] # "none"
    BY <1>4 DEF Handle, IInv, Running, RunsStarted, Busy
  <2>2. Delivery!Apply(j[1])
    BY <1>4, <2>1, JobMeansSeen, NoJobMoves DEF Handle, Delivery!Apply
  <2>3. QED
    BY <2>1, <2>2 DEF Delivery!Next
<1>5. ASSUME NEW s \in Slots, Complete(s), slot[s].job \in lock
      PROVE  [Delivery!Next]_(Delivery!dvars)
  <2> DEFINE j == slot[s].job
  <2>1. j \in Jobs /\ job[j] = "active" /\ j[1] \in handled
    BY <1>5 DEF Complete, IInv, Running, RunsStarted, Applied, Busy
  <2>2. "completed" \in JobState \ {"none"} /\ job' = [job EXCEPT ![j] = "completed"]
    BY <1>5 DEF Complete, Unlock, JobState
  <2>3. /\ outcome' = [outcome EXCEPT ![j[1]] = "done"]
        /\ outcome[j[1]] \in {"pending", "done"}
    BY <2>1, <2>2, OneJobMoves
  <2>4. CASE outcome[j[1]] = "pending"
    <3>1. Delivery!Finish(j[1])
      BY <1>5, <2>1, <2>3, <2>4 DEF Complete, Delivery!Finish
    <3>2. QED
      BY <2>1, <3>1 DEF Delivery!Next
  <2>5. CASE outcome[j[1]] = "done"
    <3>1. UNCHANGED outcome
      BY <2>3, <2>5 DEF outcome
    <3>2. QED
      BY <1>5, <3>1 DEF Complete, Delivery!dvars
  <2>6. QED
    BY <2>3, <2>4, <2>5
<1>6. ASSUME NEW s \in Slots, Fail(s), slot[s].job \in lock
      PROVE  [Delivery!Next]_(Delivery!dvars)
  <2> DEFINE j == slot[s].job
  <2>1. j \in Jobs /\ job[j] = "active"
    BY <1>6 DEF Fail, IInv, Running, RunsStarted, Busy
  <2>2. QED
    BY <1>6, <2>1, RefinementKeep, RefinementFail DEF Fail, Unlock
<1>10. ASSUME NEW s \in Slots, Complete(s) \/ Fail(s), slot[s].job \notin lock
       PROVE  UNCHANGED <<job, handled>>
  BY <1>10 DEF Complete, Fail
<1>7. ASSUME NEW j \in Jobs, Promote(j) PROVE UNCHANGED Delivery!dvars
  BY <1>7, RefinementKeep DEF Promote
<1>8. ASSUME NEW j \in Jobs, StallCheck(j) PROVE [Delivery!Next]_(Delivery!dvars)
  BY <1>8, RefinementKeep, RefinementFail DEF StallCheck, Orphan
<1>9. ASSUME UNCHANGED <<job, handled>> PROVE UNCHANGED Delivery!dvars
  BY <1>9, NoJobMoves DEF Delivery!dvars
<1> QED
  BY <1>1, <1>2, <1>3, <1>4, <1>5, <1>6, <1>7, <1>8, <1>9, <1>10
  DEF Next, RequestStep, SlotStep, vars, Claim, RetryCheck, MarkQueued, RetryMark,
      RequestFails, Purge, MarkProcessing, MarkCompleted, Throw, MarkFailed, Lapse, Crash

(* EventPipeline implements EventDelivery: however requests, worker runs,  *)
(* crashes, stalls, retries and purges interleave, a settled event stays   *)
(* settled, done implies applied, and only a retry reopens a dead event.   *)
THEOREM PipelineImplementsDelivery == Spec => DeliverySpec
<1>1. Spec => Delivery!Init /\ [][Delivery!Next]_(Delivery!dvars)
  BY RefinementInit, RefinementStep, TypeCorrect, Invariance, PTL DEF Spec
<1>2. QED
  BY <1>1 DEF DeliverySpec, Delivery!Spec
=============================================================================

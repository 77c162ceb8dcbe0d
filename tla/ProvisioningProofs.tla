------------------------- MODULE ProvisioningProofs -------------------------
(***************************************************************************)
(* Machine-checked facts about Provisioning, for any number of             *)
(* subscriptions, backends and workers, any capacity and any bounds.       *)
(***************************************************************************)
EXTENDS Provisioning, TLAPS

PayPc == {"resolving", "selecting", "creating", "counting", "dropping",
          "activating", "rollback", "failing", "apologizing"}

(* Which handler can be at which step, and where it has chosen a backend.  *)
Fits(h) ==
  /\ h.pc \in PayPc => h.kind = "pay"
  /\ h.pc = "marking" => h.kind \in {"cancel", "expire"}
  /\ h.pc = "releasing" => h.kind \in {"cancel", "expire", "delete", "cleanup"}
  /\ h.pc = "reporting" => h.kind \in {"pay", "plan", "cancel", "expire"}
  /\ h.pc \in {"deleting", "closing", "pushing"} => h.kind \in {"delete", "cleanup"}
  /\ h.pc \in {"creating", "counting", "dropping", "rollback"} => h.nb \in Backends

FitHandlers == {h \in Handlers : Fits(h)}

TypeInv ==
  /\ TypeOK
  /\ worker \in [Workers -> {Idle} \cup FitHandlers \cup Sweeps]

(* A stale save can only write back a load that was within a capacity the  *)
(* backend has had.                                                        *)
LoadInv ==
  /\ \A b \in Backends : load[b] <= most[b] /\ capacity[b] <= most[b]
  /\ edit # Idle => edit.load <= most[edit.backend]

(* A worker is idle, in a handler, or between two rows of a cleanup.       *)
LEMMA WorkerTypes ==
  ASSUME TypeInv, NEW w \in Workers
  PROVE  /\ Working(w) => worker[w] \in Handlers /\ Fits(worker[w])
         /\ worker[w].pc = "sweeping" => worker[w] \in Sweeps
         /\ worker[w].pc = "idle" => worker[w] = Idle
BY DEF TypeInv, Working, Idle, FitHandlers, Handlers, Sweeps, Pc

(* A handler that goes on to a step that fits it stays well-typed.         *)
LEMMA GotoTypes ==
  ASSUME TypeInv, NEW w \in Workers, NEW pc \in Pc \ {"sweeping"}, Working(w),
         Fits([worker[w] EXCEPT !.pc = pc]), Goto(w, pc)
  PROVE  worker' \in [Workers -> {Idle} \cup FitHandlers \cup Sweeps]
<1>1. [worker[w] EXCEPT !.pc = pc] \in Handlers
  BY WorkerTypes DEF Handlers
<1>2. [worker[w] EXCEPT !.pc = pc] \in FitHandlers
  BY <1>1 DEF FitHandlers
<1>3. QED
  BY <1>2 DEF TypeInv, Goto

(* A handler that is left makes its worker idle or turns it to its list.   *)
LEMMA LeaveTypes ==
  ASSUME TypeInv, NEW w \in Workers, Working(w), Leave(w)
  PROVE  worker' \in [Workers -> {Idle} \cup FitHandlers \cup Sweeps]
<1>1. Sweep(worker[w].todo) \in Sweeps
  BY WorkerTypes DEF Handlers, Sweeps, Sweep
<1>2. QED
  BY <1>1 DEF TypeInv, Leave

(* An update by id writes a status, or nothing.                            *)
LEMMA WriteTypes ==
  ASSUME TypeInv, NEW w \in Workers, Sub(w) \in Subs,
         NEW new \in Status \cup {"none"}, Write(w, new)
  PROVE  /\ status' \in [Subs -> Status \cup {"none"}]
         /\ writer' \in [Subs -> Workers \cup {None}]
BY DEF TypeInv, TypeOK, Write, SetStatus
-----------------------------------------------------------------------------
(* Every variable keeps its type, and every handler the steps of its kind. *)
THEOREM TypeInvariance == Spec => []TypeInv
<1>1. Init => TypeInv
  BY ProvisioningAssumption DEF Init, TypeInv, TypeOK
<1>2. TypeInv /\ [Next]_vars => TypeInv'
  <2> SUFFICES ASSUME TypeInv, [Next]_vars PROVE TypeInv'
    OBVIOUS
  <2> USE DEF TypeInv, TypeOK, rows, stores, history, meetings, bounds
  <2>1. ASSUME NEW w \in Workers, NEW kind \in Events, NEW s \in Subs,
               Start(w, kind, s)
        PROVE  TypeInv'
    <3> DEFINE was == IF status[s] = "none" THEN "pending" ELSE status[s]
               h == Run(FirstStep[kind], kind, Row(s, was), {})
    <3>1. was \in Status /\ Row(s, was) \in Rows
      BY DEF Status, Row, Rows
    <3>2. h \in FitHandlers
      <4>1. CASE kind = "pay"
        BY <4>1, <3>1 DEF Run, FirstStep, FitHandlers, Fits, Handlers, Pc, PayPc, HandlerKinds
      <4>2. CASE kind = "plan"
        BY <4>2, <3>1 DEF Run, FirstStep, FitHandlers, Fits, Handlers, Pc, PayPc, HandlerKinds
      <4>3. CASE kind = "delete"
        BY <4>3, <3>1 DEF Run, FirstStep, FitHandlers, Fits, Handlers, Pc, PayPc, HandlerKinds
      <4>4. CASE kind = "cancel"
        BY <4>4, <3>1 DEF Run, FirstStep, FitHandlers, Fits, Handlers, Pc, PayPc, HandlerKinds
      <4>5. CASE kind = "expire"
        BY <4>5, <3>1 DEF Run, FirstStep, FitHandlers, Fits, Handlers, Pc, PayPc, HandlerKinds
      <4>6. QED
        BY <4>1, <4>2, <4>3, <4>4, <4>5 DEF Events
    <3>3. worker' = [worker EXCEPT ![w] = h] /\ status' = [status EXCEPT ![s] = was]
      BY <2>1 DEF Start, SetStatus
    <3> HIDE DEF was, h
    <3>4. worker' \in [Workers -> {Idle} \cup FitHandlers \cup Sweeps]
      BY <3>2, <3>3
    <3>5. worker' \in [Workers -> {Idle} \cup Handlers \cup Sweeps]
      BY <3>4 DEF FitHandlers
    <3>6. QED
      BY <2>1, <3>1, <3>3, <3>4, <3>5, ProvisioningAssumption DEF Start
  <2>2. ASSUME NEW w \in Workers, StartCleanup(w) PROVE TypeInv'
    <3>1. {Row(s, status[s]) : s \in DueForDeletion} \in SUBSET Rows
      BY DEF Row, Rows, DueForDeletion, Status
    <3>2. Sweep({Row(s, status[s]) : s \in DueForDeletion}) \in Sweeps
      BY <3>1 DEF Sweep, Sweeps
    <3>3. late' \subseteq Subs
      BY <2>2 DEF StartCleanup, DueForDeletion
    <3>4. QED
      BY <2>2, <3>2, <3>3, ProvisioningAssumption DEF StartCleanup
  <2>3. ASSUME NEW w \in Workers, NextDue(w) PROVE TypeInv'
    <3>1. PICK r \in worker[w].todo :
            worker' = [worker EXCEPT ![w] =
                         Run("deleting", "cleanup", r, @.todo \ {r})]
      BY <2>3 DEF NextDue
    <3>2. r \in Rows /\ worker[w].todo \ {r} \in SUBSET Rows
      BY <2>3, WorkerTypes DEF NextDue, At, Sweeps
    <3>3. Run("deleting", "cleanup", r, worker[w].todo \ {r}) \in FitHandlers
      BY <3>2 DEF Run, FitHandlers, Fits, Handlers, Pc, PayPc, HandlerKinds
    <3>4. worker' \in [Workers -> {Idle} \cup FitHandlers \cup Sweeps]
      BY <3>1, <3>3
    <3>5. QED
      BY <2>3, <3>4 DEF NextDue, FitHandlers
  <2>4. ASSUME NEW w \in Workers, MarkProvisioning(w) PROVE TypeInv'
    <3>1. Working(w) /\ worker[w].pc = "resolving" /\ Sub(w) \in Subs
      BY <2>4, WorkerTypes DEF MarkProvisioning, At, Working, Sub, Handlers, Rows
    <3>2. \E pc \in {"selecting", "activating"} : Goto(w, pc) /\ Fits([worker[w] EXCEPT !.pc = pc])
      BY <2>4, <3>1, WorkerTypes DEF MarkProvisioning, Fits, PayPc, Handlers, HandlerKinds
    <3>3. worker' \in [Workers -> {Idle} \cup FitHandlers \cup Sweeps]
      BY <3>1, <3>2, GotoTypes DEF Pc
    <3>4. worker' \in [Workers -> {Idle} \cup Handlers \cup Sweeps]
      BY <3>3 DEF FitHandlers
    <3>5. QED
      BY <2>4, <3>1, <3>3, <3>4, WorkerTypes, WriteTypes
      DEF MarkProvisioning, At, Working, Status, Fits, Handlers, Rows
  <2>5. ASSUME NEW w \in Workers, CreateBucket(w) PROVE TypeInv'
    <3>1. Working(w) /\ worker[w].pc = "creating" /\ Sub(w) \in Subs
      BY <2>5, WorkerTypes DEF CreateBucket, At, Working, Sub, Handlers, Rows
    <3>2. \E pc \in {"counting"} : Goto(w, pc) /\ Fits([worker[w] EXCEPT !.pc = pc])
      BY <2>5, <3>1, WorkerTypes DEF CreateBucket, Fits, PayPc, Handlers, HandlerKinds
    <3>3. worker' \in [Workers -> {Idle} \cup FitHandlers \cup Sweeps]
      BY <3>1, <3>2, GotoTypes DEF Pc
    <3>4. worker' \in [Workers -> {Idle} \cup Handlers \cup Sweeps]
      BY <3>3 DEF FitHandlers
    <3>5. QED
      BY <2>5, <3>1, <3>3, <3>4, WorkerTypes DEF CreateBucket, At, Working, SetStatus, Fits, Handlers, Rows
  <2>6. ASSUME NEW w \in Workers, DropBucket(w) PROVE TypeInv'
    <3>1. Working(w) /\ worker[w].pc = "dropping" /\ Sub(w) \in Subs
      BY <2>6, WorkerTypes DEF DropBucket, At, Working, Sub, Handlers, Rows
    <3>2. \E pc \in {"failing"} : Goto(w, pc) /\ Fits([worker[w] EXCEPT !.pc = pc])
      BY <2>6, <3>1, WorkerTypes DEF DropBucket, Fits, PayPc, Handlers, HandlerKinds
    <3>3. worker' \in [Workers -> {Idle} \cup FitHandlers \cup Sweeps]
      BY <3>1, <3>2, GotoTypes DEF Pc
    <3>4. worker' \in [Workers -> {Idle} \cup Handlers \cup Sweeps]
      BY <3>3 DEF FitHandlers
    <3>5. QED
      BY <2>6, <3>1, <3>3, <3>4, WorkerTypes DEF DropBucket, At, Working, SetStatus, Fits, Handlers, Rows
  <2>7. ASSUME NEW w \in Workers, Activate(w) PROVE TypeInv'
    <3>1. Working(w) /\ worker[w].pc = "activating" /\ Sub(w) \in Subs
      BY <2>7, WorkerTypes DEF Activate, At, Working, Sub, Handlers, Rows
    <3>2. \E pc \in {"reporting"} : Goto(w, pc) /\ Fits([worker[w] EXCEPT !.pc = pc])
      BY <2>7, <3>1, WorkerTypes DEF Activate, Fits, PayPc, Handlers, HandlerKinds
    <3>3. worker' \in [Workers -> {Idle} \cup FitHandlers \cup Sweeps]
      BY <3>1, <3>2, GotoTypes DEF Pc
    <3>4. worker' \in [Workers -> {Idle} \cup Handlers \cup Sweeps]
      BY <3>3 DEF FitHandlers
    <3>5. QED
      BY <2>7, <3>1, <3>3, <3>4, WorkerTypes, WriteTypes
      DEF Activate, At, Working, Status, Fits, Handlers, Rows
  <2>8. ASSUME NEW w \in Workers, MarkFailed(w) PROVE TypeInv'
    <3>1. Working(w) /\ worker[w].pc = "failing" /\ Sub(w) \in Subs
      BY <2>8, WorkerTypes DEF MarkFailed, At, Working, Sub, Handlers, Rows
    <3>2. \E pc \in {"apologizing"} : Goto(w, pc) /\ Fits([worker[w] EXCEPT !.pc = pc])
      BY <2>8, <3>1, WorkerTypes DEF MarkFailed, Fits, PayPc, Handlers, HandlerKinds
    <3>3. worker' \in [Workers -> {Idle} \cup FitHandlers \cup Sweeps]
      BY <3>1, <3>2, GotoTypes DEF Pc
    <3>4. worker' \in [Workers -> {Idle} \cup Handlers \cup Sweeps]
      BY <3>3 DEF FitHandlers
    <3>5. QED
      BY <2>8, <3>1, <3>3, <3>4, WorkerTypes, WriteTypes
      DEF MarkFailed, At, Working, Status, Fits, Handlers, Rows
  <2>9. ASSUME NEW w \in Workers, MarkEnded(w) PROVE TypeInv'
    <3>1. Working(w) /\ worker[w].pc = "marking" /\ Sub(w) \in Subs
      BY <2>9, WorkerTypes DEF MarkEnded, At, Working, Sub, Handlers, Rows
    <3>2. \E pc \in {"releasing"} : Goto(w, pc) /\ Fits([worker[w] EXCEPT !.pc = pc])
      BY <2>9, <3>1, WorkerTypes DEF MarkEnded, Fits, PayPc, Handlers, HandlerKinds
    <3>3. worker' \in [Workers -> {Idle} \cup FitHandlers \cup Sweeps]
      BY <3>1, <3>2, GotoTypes DEF Pc
    <3>4. worker' \in [Workers -> {Idle} \cup Handlers \cup Sweeps]
      BY <3>3 DEF FitHandlers
    <3>5. QED
      BY <2>9, <3>1, <3>3, <3>4, WorkerTypes, WriteTypes
      DEF MarkEnded, At, Working, Status, ReportedStatus, Fits, Handlers, Rows
  <2>10. ASSUME NEW w \in Workers, DeleteBucket(w) PROVE TypeInv'
    <3>1. Working(w) /\ worker[w].pc = "deleting" /\ Sub(w) \in Subs
      BY <2>10, WorkerTypes DEF DeleteBucket, At, Working, Sub, Handlers, Rows
    <3>2. \E pc \in {"releasing"} : Goto(w, pc) /\ Fits([worker[w] EXCEPT !.pc = pc])
      BY <2>10, <3>1, WorkerTypes DEF DeleteBucket, Fits, PayPc, Handlers, HandlerKinds
    <3>3. worker' \in [Workers -> {Idle} \cup FitHandlers \cup Sweeps]
      BY <3>1, <3>2, GotoTypes DEF Pc
    <3>4. worker' \in [Workers -> {Idle} \cup Handlers \cup Sweeps]
      BY <3>3 DEF FitHandlers
    <3>5. QED
      BY <2>10, <3>1, <3>3, <3>4, WorkerTypes DEF DeleteBucket, At, Working, SetStatus, Fits, Handlers, Rows
  <2>11. ASSUME NEW w \in Workers, MarkDeleted(w) PROVE TypeInv'
    <3>1. Working(w) /\ worker[w].pc = "closing" /\ Sub(w) \in Subs
      BY <2>11, WorkerTypes DEF MarkDeleted, At, Working, Sub, Handlers, Rows
    <3>2. \E pc \in {"pushing"} : Goto(w, pc) /\ Fits([worker[w] EXCEPT !.pc = pc])
      BY <2>11, <3>1, WorkerTypes DEF MarkDeleted, Fits, PayPc, Handlers, HandlerKinds
    <3>3. worker' \in [Workers -> {Idle} \cup FitHandlers \cup Sweeps]
      BY <3>1, <3>2, GotoTypes DEF Pc
    <3>4. worker' \in [Workers -> {Idle} \cup Handlers \cup Sweeps]
      BY <3>3 DEF FitHandlers
    <3>5. QED
      BY <2>11, <3>1, <3>3, <3>4, WorkerTypes, WriteTypes
      DEF MarkDeleted, At, Working, Status, Fits, Handlers, Rows
  <2>12. ASSUME NEW w \in Workers, Rollback(w) PROVE TypeInv'
    <3>1. Working(w) /\ worker[w].pc = "rollback" /\ Sub(w) \in Subs
      BY <2>12, WorkerTypes DEF Rollback, At, Working, Sub, Handlers, Rows
    <3>2. \E pc \in {"failing"} : Goto(w, pc) /\ Fits([worker[w] EXCEPT !.pc = pc])
      BY <2>12, <3>1, WorkerTypes DEF Rollback, Fits, PayPc, Handlers, HandlerKinds
    <3>3. worker' \in [Workers -> {Idle} \cup FitHandlers \cup Sweeps]
      BY <3>1, <3>2, GotoTypes DEF Pc
    <3>4. worker' \in [Workers -> {Idle} \cup Handlers \cup Sweeps]
      BY <3>3 DEF FitHandlers
    <3>5. QED
      BY <2>12, <3>1, <3>3, <3>4, WorkerTypes DEF Rollback, At, Working, Decrement, SetStatus, Fits, Handlers, Rows
  <2>13. ASSUME NEW w \in Workers, Release(w) PROVE TypeInv'
    <3>1. Working(w) /\ worker[w].pc = "releasing" /\ Sub(w) \in Subs
      BY <2>13, WorkerTypes DEF Release, At, Working, Sub, Handlers, Rows
    <3>2. \E pc \in {"reporting", "closing"} : Goto(w, pc) /\ Fits([worker[w] EXCEPT !.pc = pc])
      BY <2>13, <3>1, WorkerTypes DEF Release, Fits, PayPc, Handlers, HandlerKinds
    <3>3. worker' \in [Workers -> {Idle} \cup FitHandlers \cup Sweeps]
      BY <3>1, <3>2, GotoTypes DEF Pc
    <3>4. worker' \in [Workers -> {Idle} \cup Handlers \cup Sweeps]
      BY <3>3 DEF FitHandlers
    <3>5. QED
      BY <2>13, <3>1, <3>3, <3>4, WorkerTypes DEF Release, At, Working, Decrement, SetStatus, Fits, Handlers, Rows
  <2>14. ASSUME NEW w \in Workers, Apologize(w) PROVE TypeInv'
    <3>1. Working(w) /\ worker[w].pc = "apologizing" /\ worker[w].row \in Rows
      BY <2>14, WorkerTypes DEF Apologize, At, Working, Handlers
    <3>2. worker' \in [Workers -> {Idle} \cup FitHandlers \cup Sweeps]
      BY <2>14, <3>1, LeaveTypes DEF Apologize
    <3>3. worker' \in [Workers -> {Idle} \cup Handlers \cup Sweeps]
      BY <3>2 DEF FitHandlers
    <3>4. QED
      BY <2>14, <3>1, <3>2, <3>3, WorkerTypes DEF Apologize, Status, Fits, Rows, Sub
  <2>15. ASSUME NEW w \in Workers, Report(w) PROVE TypeInv'
    <3>1. Working(w) /\ worker[w].pc = "reporting" /\ worker[w].row \in Rows
      BY <2>15, WorkerTypes DEF Report, At, Working, Handlers
    <3>2. worker' \in [Workers -> {Idle} \cup FitHandlers \cup Sweeps]
      BY <2>15, <3>1, LeaveTypes DEF Report
    <3>3. worker' \in [Workers -> {Idle} \cup Handlers \cup Sweeps]
      BY <3>2 DEF FitHandlers
    <3>4. QED
      BY <2>15, <3>1, <3>2, <3>3, WorkerTypes DEF Report, Status, ReportedStatus, Fits, Rows, Sub
  <2>16. ASSUME NEW w \in Workers, PushConfig(w) PROVE TypeInv'
    <3>1. Working(w) /\ worker[w].pc = "pushing" /\ worker[w].row \in Rows
      BY <2>16, WorkerTypes DEF PushConfig, At, Working, Handlers
    <3>2. worker' \in [Workers -> {Idle} \cup FitHandlers \cup Sweeps]
      BY <2>16, <3>1, LeaveTypes DEF PushConfig
    <3>3. worker' \in [Workers -> {Idle} \cup Handlers \cup Sweeps]
      BY <3>2 DEF FitHandlers
    <3>4. QED
      BY <2>16, <3>1, <3>2, <3>3, WorkerTypes DEF PushConfig, Fits, Rows, Sub
  <2>17. ASSUME NEW w \in Workers, Restore(w) PROVE TypeInv'
    <3>1. Working(w) /\ worker[w].pc = "restoring" /\ worker[w].row \in Rows
      BY <2>17, WorkerTypes DEF Restore, At, Working, Handlers
    <3>2. worker' \in [Workers -> {Idle} \cup FitHandlers \cup Sweeps]
      BY <2>17, <3>1, LeaveTypes DEF Restore
    <3>3. worker' \in [Workers -> {Idle} \cup Handlers \cup Sweeps]
      BY <3>2 DEF FitHandlers
    <3>4. QED
      BY <2>17, <3>1, <3>2, <3>3, WorkerTypes, WriteTypes DEF Restore, Fits, Rows, Sub
  <2>18. ASSUME NEW w \in Workers, SelectBackend(w) PROVE TypeInv'
    <3>1. Working(w) /\ worker[w] \in Handlers /\ Fits(worker[w])
          /\ worker[w].pc = "selecting"
      BY <2>18, WorkerTypes DEF SelectBackend, At, Working
    <3>2. CASE \E pc \in {"activating", "failing"} : Goto(w, pc)
      <4>1. \A pc \in {"activating", "failing"} : Fits([worker[w] EXCEPT !.pc = pc])
        BY <3>1 DEF Fits, PayPc, Handlers
      <4>2. worker' \in [Workers -> {Idle} \cup FitHandlers \cup Sweeps]
        BY <3>1, <3>2, <4>1, GotoTypes DEF Pc
      <4>3. QED
        BY <2>18, <4>2 DEF SelectBackend, FitHandlers
    <3>3. CASE \E b \in LeastLoaded :
                 worker' = [worker EXCEPT ![w].pc = "creating", ![w].nb = b]
      <4>1. PICK b \in LeastLoaded :
                 worker' = [worker EXCEPT ![w].pc = "creating", ![w].nb = b]
        BY <3>3
      <4>2. b \in Backends
        BY DEF LeastLoaded, Available
      <4> DEFINE h == [worker[w] EXCEPT !.pc = "creating", !.nb = b]
      <4>3. h \in Handlers /\ h.pc = "creating" /\ h.nb = b /\ h.kind = worker[w].kind
        BY <3>1, <4>2 DEF Handlers, Pc
      <4>4. worker' = [worker EXCEPT ![w] = h]
        BY <4>1, <3>1
      <4> HIDE DEF h
      <4>5. h \in FitHandlers
        BY <4>2, <4>3, <3>1 DEF FitHandlers, Fits, PayPc
      <4>6. worker' \in [Workers -> {Idle} \cup FitHandlers \cup Sweeps]
        BY <4>4, <4>5
      <4>7. QED
        BY <2>18, <4>6 DEF SelectBackend, FitHandlers
    <3>4. QED
      BY <2>18, <3>2, <3>3 DEF SelectBackend
  <2>19. ASSUME NEW w \in Workers, Count(w) PROVE TypeInv'
    <3>1. Working(w) /\ worker[w] \in Handlers /\ Fits(worker[w])
          /\ worker[w].pc = "counting"
      BY <2>19, WorkerTypes DEF Count, At, Working
    <3>2. \E pc \in {"activating", "dropping"} :
            Goto(w, pc) /\ Fits([worker[w] EXCEPT !.pc = pc])
      BY <2>19, <3>1 DEF Count, Fits, PayPc, Handlers
    <3>3. worker' \in [Workers -> {Idle} \cup FitHandlers \cup Sweeps]
      BY <3>1, <3>2, GotoTypes DEF Pc
    <3>4. load' \in [Backends -> Nat] /\ counted' \subseteq Subs
      BY <2>19, <3>1 DEF Count, Sub, Handlers, Rows
    <3>5. QED
      BY <2>19, <3>3, <3>4 DEF Count, FitHandlers
  <2>20. ASSUME NEW w \in Workers, Throw(w) PROVE TypeInv'
    <3>1. worker[w] \in Handlers /\ Fits(worker[w])
      BY <2>20, WorkerTypes DEF Throw
    <3>2. worker' \in [Workers -> {Idle} \cup FitHandlers \cup Sweeps]
      <4>1. CASE Caught(w) = "idle"
        BY <2>20, <4>1 DEF Throw
      <4>2. CASE Caught(w) # "idle"
        <5>1. Caught(w) \in Pc \ {"sweeping"}
          BY <4>2 DEF Caught, Pc
        <5>2. /\ Caught(w) \in {"rollback", "failing"} => worker[w].kind = "pay"
              /\ Caught(w) = "rollback" => worker[w].nb # None
              /\ Caught(w) \in {"rollback", "failing", "restoring"}
          BY <4>2 DEF Caught
        <5>3. Fits([worker[w] EXCEPT !.pc = Caught(w)])
          BY <3>1, <5>2 DEF Fits, PayPc, Handlers
        <5>4. QED
          BY <2>20, <4>2, <5>1, <5>3, GotoTypes DEF Throw
      <4>3. QED
        BY <4>1, <4>2
    <3>3. QED
      BY <2>20, <3>2 DEF Throw, FitHandlers
  <2>21. ASSUME NEW s \in Subs, GraceEnds(s) PROVE TypeInv'
    BY <2>21 DEF GraceEnds
  <2>22. ASSUME NEW s \in Subs, Purge(s) PROVE TypeInv'
    BY <2>22 DEF Purge, SetStatus
  <2>23. ASSUME NEW b \in Backends, EditBackend(b) PROVE TypeInv'
    BY <2>23, ProvisioningAssumption DEF EditBackend
  <2>24. ASSUME SaveBackend PROVE TypeInv'
    BY <2>24 DEF SaveBackend, Idle
  <2>25. ASSUME Crash PROVE TypeInv'
    BY <2>25, ProvisioningAssumption DEF Crash
  <2>26. CASE UNCHANGED vars
    BY <2>26 DEF vars
  <2> QED
    BY <2>1, <2>2, <2>3, <2>4, <2>5, <2>6, <2>7, <2>8, <2>9, <2>10, <2>11, <2>12, <2>13, <2>14, <2>15, <2>16, <2>17, <2>18, <2>19, <2>20, <2>21, <2>22, <2>23, <2>24, <2>25, <2>26
    DEF Next, Payment, Ending
<1>3. QED
  BY <1>1, <1>2, PTL DEF Spec

(* Every variable of the provisioning model keeps its type.                *)
THEOREM TypeCorrect == Spec => []TypeOK
BY TypeInvariance, PTL DEF TypeInv
-----------------------------------------------------------------------------
(* The load of a backend: only incrementLoad raises it, below the capacity,*)
(* and a stale save writes back a value it had.                            *)
THEOREM CapacityBound == Spec => []LoadWithinCapacity
<1>1. Init => LoadInv
  <2> SUFFICES ASSUME Init PROVE LoadInv
    OBVIOUS
  <2>1. /\ \A b \in Backends : capacity[b] \in Nat
        /\ \A b \in Backends : load[b] = 0
        /\ most = capacity /\ edit = Idle
    BY ProvisioningAssumption DEF Init
  <2>2. QED
    BY <2>1 DEF LoadInv
<1>2. TypeInv /\ LoadInv /\ [Next]_vars => LoadInv'
  <2> SUFFICES ASSUME TypeInv, LoadInv, [Next]_vars PROVE LoadInv'
    OBVIOUS
  <2> USE ProvisioningAssumption DEF LoadInv, stores, history
  <2>0. /\ load \in [Backends -> Nat] /\ DOMAIN load = Backends
        /\ \A b \in Backends : load[b] \in Nat /\ capacity[b] \in Nat /\ most[b] \in Nat
    BY DEF TypeInv, TypeOK
  <2>1. ASSUME NEW w \in Workers, Count(w) PROVE LoadInv'
    <3>1. PICK b : b = worker[w].nb
      OBVIOUS
    <3>2. /\ UNCHANGED <<capacity, edit, most>>
          /\ \/ UNCHANGED load
             \/ b \in Available /\ load' = [load EXCEPT ![b] = @ + 1]
      BY <2>1, <3>1 DEF Count
    <3>3. b \in Available => b \in Backends /\ load[b] + 1 <= most[b]
      BY <2>0 DEF Available
    <3>4. \A c \in Backends : load'[c] <= most[c]
      BY <2>0, <3>2, <3>3
    <3>5. QED
      BY <3>2, <3>4
  <2>2. ASSUME NEW b \in Backends, Decrement(b), UNCHANGED <<capacity, edit, most>>
        PROVE  LoadInv'
    <3>1. load' = [load EXCEPT ![b] = IF load[b] > 0 THEN load[b] - 1 ELSE 0]
      BY <2>2 DEF Decrement
    <3>2. \A c \in Backends : load'[c] <= most[c]
      BY <2>0, <3>1
    <3>3. QED
      BY <2>2, <3>2
  <2>3. ASSUME NEW w \in Workers, Rollback(w) \/ Release(w) PROVE LoadInv'
    <3>1. CASE Rollback(w)
      <4>1. worker[w].nb \in Backends
        BY <3>1, WorkerTypes DEF Rollback, At, Working, Fits
      <4>2. QED
        BY <2>2, <3>1, <4>1 DEF Rollback
    <3>2. CASE Release(w)
      <4>1. worker[w].row \in Rows
        BY <3>2, WorkerTypes DEF Release, At, Working, Handlers
      <4>2. QED
        BY <2>2, <3>2, <4>1 DEF Release, Rows
    <3>3. QED
      BY <2>3, <3>1, <3>2
  <2>4. ASSUME NEW b \in Backends, EditBackend(b) PROVE LoadInv'
    BY <2>4 DEF EditBackend
  <2>5. ASSUME SaveBackend PROVE LoadInv'
    <3>1. PICK b \in Backends, n \in Nat :
            /\ load' = [load EXCEPT ![b] = n] /\ n <= most[b]
            /\ edit' = Idle
            /\ \E c \in Capacities :
                 /\ capacity' = [capacity EXCEPT ![b] = c]
                 /\ most' = [most EXCEPT ![b] = IF c > @ THEN c ELSE @]
      BY <2>5 DEF SaveBackend, Idle, TypeInv, TypeOK
    <3>2. PICK c \in Capacities :
            /\ capacity' = [capacity EXCEPT ![b] = c]
            /\ most' = [most EXCEPT ![b] = IF c > @ THEN c ELSE @]
      BY <3>1
    <3>3. c \in Nat /\ \A d \in Backends : most[d] \in Nat /\ capacity[d] \in Nat
      BY <2>0
    <3>4. /\ load'[b] = n /\ capacity'[b] = c
          /\ most'[b] = (IF c > most[b] THEN c ELSE most[b])
          /\ \A d \in Backends \ {b} :
               load'[d] = load[d] /\ capacity'[d] = capacity[d] /\ most'[d] = most[d]
      BY <3>1, <3>2 DEF TypeInv, TypeOK
    <3>5. \A d \in Backends : load'[d] <= most'[d] /\ capacity'[d] <= most'[d]
      BY <3>1, <3>3, <3>4
    <3>6. QED
      BY <3>1, <3>5
  <2>6. ASSUME Crash PROVE LoadInv'
    BY <2>6 DEF Crash
  <2>7. ASSUME NEW w \in Workers,
               \/ \E kind \in Events, s \in Subs : Start(w, kind, s)
               \/ StartCleanup(w) \/ NextDue(w) \/ Throw(w)
        PROVE  LoadInv'
    BY <2>7 DEF Start, StartCleanup, NextDue, Throw
  <2>8. ASSUME NEW w \in Workers,
               \/ MarkProvisioning(w) \/ SelectBackend(w) \/ CreateBucket(w)
               \/ DropBucket(w) \/ Activate(w) \/ MarkFailed(w) \/ Apologize(w)
        PROVE  LoadInv'
    BY <2>8 DEF MarkProvisioning, SelectBackend, CreateBucket, DropBucket,
                Activate, MarkFailed, Apologize
  <2>9. ASSUME NEW w \in Workers,
               \/ MarkEnded(w) \/ DeleteBucket(w) \/ Report(w)
               \/ MarkDeleted(w) \/ PushConfig(w) \/ Restore(w)
        PROVE  LoadInv'
    BY <2>9 DEF MarkEnded, DeleteBucket, Report, MarkDeleted, PushConfig, Restore
  <2>10. ASSUME NEW s \in Subs, GraceEnds(s) \/ Purge(s) PROVE LoadInv'
    BY <2>10 DEF GraceEnds, Purge
  <2>11. CASE UNCHANGED vars
    BY <2>11 DEF vars
  <2> QED
    BY <2>1, <2>3, <2>4, <2>5, <2>6, <2>7, <2>8, <2>9, <2>10, <2>11
    DEF Next, Payment, Ending
<1>3. TypeInv /\ LoadInv => LoadWithinCapacity
  BY ProvisioningAssumption DEF TypeInv, TypeOK, LoadInv, LoadWithinCapacity
<1>4. QED
  BY <1>1, <1>2, <1>3, TypeInvariance, PTL DEF Spec

-----------------------------------------------------------------------------
(* Rows, backends and buckets of the subscriptions whose payments have not *)
(* overlapped, while every other overlap and every purge go on.            *)
Pays(w) == Working(w) /\ worker[w].kind = "pay"

Before == {"resolving", "selecting", "creating", "counting", "dropping",
           "activating"}

(* The rows a job has read and is not done with.                           *)
HeldRows(h) ==
  (IF h.pc \notin {"idle", "sweeping"} THEN {h.row} ELSE {}) \cup
  (IF h # Idle THEN h.todo ELSE {})

Fresh(r) == r.id = rid[r.sub]

(* A backend some handler has read on a row is still that row's, unless    *)
(* the row is gone.                                                        *)
Seen(r) ==
  /\ r.id <= rid[r.sub]
  /\ Fresh(r) /\ r.sub \notin crossed /\ r.home # None => r.home = home[r.sub]

(* What a payment knows: until it has activated the row, the row names the *)
(* backend it has read, and the bucket it has made is there or was deleted *)
(* as an older row's.                                                      *)
Knows(h) ==
  /\ h.pc \in {"resolving", "selecting"} => h.nb = None
  /\ h.pc \in {"creating", "counting", "dropping"} => h.row.home = None
  /\ h.pc = "activating" /\ h.nb # None => h.row.home = None
  /\ h.kind = "pay" /\ Fresh(h.row) /\ h.row.sub \notin crossed =>
       /\ h.pc \in Before => h.row.home = home[h.row.sub]
       /\ h.pc = "counting" \/ (h.pc = "activating" /\ h.nb # None)
            => <<h.nb, h.row.sub>> \in buckets \/ h.row.sub \in wiped

RowsSeen == \A w \in Workers : \A r \in HeldRows(worker[w]) : Seen(r)

PaymentsKnow == \A w \in Workers : Working(w) => Knows(worker[w])

PaymentsAlone ==
  \A v, w \in Workers :
    Pays(v) /\ Pays(w) /\ Sub(v) = Sub(w) /\ Sub(v) \notin crossed => v = w

(* A counted unit is on the row or in the hand of the subscription's       *)
(* payment.                                                                *)
UnitsHeld ==
  \A s \in counted \ crossed :
    home[s] # None \/ \E w \in Workers : Pays(w) /\ Sub(w) = s /\ InHand(w)

(* While the payment of a purged row goes on, there is nothing newer.      *)
Strays ==
  \A w \in Workers : Pays(w) /\ ~ Live(w) /\ Sub(w) \notin crossed
    => home[Sub(w)] = None /\ Sub(w) \notin counted

BucketsKept ==
  \A s \in Subs \ crossed :
    home[s] # None => <<home[s], s>> \in buckets \/ s \in wiped

HomeInv ==
  /\ RowsSeen /\ PaymentsKnow /\ PaymentsAlone
  /\ UnitsHeld /\ Strays /\ BucketsKept

(* What is held are rows.                                                  *)
LEMMA HeldTypes ==
  ASSUME TypeInv, NEW w \in Workers
  PROVE  /\ HeldRows(worker[w]) \subseteq Rows
         /\ Working(w) => worker[w].row \in HeldRows(worker[w]) /\ Sub(w) \in Subs
         /\ worker[w] # Idle => worker[w].todo \subseteq HeldRows(worker[w])
<1>1. /\ Working(w) => worker[w].row \in Rows
      /\ worker[w] # Idle => worker[w].todo \subseteq Rows
  BY WorkerTypes DEF Handlers, Sweeps, TypeInv, TypeOK
<1>2. QED
  BY <1>1 DEF HeldRows, Working, Sub, Rows

(* A handler's step is about its own subscription.                         *)
OnlyOf(w) ==
  \A q \in Subs \ {Sub(w)} :
    /\ home'[q] = home[q]
    /\ q \in wiped' <=> q \in wiped
    /\ q \in counted' <=> q \in counted
    /\ \A b \in Backends : <<b, q>> \in buckets' <=> <<b, q>> \in buckets

(* What it may do there, if no two payments of it have overlapped.         *)
Lawful(w) ==
  LET s == Sub(w)
  IN  /\ home[s] # None => home'[s] = home[s]
      /\ home'[s] # home[s] => /\ Pays(w) /\ Live(w)
                               /\ <<home'[s], s>> \in buckets' \/ s \in wiped'
      /\ s \in wiped => s \in wiped'
      /\ \A b \in Backends :
           <<b, s>> \in buckets /\ <<b, s>> \notin buckets'
           => s \in wiped' \/ (Pays(w) /\ home[s] # b)
      /\ s \in counted' => \/ home'[s] # None
                           \/ Pays(w)' /\ InHand(w)'
                           \/ s \in counted /\ ~ InHand(w)
      /\ s \in counted' /\ s \notin counted => Pays(w) /\ Live(w)

(* A lawful step of a handler keeps the invariant.                         *)
LEMMA HomeStep ==
  ASSUME TypeInv, HomeInv, NEW w \in Workers, Working(w), NEW j,
         worker' = [worker EXCEPT ![w] = j],
         HeldRows(j) \subseteq HeldRows(worker[w]),
         j.pc \notin {"idle", "sweeping"} =>
           j.row = worker[w].row /\ j.kind = worker[w].kind /\ Knows(j)',
         UNCHANGED <<rid, crossed>>, OnlyOf(w), counted' \subseteq Subs,
         Sub(w) \notin crossed => Lawful(w)
  PROVE  HomeInv'
<1> PICK s : s = Sub(w)
  OBVIOUS
<1>1. worker'[w] = j /\ \A v \in Workers : v # w => worker'[v] = worker[v]
  BY DEF TypeInv, TypeOK
<1>2. /\ \A v \in Workers : v # w => /\ Working(v)' <=> Working(v)
                                     /\ Pays(v)' <=> Pays(v)
                                     /\ Sub(v)' = Sub(v) /\ (Live(v)' <=> Live(v))
      /\ Pays(w)' => Pays(w) /\ Sub(w)' = s /\ (Live(w)' <=> Live(w))
  BY <1>1 DEF Working, Pays, Sub, Live
<1>0. \A v \in Workers : Pays(v)' => Pays(v) /\ Sub(v)' = Sub(v) /\ (Live(v) => Live(v)')
  <2>1. \A v \in Workers :
          v # w /\ Pays(v)' => Pays(v) /\ Sub(v)' = Sub(v) /\ (Live(v) => Live(v)')
    BY <1>2
  <2>2. Pays(w)' => Pays(w) /\ Sub(w)' = Sub(w) /\ (Live(w) => Live(w)')
    BY <1>2
  <2>3. QED
    BY <2>1, <2>2
<1>3. s \in Subs /\ home \in [Subs -> Backends \cup {None}]
  BY HeldTypes DEF TypeInv, TypeOK
<1>4. \A r \in Rows : Seen(r) => Seen(r)'
  <2> SUFFICES ASSUME NEW r \in Rows, Seen(r) PROVE Seen(r)'
    OBVIOUS
  <2>1. r.sub \in Subs
    BY DEF Rows
  <2>2. r.sub \notin crossed /\ home[r.sub] # None => home'[r.sub] = home[r.sub]
    BY <2>1 DEF OnlyOf, Lawful
  <2>3. QED
    BY <2>2 DEF Seen, Fresh
<1>5. RowsSeen'
  <2>1. \A v \in Workers : HeldRows(worker'[v]) \subseteq HeldRows(worker[v])
    BY <1>1
  <2>2. \A v \in Workers : \A r \in HeldRows(worker'[v]) : Seen(r)'
    BY <1>4, <2>1, HeldTypes DEF HomeInv, RowsSeen
  <2>3. QED
    BY <2>2 DEF RowsSeen, HeldRows
<1>6. \A v \in Workers : Pays(v) /\ v # w /\ Sub(v) = s /\ s \notin crossed
                         => ~ Pays(w)
  BY DEF HomeInv, PaymentsAlone
<1>7. PaymentsKnow'
  <2>1. Working(w)' => Knows(worker[w])'
    BY <1>1 DEF Working, Knows
  <2>2. ASSUME NEW v \in Workers, v # w, Working(v) PROVE Knows(worker[v])'
    <3>1. worker'[v] = worker[v] /\ Knows(worker[v])
      BY <1>1, <2>2 DEF HomeInv, PaymentsKnow
    <3>2. PICK h : h = worker[v]
      OBVIOUS
    <3>3. /\ h.row.sub \in Subs /\ h.row.sub = Sub(v)
          /\ Fits(h) /\ (h.nb \in Backends \cup {None})
      BY <2>2, <3>2, WorkerTypes, HeldTypes DEF Sub, Handlers
    <3>4. CASE ~ (h.kind = "pay" /\ Fresh(h.row) /\ h.row.sub \notin crossed)
      BY <3>1, <3>2, <3>4 DEF Knows, Fresh
    <3>5. CASE h.kind = "pay" /\ Fresh(h.row) /\ h.row.sub \notin crossed
      <4>1. Pays(v)
        BY <2>2, <3>2, <3>5 DEF Pays
      <4>2. home'[h.row.sub] = home[h.row.sub]
        BY <1>6, <2>2, <3>3, <3>5, <4>1 DEF OnlyOf, Lawful
      <4>3. ASSUME h.pc = "counting" \/ (h.pc = "activating" /\ h.nb # None)
            PROVE  <<h.nb, h.row.sub>> \in buckets' \/ h.row.sub \in wiped'
        <5>1. h.nb \in Backends
          BY <3>3, <4>3 DEF Fits
        <5>2. <<h.nb, h.row.sub>> \in buckets \/ h.row.sub \in wiped
          BY <3>1, <3>2, <3>5, <4>3 DEF Knows
        <5>3. QED
          BY <1>6, <2>2, <3>3, <3>5, <4>1, <5>1, <5>2 DEF OnlyOf, Lawful
      <4>4. QED
        BY <3>1, <3>2, <3>5, <4>2, <4>3 DEF Knows, Fresh
    <3>6. QED
      BY <3>4, <3>5
  <2>3. QED
    BY <1>2, <2>1, <2>2 DEF PaymentsKnow
<1>8. PaymentsAlone'
  <2>1. ASSUME NEW u \in Workers, NEW v \in Workers, Pays(u)', Pays(v)',
               Sub(u)' = Sub(v)', Sub(u)' \notin crossed'
        PROVE  u = v
    BY <1>0, <2>1 DEF HomeInv, PaymentsAlone
  <2>2. QED
    BY <2>1 DEF PaymentsAlone
<1>9. UnitsHeld'
  <2>1. ASSUME NEW q \in counted' \ crossed', home'[q] = None
        PROVE  \E v \in Workers : Pays(v)' /\ Sub(v)' = q /\ InHand(v)'
    <3>0. q \notin crossed
      BY <2>1
    <3>1. CASE q = s /\ Pays(w)' /\ InHand(w)'
      BY <1>2, <3>1
    <3>2. CASE q \in counted /\ (q = s => ~ InHand(w))
      <4>1. home[q] = None
        BY <1>3, <2>1, <3>0, <3>2 DEF OnlyOf, Lawful, TypeInv, TypeOK
      <4>2. PICK v \in Workers : Pays(v) /\ Sub(v) = q /\ InHand(v)
        BY <3>0, <3>2, <4>1 DEF HomeInv, UnitsHeld
      <4>3. CASE v = w
        BY <3>2, <4>2, <4>3
      <4>4. CASE v # w
        BY <1>1, <1>2, <2>1, <4>2, <4>4 DEF InHand
      <4>5. QED
        BY <4>3, <4>4
    <3>3. QED
      BY <2>1, <3>0, <3>1, <3>2 DEF OnlyOf, Lawful
  <2>2. QED
    BY <2>1 DEF UnitsHeld
<1>10. Strays'
  <2>1. ASSUME NEW v \in Workers, Pays(v)', ~ Live(v)', Sub(v)' \notin crossed
        PROVE  home'[Sub(v)'] = None /\ Sub(v)' \notin counted'
    <3>1. /\ Pays(v) /\ ~ Live(v) /\ Sub(v)' = Sub(v) /\ Sub(v) \in Subs
          /\ home[Sub(v)] = None /\ Sub(v) \notin counted
      <4>1. Pays(v) /\ Sub(v)' = Sub(v) /\ ~ Live(v)
        BY <1>0, <2>1
      <4>2. QED
        BY <2>1, <4>1, HeldTypes DEF HomeInv, Strays, Pays
    <3>2. QED
      BY <1>6, <2>1, <3>1 DEF OnlyOf, Lawful
  <2>2. QED
    BY <2>1 DEF Strays
<1>11. BucketsKept'
  <2>1. ASSUME NEW q \in Subs, q \notin crossed, home'[q] # None
        PROVE  <<home'[q], q>> \in buckets' \/ q \in wiped'
    <3>1. CASE home'[q] = home[q]
      BY <1>3, <2>1, <3>1 DEF OnlyOf, Lawful, HomeInv, BucketsKept
    <3>2. CASE home'[q] # home[q]
      BY <2>1, <3>2 DEF OnlyOf, Lawful
    <3>3. QED
      BY <3>1, <3>2
  <2>2. QED
    BY <2>1 DEF BucketsKept
<1>12. QED
  BY <1>5, <1>7, <1>8, <1>9, <1>10, <1>11 DEF HomeInv

(* So does the start of a worker at rest on rows that are seen.            *)
LEMMA HomeStart ==
  ASSUME TypeInv, HomeInv, NEW w \in Workers, ~ Working(w), NEW j,
         worker' = [worker EXCEPT ![w] = j],
         \A r \in HeldRows(j) : Seen(r), crossed \subseteq crossed',
         j.pc \notin {"idle", "sweeping"} => Knows(j),
         j.pc \notin {"idle", "sweeping"} /\ j.kind = "pay" =>
           /\ Fresh(j.row)
           /\ \A v \in Workers : Pays(v) /\ Sub(v) = j.row.sub => Sub(v) \in crossed',
         UNCHANGED <<home, rid, buckets, wiped, counted>>
  PROVE  HomeInv'
<1>1. worker'[w] = j /\ \A v \in Workers : v # w => worker'[v] = worker[v]
  BY DEF TypeInv, TypeOK
<1>2. \A v \in Workers : v # w => /\ Working(v)' <=> Working(v)
                                  /\ Pays(v)' <=> Pays(v)
                                  /\ Sub(v)' = Sub(v) /\ (Live(v)' <=> Live(v))
                                  /\ InHand(v)' <=> InHand(v)
  BY <1>1 DEF Working, Pays, Sub, Live, InHand
<1>3. /\ ~ Pays(w) /\ Sub(w)' = j.row.sub
      /\ Pays(w)' => j.pc \notin {"idle", "sweeping"} /\ j.kind = "pay" /\ Live(w)'
  BY <1>1 DEF Pays, Working, Sub, Live, Fresh
<1>4. RowsSeen'
  <2>1. \A v \in Workers : \A r \in HeldRows(worker'[v]) : Seen(r)
    BY <1>1 DEF HomeInv, RowsSeen
  <2>2. \A r : Seen(r) => Seen(r)'
    BY DEF Seen, Fresh
  <2>3. QED
    BY <2>1, <2>2 DEF RowsSeen, HeldRows
<1>5. PaymentsKnow'
  <2>1. \A h : Knows(h) => Knows(h)'
    BY DEF Knows, Fresh
  <2>2. ASSUME NEW v \in Workers, Working(v)'
        PROVE  Knows(worker[v])'
    <3>1. PICK h : h = worker'[v]
      OBVIOUS
    <3>2. CASE v # w
      BY <1>1, <1>2, <2>1, <2>2, <3>1, <3>2 DEF HomeInv, PaymentsKnow, Knows, Fresh
    <3>3. CASE v = w
      BY <1>1, <2>1, <2>2, <3>1, <3>3 DEF Working, Knows, Fresh
    <3>4. QED
      BY <3>2, <3>3
  <2>3. QED
    BY <2>2 DEF PaymentsKnow
<1>6. PaymentsAlone'
  <2>1. ASSUME NEW u \in Workers, NEW v \in Workers, Pays(u)', Pays(v)',
               Sub(u)' = Sub(v)', Sub(u)' \notin crossed'
        PROVE  u = v
    <3>1. CASE u # w /\ v # w
      BY <1>2, <2>1, <3>1 DEF HomeInv, PaymentsAlone
    <3>2. CASE u = w /\ v # w
      BY <1>2, <1>3, <2>1, <3>2
    <3>3. CASE v = w /\ u # w
      BY <1>2, <1>3, <2>1, <3>3
    <3>4. QED
      BY <3>1, <3>2, <3>3
  <2>2. QED
    BY <2>1 DEF PaymentsAlone
<1>7. UnitsHeld'
  BY <1>2, <1>3 DEF HomeInv, UnitsHeld
<1>8. Strays'
  <2>1. ASSUME NEW v \in Workers, Pays(v)', ~ Live(v)', Sub(v)' \notin crossed'
        PROVE  home'[Sub(v)'] = None /\ Sub(v)' \notin counted'
    <3>1. v # w
      BY <1>3, <2>1
    <3>2. QED
      BY <1>2, <2>1, <3>1 DEF HomeInv, Strays
  <2>2. QED
    BY <2>1 DEF Strays
<1>9. BucketsKept'
  BY DEF HomeInv, BucketsKept
<1>10. QED
  BY <1>4, <1>5, <1>6, <1>7, <1>8, <1>9 DEF HomeInv

(* A handler goes on with the same row.                                    *)
LEMMA HomeGoes ==
  ASSUME TypeInv, NEW w \in Workers, Working(w), NEW pc \in Pc \ {"sweeping"},
         Goto(w, pc)
  PROVE  \E j : /\ worker' = [worker EXCEPT ![w] = j]
                /\ j = [worker[w] EXCEPT !.pc = pc]
                /\ HeldRows(j) \subseteq HeldRows(worker[w])
                /\ j.pc = pc /\ j.kind = worker[w].kind /\ j.nb = worker[w].nb
                /\ j.row = worker[w].row /\ j.todo = worker[w].todo
<1>1. worker[w] \in Handlers /\ worker[w] # Idle
  BY WorkerTypes DEF Working, Idle
<1>2. PICK j : j = [worker[w] EXCEPT !.pc = pc]
  OBVIOUS
<1>3. /\ j.pc = pc /\ j.kind = worker[w].kind /\ j.nb = worker[w].nb
      /\ j.row = worker[w].row /\ j.todo = worker[w].todo
  BY <1>1, <1>2 DEF Handlers
<1>4. HeldRows(j) \subseteq HeldRows(worker[w])
  BY <1>1, <1>3 DEF HeldRows, Working
<1>5. QED
  BY <1>2, <1>3, <1>4 DEF Goto

(* One that is left keeps its list at most.                                *)
LEMMA HomeLeaves ==
  ASSUME TypeInv, NEW w \in Workers, Working(w),
         Leave(w) \/ worker' = [worker EXCEPT ![w] = Idle]
  PROVE  \E j : /\ worker' = [worker EXCEPT ![w] = j]
                /\ HeldRows(j) \subseteq HeldRows(worker[w])
                /\ j.pc \in {"idle", "sweeping"}
                /\ j = Idle \/ (j.pc = "sweeping" /\ j.todo = worker[w].todo)
<1>1. worker[w] # Idle
  BY DEF Working, Idle
<1>2. PICK j : /\ worker' = [worker EXCEPT ![w] = j]
               /\ j = Idle \/ j = Sweep(worker[w].todo)
  BY DEF Leave
<1>3. /\ j.pc \in {"idle", "sweeping"}
      /\ j # Idle => j.pc = "sweeping" /\ j.todo = worker[w].todo
  BY <1>2 DEF Idle, Sweep
<1>4. HeldRows(j) \subseteq HeldRows(worker[w])
  BY <1>1, <1>3 DEF HeldRows
<1>5. QED
  BY <1>2, <1>3, <1>4

(* A step of one handler that touches neither backends nor units.          *)
LEMMA StepKeeps ==
  ASSUME TypeInv, HomeInv, NEW w \in Workers, NEW pc \in Pc \ {"sweeping"},
         Working(w), Goto(w, pc),
         UNCHANGED <<home, rid, buckets, wiped, counted, crossed>>,
         Knows([worker[w] EXCEPT !.pc = pc]),
         InHand(w) => pc \in {"activating", "rollback"}
  PROVE  HomeInv'
<1>1. PICK j : /\ worker' = [worker EXCEPT ![w] = j]
               /\ j = [worker[w] EXCEPT !.pc = pc]
               /\ HeldRows(j) \subseteq HeldRows(worker[w])
               /\ j.pc = pc /\ j.kind = worker[w].kind /\ j.nb = worker[w].nb
               /\ j.row = worker[w].row /\ j.todo = worker[w].todo
  BY HomeGoes
<1>2. worker'[w] = j
  BY <1>1 DEF TypeInv, TypeOK
<1>3. Knows(j)'
  BY <1>1 DEF Knows, Fresh
<1>4. InHand(w) => Pays(w)' /\ InHand(w)'
  BY <1>1, <1>2, WorkerTypes DEF InHand, Live, Sub, Pays, Working, Fits, PayPc, Pc
<1>5. Lawful(w) /\ OnlyOf(w)
  BY <1>4 DEF Lawful, OnlyOf
<1>6. counted' \subseteq Subs
  BY DEF TypeInv, TypeOK
<1>7. QED
  BY <1>1, <1>3, <1>5, <1>6, HomeStep

(* A handler that ends with no counted unit in hand.                       *)
LEMMA LeaveKeeps ==
  ASSUME TypeInv, HomeInv, NEW w \in Workers, Working(w),
         Leave(w) \/ worker' = [worker EXCEPT ![w] = Idle],
         UNCHANGED <<home, rid, buckets, wiped, crossed>>,
         counted' = counted \/ counted' = counted \ {Sub(w)},
         InHand(w) => Sub(w) \notin counted'
  PROVE  HomeInv'
<1>1. PICK j : /\ worker' = [worker EXCEPT ![w] = j]
               /\ HeldRows(j) \subseteq HeldRows(worker[w])
               /\ j.pc \in {"idle", "sweeping"}
  BY HomeLeaves
<1>2. Lawful(w)
  BY DEF Lawful
<1>3. OnlyOf(w) /\ counted' \subseteq Subs
  BY DEF OnlyOf, TypeInv, TypeOK
<1>4. QED
  BY <1>1, <1>2, <1>3, HomeStep

(* Starting an event's handler, with the row it reads, keeps the           *)
(* invariant.                                                              *)
LEMMA StartsKeep ==
  ASSUME TypeInv, HomeInv, NEW w \in Workers,
         NEW kind \in Events, NEW s \in Subs, Start(w, kind, s)
  PROVE  HomeInv'
<1> DEFINE was == IF status[s] = "none" THEN "pending" ELSE status[s]
<1>1. PICK j : j = Run(FirstStep[kind], kind, Row(s, was), {})
  OBVIOUS
<1>2. worker' = [worker EXCEPT ![w] = j] /\ ~ Working(w)
  BY <1>1 DEF Start, Working, Idle
<1>3. /\ j.row.sub = s /\ j.row.id = rid[s] /\ j.row.home = home[s]
      /\ j.kind = kind /\ j.nb = None /\ j.todo = {} /\ j.pc = FirstStep[kind]
  BY <1>1 DEF Run, Row
<1>4. /\ FirstStep[kind] \in {"resolving", "marking", "reporting", "deleting"}
      /\ kind = "pay" => FirstStep[kind] = "resolving"
      /\ FirstStep[kind] = "resolving" => kind = "pay"
  <2>1. CASE kind = "pay"
    BY <2>1 DEF FirstStep
  <2>2. CASE kind = "plan"
    BY <2>2 DEF FirstStep
  <2>3. CASE kind = "delete"
    BY <2>3 DEF FirstStep
  <2>4. CASE kind = "cancel"
    BY <2>4 DEF FirstStep
  <2>5. CASE kind = "expire"
    BY <2>5 DEF FirstStep
  <2>6. QED
    BY <2>1, <2>2, <2>3, <2>4, <2>5 DEF Events
<1>5. Fresh(j.row) /\ Seen(j.row)
  BY <1>3 DEF Seen, Fresh, TypeInv, TypeOK
<1>6. Knows(j)
  BY <1>3, <1>4 DEF Knows
<1>7. \A r \in HeldRows(j) : Seen(r)
  BY <1>3, <1>5 DEF HeldRows
<1>8. crossed' = IF kind = "pay" /\ (\E v \in Workers : Paying(v, s))
                 THEN crossed \cup {s} ELSE crossed
  BY DEF Start
<1>9. j.kind = "pay" =>
        \A v \in Workers : Pays(v) /\ Sub(v) = j.row.sub => Sub(v) \in crossed'
  BY <1>3, <1>8 DEF Pays, Paying, Sub
<1>10. UNCHANGED <<home, rid, buckets, wiped, counted>>
  BY DEF Start, stores
<1>11. crossed \subseteq crossed'
  BY <1>8
<1>12. QED
  BY <1>2, <1>5, <1>6, <1>7, <1>9, <1>10, <1>11, HomeStart

(* So does a cleanup that reads its list,                                  *)
LEMMA CleanupStartsKeep ==
  ASSUME TypeInv, HomeInv, NEW w \in Workers, StartCleanup(w)
  PROVE  HomeInv'
<1>1. PICK list : list = {Row(s, status[s]) : s \in DueForDeletion}
  OBVIOUS
<1>2. PICK j : j = Sweep(list)
  OBVIOUS
<1>3. /\ worker' = [worker EXCEPT ![w] = j] /\ ~ Working(w)
      /\ UNCHANGED <<home, rid, buckets, wiped, counted, crossed>>
  BY <1>1, <1>2 DEF StartCleanup, rows, stores, Working, Idle
<1>4. j.pc = "sweeping" /\ j.todo = list
  BY <1>2 DEF Sweep
<1>5. \A r \in list : Seen(r)
  BY <1>1 DEF Row, Seen, Fresh, TypeInv, TypeOK, DueForDeletion
<1>6. \A r \in HeldRows(j) : Seen(r)
  BY <1>4, <1>5 DEF HeldRows
<1>7. QED
  BY <1>3, <1>4, <1>6, HomeStart

(* ... and one that turns to the next row of it.                           *)
LEMMA NextDueKeeps ==
  ASSUME TypeInv, HomeInv, NEW w \in Workers, NextDue(w)
  PROVE  HomeInv'
<1>1. worker[w] # Idle /\ ~ Working(w)
  BY DEF NextDue, At, Idle, Working
<1>2. PICK r \in worker[w].todo :
        worker' = [worker EXCEPT ![w] =
                     Run("deleting", "cleanup", r, worker[w].todo \ {r})]
  BY DEF NextDue, TypeInv, TypeOK
<1>3. PICK j : j = Run("deleting", "cleanup", r, worker[w].todo \ {r})
  OBVIOUS
<1>4. /\ j.pc = "deleting" /\ j.kind = "cleanup" /\ j.row = r
      /\ j.todo = worker[w].todo \ {r}
  BY <1>3 DEF Run
<1>5. \A q \in HeldRows(j) : Seen(q)
  BY <1>1, <1>4, HeldTypes DEF HomeInv, RowsSeen, HeldRows
<1>6. Knows(j)
  BY <1>4 DEF Knows
<1>7. UNCHANGED <<home, rid, buckets, wiped, counted, crossed>>
  BY DEF NextDue, rows, stores, history, meetings
<1>8. QED
  BY <1>1, <1>2, <1>3, <1>4, <1>5, <1>6, <1>7, HomeStart

(* What a payment before its activation may rely on.                       *)
LEMMA PaymentFacts ==
  ASSUME TypeInv, HomeInv, NEW w \in Workers,
         worker[w].pc \in Before
  PROVE  /\ Working(w) /\ Pays(w) /\ Knows(worker[w]) /\ Sub(w) \in Subs
         /\ worker[w] \in Handlers /\ Fits(worker[w]) /\ worker[w].row.sub = Sub(w)
         /\ Live(w) <=> Fresh(worker[w].row)
         /\ Sub(w) \notin crossed =>
              /\ Live(w) => worker[w].row.home = home[Sub(w)]
              /\ ~ Live(w) => home[Sub(w)] = None /\ Sub(w) \notin counted
<1>1. Working(w)
  BY DEF Before, Working
<1>2. worker[w] \in Handlers /\ Fits(worker[w])
  BY <1>1, WorkerTypes
<1>3. Pays(w)
  BY <1>1, <1>2 DEF Pays, Fits, PayPc, Before
<1>4. Knows(worker[w])
  BY <1>1 DEF HomeInv, PaymentsKnow
<1>5. Sub(w) \in Subs
  BY <1>2 DEF Sub, Handlers, Rows
<1>6. Live(w) <=> Fresh(worker[w].row)
  BY DEF Live, Fresh, Sub
<1>7. Sub(w) \notin crossed /\ Live(w) => worker[w].row.home = home[Sub(w)]
  BY <1>3, <1>4, <1>6 DEF Knows, Pays, Sub
<1>8. Sub(w) \notin crossed /\ ~ Live(w) => home[Sub(w)] = None /\ Sub(w) \notin counted
  BY <1>3 DEF HomeInv, Strays
<1>9. QED
  BY <1>1, <1>2, <1>3, <1>4, <1>5, <1>6, <1>7, <1>8 DEF Sub

(* Choosing a backend: only a row without one gets a new one.              *)
LEMMA SelectKeeps ==
  ASSUME TypeInv, HomeInv, NEW w \in Workers, SelectBackend(w)
  PROVE  HomeInv'
<1>1. worker[w].pc = "selecting"
  BY DEF SelectBackend, At
<1>2. /\ Working(w) /\ Knows(worker[w]) /\ worker[w] \in Handlers
      /\ worker[w].nb = None /\ worker[w].kind = "pay"
  BY <1>1, PaymentFacts DEF Before, Knows, Pays
<1>3. UNCHANGED <<home, rid, buckets, wiped, counted, crossed>>
  BY DEF SelectBackend, rows, stores, history, meetings
<1>4. ~ InHand(w)
  BY <1>1 DEF InHand
<1>5. CASE \E pc \in {"activating", "failing"} : Goto(w, pc)
  <2>1. PICK pc \in {"activating", "failing"} : Goto(w, pc)
    BY <1>5
  <2>2. Knows([worker[w] EXCEPT !.pc = pc])
    BY <1>1, <1>2 DEF Knows, Before, Handlers
  <2>3. QED
    BY <1>2, <1>3, <1>4, <2>1, <2>2, StepKeeps DEF Pc
<1>6. CASE /\ worker[w].row.home = None
           /\ \E b \in LeastLoaded :
                worker' = [worker EXCEPT ![w].pc = "creating", ![w].nb = b]
  <2>1. PICK b \in LeastLoaded :
               worker' = [worker EXCEPT ![w].pc = "creating", ![w].nb = b]
    BY <1>6
  <2>2. PICK j : j = [worker[w] EXCEPT !.pc = "creating", !.nb = b]
    OBVIOUS
  <2>3. /\ j.pc = "creating" /\ j.kind = worker[w].kind /\ j.row = worker[w].row
        /\ j.todo = worker[w].todo
    BY <1>2, <2>2 DEF Handlers
  <2>4. worker' = [worker EXCEPT ![w] = j]
    BY <2>1, <2>2
  <2>5. Knows(j)'
    BY <1>1, <1>2, <1>3, <1>6, <2>3 DEF Knows, Before, Fresh
  <2>6. HeldRows(j) \subseteq HeldRows(worker[w])
    BY <1>2, <2>3 DEF HeldRows, Working, Idle
  <2>7. Lawful(w) /\ OnlyOf(w) /\ counted' \subseteq Subs
    BY <1>3, <1>4 DEF Lawful, OnlyOf, TypeInv, TypeOK
  <2>8. QED
    BY <1>2, <1>3, <2>3, <2>4, <2>5, <2>6, <2>7, HomeStep
<1>7. QED
  BY <1>5, <1>6 DEF SelectBackend

(* Creating the bucket only adds to the buckets.                           *)
LEMMA CreateKeeps ==
  ASSUME TypeInv, HomeInv, NEW w \in Workers, CreateBucket(w)
  PROVE  HomeInv'
<1>1. worker[w].pc = "creating"
  BY DEF CreateBucket, At
<1>2. PICK pc \in {"counting"} : Goto(w, pc) /\ pc \in Pc \ {"sweeping"}
  BY DEF CreateBucket, Pc
<1>3. /\ buckets' = buckets \cup {<<worker[w].nb, Sub(w)>>}
      /\ UNCHANGED <<home, rid, wiped, counted, crossed>>
  BY DEF CreateBucket, rows, history, meetings
<1>4. Working(w) /\ Knows(worker[w]) /\ worker[w].row.sub = Sub(w)
  BY <1>1, PaymentFacts DEF Before
<1>5. PICK j : /\ worker' = [worker EXCEPT ![w] = j]
               /\ HeldRows(j) \subseteq HeldRows(worker[w])
               /\ j.pc = pc /\ j.kind = worker[w].kind /\ j.nb = worker[w].nb
               /\ j.row = worker[w].row /\ j.todo = worker[w].todo
  BY <1>2, <1>4, HomeGoes
<1>6. Knows(j)'
  BY <1>1, <1>2, <1>3, <1>4, <1>5 DEF Knows, Before, Fresh
<1>7. Lawful(w) /\ OnlyOf(w) /\ counted' \subseteq Subs
  BY <1>1, <1>3 DEF Lawful, OnlyOf, InHand, TypeInv, TypeOK
<1>8. QED
  BY <1>3, <1>4, <1>5, <1>6, <1>7, HomeStep

(* Counting a unit puts it in the hand of the payment, while its row is    *)
(* there.                                                                  *)
LEMMA CountKeeps ==
  ASSUME TypeInv, HomeInv, NEW w \in Workers, Count(w)
  PROVE  HomeInv'
<1>1. worker[w].pc = "counting"
  BY DEF Count, At
<1>2. PICK pc \in {"activating", "dropping"} :
        /\ Goto(w, pc) /\ pc \in Pc \ {"sweeping"}
        /\ counted' = IF pc = "activating" /\ Live(w)
                      THEN counted \cup {Sub(w)} ELSE counted
  BY DEF Count, Pc
<1>3. UNCHANGED <<home, rid, buckets, wiped, crossed>>
  BY DEF Count, rows, meetings
<1>4. /\ Working(w) /\ Knows(worker[w]) /\ worker[w].row.sub = Sub(w)
      /\ Pays(w) /\ worker[w].nb # None /\ Sub(w) \in Subs
      /\ Sub(w) \notin crossed /\ Live(w) => home[Sub(w)] = None
  BY <1>1, PaymentFacts, ProvisioningAssumption DEF Before, Fits, Knows
<1>5. PICK j : /\ worker' = [worker EXCEPT ![w] = j]
               /\ HeldRows(j) \subseteq HeldRows(worker[w])
               /\ j.pc = pc /\ j.kind = worker[w].kind /\ j.nb = worker[w].nb
               /\ j.row = worker[w].row /\ j.todo = worker[w].todo
  BY <1>2, <1>4, HomeGoes
<1>6. Knows(j)'
  BY <1>1, <1>2, <1>3, <1>4, <1>5 DEF Knows, Before, Fresh
<1>7. worker'[w] = j
  BY <1>5 DEF TypeInv, TypeOK
<1>8. ASSUME pc = "activating", Live(w), Sub(w) \notin crossed
      PROVE  Pays(w)' /\ InHand(w)'
  BY <1>3, <1>4, <1>5, <1>7, <1>8 DEF Pays, Working, InHand, Live, Sub
<1>9. Sub(w) \notin crossed => Lawful(w)
  BY <1>1, <1>2, <1>3, <1>4, <1>8 DEF Lawful, InHand
<1>10. OnlyOf(w) /\ counted' \subseteq Subs
  BY <1>2, <1>3, <1>4 DEF OnlyOf, TypeInv, TypeOK
<1>11. QED
  BY <1>3, <1>4, <1>5, <1>6, <1>9, <1>10, HomeStep

(* The loser's own bucket is nobody's: its row names no backend yet.       *)
LEMMA DropKeeps ==
  ASSUME TypeInv, HomeInv, NEW w \in Workers, DropBucket(w)
  PROVE  HomeInv'
<1>1. worker[w].pc = "dropping"
  BY DEF DropBucket, At
<1>2. PICK pc \in {"failing"} : Goto(w, pc) /\ pc \in Pc \ {"sweeping"}
  BY DEF DropBucket, Pc
<1>3. /\ buckets' = buckets \ {<<worker[w].nb, Sub(w)>>}
      /\ UNCHANGED <<home, rid, wiped, counted, crossed>>
  BY DEF DropBucket, rows, history, meetings
<1>4. /\ Working(w) /\ Knows(worker[w]) /\ worker[w].row.sub = Sub(w) /\ Pays(w)
      /\ Sub(w) \notin crossed => home[Sub(w)] = None
  BY <1>1, PaymentFacts DEF Before, Knows
<1>5. PICK j : /\ worker' = [worker EXCEPT ![w] = j]
               /\ HeldRows(j) \subseteq HeldRows(worker[w])
               /\ j.pc = pc /\ j.kind = worker[w].kind /\ j.nb = worker[w].nb
               /\ j.row = worker[w].row /\ j.todo = worker[w].todo
  BY <1>2, <1>4, HomeGoes
<1>6. Knows(j)'
  BY <1>1, <1>2, <1>3, <1>4, <1>5 DEF Knows, Before, Fresh
<1>7. Sub(w) \notin crossed => Lawful(w)
  BY <1>1, <1>3, <1>4, ProvisioningAssumption DEF Lawful, InHand
<1>8. OnlyOf(w) /\ counted' \subseteq Subs
  BY <1>3 DEF OnlyOf, TypeInv, TypeOK
<1>9. QED
  BY <1>3, <1>4, <1>5, <1>6, <1>7, <1>8, HomeStep

(* markActive writes the backend the row has, or gives it its first.       *)
LEMMA ActivateKeeps ==
  ASSUME TypeInv, HomeInv, NEW w \in Workers, Activate(w)
  PROVE  /\ HomeInv'
         /\ \A s \in Subs \ crossed : home[s] # None => home'[s] = home[s]
<1>1. worker[w].pc = "activating"
  BY DEF Activate, At
<1>2. PICK pc \in {"reporting"} : Goto(w, pc) /\ pc \in Pc \ {"sweeping"}
  BY DEF Activate, Pc
<1>3. /\ home' = IF Live(w)
                 THEN [home EXCEPT ![Sub(w)] = IF worker[w].row.home # None
                                               THEN worker[w].row.home
                                               ELSE worker[w].nb]
                 ELSE home
      /\ UNCHANGED <<rid, buckets, wiped, counted, crossed>>
  BY DEF Activate, stores, meetings
<1>4. /\ Working(w) /\ Knows(worker[w]) /\ worker[w].row.sub = Sub(w)
      /\ Pays(w) /\ Sub(w) \in Subs /\ (Live(w) <=> Fresh(worker[w].row))
  BY <1>1, PaymentFacts DEF Before
<1>5. Sub(w) \notin crossed /\ Live(w) => worker[w].row.home = home[Sub(w)]
  BY <1>1, PaymentFacts DEF Before
<1>6. PICK j : /\ worker' = [worker EXCEPT ![w] = j]
               /\ HeldRows(j) \subseteq HeldRows(worker[w])
               /\ j.pc = pc /\ j.kind = worker[w].kind /\ j.nb = worker[w].nb
               /\ j.row = worker[w].row /\ j.todo = worker[w].todo
  BY <1>2, <1>4, HomeGoes
<1>7. Knows(j)'
  BY <1>2, <1>6 DEF Knows, Before
<1>8. /\ \A q \in Subs \ {Sub(w)} : home'[q] = home[q]
      /\ ~ Live(w) => home' = home
      /\ Live(w) /\ Sub(w) \notin crossed =>
           home'[Sub(w)] = IF home[Sub(w)] # None THEN home[Sub(w)] ELSE worker[w].nb
  BY <1>3, <1>4, <1>5 DEF TypeInv, TypeOK
<1>9. ASSUME Sub(w) \notin crossed PROVE Lawful(w)
  <2>1. home[Sub(w)] # None => home'[Sub(w)] = home[Sub(w)]
    BY <1>8, <1>9
  <2>2. ASSUME home'[Sub(w)] # home[Sub(w)]
        PROVE  /\ Pays(w) /\ Live(w)
               /\ <<home'[Sub(w)], Sub(w)>> \in buckets' \/ Sub(w) \in wiped'
    <3>1. Live(w) /\ home[Sub(w)] = None /\ home'[Sub(w)] = worker[w].nb
          /\ worker[w].nb # None
      BY <1>8, <1>9, <2>2
    <3>2. <<worker[w].nb, Sub(w)>> \in buckets \/ Sub(w) \in wiped
      BY <1>1, <1>4, <1>9, <3>1, PaymentFacts DEF Knows, Pays, Before
    <3>3. QED
      BY <1>3, <1>4, <3>1, <3>2
  <2>3. Sub(w) \in counted' => home'[Sub(w)] # None \/ (Sub(w) \in counted /\ ~ InHand(w))
    <3>1. ASSUME InHand(w) PROVE home'[Sub(w)] # None
      BY <1>8, <1>9, <3>1 DEF InHand
    <3>2. QED
      BY <1>3, <3>1
  <2>4. QED
    BY <1>3, <2>1, <2>2, <2>3 DEF Lawful
<1>10. OnlyOf(w) /\ counted' \subseteq Subs
  BY <1>3, <1>8 DEF OnlyOf, TypeInv, TypeOK
<1>11. HomeInv'
  BY <1>3, <1>4, <1>6, <1>7, <1>9, <1>10, HomeStep
<1>12. QED
  BY <1>8, <1>11

(* Returning a unit takes it out of the books and out of the hand.         *)
LEMMA RollbackKeeps ==
  ASSUME TypeInv, HomeInv, NEW w \in Workers, Rollback(w)
  PROVE  HomeInv'
<1>1. worker[w].pc = "rollback"
  BY DEF Rollback, At
<1>2. PICK pc \in {"failing"} : Goto(w, pc) /\ pc \in Pc \ {"sweeping"}
  BY DEF Rollback, Pc
<1>3. /\ counted' = IF Live(w) THEN counted \ {Sub(w)} ELSE counted
      /\ UNCHANGED <<home, rid, buckets, wiped, crossed>>
  BY DEF Rollback, rows, meetings
<1>4. Working(w)
  BY <1>1 DEF Working
<1>5. PICK j : /\ worker' = [worker EXCEPT ![w] = j]
               /\ HeldRows(j) \subseteq HeldRows(worker[w])
               /\ j.pc = pc /\ j.kind = worker[w].kind /\ j.nb = worker[w].nb
               /\ j.row = worker[w].row /\ j.todo = worker[w].todo
  BY <1>2, <1>4, HomeGoes
<1>6. Knows(j)'
  BY <1>2, <1>5 DEF Knows, Before
<1>7. Lawful(w)
  BY <1>3 DEF Lawful, InHand
<1>8. OnlyOf(w) /\ counted' \subseteq Subs
  BY <1>3 DEF OnlyOf, TypeInv, TypeOK
<1>9. QED
  BY <1>3, <1>4, <1>5, <1>6, <1>7, <1>8, HomeStep

(* A deletion that takes a bucket is remembered.                           *)
LEMMA DeleteKeeps ==
  ASSUME TypeInv, HomeInv, NEW w \in Workers, DeleteBucket(w)
  PROVE  HomeInv'
<1>1. worker[w].pc = "deleting"
  BY DEF DeleteBucket, At
<1>2. PICK pc \in {"releasing"} : Goto(w, pc) /\ pc \in Pc \ {"sweeping"}
  BY DEF DeleteBucket, Pc
<1>3. Working(w) /\ worker[w].row \in Rows /\ worker[w].row.sub = Sub(w)
  BY <1>1, HeldTypes DEF Working, Sub
<1>4. PICK r : r = worker[w].row
  OBVIOUS
<1>5. /\ buckets' = buckets \ {<<r.home, Sub(w)>>}
      /\ wiped' = IF r.home = None THEN wiped ELSE wiped \cup {Sub(w)}
      /\ UNCHANGED <<home, rid, counted, crossed>>
  BY <1>3, <1>4 DEF DeleteBucket, rows, meetings
<1>6. PICK j : /\ worker' = [worker EXCEPT ![w] = j]
               /\ HeldRows(j) \subseteq HeldRows(worker[w])
               /\ j.pc = pc /\ j.kind = worker[w].kind /\ j.nb = worker[w].nb
               /\ j.row = worker[w].row /\ j.todo = worker[w].todo
  BY <1>2, <1>3, HomeGoes
<1>7. Knows(j)'
  BY <1>2, <1>6 DEF Knows, Before
<1>8. Lawful(w)
  BY <1>1, <1>5, ProvisioningAssumption DEF Lawful, InHand
<1>9. OnlyOf(w) /\ counted' \subseteq Subs
  BY <1>5 DEF OnlyOf, TypeInv, TypeOK
<1>10. QED
  BY <1>3, <1>5, <1>6, <1>7, <1>8, <1>9, HomeStep

(* An exception leaves a counted unit in hand until it is returned.        *)
LEMMA ThrowKeeps ==
  ASSUME TypeInv, HomeInv, NEW w \in Workers, Throw(w)
  PROVE  HomeInv'
<1>1. Working(w) /\ worker[w] \in Handlers /\ Fits(worker[w]) /\ Knows(worker[w])
  BY WorkerTypes DEF Throw, HomeInv, PaymentsKnow
<1>2. UNCHANGED <<home, rid, buckets, wiped, crossed>>
  BY DEF Throw, rows, stores, meetings
<1>3. InHand(w) /\ worker[w].pc = "activating" => Caught(w) = "rollback"
  BY <1>1 DEF InHand, Caught, Fits, PayPc
<1>4. CASE Caught(w) = "idle"
  <2>1. worker' = [worker EXCEPT ![w] = Idle]
    BY <1>4 DEF Throw
  <2>2. /\ counted' = counted \/ counted' = counted \ {Sub(w)}
        /\ InHand(w) => Sub(w) \notin counted'
    BY <1>3, <1>4 DEF Throw, InHand, At
  <2>3. QED
    BY <1>1, <1>2, <2>1, <2>2, LeaveKeeps
<1>5. CASE Caught(w) # "idle"
  <2>1. Caught(w) \in {"rollback", "failing", "restoring"} /\ Goto(w, Caught(w))
    BY <1>5 DEF Throw, Caught
  <2>2. worker[w].pc # "rollback"
    BY <1>5 DEF Caught
  <2>3. counted' = counted
    BY <2>2 DEF Throw, At
  <2>4. Knows([worker[w] EXCEPT !.pc = Caught(w)])
    BY <1>1, <2>1 DEF Knows, Before, Handlers
  <2>5. InHand(w) => Caught(w) \in {"activating", "rollback"}
    BY <1>3, <2>2 DEF InHand
  <2>6. Caught(w) \in Pc \ {"sweeping"}
    BY <2>1 DEF Pc
  <2>7. QED
    BY <1>1, <1>2, <2>1, <2>3, <2>4, <2>5, <2>6, StepKeeps
<1>6. QED
  BY <1>4, <1>5

(* A crash drops the units in hand and every handler with them.            *)
LEMMA CrashKeeps ==
  ASSUME TypeInv, HomeInv, Crash
  PROVE  HomeInv'
<1>1. /\ \A w \in Workers : worker'[w] = Idle
      /\ UNCHANGED <<home, rid, buckets, wiped, crossed>>
      /\ counted' = counted \ {Sub(w) : w \in {v \in Workers :
                                              Working(v) /\ InHand(v)}}
  BY DEF Crash, rows, stores, meetings
<1>2. \A w \in Workers : ~ Working(w)' /\ ~ Pays(w)'
  BY <1>1 DEF Working, Pays, Idle
<1>3. \A s \in counted' \ crossed' : home[s] # None
  BY <1>1 DEF HomeInv, UnitsHeld, Pays
<1>4. RowsSeen'
  <2>1. \A w \in Workers : HeldRows(worker'[w]) = {}
    BY <1>1 DEF HeldRows, Idle
  <2>2. QED
    BY <2>1 DEF RowsSeen, HeldRows
<1>5. QED
  BY <1>1, <1>2, <1>3, <1>4
  DEF HomeInv, PaymentsKnow, PaymentsAlone, UnitsHeld, Strays, BucketsKept

(* A purged row takes its backend and its history along; whoever has read  *)
(* it holds a row that is gone.                                            *)
LEMMA PurgeKeeps ==
  ASSUME TypeInv, HomeInv, NEW s \in Subs, Purge(s)
  PROVE  HomeInv'
<1>1. /\ home' = [home EXCEPT ![s] = None] /\ rid' = [rid EXCEPT ![s] = @ + 1]
      /\ counted' = counted \ {s}
      /\ wiped' = wiped \ {s} /\ UNCHANGED <<buckets, worker, crossed>>
  BY DEF Purge, stores, meetings
<1>2. /\ home'[s] = None /\ rid'[s] = rid[s] + 1 /\ rid[s] \in Nat
      /\ \A q \in Subs : q # s => home'[q] = home[q] /\ rid'[q] = rid[q]
      /\ \A q \in Subs : rid[q] \in Nat
  BY <1>1 DEF TypeInv, TypeOK
<1>3. \A r \in Rows : Seen(r) => Seen(r)' /\ (r.sub = s => ~ Fresh(r)')
                                /\ (r.sub # s => (Fresh(r)' <=> Fresh(r)))
  <2> SUFFICES ASSUME NEW r \in Rows, Seen(r)
               PROVE  Seen(r)' /\ (r.sub = s => ~ Fresh(r)')
                      /\ (r.sub # s => (Fresh(r)' <=> Fresh(r)))
    OBVIOUS
  <2>1. r.sub \in Subs /\ r.id \in Nat
    BY DEF Rows
  <2>2. CASE r.sub = s
    <3>1. r.id < rid'[s]
      BY <1>2, <2>1, <2>2 DEF Seen
    <3>2. QED
      BY <1>2, <2>1, <2>2, <3>1 DEF Seen, Fresh
  <2>3. CASE r.sub # s
    BY <1>1, <1>2, <2>1, <2>3 DEF Seen, Fresh
  <2>4. QED
    BY <2>2, <2>3
<1>4. RowsSeen'
  <2>1. \A w \in Workers : \A r \in HeldRows(worker'[w]) : Seen(r)'
    BY <1>1, <1>3, HeldTypes DEF HomeInv, RowsSeen
  <2>2. QED
    BY <1>1, <2>1 DEF RowsSeen, HeldRows
<1>5. \A w \in Workers : Working(w) => worker[w].row \in Rows /\ Seen(worker[w].row)
  BY HeldTypes DEF HomeInv, RowsSeen
<1>6. \A w \in Workers : Working(w) =>
        /\ Sub(w) = s => ~ Live(w)'
        /\ Sub(w) # s => (Live(w)' <=> Live(w))
  BY <1>1, <1>3, <1>5 DEF Fresh, Live, Sub
<1>7. PaymentsKnow'
  <2>1. ASSUME NEW w \in Workers, Working(w) PROVE Knows(worker[w])'
    <3>1. PICK h : h = worker[w] /\ h = worker'[w]
      BY <1>1
    <3>2. Knows(h) /\ h.row \in Rows /\ Seen(h.row) /\ h.row.sub \in Subs
      BY <1>5, <2>1, <3>1 DEF HomeInv, PaymentsKnow, Rows
    <3>3. CASE h.row.sub = s
      BY <1>3, <3>1, <3>2, <3>3 DEF Knows
    <3>4. CASE h.row.sub # s
      <4>1. Fresh(h.row)' <=> Fresh(h.row)
        BY <1>3, <3>2, <3>4
      <4>2. QED
        BY <1>1, <1>2, <3>1, <3>2, <3>4, <4>1 DEF Knows
    <3>5. QED
      BY <3>3, <3>4
  <2>2. QED
    BY <1>1, <2>1 DEF PaymentsKnow, Working
<1>8. \A w \in Workers : (Pays(w)' <=> Pays(w)) /\ Sub(w)' = Sub(w)
  BY <1>1 DEF Pays, Working, Sub
<1>9. PaymentsAlone'
  BY <1>1, <1>8 DEF HomeInv, PaymentsAlone
<1>10. UnitsHeld'
  <2>1. ASSUME NEW q \in counted' \ crossed', home'[q] = None
        PROVE  \E w \in Workers : Pays(w)' /\ Sub(w)' = q /\ InHand(w)'
    <3>1. q \in Subs /\ q # s /\ q \in counted /\ q \notin crossed
      BY <1>1, <2>1 DEF TypeInv, TypeOK
    <3>2. PICK w \in Workers : Pays(w) /\ Sub(w) = q /\ InHand(w)
      BY <1>2, <2>1, <3>1 DEF HomeInv, UnitsHeld
    <3>3. Live(w)'
      BY <1>6, <3>1, <3>2 DEF Pays, InHand
    <3>4. InHand(w)'
      BY <1>1, <1>2, <1>8, <3>1, <3>2, <3>3 DEF InHand
    <3>5. QED
      BY <1>8, <3>2, <3>4
  <2>2. QED
    BY <2>1 DEF UnitsHeld
<1>11. Strays'
  <2>1. ASSUME NEW w \in Workers, Pays(w), ~ Live(w)', Sub(w) \notin crossed
        PROVE  home'[Sub(w)] = None /\ Sub(w) \notin counted'
    <3>1. Sub(w) \in Subs /\ Working(w)
      BY <2>1, HeldTypes DEF Pays
    <3>2. CASE Sub(w) = s
      BY <1>1, <1>2, <3>2
    <3>3. CASE Sub(w) # s
      BY <1>1, <1>2, <1>6, <2>1, <3>1, <3>3 DEF HomeInv, Strays
    <3>4. QED
      BY <3>2, <3>3
  <2>2. ASSUME NEW w \in Workers, Pays(w)', ~ Live(w)', Sub(w)' \notin crossed'
        PROVE  home'[Sub(w)'] = None /\ Sub(w)' \notin counted'
    BY <1>1, <1>8, <2>1, <2>2
  <2>3. QED
    BY <2>2 DEF Strays
<1>12. BucketsKept'
  BY <1>1, <1>2 DEF HomeInv, BucketsKept
<1>13. QED
  BY <1>4, <1>7, <1>9, <1>10, <1>11, <1>12 DEF HomeInv

(* Every step keeps the invariant.                                         *)
LEMMA StepsKeep ==
  ASSUME TypeInv, HomeInv, [Next]_vars
  PROVE  HomeInv'
<1>1. ASSUME NEW w \in Workers, MarkFailed(w) PROVE HomeInv'
  <2>1. PICK pc \in {"apologizing"} : Goto(w, pc)
    BY <1>1 DEF MarkFailed
  <2>2. Working(w) /\ worker[w] \in Handlers /\ ~ InHand(w)
    BY <1>1, WorkerTypes DEF MarkFailed, At, Working, InHand
  <2>3. Knows([worker[w] EXCEPT !.pc = pc])
    BY <1>1, <2>2 DEF MarkFailed, At, HomeInv, PaymentsKnow, Knows, Before, Handlers
  <2>4. UNCHANGED <<home, rid, buckets, wiped, counted, crossed>>
    BY <1>1 DEF MarkFailed, rows, stores, history, meetings
  <2>5. QED
    BY <2>1, <2>2, <2>3, <2>4, StepKeeps DEF Pc
<1>2. ASSUME NEW w \in Workers, MarkEnded(w) PROVE HomeInv'
  <2>1. PICK pc \in {"releasing"} : Goto(w, pc)
    BY <1>2 DEF MarkEnded
  <2>2. Working(w) /\ worker[w] \in Handlers /\ ~ InHand(w)
    BY <1>2, WorkerTypes DEF MarkEnded, At, Working, InHand
  <2>3. Knows([worker[w] EXCEPT !.pc = pc])
    BY <1>2, <2>2 DEF MarkEnded, At, HomeInv, PaymentsKnow, Knows, Before, Handlers
  <2>4. UNCHANGED <<home, rid, buckets, wiped, counted, crossed>>
    BY <1>2 DEF MarkEnded, rows, stores, history, meetings
  <2>5. QED
    BY <2>1, <2>2, <2>3, <2>4, StepKeeps DEF Pc
<1>3. ASSUME NEW w \in Workers, Release(w) PROVE HomeInv'
  <2>1. PICK pc \in {"reporting", "closing"} : Goto(w, pc)
    BY <1>3 DEF Release
  <2>2. Working(w) /\ worker[w] \in Handlers /\ ~ InHand(w)
    BY <1>3, WorkerTypes DEF Release, At, Working, InHand
  <2>3. Knows([worker[w] EXCEPT !.pc = pc])
    BY <1>3, <2>2 DEF Release, At, HomeInv, PaymentsKnow, Knows, Before, Handlers
  <2>4. UNCHANGED <<home, rid, buckets, wiped, counted, crossed>>
    BY <1>3 DEF Release, rows, stores, history, meetings
  <2>5. QED
    BY <2>1, <2>2, <2>3, <2>4, StepKeeps DEF Pc
<1>4. ASSUME NEW w \in Workers, MarkDeleted(w) PROVE HomeInv'
  <2>1. PICK pc \in {"pushing"} : Goto(w, pc)
    BY <1>4 DEF MarkDeleted
  <2>2. Working(w) /\ worker[w] \in Handlers /\ ~ InHand(w)
    BY <1>4, WorkerTypes DEF MarkDeleted, At, Working, InHand
  <2>3. Knows([worker[w] EXCEPT !.pc = pc])
    BY <1>4, <2>2 DEF MarkDeleted, At, HomeInv, PaymentsKnow, Knows, Before, Handlers
  <2>4. UNCHANGED <<home, rid, buckets, wiped, counted, crossed>>
    BY <1>4 DEF MarkDeleted, rows, stores, history, meetings
  <2>5. QED
    BY <2>1, <2>2, <2>3, <2>4, StepKeeps DEF Pc
<1>5. ASSUME NEW w \in Workers, MarkProvisioning(w) PROVE HomeInv'
  <2>1. worker[w].pc = "resolving"
    BY <1>5 DEF MarkProvisioning, At
  <2>2. PICK pc \in {"selecting", "activating"} : Goto(w, pc)
    BY <1>5 DEF MarkProvisioning
  <2>3. /\ Working(w) /\ Knows(worker[w]) /\ worker[w] \in Handlers
        /\ worker[w].nb = None
    BY <2>1, PaymentFacts DEF Before, Knows
  <2>4. Knows([worker[w] EXCEPT !.pc = pc])
    BY <2>1, <2>3 DEF Knows, Before, Handlers
  <2>5. UNCHANGED <<home, rid, buckets, wiped, counted, crossed>> /\ ~ InHand(w)
    BY <1>5, <2>1 DEF MarkProvisioning, stores, meetings, InHand
  <2>6. QED
    BY <2>2, <2>3, <2>4, <2>5, StepKeeps DEF Pc
<1>6. ASSUME NEW w \in Workers, Apologize(w) PROVE HomeInv'
  <2>1. Working(w) /\ Leave(w) /\ ~ InHand(w)
    BY <1>6 DEF Apologize, At, Working, InHand
  <2>2. UNCHANGED <<home, rid, buckets, wiped, counted, crossed>>
    BY <1>6 DEF Apologize, rows, stores, history, meetings
  <2>3. QED
    BY <2>1, <2>2, LeaveKeeps
<1>7. ASSUME NEW w \in Workers, Report(w) PROVE HomeInv'
  <2>1. Working(w) /\ Leave(w) /\ ~ InHand(w)
    BY <1>7 DEF Report, At, Working, InHand
  <2>2. UNCHANGED <<home, rid, buckets, wiped, counted, crossed>>
    BY <1>7 DEF Report, rows, stores, history, meetings
  <2>3. QED
    BY <2>1, <2>2, LeaveKeeps
<1>8. ASSUME NEW w \in Workers, PushConfig(w) PROVE HomeInv'
  <2>1. Working(w) /\ Leave(w) /\ ~ InHand(w)
    BY <1>8 DEF PushConfig, At, Working, InHand
  <2>2. UNCHANGED <<home, rid, buckets, wiped, counted, crossed>>
    BY <1>8 DEF PushConfig, rows, stores, history, meetings
  <2>3. QED
    BY <2>1, <2>2, LeaveKeeps
<1>9. ASSUME NEW w \in Workers, Restore(w) PROVE HomeInv'
  <2>1. Working(w) /\ Leave(w) /\ ~ InHand(w)
    BY <1>9 DEF Restore, At, Working, InHand
  <2>2. UNCHANGED <<home, rid, buckets, wiped, counted, crossed>>
    BY <1>9 DEF Restore, rows, stores, history, meetings
  <2>3. QED
    BY <2>1, <2>2, LeaveKeeps
<1>10. ASSUME UNCHANGED <<home, rid, buckets, wiped, counted, crossed, worker>>
       PROVE  HomeInv'
  BY <1>10 DEF HomeInv, RowsSeen, Seen, HeldRows, Fresh, PaymentsKnow, Knows,
     PaymentsAlone, UnitsHeld, Strays, BucketsKept, Pays, Working, Sub, InHand, Live
<1>11. ASSUME NEW s \in Subs, GraceEnds(s) PROVE HomeInv'
  BY <1>10, <1>11 DEF GraceEnds, rows, stores, history, meetings
<1>12. ASSUME NEW b \in Backends, EditBackend(b) PROVE HomeInv'
  BY <1>10, <1>12 DEF EditBackend, rows, stores, history, meetings
<1>13. ASSUME SaveBackend PROVE HomeInv'
  BY <1>10, <1>13 DEF SaveBackend, rows, stores, history, meetings
<1>14. ASSUME NEW w \in Workers, Payment(w) PROVE HomeInv'
  BY <1>1, <1>6, <1>14, SelectKeeps, CreateKeeps, CountKeeps, DropKeeps,
     ActivateKeeps, RollbackKeeps, <1>5 DEF Payment
<1>15. ASSUME NEW w \in Workers, Ending(w) PROVE HomeInv'
  BY <1>2, <1>3, <1>4, <1>7, <1>8, <1>9, <1>15, DeleteKeeps DEF Ending
<1>16. ASSUME NEW w \in Workers,
              \/ \E kind \in Events, s \in Subs : Start(w, kind, s)
              \/ StartCleanup(w) \/ NextDue(w) \/ Throw(w)
       PROVE  HomeInv'
  BY <1>16, StartsKeep, CleanupStartsKeep, NextDueKeeps, ThrowKeeps
<1>17. ASSUME NEW w \in Workers,
              \/ \E kind \in Events, s \in Subs : Start(w, kind, s)
              \/ StartCleanup(w) \/ NextDue(w)
              \/ Payment(w) \/ Ending(w) \/ Throw(w)
       PROVE  HomeInv'
  BY <1>14, <1>15, <1>16, <1>17
<1>18. CASE UNCHANGED vars
  BY <1>10, <1>18 DEF vars, rows, stores, history, meetings
<1>19. CASE Next
  <2>1. CASE \E w \in Workers :
               \/ \E kind \in Events, s \in Subs : Start(w, kind, s)
               \/ StartCleanup(w) \/ NextDue(w)
               \/ Payment(w) \/ Ending(w) \/ Throw(w)
    BY <1>17, <2>1
  <2>2. CASE \E s \in Subs : GraceEnds(s) \/ Purge(s)
    BY <1>11, <2>2, PurgeKeeps
  <2>3. CASE \E b \in Backends : EditBackend(b)
    BY <1>12, <2>3
  <2>4. CASE SaveBackend
    BY <1>13, <2>4
  <2>5. CASE Crash
    BY <2>5, CrashKeeps
  <2>6. QED
    BY <1>19, <2>1, <2>2, <2>3, <2>4, <2>5 DEF Next
<1>20. QED
  BY <1>18, <1>19

(* The invariant about rows, backends and buckets.                         *)
LEMMA HomeInvariance == Spec => []HomeInv
<1>1. Init => HomeInv
  BY DEF Init, HomeInv, RowsSeen, HeldRows, PaymentsKnow, PaymentsAlone,
         UnitsHeld, Strays, BucketsKept, Pays, Working, Idle
<1>2. TypeInv /\ HomeInv /\ [Next]_vars => HomeInv'
  BY StepsKeep
<1>3. QED
  BY <1>1, <1>2, TypeInvariance, PTL DEF Spec

(* Nothing but the purge of a row or an overlap of payments takes its      *)
(* backend away or changes it.                                             *)
LEMMA HomeStays ==
  ASSUME TypeInv, HomeInv, [Next]_vars, NEW s \in Subs, home[s] # None
  PROVE  home'[s] = home[s] \/ status'[s] = "none" \/ s \in crossed
<1> USE DEF rows, stores, history, meetings
<1>1. ASSUME NEW w \in Workers, Activate(w) PROVE home'[s] = home[s] \/ s \in crossed
  BY <1>1, ActivateKeeps
<1>2. ASSUME NEW q \in Subs, Purge(q) PROVE home'[s] = home[s] \/ status'[s] = "none"
  BY <1>2 DEF Purge, SetStatus, TypeInv, TypeOK
<1>3. ASSUME NEW w \in Workers,
             \/ \E kind \in Events, q \in Subs : Start(w, kind, q)
             \/ StartCleanup(w) \/ NextDue(w) \/ Throw(w)
             \/ MarkProvisioning(w) \/ SelectBackend(w) \/ CreateBucket(w)
             \/ Count(w) \/ DropBucket(w) \/ Rollback(w) \/ MarkFailed(w)
             \/ Apologize(w)
      PROVE  home' = home
  BY <1>3 DEF Start, StartCleanup, NextDue, Throw, MarkProvisioning,
     SelectBackend, CreateBucket, Count, DropBucket, Rollback, MarkFailed,
     Apologize
<1>4. ASSUME NEW w \in Workers, Ending(w) PROVE home' = home
  BY <1>4 DEF Ending, MarkEnded, DeleteBucket, Release, Report, MarkDeleted,
     PushConfig, Restore
<1>5. ASSUME \/ \E q \in Subs : GraceEnds(q)
             \/ \E b \in Backends : EditBackend(b)
             \/ SaveBackend \/ Crash \/ UNCHANGED vars
      PROVE  home' = home
  BY <1>5 DEF GraceEnds, EditBackend, SaveBackend, Crash, vars
<1>6. QED
  BY <1>1, <1>2, <1>3, <1>4, <1>5 DEF Next, Payment

(* Sticky allocation: a row keeps its backend until it is purged, unless   *)
(* two payments of the subscription have overlapped, and whatever else     *)
(* does.                                                                   *)
THEOREM StickyAllocation == Spec => StickyBackend
<1>1. TypeInv /\ HomeInv /\ [Next]_vars
        => [\A s \in Subs :
              home[s] # None
              => home'[s] = home[s] \/ status'[s] = "none" \/ s \in crossed]_vars
  BY HomeStays
<1>2. QED
  BY <1>1, TypeInvariance, HomeInvariance, PTL DEF Spec, StickyBackend

(* A row's unit of load is counted once, through failures, retries and     *)
(* purges, unless two payments of the subscription have overlapped.        *)
THEOREM UnitsCountedOnce == Spec => []CountedOnce
<1>1. TypeInv /\ HomeInv => CountedOnce
  <2> SUFFICES ASSUME TypeInv, HomeInv, NEW w \in Workers, At(w, "counting"),
                      Sub(w) \in counted, Sub(w) \notin crossed
               PROVE  FALSE
    BY DEF CountedOnce
  <2>1. Pays(w) /\ Live(w) /\ home[Sub(w)] = None /\ ~ InHand(w)
    BY PaymentFacts DEF At, Before, Knows, InHand
  <2>2. PICK v \in Workers : Pays(v) /\ Sub(v) = Sub(w) /\ InHand(v)
    BY <2>1 DEF HomeInv, UnitsHeld
  <2>3. v = w
    BY <2>1, <2>2 DEF HomeInv, PaymentsAlone
  <2>4. QED
    BY <2>1, <2>2, <2>3
<1>2. QED
  BY <1>1, TypeInvariance, HomeInvariance, PTL

(* Only a deletion costs an active subscription its bucket, unless two     *)
(* payments of it have overlapped.                                         *)
THEOREM BucketsLostByDeletion == Spec => []BucketLostByDeletion
<1>1. HomeInv => BucketLostByDeletion
  BY DEF HomeInv, BucketsKept, BucketLostByDeletion
<1>2. QED
  BY <1>1, HomeInvariance, PTL

-----------------------------------------------------------------------------
(* Deletions, from lists however old, and the payments that renew what     *)
(* they delete.                                                            *)

(* The rows a job is to delete.                                            *)
DelRows(h) ==
  IF h.pc = "sweeping" THEN h.todo
  ELSE IF h.pc # "idle" /\ h.kind \in {"delete", "cleanup"}
  THEN {h.row} \cup h.todo ELSE {}

NewPays(w) == Pays(w) /\ worker[w].row.home = None

Tidy(s) == s \notin crossed \cup late

Listed(h) ==
  /\ h # Idle => \A r \in h.todo : r.was # "deleted"
  /\ h.pc \notin {"idle", "sweeping"} =>
       /\ h.kind # "cleanup" => h.todo = {}
       /\ h.kind = "cleanup" => h.row.was # "deleted"
       /\ h.pc = "restoring" => h.kind = "cleanup"

DelSeen ==
  \A w \in Workers : \A r \in DelRows(worker[w]) :
    Fresh(r) /\ Tidy(r.sub) => r.home = home[r.sub]

NoMeeting ==
  \A v, w \in Workers : \A r \in DelRows(worker[w]) :
    NewPays(v) /\ r.sub = Sub(v) => Sub(v) \in late

(* A deletion past its bucket has none to leave behind.                    *)
BucketGone ==
  \A w \in Workers :
    /\ Working(w) /\ worker[w].pc \in {"releasing", "closing"}
    /\ worker[w].kind \in {"delete", "cleanup"} /\ Live(w) /\ Tidy(Sub(w))
    => <<home[Sub(w)], Sub(w)>> \notin buckets

(* Nobody deletes the next row while a purged one's first payment goes on. *)
StraysPaid ==
  \A w \in Workers : NewPays(w) /\ ~ Live(w) /\ Tidy(Sub(w))
    => status[Sub(w)] # "deleted"

LateInv ==
  /\ \A w \in Workers : Listed(worker[w])
  /\ DelSeen /\ NoMeeting /\ BucketGone /\ StraysPaid /\ DeletedHasNoBucket

(* The rows to delete are among those held.                                *)
LEMMA DelTypes ==
  ASSUME TypeInv, NEW w \in Workers
  PROVE  /\ DelRows(worker[w]) \subseteq HeldRows(worker[w])
         /\ DelRows(worker[w]) \subseteq Rows
         /\ \A s : Deleting(w, s) <=> \E r \in DelRows(worker[w]) : r.sub = s
<1>1. worker[w].pc = "idle" <=> worker[w] = Idle
  BY WorkerTypes DEF Idle
<1>2. worker[w].pc = "sweeping" => worker[w] # Idle
  BY DEF Idle
<1>3. DelRows(worker[w]) \subseteq HeldRows(worker[w])
  BY <1>1, <1>2 DEF DelRows, HeldRows
<1>4. \A s : Deleting(w, s) <=> \E r \in DelRows(worker[w]) : r.sub = s
  BY <1>1, <1>2 DEF DelRows, Deleting, Holds, Working, Idle
<1>5. QED
  BY <1>3, <1>4, HeldTypes

(* A step of a handler in its own subscription.                            *)
Decent(w) ==
  LET s == Sub(w)
  IN  /\ status'[s] = "deleted" => <<home'[s], s>> \notin buckets'
      /\ home'[s] # home[s] => NewPays(w)
      /\ <<home[s], s>> \notin buckets /\ <<home[s], s>> \in buckets' => NewPays(w)
      /\ status'[s] = "deleted" /\ status[s] # "deleted"
           => \E r \in DelRows(worker[w]) : r.sub = s

Elsewhere(w) ==
  \A q \in Subs \ {Sub(w)} :
    /\ home'[q] = home[q] /\ status'[q] = status[q]
    /\ <<home[q], q>> \in buckets' => <<home[q], q>> \in buckets

(* A decent step keeps deletions in order.                                 *)
LEMMA LateStep ==
  ASSUME TypeInv, LateInv, NEW w \in Workers, Working(w), NEW j,
         worker' = [worker EXCEPT ![w] = j],
         DelRows(j) \subseteq DelRows(worker[w]), Listed(j),
         j.pc \notin {"idle", "sweeping"} =>
           j.row = worker[w].row /\ j.kind = worker[w].kind,
         /\ j.pc \in {"releasing", "closing"} /\ j.kind \in {"delete", "cleanup"}
         /\ Live(w) /\ Tidy(Sub(w))
         => <<home'[Sub(w)], Sub(w)>> \notin buckets',
         UNCHANGED <<rid, crossed, late>>, Elsewhere(w),
         Tidy(Sub(w)) => Decent(w)
  PROVE  LateInv'
<1> PICK s : s = Sub(w)
  OBVIOUS
<1>1. worker'[w] = j /\ \A v \in Workers : v # w => worker'[v] = worker[v]
  BY DEF TypeInv, TypeOK
<1>2. \A v \in Workers : DelRows(worker'[v]) \subseteq DelRows(worker[v])
  BY <1>1
<1>3. ASSUME NEW v \in Workers, Working(v)'
      PROVE  /\ Working(v) /\ worker'[v].row = worker[v].row
             /\ worker'[v].kind = worker[v].kind /\ Sub(v)' = Sub(v)
             /\ Live(v)' => Live(v)
             /\ Live(v) => Live(v)'
             /\ Sub(v) \in Subs
  <2>1. Working(v) /\ worker'[v].row = worker[v].row /\ worker'[v].kind = worker[v].kind
    BY <1>1, <1>3 DEF Working
  <2>2. QED
    BY <2>1, HeldTypes DEF Sub, Live
<1>4. \A v \in Workers : NewPays(v)' => NewPays(v) /\ Working(v)'
  BY <1>3 DEF NewPays, Pays
<1>5. \A q : Tidy(q)' <=> Tidy(q)
  BY DEF Tidy
<1>6. s \in Subs
  BY HeldTypes
<1>7. \A v \in Workers : Listed(worker[v])'
  <2>1. ASSUME NEW v \in Workers PROVE Listed(worker[v])'
    <3>1. PICK h : h = worker'[v]
      OBVIOUS
    <3>2. Listed(h)
      BY <1>1, <3>1 DEF LateInv
    <3>3. QED
      BY <3>1, <3>2 DEF Listed
  <2>2. QED
    BY <2>1
<1>8. ASSUME NEW v \in Workers, NEW r \in DelRows(worker[v]), Tidy(r.sub), r.sub = s
      PROVE  home'[s] = home[s] /\ (<<home[s], s>> \in buckets' => <<home[s], s>> \in buckets)
  BY <1>8 DEF LateInv, NoMeeting, Decent, Tidy
<1>9. DelSeen'
  <2>1. ASSUME NEW v \in Workers, NEW r \in DelRows(worker'[v]), Fresh(r)', Tidy(r.sub)
        PROVE  r.home = home'[r.sub]
    <3>1. /\ r \in DelRows(worker[v]) /\ r \in Rows /\ Fresh(r)
      BY <1>2, <2>1, DelTypes DEF Fresh
    <3>2. r.home = home[r.sub] /\ r.sub \in Subs
      BY <2>1, <3>1 DEF LateInv, DelSeen, Rows
    <3>3. QED
      BY <1>8, <2>1, <3>1, <3>2 DEF Elsewhere
  <2>2. QED
    BY <1>5, <2>1 DEF DelSeen, DelRows, Fresh
<1>10. NoMeeting'
  <2>1. ASSUME NEW u \in Workers, NEW v \in Workers, NEW r \in DelRows(worker'[v]),
               NewPays(u)', r.sub = Sub(u)'
        PROVE  Sub(u)' \in late
    <3>1. r \in DelRows(worker[v]) /\ NewPays(u) /\ Sub(u)' = Sub(u)
      BY <1>2, <1>3, <1>4, <2>1
    <3>2. QED
      BY <2>1, <3>1 DEF LateInv, NoMeeting
  <2>2. QED
    BY <2>1 DEF NoMeeting, DelRows
<1>11. BucketGone'
  <2>1. ASSUME NEW v \in Workers, Working(v)', worker'[v].pc \in {"releasing", "closing"},
               worker'[v].kind \in {"delete", "cleanup"}, Live(v)', Tidy(Sub(v)')
        PROVE  <<home'[Sub(v)'], Sub(v)'>> \notin buckets'
    <3>1. Working(v) /\ Live(v) /\ Sub(v)' = Sub(v) /\ Sub(v) \in Subs
          /\ worker'[v].row = worker[v].row /\ worker'[v].kind = worker[v].kind
      BY <1>3, <2>1
    <3>2. CASE v = w
      BY <1>1, <2>1, <3>1, <3>2
    <3>3. CASE v # w
      <4>1. worker'[v] = worker[v] /\ <<home[Sub(v)], Sub(v)>> \notin buckets
        BY <1>1, <2>1, <3>1, <3>3 DEF LateInv, BucketGone
      <4>2. worker[v].row \in DelRows(worker[v]) /\ worker[v].row.sub = Sub(v)
        BY <2>1, <3>1, <4>1 DEF DelRows, Working, Sub
      <4>3. QED
        BY <1>8, <2>1, <3>1, <4>1, <4>2 DEF Elsewhere
    <3>4. QED
      BY <3>2, <3>3
  <2>2. QED
    BY <1>5, <2>1 DEF BucketGone
<1>12. StraysPaid'
  <2>1. ASSUME NEW v \in Workers, NewPays(v)', ~ Live(v)', Tidy(Sub(v)')
        PROVE  status'[Sub(v)'] # "deleted"
    <3>1. NewPays(v) /\ ~ Live(v) /\ Sub(v)' = Sub(v) /\ Sub(v) \in Subs
      BY <1>3, <1>4, <2>1
    <3>2. status[Sub(v)] # "deleted"
      BY <2>1, <3>1 DEF LateInv, StraysPaid
    <3>3. \A r \in DelRows(worker[w]) : r.sub # Sub(v)
      BY <2>1, <3>1 DEF LateInv, NoMeeting, Tidy
    <3>4. QED
      BY <2>1, <3>1, <3>2, <3>3 DEF Elsewhere, Decent
  <2>2. QED
    BY <1>5, <2>1 DEF StraysPaid
<1>13. DeletedHasNoBucket'
  <2>1. ASSUME NEW q \in Subs, Tidy(q), status'[q] = "deleted"
        PROVE  <<home'[q], q>> \notin buckets'
    <3>1. CASE q = s
      BY <2>1, <3>1 DEF Decent
    <3>2. CASE q # s
      BY <2>1, <3>2 DEF Elsewhere, LateInv, DeletedHasNoBucket, Tidy
    <3>3. QED
      BY <3>1, <3>2
  <2>2. QED
    BY <2>1 DEF DeletedHasNoBucket, Tidy
<1>14. QED
  BY <1>7, <1>9, <1>10, <1>11, <1>12, <1>13 DEF LateInv

(* The start of a worker at rest.                                          *)
LEMMA LateStart ==
  ASSUME TypeInv, LateInv, NEW w \in Workers, ~ Working(w), NEW j,
         worker' = [worker EXCEPT ![w] = j], Listed(j),
         \A r \in DelRows(j) : /\ Fresh(r) /\ Tidy(r.sub) => r.home = home[r.sub]
                               /\ \A v \in Workers :
                                    NewPays(v) /\ r.sub = Sub(v) => Sub(v) \in late',
         j.pc \notin {"idle", "sweeping", "releasing", "closing"} /\ j.kind = "pay" =>
           /\ Fresh(j.row) /\ DelRows(j) = {}
           /\ j.row.home = None =>
                \A v \in Workers : \A r \in DelRows(worker[v]) :
                  r.sub = j.row.sub => r.sub \in late',
         j.pc \notin {"releasing", "closing"},
         crossed \subseteq crossed', late \subseteq late',
         \A q \in Subs : status'[q] = "deleted" => status[q] = "deleted",
         UNCHANGED <<home, rid, buckets>>
  PROVE  LateInv'
<1>1. worker'[w] = j /\ \A v \in Workers : v # w => worker'[v] = worker[v]
  BY DEF TypeInv, TypeOK
<1>2. \A q : Tidy(q)' => Tidy(q)
  BY DEF Tidy
<1>3. \A v \in Workers : v # w => /\ (Working(v)' <=> Working(v))
                                  /\ (NewPays(v)' <=> NewPays(v))
                                  /\ Sub(v)' = Sub(v) /\ (Live(v)' <=> Live(v))
  BY <1>1 DEF Working, NewPays, Pays, Sub, Live
<1>4. NewPays(w)' => /\ j.pc \notin {"idle", "sweeping"} /\ j.kind = "pay"
                     /\ j.row.home = None /\ Sub(w)' = j.row.sub /\ Live(w)'
  BY <1>1 DEF NewPays, Pays, Working, Sub, Live, Fresh
<1>5. \A v \in Workers : Listed(worker[v])'
  <2>1. ASSUME NEW v \in Workers PROVE Listed(worker[v])'
    <3>1. PICK h : h = worker'[v]
      OBVIOUS
    <3>2. Listed(h)
      BY <1>1, <3>1 DEF LateInv
    <3>3. QED
      BY <3>1, <3>2 DEF Listed
  <2>2. QED
    BY <2>1
<1>6. DelSeen'
  <2>1. ASSUME NEW v \in Workers, NEW r \in DelRows(worker'[v]), Fresh(r)', Tidy(r.sub)
        PROVE  r.home = home'[r.sub]
    <3>1. CASE v = w
      BY <1>1, <2>1, <3>1 DEF Fresh
    <3>2. CASE v # w
      BY <1>1, <2>1, <3>2 DEF LateInv, DelSeen, Fresh
    <3>3. QED
      BY <3>1, <3>2
  <2>2. QED
    BY <1>2, <2>1 DEF DelSeen, DelRows, Fresh
<1>7. NoMeeting'
  <2>1. ASSUME NEW u \in Workers, NEW v \in Workers, NEW r \in DelRows(worker'[v]),
               NewPays(u)', r.sub = Sub(u)'
        PROVE  Sub(u)' \in late'
    <3>1. CASE u = w /\ v = w
      BY <1>1, <1>4, <2>1, <3>1
    <3>2. CASE u = w /\ v # w
      BY <1>1, <1>4, <2>1, <3>2
    <3>3. CASE u # w /\ v = w
      BY <1>1, <1>3, <2>1, <3>3
    <3>4. CASE u # w /\ v # w
      BY <1>1, <1>3, <2>1, <3>4 DEF LateInv, NoMeeting
    <3>5. QED
      BY <3>1, <3>2, <3>3, <3>4
  <2>2. QED
    BY <2>1 DEF NoMeeting, DelRows
<1>8. BucketGone'
  <2>1. ASSUME NEW v \in Workers, Working(v)', worker'[v].pc \in {"releasing", "closing"},
               worker'[v].kind \in {"delete", "cleanup"}, Live(v)', Tidy(Sub(v)')
        PROVE  <<home'[Sub(v)'], Sub(v)'>> \notin buckets'
    <3>1. v # w
      BY <1>1, <2>1
    <3>2. QED
      BY <1>1, <1>3, <2>1, <3>1 DEF LateInv, BucketGone
  <2>2. QED
    BY <1>2, <2>1 DEF BucketGone
<1>9. StraysPaid'
  <2>1. ASSUME NEW v \in Workers, NewPays(v)', ~ Live(v)', Tidy(Sub(v)')
        PROVE  status'[Sub(v)'] # "deleted"
    <3>1. v # w
      BY <1>4, <2>1
    <3>2. NewPays(v) /\ ~ Live(v) /\ Sub(v)' = Sub(v)
      BY <1>3, <2>1, <3>1
    <3>3. Sub(v) \in Subs
      BY <3>2, HeldTypes DEF NewPays, Pays
    <3>4. QED
      BY <2>1, <3>2, <3>3 DEF LateInv, StraysPaid
  <2>2. QED
    BY <1>2, <2>1 DEF StraysPaid
<1>10. DeletedHasNoBucket'
  BY DEF LateInv, DeletedHasNoBucket
<1>11. QED
  BY <1>5, <1>6, <1>7, <1>8, <1>9, <1>10 DEF LateInv

(* A step of one handler that gives no backend or bucket and deletes no    *)
(* row.                                                                    *)
LEMMA GoIsLate ==
  ASSUME TypeInv, LateInv, NEW w \in Workers, NEW pc \in Pc \ {"sweeping"},
         Working(w), Goto(w, pc), UNCHANGED <<home, rid, crossed, late>>,
         buckets' \subseteq buckets, pc = "restoring" => worker[w].kind = "cleanup",
         \/ pc \notin {"releasing", "closing"}
         \/ worker[w].kind \notin {"delete", "cleanup"}
         \/ worker[w].pc = "releasing"
         \/ Live(w) /\ Tidy(Sub(w)) => <<home[Sub(w)], Sub(w)>> \notin buckets',
         status' = status \/ \E new : Write(w, new) /\ new # "deleted"
  PROVE  LateInv'
<1>1. PICK j : /\ worker' = [worker EXCEPT ![w] = j]
               /\ j.pc = pc /\ j.kind = worker[w].kind
               /\ j.row = worker[w].row /\ j.todo = worker[w].todo
  BY HomeGoes
<1>2. worker[w] # Idle /\ Listed(worker[w])
  BY DEF Working, Idle, LateInv
<1>3. Listed(j) /\ DelRows(j) \subseteq DelRows(worker[w])
  BY <1>1, <1>2 DEF Listed, Working, DelRows
<1>4. Sub(w) \in Subs
  BY HeldTypes
<1>5. /\ \A q \in Subs \ {Sub(w)} : status'[q] = status[q]
      /\ status'[Sub(w)] = "deleted" => status[Sub(w)] = "deleted"
  BY <1>4 DEF Write, SetStatus, TypeInv, TypeOK
<1>6. Elsewhere(w)
  BY <1>5 DEF Elsewhere
<1>7. Tidy(Sub(w)) => Decent(w)
  BY <1>4, <1>5 DEF Decent, LateInv, DeletedHasNoBucket, Tidy
<1>8. /\ pc \in {"releasing", "closing"} /\ worker[w].kind \in {"delete", "cleanup"}
      /\ Live(w) /\ Tidy(Sub(w))
      => <<home[Sub(w)], Sub(w)>> \notin buckets'
  BY DEF LateInv, BucketGone
<1>9. QED
  BY <1>1, <1>3, <1>6, <1>7, <1>8, LateStep

(* A handler that ends.                                                    *)
LEMMA LeaveIsLate ==
  ASSUME TypeInv, LateInv, NEW w \in Workers, Working(w),
         Leave(w) \/ worker' = [worker EXCEPT ![w] = Idle],
         UNCHANGED <<home, rid, buckets, crossed, late>>,
         status' = status \/ \E new : Write(w, new) /\ new # "deleted"
  PROVE  LateInv'
<1>1. PICK j : /\ worker' = [worker EXCEPT ![w] = j]
               /\ j.pc \in {"idle", "sweeping"}
               /\ j = Idle \/ (j.pc = "sweeping" /\ j.todo = worker[w].todo)
  BY HomeLeaves
<1>2. worker[w] # Idle /\ Listed(worker[w]) /\ worker[w] \in Handlers /\ Fits(worker[w])
  BY WorkerTypes DEF Working, Idle, LateInv
<1>3. Listed(j)
  BY <1>1, <1>2 DEF Listed, Idle
<1>4. DelRows(j) \subseteq DelRows(worker[w])
  <2>1. CASE j = Idle
    BY <2>1 DEF DelRows, Idle
  <2>2. CASE j.pc = "sweeping" /\ j.todo = worker[w].todo
    <3>1. worker[w].todo = {} \/ worker[w].kind = "cleanup"
      BY <1>2 DEF Listed, Working
    <3>2. QED
      BY <2>2, <3>1 DEF DelRows, Working
  <2>3. QED
    BY <1>1, <2>1, <2>2
<1>5. Sub(w) \in Subs
  BY HeldTypes
<1>6. /\ \A q \in Subs \ {Sub(w)} : status'[q] = status[q]
      /\ status'[Sub(w)] = "deleted" => status[Sub(w)] = "deleted"
  BY <1>5 DEF Write, SetStatus, TypeInv, TypeOK
<1>7. Elsewhere(w) /\ (Tidy(Sub(w)) => Decent(w))
  BY <1>5, <1>6 DEF Elsewhere, Decent, LateInv, DeletedHasNoBucket, Tidy
<1>8. QED
  BY <1>1, <1>3, <1>4, <1>7, LateStep

(* A payment that makes a bucket has met no deletion, or is remembered.    *)
LEMMA CreateIsLate ==
  ASSUME TypeInv, HomeInv, LateInv, NEW w \in Workers, CreateBucket(w)
  PROVE  LateInv'
<1>1. worker[w].pc = "creating"
  BY DEF CreateBucket, At
<1>2. /\ Working(w) /\ Pays(w) /\ Knows(worker[w]) /\ Sub(w) \in Subs
      /\ Fits(worker[w]) /\ worker[w].nb \in Backends
      /\ Sub(w) \notin crossed /\ Live(w) => worker[w].row.home = home[Sub(w)]
  BY <1>1, PaymentFacts DEF Before, Fits
<1>3. NewPays(w)
  BY <1>1, <1>2 DEF NewPays, Knows
<1>4. /\ buckets' = buckets \cup {<<worker[w].nb, Sub(w)>>}
      /\ UNCHANGED <<status, home, rid, crossed, late>>
  BY DEF CreateBucket, rows, history, meetings
<1>5. PICK pc \in {"counting"} : Goto(w, pc) /\ pc \in Pc \ {"sweeping"}
  BY DEF CreateBucket, Pc
<1>6. PICK j : /\ worker' = [worker EXCEPT ![w] = j]
               /\ j.pc = pc /\ j.kind = worker[w].kind
               /\ j.row = worker[w].row /\ j.todo = worker[w].todo
  BY <1>2, <1>5, HomeGoes
<1>7. Listed(j) /\ DelRows(j) \subseteq DelRows(worker[w])
  <2>1. Listed(worker[w]) /\ worker[w] # Idle
    BY <1>2 DEF LateInv, Working, Idle
  <2>2. QED
    BY <1>2, <1>5, <1>6, <2>1 DEF Listed, Working, DelRows
<1>8. Elsewhere(w)
  BY <1>4 DEF Elsewhere
<1>9. ASSUME Tidy(Sub(w)) PROVE Decent(w)
  <2>1. ASSUME status[Sub(w)] = "deleted" PROVE <<home[Sub(w)], Sub(w)>> \notin buckets'
    <3>1. Live(w)
      BY <1>3, <1>9, <2>1 DEF LateInv, StraysPaid
    <3>2. home[Sub(w)] = None
      BY <1>2, <1>3, <1>9, <3>1 DEF NewPays, Tidy
    <3>3. None # worker[w].nb /\ <<None, Sub(w)>> \notin buckets
      BY <1>2, ProvisioningAssumption DEF TypeInv, TypeOK
    <3>4. QED
      BY <1>4, <3>2, <3>3
  <2>2. QED
    BY <1>3, <1>4, <2>1 DEF Decent
<1>10. QED
  BY <1>2, <1>4, <1>5, <1>6, <1>7, <1>8, <1>9, LateStep

(* Only a payment that read no backend gives the row one.                  *)
LEMMA ActivateIsLate ==
  ASSUME TypeInv, HomeInv, LateInv, NEW w \in Workers, Activate(w)
  PROVE  LateInv'
<1>1. worker[w].pc = "activating"
  BY DEF Activate, At
<1>2. /\ Working(w) /\ Pays(w) /\ Sub(w) \in Subs
      /\ Sub(w) \notin crossed /\ Live(w) => worker[w].row.home = home[Sub(w)]
  BY <1>1, PaymentFacts DEF Before
<1>3. /\ home' = IF Live(w)
                 THEN [home EXCEPT ![Sub(w)] = IF worker[w].row.home # None
                                               THEN worker[w].row.home
                                               ELSE worker[w].nb]
                 ELSE home
      /\ Write(w, "active") /\ UNCHANGED <<rid, buckets, crossed, late>>
  BY DEF Activate, stores, meetings
<1>4. PICK pc \in {"reporting"} : Goto(w, pc) /\ pc \in Pc \ {"sweeping"}
  BY DEF Activate, Pc
<1>5. PICK j : /\ worker' = [worker EXCEPT ![w] = j]
               /\ j.pc = pc /\ j.kind = worker[w].kind
               /\ j.row = worker[w].row /\ j.todo = worker[w].todo
  BY <1>2, <1>4, HomeGoes
<1>6. Listed(j) /\ DelRows(j) \subseteq DelRows(worker[w])
  <2>1. Listed(worker[w]) /\ worker[w] # Idle
    BY <1>2 DEF LateInv, Working, Idle
  <2>2. QED
    BY <1>2, <1>4, <1>5, <2>1 DEF Listed, Working, DelRows
<1>7. /\ \A q \in Subs \ {Sub(w)} : home'[q] = home[q] /\ status'[q] = status[q]
      /\ Live(w) => status'[Sub(w)] = "active"
      /\ ~ Live(w) => home'[Sub(w)] = home[Sub(w)] /\ status'[Sub(w)] = status[Sub(w)]
  BY <1>2, <1>3 DEF Write, SetStatus, TypeInv, TypeOK
<1>8. ASSUME Tidy(Sub(w)) PROVE home'[Sub(w)] # home[Sub(w)] => NewPays(w)
  <2>1. CASE Live(w)
    <3>1. worker[w].row.home = home[Sub(w)]
      BY <1>2, <1>8, <2>1 DEF Tidy
    <3>2. QED
      BY <1>2, <1>3, <2>1, <3>1 DEF NewPays, TypeInv, TypeOK
  <2>2. CASE ~ Live(w)
    BY <1>7, <2>2
  <2>3. QED
    BY <2>1, <2>2
<1>9. Elsewhere(w)
  BY <1>3, <1>7 DEF Elsewhere
<1>10. ASSUME Tidy(Sub(w)) PROVE Decent(w)
  BY <1>2, <1>3, <1>7, <1>8, <1>10 DEF Decent, LateInv, DeletedHasNoBucket, Tidy
<1>11. QED
  BY <1>2, <1>3, <1>4, <1>5, <1>6, <1>9, <1>10, LateStep

(* A deletion takes the bucket the row names, unless the row is gone.      *)
LEMMA DeleteIsLate ==
  ASSUME TypeInv, LateInv, NEW w \in Workers, DeleteBucket(w)
  PROVE  LateInv'
<1>1. worker[w].pc = "deleting"
  BY DEF DeleteBucket, At
<1>2. PICK pc \in {"releasing"} : Goto(w, pc) /\ pc \in Pc \ {"sweeping"}
  BY DEF DeleteBucket, Pc
<1>3. /\ Working(w) /\ worker[w].row.sub = Sub(w) /\ Fits(worker[w])
      /\ worker[w].row \in DelRows(worker[w])
  BY <1>1, WorkerTypes DEF Working, Sub, Fits, DelRows
<1>4. /\ buckets' = buckets \ {<<worker[w].row.home, Sub(w)>>}
      /\ UNCHANGED <<status, home, rid, crossed, late>>
  BY <1>3 DEF DeleteBucket, rows, meetings
<1>5. Live(w) /\ Tidy(Sub(w)) => worker[w].row.home = home[Sub(w)]
  BY <1>3 DEF LateInv, DelSeen, Fresh, Live
<1>6. QED
  BY <1>2, <1>3, <1>4, <1>5, GoIsLate

(* A row is marked deleted when its bucket is gone.                        *)
LEMMA MarkIsLate ==
  ASSUME TypeInv, LateInv, NEW w \in Workers, MarkDeleted(w)
  PROVE  LateInv'
<1>1. worker[w].pc = "closing"
  BY DEF MarkDeleted, At
<1>2. PICK pc \in {"pushing"} : Goto(w, pc) /\ pc \in Pc \ {"sweeping"}
  BY DEF MarkDeleted, Pc
<1>3. /\ Working(w) /\ worker[w].row.sub = Sub(w) /\ Sub(w) \in Subs
      /\ worker[w].kind \in {"delete", "cleanup"} /\ worker[w].row \in DelRows(worker[w])
  BY <1>1, WorkerTypes, HeldTypes DEF Working, Sub, Fits, DelRows
<1>4. Write(w, "deleted") /\ UNCHANGED <<home, rid, buckets, crossed, late>>
  BY DEF MarkDeleted, stores, meetings
<1>5. PICK j : /\ worker' = [worker EXCEPT ![w] = j]
               /\ j.pc = pc /\ j.kind = worker[w].kind
               /\ j.row = worker[w].row /\ j.todo = worker[w].todo
  BY <1>2, <1>3, HomeGoes
<1>6. Listed(j) /\ DelRows(j) \subseteq DelRows(worker[w])
  <2>1. Listed(worker[w]) /\ worker[w] # Idle
    BY <1>3 DEF LateInv, Working, Idle
  <2>2. QED
    BY <1>2, <1>3, <1>5, <2>1 DEF Listed, Working, DelRows
<1>7. /\ \A q \in Subs \ {Sub(w)} : status'[q] = status[q]
      /\ ~ Live(w) => status'[Sub(w)] = status[Sub(w)]
  BY <1>4 DEF Write, SetStatus, TypeInv, TypeOK
<1>8. Live(w) /\ Tidy(Sub(w)) => <<home[Sub(w)], Sub(w)>> \notin buckets
  BY <1>1, <1>3 DEF LateInv, BucketGone
<1>9. Elsewhere(w)
  BY <1>4, <1>7 DEF Elsewhere
<1>10. ASSUME Tidy(Sub(w)) PROVE Decent(w)
  BY <1>3, <1>4, <1>7, <1>8, <1>10 DEF Decent, LateInv, DeletedHasNoBucket, Tidy
<1>11. QED
  BY <1>2, <1>3, <1>4, <1>5, <1>6, <1>9, <1>10, LateStep

(* A deletion that starts reads the row as it is, and a payment that       *)
(* starts during one is remembered.                                        *)
LEMMA StartIsLate ==
  ASSUME TypeInv, LateInv, NEW w \in Workers,
         NEW kind \in Events, NEW s \in Subs, Start(w, kind, s)
  PROVE  LateInv'
<1> DEFINE was == IF status[s] = "none" THEN "pending" ELSE status[s]
<1>1. PICK j : j = Run(FirstStep[kind], kind, Row(s, was), {})
  OBVIOUS
<1>2. worker' = [worker EXCEPT ![w] = j] /\ ~ Working(w)
  BY <1>1 DEF Start, Working, Idle
<1>3. /\ j.row.sub = s /\ j.row.id = rid[s] /\ j.row.home = home[s]
      /\ j.kind = kind /\ j.todo = {} /\ j.pc = FirstStep[kind]
  BY <1>1 DEF Run, Row
<1>4. FirstStep[kind] \in {"resolving", "marking", "reporting", "deleting"}
  BY DEF FirstStep, Events
<1>5. /\ kind \notin {"cleanup"} /\ Fresh(j.row)
      /\ DelRows(j) = IF kind = "delete" THEN {j.row} ELSE {}
  BY <1>3, <1>4 DEF DelRows, Fresh, Events
<1>6. Listed(j)
  BY <1>3, <1>4, <1>5 DEF Listed
<1>7. /\ late \subseteq late' /\ crossed \subseteq crossed'
      /\ kind = "delete" /\ NewPayment(s) => s \in late'
      /\ kind = "pay" /\ home[s] = None /\ (\E v \in Workers : Deleting(v, s))
           => s \in late'
  BY DEF Start
<1>8. \A v \in Workers : NewPays(v) /\ s = Sub(v) => NewPayment(s)
  BY DEF NewPays, Pays, NewPayment, Paying, Sub
<1>9. \A v \in Workers : \A r \in DelRows(worker[v]) : r.sub = s => Deleting(v, s)
  BY DelTypes
<1>10. \A q \in Subs : status'[q] = "deleted" => status[q] = "deleted"
  BY DEF Start, SetStatus, TypeInv, TypeOK
<1>11. UNCHANGED <<home, rid, buckets>>
  BY DEF Start, stores
<1>12. \A r \in DelRows(j) :
         /\ Fresh(r) /\ Tidy(r.sub) => r.home = home[r.sub]
         /\ \A v \in Workers : NewPays(v) /\ r.sub = Sub(v) => Sub(v) \in late'
  BY <1>3, <1>5, <1>7, <1>8
<1>13. j.kind = "pay" =>
         /\ Fresh(j.row) /\ DelRows(j) = {}
         /\ j.row.home = None =>
              \A v \in Workers : \A r \in DelRows(worker[v]) :
                r.sub = j.row.sub => r.sub \in late'
  BY <1>3, <1>5, <1>7, <1>9
<1>14. j.pc \notin {"releasing", "closing"}
  BY <1>3, <1>4
<1>15. QED
  BY <1>2, <1>6, <1>7, <1>10, <1>11, <1>12, <1>13, <1>14, LateStart

(* So does a cleanup that reads its list,                                  *)
LEMMA CleanupIsLate ==
  ASSUME TypeInv, LateInv, NEW w \in Workers, StartCleanup(w)
  PROVE  LateInv'
<1>1. PICK list : list = {Row(s, status[s]) : s \in DueForDeletion}
  OBVIOUS
<1>2. PICK j : j = Sweep(list)
  OBVIOUS
<1>3. /\ worker' = [worker EXCEPT ![w] = j] /\ ~ Working(w)
      /\ UNCHANGED <<status, home, rid, buckets, crossed>>
      /\ late' = late \cup {s \in DueForDeletion : NewPayment(s)}
  BY <1>1, <1>2 DEF StartCleanup, rows, stores, Working, Idle
<1>4. j.pc = "sweeping" /\ j.todo = list /\ DelRows(j) = list
  BY <1>2 DEF Sweep, DelRows
<1>5. Listed(j)
  BY <1>1, <1>4 DEF Listed, Row, DueForDeletion
<1>6. \A v \in Workers : \A s : NewPays(v) /\ s = Sub(v) => NewPayment(s)
  BY DEF NewPays, Pays, NewPayment, Paying, Sub
<1>7. \A r \in list : /\ Fresh(r) /\ Tidy(r.sub) => r.home = home[r.sub]
                      /\ r.sub \in DueForDeletion
  BY <1>1 DEF Row
<1>8. \A r \in DelRows(j) :
         /\ Fresh(r) /\ Tidy(r.sub) => r.home = home[r.sub]
         /\ \A v \in Workers : NewPays(v) /\ r.sub = Sub(v) => Sub(v) \in late'
  BY <1>3, <1>4, <1>6, <1>7
<1>9. QED
  BY <1>3, <1>4, <1>5, <1>8, LateStart

(* ... and one that turns to the next row of it.                           *)
LEMMA NextDueIsLate ==
  ASSUME TypeInv, LateInv, NEW w \in Workers, NextDue(w)
  PROVE  LateInv'
<1>1. worker[w] # Idle /\ ~ Working(w) /\ worker[w].pc = "sweeping"
  BY DEF NextDue, At, Idle, Working
<1>2. PICK r \in worker[w].todo :
        worker' = [worker EXCEPT ![w] =
                     Run("deleting", "cleanup", r, worker[w].todo \ {r})]
  BY DEF NextDue, TypeInv, TypeOK
<1>3. PICK j : j = Run("deleting", "cleanup", r, worker[w].todo \ {r})
  OBVIOUS
<1>4. /\ j.pc = "deleting" /\ j.kind = "cleanup" /\ j.row = r
      /\ j.todo = worker[w].todo \ {r}
  BY <1>3 DEF Run
<1>5. DelRows(j) \subseteq DelRows(worker[w])
  BY <1>1, <1>4 DEF DelRows
<1>6. Listed(j)
  BY <1>1, <1>4 DEF LateInv, Listed
<1>7. UNCHANGED <<status, home, rid, buckets, crossed, late>>
  BY DEF NextDue, rows, stores, history, meetings
<1>8. \A q \in DelRows(j) :
         /\ Fresh(q) /\ Tidy(q.sub) => q.home = home[q.sub]
         /\ \A v \in Workers : NewPays(v) /\ q.sub = Sub(v) => Sub(v) \in late'
  BY <1>5, <1>7 DEF LateInv, DelSeen, NoMeeting
<1>9. QED
  BY <1>1, <1>2, <1>3, <1>4, <1>6, <1>7, <1>8, LateStart

(* A purged row takes the deletions of it along.                           *)
LEMMA PurgeIsLate ==
  ASSUME TypeInv, HomeInv, LateInv, NEW s \in Subs, Purge(s)
  PROVE  LateInv'
<1>1. /\ home' = [home EXCEPT ![s] = None] /\ rid' = [rid EXCEPT ![s] = @ + 1]
      /\ status' = [status EXCEPT ![s] = "none"]
      /\ UNCHANGED <<buckets, worker, crossed, late>>
  BY DEF Purge, stores, meetings, SetStatus
<1>2. /\ home'[s] = None /\ status'[s] = "none" /\ rid'[s] = rid[s] + 1
      /\ \A q \in Subs : q # s => /\ home'[q] = home[q] /\ rid'[q] = rid[q]
                                  /\ status'[q] = status[q]
      /\ \A q \in Subs : rid[q] \in Nat
  BY <1>1 DEF TypeInv, TypeOK
<1>3. \A r \in Rows : Seen(r) => /\ r.sub \in Subs
                                 /\ r.sub = s => r.id # rid'[r.sub]
                                 /\ r.sub # s => rid'[r.sub] = rid[r.sub]
  <2> SUFFICES ASSUME NEW r \in Rows, Seen(r)
               PROVE  /\ r.sub \in Subs /\ (r.sub = s => r.id # rid'[r.sub])
                      /\ (r.sub # s => rid'[r.sub] = rid[r.sub])
    OBVIOUS
  <2>1. r.sub \in Subs /\ r.id \in Nat
    BY DEF Rows
  <2>2. ASSUME r.sub = s PROVE r.id # rid'[r.sub]
    BY <1>2, <2>1, <2>2 DEF Seen
  <2>3. QED
    BY <1>2, <2>1, <2>2
<1>4. \A w \in Workers : /\ (Working(w)' <=> Working(w)) /\ Sub(w)' = Sub(w)
                         /\ (NewPays(w)' <=> NewPays(w))
  BY <1>1 DEF NewPays, Pays, Working, Sub
<1>5. ASSUME NEW w \in Workers, Working(w)
      PROVE  /\ Sub(w) \in Subs
             /\ Sub(w) = s => ~ Live(w)'
             /\ Sub(w) # s => (Live(w)' <=> Live(w))
  <2>1. worker[w].row \in Rows /\ Seen(worker[w].row)
    BY <1>5, HeldTypes DEF HomeInv, RowsSeen
  <2>2. PICK r : r = worker[w].row /\ r = worker'[w].row
    BY <1>1
  <2>3. QED
    BY <1>3, <2>1, <2>2 DEF Live, Sub
<1>6. \A w \in Workers : Listed(worker[w])'
  BY <1>1 DEF LateInv, Listed
<1>7. DelSeen'
  <2>1. ASSUME NEW w \in Workers, NEW r \in DelRows(worker[w]), Fresh(r)', Tidy(r.sub)
        PROVE  r.home = home'[r.sub]
    <3>1. r \in Rows /\ Seen(r)
      BY DelTypes DEF HomeInv, RowsSeen
    <3>2. r.sub # s /\ r.sub \in Subs /\ Fresh(r)
      BY <1>3, <2>1, <3>1 DEF Fresh
    <3>3. QED
      BY <1>2, <2>1, <3>2 DEF LateInv, DelSeen
  <2>2. ASSUME NEW w \in Workers, NEW r \in DelRows(worker'[w]), Fresh(r)', Tidy(r.sub)
        PROVE  r.home = home'[r.sub]
    BY <1>1, <2>1, <2>2
  <2>3. QED
    BY <1>1, <2>2 DEF DelSeen, DelRows, Fresh, Tidy
<1>8. NoMeeting'
  <2>1. ASSUME NEW v \in Workers, NEW w \in Workers, NEW r \in DelRows(worker'[w]),
               NewPays(v)', r.sub = Sub(v)'
        PROVE  Sub(v)' \in late'
    BY <1>1, <1>4, <2>1 DEF LateInv, NoMeeting
  <2>2. QED
    BY <2>1 DEF NoMeeting, DelRows
<1>9. BucketGone'
  <2>1. ASSUME NEW w \in Workers, Working(w), worker[w].pc \in {"releasing", "closing"},
               worker[w].kind \in {"delete", "cleanup"}, Live(w)', Tidy(Sub(w))
        PROVE  <<home'[Sub(w)], Sub(w)>> \notin buckets
    BY <1>2, <1>5, <2>1 DEF LateInv, BucketGone
  <2>2. QED
    BY <1>1, <1>4, <2>1 DEF BucketGone, Tidy
<1>10. StraysPaid'
  <2>1. ASSUME NEW w \in Workers, NewPays(w), ~ Live(w)', Tidy(Sub(w))
        PROVE  status'[Sub(w)] # "deleted"
    <3>1. Working(w)
      BY <2>1 DEF NewPays, Pays
    <3>2. QED
      BY <1>2, <1>5, <2>1, <3>1 DEF LateInv, StraysPaid
  <2>2. QED
    BY <1>1, <1>4, <2>1 DEF StraysPaid, Tidy
<1>11. DeletedHasNoBucket'
  BY <1>1, <1>2 DEF LateInv, DeletedHasNoBucket
<1>12. QED
  BY <1>6, <1>7, <1>8, <1>9, <1>10, <1>11 DEF LateInv

(* Every step keeps the invariant about deletions.                         *)
LEMMA LateSteps ==
  ASSUME TypeInv, HomeInv, LateInv, [Next]_vars
  PROVE  LateInv'
<1> USE DEF rows, stores, history, meetings
<1>1. ASSUME UNCHANGED <<status, home, rid, buckets, crossed, late, worker>>
      PROVE  LateInv'
  BY <1>1 DEF LateInv, Listed, DelSeen, DelRows, Fresh, Tidy, NoMeeting, NewPays,
     Pays, Working, Sub, BucketGone, Live, StraysPaid, DeletedHasNoBucket
<1>2. ASSUME NEW w \in Workers, MarkProvisioning(w) PROVE LateInv'
  <2>1. PICK pc \in {"selecting", "activating"} : Goto(w, pc)
    BY <1>2 DEF MarkProvisioning
  <2>2. \E new : Write(w, new) /\ new # "deleted"
    BY <1>2 DEF MarkProvisioning
  <2>3. QED
    BY <1>2, <2>1, <2>2, GoIsLate DEF MarkProvisioning, At, Working, Pc
<1>3. ASSUME NEW w \in Workers, SelectBackend(w) PROVE LateInv'
  <2>1. Working(w) /\ UNCHANGED <<status, home, rid, buckets, crossed, late>>
    BY <1>3 DEF SelectBackend, At, Working
  <2>2. CASE \E pc \in {"activating", "failing"} : Goto(w, pc)
    <3>1. PICK pc \in {"activating", "failing"} : Goto(w, pc)
      BY <2>2
    <3>2. QED
      BY <2>1, <3>1, GoIsLate DEF Pc
  <2>3. CASE \E b \in LeastLoaded :
               worker' = [worker EXCEPT ![w].pc = "creating", ![w].nb = b]
    <3>1. PICK b \in LeastLoaded :
                 worker' = [worker EXCEPT ![w].pc = "creating", ![w].nb = b]
      BY <2>3
    <3>2. worker[w] \in Handlers /\ worker[w] # Idle /\ Listed(worker[w])
      BY <2>1, WorkerTypes DEF LateInv, Working, Idle
    <3>3. PICK j : j = [worker[w] EXCEPT !.pc = "creating", !.nb = b]
      OBVIOUS
    <3>4. /\ worker' = [worker EXCEPT ![w] = j] /\ j.pc = "creating"
          /\ j.kind = worker[w].kind /\ j.row = worker[w].row
          /\ j.todo = worker[w].todo
      BY <3>1, <3>2, <3>3 DEF Handlers
    <3>5. Listed(j) /\ DelRows(j) \subseteq DelRows(worker[w])
      BY <2>1, <3>2, <3>4 DEF Listed, DelRows, Working
    <3>6. Elsewhere(w) /\ (Tidy(Sub(w)) => Decent(w))
      BY <2>1, HeldTypes DEF Elsewhere, Decent, LateInv, DeletedHasNoBucket, Tidy
    <3>7. QED
      BY <2>1, <3>4, <3>5, <3>6, LateStep
  <2>4. QED
    BY <1>3, <2>2, <2>3 DEF SelectBackend
<1>4. ASSUME NEW w \in Workers, Count(w) PROVE LateInv'
  <2>1. PICK pc \in {"activating", "dropping"} : Goto(w, pc)
    BY <1>4 DEF Count
  <2>2. QED
    BY <1>4, <2>1, GoIsLate DEF Count, At, Working, Pc
<1>5. ASSUME NEW w \in Workers, DropBucket(w) PROVE LateInv'
  <2>1. PICK pc \in {"failing"} : Goto(w, pc)
    BY <1>5 DEF DropBucket
  <2>2. QED
    BY <1>5, <2>1, GoIsLate DEF DropBucket, At, Working, Pc
<1>6. ASSUME NEW w \in Workers, Rollback(w) PROVE LateInv'
  <2>1. PICK pc \in {"failing"} : Goto(w, pc)
    BY <1>6 DEF Rollback
  <2>2. QED
    BY <1>6, <2>1, GoIsLate DEF Rollback, At, Working, Pc
<1>7. ASSUME NEW w \in Workers, MarkFailed(w) PROVE LateInv'
  <2>1. PICK pc \in {"apologizing"} : Goto(w, pc)
    BY <1>7 DEF MarkFailed
  <2>2. \E new : Write(w, new) /\ new # "deleted"
    BY <1>7 DEF MarkFailed
  <2>3. QED
    BY <1>7, <2>1, <2>2, GoIsLate DEF MarkFailed, At, Working, Pc
<1>8. ASSUME NEW w \in Workers, MarkEnded(w) PROVE LateInv'
  <2>1. PICK pc \in {"releasing"} : Goto(w, pc)
    BY <1>8 DEF MarkEnded
  <2>2. worker[w].kind \in {"cancel", "expire"} /\ Working(w)
    BY <1>8, WorkerTypes DEF MarkEnded, At, Working, Fits
  <2>3. ReportedStatus[worker[w].kind] # "deleted"
    BY <2>2 DEF ReportedStatus
  <2>4. QED
    BY <1>8, <2>1, <2>2, <2>3, GoIsLate DEF MarkEnded, Pc
<1>9. ASSUME NEW w \in Workers, Release(w) PROVE LateInv'
  <2>1. PICK pc \in {"reporting", "closing"} : Goto(w, pc)
    BY <1>9 DEF Release
  <2>2. QED
    BY <1>9, <2>1, GoIsLate DEF Release, At, Working, Pc
<1>10. ASSUME NEW w \in Workers, Apologize(w) \/ Report(w) \/ PushConfig(w)
       PROVE  LateInv'
  <2>1. Working(w) /\ Leave(w)
    BY <1>10 DEF Apologize, Report, PushConfig, At, Working
  <2>2. UNCHANGED <<status, home, rid, buckets, crossed, late>>
    BY <1>10 DEF Apologize, Report, PushConfig
  <2>3. QED
    BY <2>1, <2>2, LeaveIsLate
<1>11. ASSUME NEW w \in Workers, Restore(w) PROVE LateInv'
  <2>1. Working(w) /\ Leave(w) /\ At(w, "restoring")
    BY <1>11 DEF Restore, At, Working
  <2>2. worker[w].row.was # "deleted"
    BY <2>1 DEF LateInv, Listed, At, Working
  <2>3. QED
    BY <1>11, <2>1, <2>2, LeaveIsLate DEF Restore
<1>12. ASSUME NEW w \in Workers, Throw(w) PROVE LateInv'
  <2>1. Working(w) /\ worker[w] \in Handlers /\ Fits(worker[w])
    BY <1>12, WorkerTypes DEF Throw
  <2>2. UNCHANGED <<status, home, rid, buckets, crossed, late>>
    BY <1>12 DEF Throw
  <2>3. CASE Caught(w) = "idle"
    BY <1>12, <2>1, <2>2, <2>3, LeaveIsLate DEF Throw
  <2>4. CASE Caught(w) # "idle"
    <3>1. PICK pc \in {"rollback", "failing", "restoring"} :
                 /\ Goto(w, pc)
                 /\ pc = "restoring" => worker[w].kind = "cleanup"
      BY <1>12, <2>4 DEF Throw, Caught
    <3>2. QED
      BY <2>1, <2>2, <3>1, GoIsLate DEF Pc
  <2>5. QED
    BY <2>3, <2>4
<1>13. ASSUME Crash PROVE LateInv'
  <2>1. /\ \A w \in Workers : worker'[w] = Idle
        /\ UNCHANGED <<status, home, rid, buckets, crossed, late>>
    BY <1>13 DEF Crash
  <2>2. \A w \in Workers : ~ Working(w)' /\ ~ NewPays(w)' /\ DelRows(worker'[w]) = {}
    BY <2>1 DEF Working, NewPays, Pays, DelRows, Idle
  <2>3. \A w \in Workers : Listed(worker[w])'
    BY <2>1 DEF Listed, Idle
  <2>4. DelSeen' /\ NoMeeting'
    BY <2>2 DEF DelSeen, NoMeeting, DelRows
  <2>5. QED
    BY <2>1, <2>2, <2>3, <2>4 DEF LateInv, BucketGone, StraysPaid, DeletedHasNoBucket
<1>14. ASSUME NEW s \in Subs, GraceEnds(s) PROVE LateInv'
  BY <1>1, <1>14 DEF GraceEnds
<1>15. ASSUME NEW b \in Backends, EditBackend(b) PROVE LateInv'
  BY <1>1, <1>15 DEF EditBackend
<1>16. ASSUME SaveBackend PROVE LateInv'
  BY <1>1, <1>16 DEF SaveBackend
<1>17. ASSUME NEW w \in Workers, Payment(w) PROVE LateInv'
  BY <1>2, <1>3, <1>4, <1>5, <1>6, <1>7, <1>10, <1>17, CreateIsLate, ActivateIsLate
  DEF Payment
<1>18. ASSUME NEW w \in Workers, Ending(w) PROVE LateInv'
  BY <1>8, <1>9, <1>10, <1>11, <1>18, DeleteIsLate, MarkIsLate DEF Ending
<1>19. ASSUME NEW w \in Workers,
              \/ \E kind \in Events, s \in Subs : Start(w, kind, s)
              \/ StartCleanup(w) \/ NextDue(w) \/ Throw(w)
       PROVE  LateInv'
  BY <1>12, <1>19, StartIsLate, CleanupIsLate, NextDueIsLate
<1>20. CASE UNCHANGED vars
  BY <1>1, <1>20 DEF vars
<1>21. CASE Next
  <2>1. CASE \E w \in Workers :
               \/ \E kind \in Events, s \in Subs : Start(w, kind, s)
               \/ StartCleanup(w) \/ NextDue(w)
               \/ Payment(w) \/ Ending(w) \/ Throw(w)
    BY <1>17, <1>18, <1>19, <2>1
  <2>2. CASE \E s \in Subs : GraceEnds(s) \/ Purge(s)
    BY <1>14, <2>2, PurgeIsLate
  <2>3. CASE \E b \in Backends : EditBackend(b)
    BY <1>15, <2>3
  <2>4. QED
    BY <1>13, <1>16, <1>21, <2>1, <2>2, <2>3 DEF Next
<1>22. QED
  BY <1>20, <1>21

LEMMA LateInvariance == Spec => []LateInv
<1>1. Init => LateInv
  BY DEF Init, LateInv, Listed, DelSeen, NoMeeting, DelRows, NewPays, Pays,
     Working, BucketGone, StraysPaid, DeletedHasNoBucket, Idle
<1>2. TypeInv /\ HomeInv /\ LateInv /\ [Next]_vars => LateInv'
  BY LateSteps
<1>3. QED
  BY <1>1, <1>2, TypeInvariance, HomeInvariance, PTL DEF Spec

(* A row that says deleted names no bucket that is still there, although   *)
(* deletions work on outdated rows and rows are purged under handlers,     *)
(* unless two payments of the subscription overlapped, or one that makes   *)
(* it a bucket overlapped the deletion.                                    *)
THEOREM DeletionsDeleteBuckets == Spec => []DeletedHasNoBucket
<1>1. LateInv => DeletedHasNoBucket
  BY DEF LateInv
<1>2. QED
  BY <1>1, LateInvariance, PTL

-----------------------------------------------------------------------------
(* What billing is told: who wrote the status of a row last.               *)

(* What a handler reports, or will once it has released, is on its row.    *)
Told(h) ==
  /\ h.pc = "apologizing" => status[h.row.sub] = "failed"
  /\ \/ h.pc = "reporting" /\ h.kind # "plan"
     \/ h.pc = "releasing" /\ h.kind \in {"cancel", "expire"}
     => status[h.row.sub] = ReportedStatus[h.kind]

WritersTold ==
  \A w \in Workers : Working(w) /\ writer[Sub(w)] = w => Told(worker[w])

(* A handler whose row is gone has written nothing of the row there is.    *)
GoneUnwritten ==
  \A w \in Workers : Working(w) /\ worker[w].kind # "cleanup" /\ ~ Live(w)
    => writer[Sub(w)] # w

NoneUnwritten == \A s \in Subs : status[s] = "none" => writer[s] = None

WriterInv == WritersTold /\ GoneUnwritten /\ NoneUnwritten

(* A handler's step that writes its own row at most keeps the invariant.   *)
LEMMA WriterStep ==
  ASSUME TypeInv, WriterInv, NEW w \in Workers, Working(w), NEW j,
         worker' = [worker EXCEPT ![w] = j],
         j.pc \notin {"idle", "sweeping"} =>
           /\ j.row = worker[w].row /\ j.kind = worker[w].kind
           /\ writer'[Sub(w)] = w => Told(j)',
         UNCHANGED rid,
         UNCHANGED <<status, writer>> \/ \E new \in Status : Write(w, new)
  PROVE  WriterInv'
<1>1. worker'[w] = j /\ \A v \in Workers : v # w => worker'[v] = worker[v]
  BY DEF TypeInv, TypeOK
<1>2. Sub(w) \in Subs
  BY HeldTypes
<1>3. /\ \A q \in Subs \ {Sub(w)} : status'[q] = status[q] /\ writer'[q] = writer[q]
      /\ ~ Live(w) => writer'[Sub(w)] = writer[Sub(w)]
      /\ \/ status'[Sub(w)] = status[Sub(w)] /\ writer'[Sub(w)] = writer[Sub(w)]
         \/ status'[Sub(w)] # "none" /\ writer'[Sub(w)] = w
  BY <1>2 DEF Write, SetStatus, TypeInv, TypeOK, Status
<1>4. ASSUME NEW v \in Workers, v # w, Working(v)'
      PROVE  /\ Working(v) /\ Sub(v)' = Sub(v) /\ (Live(v)' <=> Live(v))
             /\ Sub(v) \in Subs /\ worker'[v] = worker[v]
             /\ writer'[Sub(v)] = v => /\ writer[Sub(v)] = v
                                       /\ status'[Sub(v)] = status[Sub(v)]
  <2>1. /\ Working(v) /\ worker'[v] = worker[v] /\ Sub(v)' = Sub(v)
        /\ (Live(v)' <=> Live(v))
    BY <1>1, <1>4 DEF Working, Sub, Live
  <2>2. Sub(v) \in Subs
    BY <2>1, HeldTypes
  <2>3. QED
    BY <1>3, <1>4, <2>1, <2>2
<1>5. WritersTold'
  <2>1. ASSUME NEW v \in Workers, Working(v)', writer'[Sub(v)'] = v
        PROVE  Told(worker[v])'
    <3>1. CASE v = w
      <4>1. j.pc \notin {"idle", "sweeping"} /\ Sub(v)' = Sub(w)
        BY <1>1, <2>1, <3>1 DEF Working, Sub
      <4>2. QED
        BY <1>1, <2>1, <3>1, <4>1 DEF Told
    <3>2. CASE v # w
      <4>1. Told(worker[v]) /\ worker'[v] = worker[v] /\ worker[v].row.sub = Sub(v)
            /\ status'[Sub(v)] = status[Sub(v)]
        BY <1>4, <2>1, <3>2 DEF WriterInv, WritersTold, Sub
      <4>2. QED
        BY <4>1 DEF Told
    <3>3. QED
      BY <3>1, <3>2
  <2>2. QED
    BY <2>1 DEF WritersTold
<1>6. GoneUnwritten'
  <2>1. ASSUME NEW v \in Workers, Working(v)', worker'[v].kind # "cleanup", ~ Live(v)'
        PROVE  writer'[Sub(v)'] # v
    <3>1. CASE v = w
      <4>1. j.row = worker[w].row /\ j.kind = worker[w].kind
        BY <1>1, <2>1, <3>1 DEF Working
      <4>2. Sub(v)' = Sub(w) /\ ~ Live(w) /\ worker[w].kind # "cleanup"
        BY <1>1, <2>1, <3>1, <4>1 DEF Live, Sub
      <4>3. QED
        BY <1>3, <3>1, <4>2 DEF WriterInv, GoneUnwritten
    <3>2. CASE v # w
      BY <1>4, <2>1, <3>2 DEF WriterInv, GoneUnwritten
    <3>3. QED
      BY <3>1, <3>2
  <2>2. QED
    BY <2>1 DEF GoneUnwritten
<1>7. NoneUnwritten'
  BY <1>2, <1>3 DEF WriterInv, NoneUnwritten
<1>8. QED
  BY <1>5, <1>6, <1>7 DEF WriterInv

(* A handler that goes on has written what it is going to report.          *)
LEMMA WriterGoes ==
  ASSUME TypeInv, WriterInv, NEW w \in Workers, NEW pc \in Pc \ {"sweeping"},
         Working(w), Goto(w, pc), UNCHANGED rid,
         UNCHANGED <<status, writer>> \/ \E new \in Status : Write(w, new),
         writer'[Sub(w)] = w =>
           /\ pc = "apologizing" => status'[Sub(w)] = "failed"
           /\ \/ pc = "reporting" /\ worker[w].kind # "plan"
              \/ pc = "releasing" /\ worker[w].kind \in {"cancel", "expire"}
              => status'[Sub(w)] = ReportedStatus[worker[w].kind]
  PROVE  WriterInv'
<1>1. PICK j : /\ worker' = [worker EXCEPT ![w] = j]
               /\ j.pc = pc /\ j.kind = worker[w].kind
               /\ j.row = worker[w].row /\ j.todo = worker[w].todo
  BY HomeGoes
<1>2. writer'[Sub(w)] = w => Told(j)'
  BY <1>1 DEF Told, Sub
<1>3. QED
  BY <1>1, <1>2, WriterStep

(* A handler that ends has nothing more to report.                         *)
LEMMA WriterLeaves ==
  ASSUME TypeInv, WriterInv, NEW w \in Workers, Working(w),
         Leave(w) \/ worker' = [worker EXCEPT ![w] = Idle], UNCHANGED rid,
         UNCHANGED <<status, writer>> \/ \E new \in Status : Write(w, new)
  PROVE  WriterInv'
<1>1. PICK j : worker' = [worker EXCEPT ![w] = j] /\ j.pc \in {"idle", "sweeping"}
  BY HomeLeaves
<1>2. QED
  BY <1>1, WriterStep

(* A handler that starts has written nothing yet.                          *)
LEMMA WriterStart ==
  ASSUME TypeInv, WriterInv, NEW w \in Workers, NEW j,
         worker' = [worker EXCEPT ![w] = j],
         j.pc \notin {"releasing", "apologizing"}, j.pc = "reporting" => j.kind = "plan",
         j.pc \notin {"idle", "sweeping"} =>
           Fresh(j.row) \/ j.kind = "cleanup",
         UNCHANGED <<rid, writer>>,
         \A s \in Subs : \/ status'[s] = status[s]
                         \/ status[s] = "none" /\ status'[s] # "none"
  PROVE  WriterInv'
<1>1. worker'[w] = j /\ \A v \in Workers : v # w => worker'[v] = worker[v]
  BY DEF TypeInv, TypeOK
<1>2. WritersTold'
  <2>1. ASSUME NEW v \in Workers, Working(v)', writer[Sub(v)'] = v
        PROVE  Told(worker[v])'
    <3>1. CASE v = w
      BY <1>1, <3>1 DEF Told
    <3>2. CASE v # w
      <4>1. Working(v) /\ worker'[v] = worker[v] /\ Sub(v)' = Sub(v)
        BY <1>1, <2>1, <3>2 DEF Working, Sub
      <4>2. Told(worker[v]) /\ Sub(v) \in Subs /\ worker[v].row.sub = Sub(v)
        BY <2>1, <4>1, HeldTypes DEF WriterInv, WritersTold, Sub
      <4>3. status[Sub(v)] # "none"
        BY <2>1, <4>1, <4>2, ProvisioningAssumption DEF WriterInv, NoneUnwritten
      <4>4. QED
        BY <4>1, <4>2, <4>3 DEF Told
    <3>3. QED
      BY <3>1, <3>2
  <2>2. QED
    BY <2>1 DEF WritersTold
<1>3. GoneUnwritten'
  <2>1. ASSUME NEW v \in Workers, Working(v)', worker'[v].kind # "cleanup", ~ Live(v)'
        PROVE  writer[Sub(v)'] # v
    <3>1. CASE v = w
      BY <1>1, <2>1, <3>1 DEF Working, Live, Sub, Fresh
    <3>2. CASE v # w
      <4>1. Working(v) /\ worker'[v] = worker[v] /\ Sub(v)' = Sub(v) /\ ~ Live(v)
        BY <1>1, <2>1, <3>2 DEF Working, Sub, Live
      <4>2. QED
        BY <2>1, <4>1 DEF WriterInv, GoneUnwritten
    <3>3. QED
      BY <3>1, <3>2
  <2>2. QED
    BY <2>1 DEF GoneUnwritten
<1>4. NoneUnwritten'
  BY DEF WriterInv, NoneUnwritten
<1>5. QED
  BY <1>2, <1>3, <1>4 DEF WriterInv

(* A purge forgets who wrote the row.                                      *)
LEMMA WriterPurge ==
  ASSUME TypeInv, WriterInv, NEW s \in Subs, Purge(s)
  PROVE  WriterInv'
<1>1. /\ writer' = [writer EXCEPT ![s] = None] /\ rid' = [rid EXCEPT ![s] = @ + 1]
      /\ status' = [status EXCEPT ![s] = "none"] /\ UNCHANGED worker
  BY DEF Purge, SetStatus
<1>2. /\ writer'[s] = None
      /\ \A q \in Subs : q # s => /\ writer'[q] = writer[q] /\ rid'[q] = rid[q]
                                  /\ status'[q] = status[q]
  BY <1>1 DEF TypeInv, TypeOK
<1>3. ASSUME NEW w \in Workers, Working(w)', writer'[Sub(w)'] = w
      PROVE  /\ Working(w) /\ writer[Sub(w)] = w /\ Sub(w) \in Subs
             /\ Sub(w) # s /\ (Live(w)' <=> Live(w)) /\ Sub(w)' = Sub(w)
  <2>1. Working(w) /\ Sub(w)' = Sub(w)
    BY <1>1, <1>3 DEF Working, Sub
  <2>2. Sub(w) \in Subs
    BY <2>1, HeldTypes
  <2>3. Sub(w) # s
    BY <1>2, <1>3, <2>1, ProvisioningAssumption
  <2>4. QED
    BY <1>1, <1>2, <1>3, <2>1, <2>2, <2>3 DEF Live
<1>4. WritersTold'
  <2>1. ASSUME NEW w \in Workers, Working(w)', writer'[Sub(w)'] = w
        PROVE  Told(worker[w])'
    <3>1. /\ Told(worker[w]) /\ worker'[w] = worker[w] /\ worker[w].row.sub = Sub(w)
          /\ status'[Sub(w)] = status[Sub(w)]
      BY <1>1, <1>2, <1>3, <2>1 DEF WriterInv, WritersTold, Sub
    <3>2. QED
      BY <3>1 DEF Told
  <2>2. QED
    BY <2>1 DEF WritersTold
<1>5. GoneUnwritten'
  <2>1. ASSUME NEW w \in Workers, Working(w)', worker'[w].kind # "cleanup",
               ~ Live(w)', writer'[Sub(w)'] = w
        PROVE  FALSE
    BY <1>1, <1>3, <2>1 DEF WriterInv, GoneUnwritten
  <2>2. QED
    BY <2>1 DEF GoneUnwritten
<1>6. NoneUnwritten'
  BY <1>2 DEF WriterInv, NoneUnwritten
<1>7. QED
  BY <1>4, <1>5, <1>6 DEF WriterInv

(* Every step keeps what is known of the writers.                          *)
LEMMA WriterSteps ==
  ASSUME TypeInv, WriterInv, [Next]_vars
  PROVE  WriterInv'
<1> USE DEF rows, stores, history, meetings
<1>1. ASSUME UNCHANGED <<status, rid, writer, worker>>
      PROVE  WriterInv'
  BY <1>1 DEF WriterInv, WritersTold, Told, GoneUnwritten, NoneUnwritten, Working,
     Sub, Live
<1>2. ASSUME NEW w \in Workers, NEW kind \in Events, NEW s \in Subs, Start(w, kind, s)
      PROVE  WriterInv'
  <2>1. PICK was : was = IF status[s] = "none" THEN "pending" ELSE status[s]
    OBVIOUS
  <2>2. PICK j : j = Run(FirstStep[kind], kind, Row(s, was), {})
    OBVIOUS
  <2>3. worker' = [worker EXCEPT ![w] = j] /\ status' = [status EXCEPT ![s] = was]
    BY <1>2, <2>1, <2>2 DEF Start, SetStatus
  <2>4. j.row.sub = s /\ j.row.id = rid[s] /\ j.kind = kind /\ j.pc = FirstStep[kind]
    BY <2>2 DEF Run, Row
  <2>5. /\ FirstStep[kind] \in {"resolving", "marking", "reporting", "deleting"}
        /\ FirstStep[kind] = "reporting" => kind = "plan"
    <3>1. CASE kind = "pay"
      BY <3>1 DEF FirstStep
    <3>2. CASE kind = "plan"
      BY <3>2 DEF FirstStep
    <3>3. CASE kind = "delete"
      BY <3>3 DEF FirstStep
    <3>4. CASE kind = "cancel"
      BY <3>4 DEF FirstStep
    <3>5. CASE kind = "expire"
      BY <3>5 DEF FirstStep
    <3>6. QED
      BY <3>1, <3>2, <3>3, <3>4, <3>5 DEF Events
  <2>6. \A q \in Subs : \/ status'[q] = status[q]
                        \/ status[q] = "none" /\ status'[q] # "none"
    BY <2>1, <2>3 DEF TypeInv, TypeOK
  <2>7. UNCHANGED <<rid, writer>> /\ Fresh(j.row)
    BY <1>2, <2>4 DEF Start, Fresh
  <2>8. QED
    BY <2>3, <2>4, <2>5, <2>6, <2>7, WriterStart
<1>3. ASSUME NEW w \in Workers, StartCleanup(w) PROVE WriterInv'
  <2>1. PICK j : /\ worker' = [worker EXCEPT ![w] = j]
                 /\ j = Sweep({Row(s, status[s]) : s \in DueForDeletion})
    BY <1>3 DEF StartCleanup
  <2>2. j.pc = "sweeping"
    BY <2>1 DEF Sweep
  <2>3. QED
    BY <1>3, <2>1, <2>2, WriterStart DEF StartCleanup
<1>4. ASSUME NEW w \in Workers, NextDue(w) PROVE WriterInv'
  <2>1. PICK r \in worker[w].todo :
          worker' = [worker EXCEPT ![w] =
                       Run("deleting", "cleanup", r, worker[w].todo \ {r})]
    BY <1>4 DEF NextDue, TypeInv, TypeOK
  <2>2. PICK j : j = Run("deleting", "cleanup", r, worker[w].todo \ {r})
    OBVIOUS
  <2>3. j.pc = "deleting" /\ j.kind = "cleanup"
    BY <2>2 DEF Run
  <2>4. QED
    BY <1>4, <2>1, <2>2, <2>3, WriterStart DEF NextDue
<1>5. ASSUME NEW w \in Workers, NEW pc \in Pc \ {"sweeping"}, Working(w), Goto(w, pc),
             UNCHANGED rid,
             UNCHANGED <<status, writer>> \/ \E new \in Status : Write(w, new),
             pc \notin {"apologizing", "reporting"},
             pc = "releasing" => worker[w].kind \notin {"cancel", "expire"}
      PROVE  WriterInv'
  BY <1>5, WriterGoes
<1>6. ASSUME NEW w \in Workers, MarkProvisioning(w) PROVE WriterInv'
  <2>1. PICK pc \in {"selecting", "activating"} : Goto(w, pc)
    BY <1>6 DEF MarkProvisioning
  <2>2. \E new \in Status : Write(w, new)
    BY <1>6 DEF MarkProvisioning, Status
  <2>3. QED
    BY <1>5, <1>6, <2>1, <2>2 DEF MarkProvisioning, At, Working, Pc
<1>7. ASSUME NEW w \in Workers, SelectBackend(w) PROVE WriterInv'
  <2>1. Working(w) /\ UNCHANGED <<status, rid, writer>>
    BY <1>7 DEF SelectBackend, At, Working
  <2>2. CASE \E pc \in {"activating", "failing"} : Goto(w, pc)
    BY <1>5, <2>1, <2>2 DEF Pc
  <2>3. CASE \E b \in LeastLoaded :
               worker' = [worker EXCEPT ![w].pc = "creating", ![w].nb = b]
    <3>1. PICK b \in LeastLoaded :
                 worker' = [worker EXCEPT ![w].pc = "creating", ![w].nb = b]
      BY <2>3
    <3>2. worker[w] \in Handlers
      BY <2>1, WorkerTypes
    <3>3. PICK j : j = [worker[w] EXCEPT !.pc = "creating", !.nb = b]
      OBVIOUS
    <3>4. /\ worker' = [worker EXCEPT ![w] = j] /\ j.pc = "creating"
          /\ j.kind = worker[w].kind /\ j.row = worker[w].row
      BY <3>1, <3>2, <3>3 DEF Handlers
    <3>5. Told(j)'
      BY <3>4 DEF Told
    <3>6. QED
      BY <2>1, <3>4, <3>5, WriterStep
  <2>4. QED
    BY <1>7, <2>2, <2>3 DEF SelectBackend
<1>8. ASSUME NEW w \in Workers, CreateBucket(w) PROVE WriterInv'
  BY <1>5, <1>8 DEF CreateBucket, At, Working, Pc
<1>9. ASSUME NEW w \in Workers, Count(w) PROVE WriterInv'
  <2>1. PICK pc \in {"activating", "dropping"} : Goto(w, pc)
    BY <1>9 DEF Count
  <2>2. QED
    BY <1>5, <1>9, <2>1 DEF Count, At, Working, Pc
<1>10. ASSUME NEW w \in Workers, DropBucket(w) \/ Rollback(w) PROVE WriterInv'
  BY <1>5, <1>10 DEF DropBucket, Rollback, At, Working, Pc
<1>11. ASSUME NEW w \in Workers, NEW new \in Status, Write(w, new), Sub(w) \in Subs,
              Working(w), worker[w].kind # "cleanup"
       PROVE  writer'[Sub(w)] = w => status'[Sub(w)] = new
  <2>1. CASE Live(w)
    BY <1>11, <2>1 DEF Write, SetStatus, TypeInv, TypeOK
  <2>2. CASE ~ Live(w)
    BY <1>11, <2>2 DEF Write, WriterInv, GoneUnwritten
  <2>3. QED
    BY <2>1, <2>2
<1>12. ASSUME NEW w \in Workers, Activate(w) PROVE WriterInv'
  <2>1. /\ Working(w) /\ worker[w].kind = "pay" /\ Sub(w) \in Subs
        /\ Goto(w, "reporting") /\ Write(w, "active") /\ UNCHANGED rid
    BY <1>12, WorkerTypes, HeldTypes DEF Activate, At, Working, Fits, PayPc
  <2>2. writer'[Sub(w)] = w => status'[Sub(w)] = ReportedStatus["pay"]
    BY <1>11, <2>1 DEF ReportedStatus, Status
  <2>3. QED
    BY <2>1, <2>2, WriterGoes DEF Pc, Status
<1>13. ASSUME NEW w \in Workers, MarkFailed(w) PROVE WriterInv'
  <2>1. /\ Working(w) /\ worker[w].kind = "pay" /\ Sub(w) \in Subs
        /\ Goto(w, "apologizing") /\ Write(w, "failed") /\ UNCHANGED rid
    BY <1>13, WorkerTypes, HeldTypes DEF MarkFailed, At, Working, Fits, PayPc
  <2>2. writer'[Sub(w)] = w => status'[Sub(w)] = "failed"
    BY <1>11, <2>1 DEF Status
  <2>3. QED
    BY <2>1, <2>2, WriterGoes DEF Pc, Status
<1>14. ASSUME NEW w \in Workers, MarkEnded(w) PROVE WriterInv'
  <2>1. /\ Working(w) /\ worker[w].kind \in {"cancel", "expire"} /\ Sub(w) \in Subs
        /\ Goto(w, "releasing") /\ Write(w, ReportedStatus[worker[w].kind])
        /\ UNCHANGED rid
    BY <1>14, WorkerTypes, HeldTypes DEF MarkEnded, At, Working, Fits
  <2>2. ReportedStatus[worker[w].kind] \in Status
    BY <2>1 DEF ReportedStatus, Status
  <2>3. writer'[Sub(w)] = w => status'[Sub(w)] = ReportedStatus[worker[w].kind]
    BY <1>11, <2>1, <2>2
  <2>4. QED
    BY <2>1, <2>2, <2>3, WriterGoes DEF Pc
<1>15. ASSUME NEW w \in Workers, Release(w) PROVE WriterInv'
  <2>1. /\ Working(w) /\ worker[w].pc = "releasing" /\ UNCHANGED <<status, rid, writer>>
        /\ worker[w].kind \in {"cancel", "expire", "delete", "cleanup"}
    BY <1>15, WorkerTypes DEF Release, At, Working, Fits
  <2>2. PICK pc \in {"reporting", "closing"} :
          /\ Goto(w, pc)
          /\ pc = "reporting" => worker[w].kind \in {"cancel", "expire"}
    BY <1>15 DEF Release
  <2>3. pc = "reporting" /\ writer'[Sub(w)] = w
          => status'[Sub(w)] = ReportedStatus[worker[w].kind]
    BY <2>1, <2>2 DEF WriterInv, WritersTold, Told, Sub
  <2>4. QED
    BY <2>1, <2>2, <2>3, WriterGoes DEF Pc
<1>16. ASSUME NEW w \in Workers, DeleteBucket(w) PROVE WriterInv'
  <2>1. Working(w) /\ worker[w].kind \in {"delete", "cleanup"} /\ Goto(w, "releasing")
    BY <1>16, WorkerTypes DEF DeleteBucket, At, Working, Fits
  <2>2. QED
    BY <1>5, <1>16, <2>1 DEF DeleteBucket, Pc
<1>17. ASSUME NEW w \in Workers, MarkDeleted(w) PROVE WriterInv'
  <2>1. \E new \in Status : Write(w, new)
    BY <1>17 DEF MarkDeleted, Status
  <2>2. QED
    BY <1>5, <1>17, <2>1 DEF MarkDeleted, At, Working, Pc
<1>18. ASSUME NEW w \in Workers, Apologize(w) \/ Report(w) \/ PushConfig(w)
       PROVE  WriterInv'
  BY <1>18, WriterLeaves DEF Apologize, Report, PushConfig, At, Working
<1>19. ASSUME NEW w \in Workers, Restore(w) PROVE WriterInv'
  <2>1. Working(w) /\ Leave(w) /\ UNCHANGED rid /\ Write(w, worker[w].row.was)
    BY <1>19 DEF Restore, At, Working
  <2>2. worker[w].row.was \in Status
    BY <2>1, HeldTypes DEF Rows
  <2>3. QED
    BY <2>1, <2>2, WriterLeaves
<1>20. ASSUME NEW w \in Workers, Throw(w) PROVE WriterInv'
  <2>1. Working(w) /\ UNCHANGED <<status, rid, writer>>
    BY <1>20 DEF Throw
  <2>2. CASE Caught(w) = "idle"
    BY <1>20, <2>1, <2>2, WriterLeaves DEF Throw
  <2>3. CASE Caught(w) # "idle"
    <3>1. PICK pc \in {"rollback", "failing", "restoring"} : Goto(w, pc)
      BY <1>20, <2>3 DEF Throw, Caught
    <3>2. QED
      BY <1>5, <2>1, <3>1 DEF Pc
  <2>4. QED
    BY <2>2, <2>3
<1>21. ASSUME Crash PROVE WriterInv'
  <2>1. /\ \A w \in Workers : worker'[w] = Idle
        /\ UNCHANGED <<status, rid, writer>>
    BY <1>21 DEF Crash
  <2>2. \A w \in Workers : ~ Working(w)'
    BY <2>1 DEF Working, Idle
  <2>3. QED
    BY <2>1, <2>2 DEF WriterInv, WritersTold, GoneUnwritten, NoneUnwritten
<1>22. ASSUME \/ \E s \in Subs : GraceEnds(s)
              \/ \E b \in Backends : EditBackend(b)
              \/ SaveBackend \/ UNCHANGED vars
       PROVE  WriterInv'
  BY <1>1, <1>22 DEF GraceEnds, EditBackend, SaveBackend, vars
<1>23. ASSUME NEW w \in Workers, Payment(w) \/ Ending(w) PROVE WriterInv'
  BY <1>6, <1>7, <1>8, <1>9, <1>10, <1>12, <1>13, <1>14, <1>15, <1>16, <1>17,
     <1>18, <1>19, <1>23 DEF Payment, Ending
<1>24. CASE Next
  <2>1. CASE \E w \in Workers :
               \/ \E kind \in Events, s \in Subs : Start(w, kind, s)
               \/ StartCleanup(w) \/ NextDue(w)
               \/ Payment(w) \/ Ending(w) \/ Throw(w)
    BY <1>2, <1>3, <1>4, <1>20, <1>23, <2>1
  <2>2. CASE \E s \in Subs : GraceEnds(s) \/ Purge(s)
    BY <1>22, <2>2, WriterPurge
  <2>3. QED
    BY <1>21, <1>22, <1>24, <2>1, <2>2 DEF Next
<1>25. QED
  BY <1>22, <1>24

LEMMA WriterInvariance == Spec => []WriterInv
<1>1. Init => WriterInv
  BY DEF Init, WriterInv, WritersTold, GoneUnwritten, NoneUnwritten, Working, Idle
<1>2. TypeInv /\ WriterInv /\ [Next]_vars => WriterInv'
  BY WriterSteps
<1>3. QED
  BY <1>1, <1>2, TypeInvariance, PTL DEF Spec

(* Only a report or an apology changes what billing was told.              *)
LEMMA Reporting ==
  ASSUME TypeInv, [Next]_vars, NEW w \in Workers,
         worker[w] # worker'[w], billing' # billing
  PROVE  Report(w) \/ Apologize(w)
<1> USE DEF rows, stores, history, meetings
<1>1. ASSUME NEW v \in Workers, Report(v) \/ Apologize(v)
      PROVE  v = w
  <2>1. Leave(v)
    BY <1>1 DEF Report, Apologize
  <2>2. QED
    BY <2>1 DEF Leave, TypeInv, TypeOK
<1>2. ASSUME NEW v \in Workers,
             \/ \E kind \in Events, s \in Subs : Start(v, kind, s)
             \/ StartCleanup(v) \/ NextDue(v) \/ Throw(v)
             \/ MarkProvisioning(v) \/ SelectBackend(v) \/ CreateBucket(v)
             \/ Count(v) \/ DropBucket(v) \/ Activate(v)
             \/ Rollback(v) \/ MarkFailed(v)
             \/ MarkEnded(v) \/ DeleteBucket(v) \/ Release(v)
             \/ MarkDeleted(v) \/ PushConfig(v) \/ Restore(v)
      PROVE  FALSE
  BY <1>2 DEF Start, StartCleanup, NextDue, Throw, MarkProvisioning,
     SelectBackend, CreateBucket, Count, DropBucket, Activate, Rollback,
     MarkFailed, MarkEnded, DeleteBucket, Release, MarkDeleted, PushConfig,
     Restore
<1>3. ASSUME \/ \E s \in Subs : GraceEnds(s) \/ Purge(s)
             \/ \E b \in Backends : EditBackend(b)
             \/ SaveBackend \/ Crash \/ UNCHANGED vars
      PROVE  FALSE
  BY <1>3 DEF GraceEnds, Purge, EditBackend, SaveBackend, Crash, vars
<1>4. QED
  BY <1>1, <1>2, <1>3 DEF Next, Payment, Ending

(* A handler that wrote the status of its row last reports to billing what *)
(* the row says, whichever other handlers overlap with it and whatever was *)
(* purged in between.                                                      *)
THEOREM BillingIsToldTheStatus == Spec => ReportsCurrentStatus
<1>1. ASSUME TypeInv, WriterInv, [Next]_vars, NEW w \in Workers,
             worker[w] # worker'[w], billing' # billing, worker[w].kind # "plan",
             writer[Sub(w)] = w
      PROVE  billing'[Sub(w)] = status'[Sub(w)]
  <2>1. Report(w) \/ Apologize(w)
    BY <1>1, Reporting
  <2>2. Working(w)
    BY <2>1 DEF Report, Apologize, At, Working
  <2>3. Sub(w) \in Subs /\ worker[w].row.sub = Sub(w) /\ Told(worker[w])
    BY <1>1, <2>2, HeldTypes DEF WriterInv, WritersTold, Sub
  <2>4. CASE Report(w)
    BY <1>1, <2>3, <2>4 DEF Report, At, Told, rows, TypeInv, TypeOK
  <2>5. CASE Apologize(w)
    BY <1>1, <2>3, <2>5 DEF Apologize, At, Told, rows, TypeInv, TypeOK
  <2>6. QED
    BY <2>1, <2>4, <2>5
<1>2. TypeInv /\ WriterInv /\ [Next]_vars
        => [\A w \in Workers :
              /\ worker[w] # worker'[w]
              /\ worker[w].pc \in {"reporting", "apologizing"}
              /\ billing' # billing
              /\ worker[w].kind # "plan"
              /\ writer[Sub(w)] = w
              => billing'[Sub(w)] = status'[Sub(w)]]_vars
  BY <1>1
<1>3. QED
  BY <1>2, TypeInvariance, WriterInvariance, PTL DEF Spec, ReportsCurrentStatus
=============================================================================

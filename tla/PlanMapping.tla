---------------------------- MODULE PlanMapping ----------------------------
(***************************************************************************)
(* The plans table, which maps the plans billing sells to what the         *)
(* orchestrator provisions, and the plan each row of provisions names.     *)
(* Operators create, edit and remove plans while payments and plan changes *)
(* look a plan up, store the device limit they observed in it and name it  *)
(* in their row.  An edit and a sync save the whole plan as they read it;  *)
(* rows of provisions change by one UPDATE each, and the foreign key       *)
(* refuses a row that names a plan which is not stored.                    *)
(***************************************************************************)
EXTENDS Naturals

CONSTANTS
  PlanIds,       \* ids of plans; a plan created gets one never used
  Subscribers,   \* externalSubscriptionIds
  PlanCalls,     \* calls under way at once, of the worker and of operators
  Absent,        \* NULL in a column
  Terms,         \* vpnEnabled, storageEnabled and storageSize of a plan
  DeviceLimits,  \* device limits billing reports
  MaxPlanCalls   \* bound: calls begun

ASSUME PlanAssumption ==
  /\ Absent \notin PlanIds
  /\ MaxPlanCalls \in Nat

VARIABLES
  plan,       \* plans: [state, terms, limit]
  provision,  \* provisions: [status, plan]
  planCall,   \* the calls under way
  begun       \* calls begun

planVars == <<plan, provision, planCall, begun>>

PlanStates == {"unused", "stored", "removed"}
PlanRows ==
  [state : PlanStates, terms : Terms \cup {Absent}, limit : DeviceLimits \cup {Absent}]
StoredRows == [state : {"stored"}, terms : Terms, limit : DeviceLimits \cup {Absent}]
UnusedRow == [state |-> "unused", terms |-> Absent, limit |-> Absent]
ProvisionRows ==
  [status : {"none", "pending", "provisioning", "active", "failed", "ended", "deleted"},
   plan : PlanIds \cup {Absent}]
NoProvision == [status |-> "none", plan |-> Absent]

(* "ended" stands for suspended and cancelled, which differ in nothing     *)
(* here.  purged: the row of the subscription as read is gone, and an      *)
(* UPDATE by its id finds nothing.                                         *)
NoPlanCall == [step |-> "none"]
WorkerCalls ==
  [step : {"resolving", "syncing", "marking", "activating", "changing", "failing"},
   change : BOOLEAN, sub : Subscribers, id : PlanIds, row : PlanRows,
   limit : DeviceLimits, purged : BOOLEAN]
OperatorCalls ==
  [step : {"saving"}, id : PlanIds, row : PlanRows]
  \cup [step : {"counting", "detaching", "removing"}, id : PlanIds]

PlanTypeOK ==
  /\ plan \in [PlanIds -> PlanRows]
  /\ provision \in [Subscribers -> ProvisionRows]
  /\ planCall \in [PlanCalls -> {NoPlanCall} \cup WorkerCalls \cup OperatorCalls]
  /\ begun \in 0 .. MaxPlanCalls

PlanInit ==
  /\ plan = [p \in PlanIds |-> UnusedRow]
  /\ provision = [s \in Subscribers |-> NoProvision]
  /\ planCall = [c \in PlanCalls |-> NoPlanCall]
  /\ begun = 0
-----------------------------------------------------------------------------
(* Faulty variants of definitions below, for mutation of the runs.         *)
DetachedWhateverStatus(p) ==
  [s \in Subscribers |->
     IF provision[s].plan = p THEN [provision[s] EXCEPT !.plan = Absent] ELSE provision[s]]
-----------------------------------------------------------------------------
Stored(p) == plan[p].state = "stored"

(* A call begins; a call that comes to its next step, or to its end.       *)
OpenCall(c, call) ==
  /\ planCall[c] = NoPlanCall /\ begun < MaxPlanCalls
  /\ planCall' = [planCall EXCEPT ![c] = call]
  /\ begun' = begun + 1
OnTo(c, step) ==
  planCall' = [planCall EXCEPT ![c].step = step] /\ UNCHANGED begun
Over(c) ==
  planCall' = [planCall EXCEPT ![c] = NoPlanCall] /\ UNCHANGED begun

(* One UPDATE of the row a worker's call has read.                         *)
WriteRow(c, status, p) ==
  provision' =
    IF planCall[c].purged THEN provision
    ELSE [provision EXCEPT ![planCall[c].sub] = [status |-> status, plan |-> p]]

PlanNamed(c) == provision[planCall[c].sub].plan
StatusOf(c) == provision[planCall[c].sub].status

(* save: the whole row, inserted again when it is gone.                    *)
Saved(row) == [row EXCEPT !.state = "stored"]
-----------------------------------------------------------------------------
(* provisionOrRenew: getOrCreateFromEvent.                                 *)
Pay(c, s, p, n) ==
  /\ OpenCall(c, [step |-> "resolving", change |-> FALSE, sub |-> s, id |-> p,
                   row |-> plan[p], limit |-> n, purged |-> FALSE])
  /\ provision' = IF provision[s].status = "none"
                  THEN [provision EXCEPT ![s] = [status |-> "pending", plan |-> Absent]]
                  ELSE provision
  /\ UNCHANGED plan

(* updatePlan: a missing row throws before anything is changed.            *)
ChangePlan(c, s, p, n) ==
  /\ provision[s].status # "none"
  /\ OpenCall(c, [step |-> "resolving", change |-> TRUE, sub |-> s, id |-> p,
                   row |-> plan[p], limit |-> n, purged |-> FALSE])
  /\ UNCHANGED <<plan, provision>>

(* Where a call goes when an awaited call throws: a payment marks its row  *)
(* failed, a plan change ends.                                             *)
Thrown(c) == IF planCall[c].change THEN Over(c) ELSE OnTo(c, "failing")

(* resolveByExternalPlanId, and the start of syncObservedMaxDevices, which *)
(* saves only a limit that differs; without a limit a payment goes on as   *)
(* if it did not, and a plan change throws.                                *)
AfterSync(c) == IF planCall[c].change THEN "changing" ELSE "marking"
Resolve(c) ==
  LET p == planCall[c].id IN
  /\ planCall[c].step = "resolving"
  /\ IF Stored(p)
     THEN /\ planCall' = [planCall EXCEPT
               ![c].row = [plan[p] EXCEPT !.limit = planCall[c].limit],
               ![c].step = IF plan[p].limit = planCall[c].limit
                           THEN AfterSync(c) ELSE "syncing"]
          /\ UNCHANGED begun
     ELSE Thrown(c)
  /\ UNCHANGED <<plan, provision>>

SyncLimit(c) ==
  /\ planCall[c].step = "syncing"
  /\ plan' = [plan EXCEPT ![planCall[c].id] = Saved(planCall[c].row)]
  /\ OnTo(c, AfterSync(c))
  /\ UNCHANGED provision

MarkProvisioning(c) ==
  /\ planCall[c].step = "marking"
  /\ WriteRow(c, "provisioning", PlanNamed(c))
  /\ OnTo(c, "activating")
  /\ UNCHANGED plan

(* markActive, after the storage calls.                                    *)
MarkActive(c) ==
  /\ planCall[c].step = "activating"
  /\ IF planCall[c].purged \/ Stored(planCall[c].id)
     THEN WriteRow(c, "active", planCall[c].id) /\ Over(c)
     ELSE UNCHANGED provision /\ OnTo(c, "failing")
  /\ UNCHANGED plan

(* provisionsService.updatePlan: the status stays.                         *)
NamePlan(c) ==
  /\ planCall[c].step = "changing"
  /\ IF Stored(planCall[c].id) THEN WriteRow(c, StatusOf(c), planCall[c].id)
                               ELSE UNCHANGED provision
  /\ Over(c)
  /\ UNCHANGED plan

(* An awaited call throws.                                                 *)
Throw(c) ==
  /\ planCall[c].step \in {"resolving", "syncing", "marking", "activating", "changing"}
  /\ Thrown(c)
  /\ UNCHANGED <<plan, provision>>

MarkFailed(c) ==
  /\ planCall[c].step = "failing"
  /\ WriteRow(c, "failed", PlanNamed(c))
  /\ Over(c)
  /\ UNCHANGED plan

(* suspend and deleteProvisionResources write the status whatever it has   *)
(* become since they read the row, so reading and writing are one step.    *)
(* The status a failed cleanup restores is an ended one too.               *)
EndService(s) ==
  /\ provision[s].status # "none"
  /\ provision' = [provision EXCEPT ![s].status = "ended"]
  /\ UNCHANGED <<plan, planCall, begun>>

DeleteService(s) ==
  /\ provision[s].status \notin {"none", "deleted"}
  /\ provision' = [provision EXCEPT ![s].status = "deleted"]
  /\ UNCHANGED <<plan, planCall, begun>>

PurgeService(s) ==
  /\ provision[s].status = "deleted"
  /\ provision' = [provision EXCEPT ![s] = NoProvision]
  /\ planCall' = [c \in PlanCalls |->
       IF planCall[c] \in WorkerCalls /\ planCall[c].sub = s
       THEN [planCall[c] EXCEPT !.purged = TRUE] ELSE planCall[c]]
  /\ UNCHANGED <<plan, begun>>
-----------------------------------------------------------------------------
(* PlansService.create: an INSERT.                                         *)
CreatePlan(p) ==
  /\ plan[p].state = "unused"
  /\ \E row \in StoredRows : plan' = [plan EXCEPT ![p] = row]
  /\ UNCHANGED <<provision, planCall, begun>>

(* PlansService.update: getById and the changes in memory, then the save.  *)
EditPlan(c, p) ==
  /\ Stored(p)
  /\ \E row \in StoredRows : OpenCall(c, [step |-> "saving", id |-> p, row |-> row])
  /\ UNCHANGED <<plan, provision>>

SavePlan(c) ==
  /\ planCall[c].step = "saving"
  /\ plan' = [plan EXCEPT ![planCall[c].id] = Saved(planCall[c].row)]
  /\ Over(c)
  /\ UNCHANGED provision

(* PlansService.delete: the count of the rows in use, the UPDATE that      *)
(* takes the plan off the deleted ones, and the removal.                   *)
DeletePlan(c, p) ==
  /\ Stored(p)
  /\ OpenCall(c, [step |-> "counting", id |-> p])
  /\ UNCHANGED <<plan, provision>>

InUse(p) ==
  \E s \in Subscribers : provision[s].plan = p /\ provision[s].status # "deleted"
CountRows(c) ==
  /\ planCall[c].step = "counting"
  /\ IF InUse(planCall[c].id) THEN Over(c) ELSE OnTo(c, "detaching")
  /\ UNCHANGED <<plan, provision>>

Detached(p) ==
  [s \in Subscribers |->
     IF provision[s].plan = p /\ provision[s].status = "deleted"
     THEN [provision[s] EXCEPT !.plan = Absent] ELSE provision[s]]
DetachRows(c) ==
  /\ planCall[c].step = "detaching"
  /\ provision' = Detached(planCall[c].id)
  /\ OnTo(c, "removing")
  /\ UNCHANGED plan

(* A row that named the plan since the count keeps it.                     *)
Removable(p) == \A s \in Subscribers : provision[s].plan # p
RemovePlan(c) ==
  LET p == planCall[c].id IN
  /\ planCall[c].step = "removing"
  /\ plan' = IF Removable(p) THEN [plan EXCEPT ![p].state = "removed"] ELSE plan
  /\ Over(c)
  /\ UNCHANGED provision

PlanNext ==
  \/ \E c \in PlanCalls :
       \/ \E s \in Subscribers, p \in PlanIds, n \in DeviceLimits :
            Pay(c, s, p, n) \/ ChangePlan(c, s, p, n)
       \/ Resolve(c) \/ SyncLimit(c) \/ MarkProvisioning(c) \/ MarkActive(c)
       \/ NamePlan(c) \/ Throw(c) \/ MarkFailed(c)
       \/ \E p \in PlanIds : EditPlan(c, p) \/ DeletePlan(c, p)
       \/ SavePlan(c) \/ CountRows(c) \/ DetachRows(c) \/ RemovePlan(c)
  \/ \E s \in Subscribers : EndService(s) \/ DeleteService(s) \/ PurgeService(s)
  \/ \E p \in PlanIds : CreatePlan(p)

PlanSpec == PlanInit /\ [][PlanNext]_planVars
-----------------------------------------------------------------------------
(* A plan is never taken from under a subscription that was paid for: an   *)
(* active row names a plan, and every plan a row names is stored, however  *)
(* payments, ends and plan changes fall between the count, the detaching   *)
(* UPDATE and the removal of PlansService.delete.                          *)
ActiveHasPlan ==
  \A s \in Subscribers :
    /\ provision[s].status = "active" => provision[s].plan # Absent
    /\ provision[s].plan # Absent => Stored(provision[s].plan)
=============================================================================

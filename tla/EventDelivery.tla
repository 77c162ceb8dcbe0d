--------------------------- MODULE EventDelivery ---------------------------
(***************************************************************************)
(* What the event pipeline promises the billing system about one event,    *)
(* with the webhook, Redis, Bull, the worker and the processed_events      *)
(* table left out.  EventPipeline implements this specification.           *)
(***************************************************************************)
CONSTANT Events

VARIABLES
  outcome,  \* per event: what has become of it
  handled   \* the events whose provisioning handler has run to its end

dvars == <<outcome, handled>>

Outcome == {"unseen", "pending", "done", "dead"}

Init ==
  /\ outcome = [e \in Events |-> "unseen"]
  /\ handled = {}

(* The orchestrator takes responsibility for the event. *)
Accept(e) ==
  /\ outcome[e] = "unseen"
  /\ outcome' = [outcome EXCEPT ![e] = "pending"]
  /\ UNCHANGED handled

(* The handler succeeds; it may do so again later, whatever the outcome    *)
(* is by then except "unseen": delivery is at least once.                  *)
Apply(e) ==
  /\ outcome[e] # "unseen"
  /\ handled' = handled \cup {e}
  /\ UNCHANGED outcome

Finish(e) ==
  /\ outcome[e] = "pending"
  /\ e \in handled
  /\ outcome' = [outcome EXCEPT ![e] = "done"]
  /\ UNCHANGED handled

GiveUp(e) ==
  /\ outcome[e] = "pending"
  /\ outcome' = [outcome EXCEPT ![e] = "dead"]
  /\ UNCHANGED handled

(* An operator asks for another round of attempts. *)
Reopen(e) ==
  /\ outcome[e] = "dead"
  /\ outcome' = [outcome EXCEPT ![e] = "pending"]
  /\ UNCHANGED handled

Next ==
  \E e \in Events :
    Accept(e) \/ Apply(e) \/ Finish(e) \/ GiveUp(e) \/ Reopen(e)

Spec == Init /\ [][Next]_dvars

(* Every accepted event is settled unless operators reopen it forever.     *)
FairSpec ==
  Spec /\ \A e \in Events : WF_dvars(Finish(e) \/ GiveUp(e))
-----------------------------------------------------------------------------
TypeOK ==
  /\ outcome \in [Events -> Outcome]
  /\ handled \subseteq Events
=============================================================================

-------------------------- MODULE MCEventPipeline --------------------------
(* Model-checking companion of EventPipeline: symmetry of the safety runs, *)
(* and the jobs whose locks lapse there: the deliveries' own, not retries. *)
EXTENDS EventPipeline, TLC

OwnJobs == Events \X {0}

Symmetry ==
  Permutations(Events) \cup Permutations(Requests) \cup Permutations(Slots)
=============================================================================

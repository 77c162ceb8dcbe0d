-------------------------- MODULE MCProvisioning ---------------------------
(* Model-checking companion of Provisioning: symmetry of its runs. *)
EXTENDS Provisioning, TLC

Symmetry ==
  Permutations(Subs) \cup Permutations(Backends) \cup Permutations(Workers)
=============================================================================

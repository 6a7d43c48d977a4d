-------------------------- MODULE MCConsumerCache --------------------------
(* Symmetry of the small instances of ConsumerCache. *)
EXTENDS ConsumerCache, TLC

MCSymmetry == Permutations(Calls) \cup Permutations(Topics) \cup Permutations(Consumers)
=============================================================================

------------------------ MODULE MCAvailabilityCheck ------------------------
(* Model values for TLC: products play the same part, so they are symmetric. *)
EXTENDS AvailabilityCheck, TLC

SkuSymmetry == Permutations(Skus)
=============================================================================

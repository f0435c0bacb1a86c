--------------------------- MODULE SampledBatches ---------------------------
(***************************************************************************)
(* The two loops that decode several samples of one prompt together: the   *)
(* batch that shrinks and the pair that does not.  They share no state and *)
(* owe the same: sharing a batch must not show in the samples.             *)
(***************************************************************************)
EXTENDS BatchGenerate, Qwen35Batch

(* A row of either batch keeps what is its own, however the others end:    *)
(* cache row, mask, place in the mapping, recorded length; a finished row  *)
(* of a pair draws nothing more.                                           *)
RowsStayWhole == RowsKeepTheirOwn /\ DrawsAreOwnTokens

(* Each row of the shrinking batch, and of the pair, is a sample of its    *)
(* own.                                                                    *)
BatchesImplementSamples == ImplementsSamples /\ PairImplementsSamples
=============================================================================

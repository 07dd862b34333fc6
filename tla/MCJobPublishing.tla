--------------------------- MODULE MCJobPublishing ---------------------------
(* Small instances of JobPublishing for TLC. *)
EXTENDS JobPublishing, TLC

CONSTANTS fullTime, partTime, fullTimePosting, posting

(* A part-time job has no asset of its own and cannot be published. *)
MCPreferred == fullTime :> fullTimePosting

(* The preferred asset runs out first, then the general one. *)
MCSupply == fullTimePosting :> 1 @@ posting :> 1

(* Jobs are interchangeable, and so are requests. *)
MCSymmetry == Permutations(Jobs) \cup Permutations(Requests)
=============================================================================

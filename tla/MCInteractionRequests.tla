------------------------ MODULE MCInteractionRequests ------------------------
(* Small instances of InteractionRequests for TLC. *)
EXTENDS InteractionRequests, TLC

(* Requests are interchangeable. *)
MCSymmetry == Permutations(Requests)
=============================================================================

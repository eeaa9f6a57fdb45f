---------------------------- MODULE MCRegionImages ----------------------------
(* Small instances of RegionImages for TLC. *)
EXTENDS RegionImages, TLC

(* Handlers are interchangeable. *)
Symmetry == Permutations(Request)
==============================================================================

--------------------------- MODULE MCMediaRoutes ---------------------------
(* The media routes for TLC. *)
EXTENDS MediaRoutes, TLC

Symmetry == Permutations(User) \cup Permutations(Req)
=============================================================================

------------------------------ MODULE MCCatalog ------------------------------
(***************************************************************************)
(* Catalog for TLC.  Nothing names a request, a channel or a user.         *)
(***************************************************************************)
EXTENDS Catalog, TLC

Symmetry == Permutations(Requests) \cup Permutations(Channels) \cup Permutations(Users)
=============================================================================

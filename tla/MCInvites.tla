------------------------------ MODULE MCInvites ------------------------------
(***************************************************************************)
(* Invites for TLC.  No action and no property names a user or a request.  *)
(***************************************************************************)
EXTENDS Invites, TLC

Symmetry == Permutations(Users) \cup Permutations(Requests)
=============================================================================

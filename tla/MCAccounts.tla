----------------------------- MODULE MCAccounts -----------------------------
(***************************************************************************)
(* Accounts for TLC.  Nothing names a device or an email.                  *)
(***************************************************************************)
EXTENDS Accounts, TLC

Symmetry == Permutations(Devices) \cup Permutations(Emails)
=============================================================================

----------------------------- MODULE MCAccounts -----------------------------
(* Accounts with three usernames, that a Plex user may take and change.     *)
EXTENDS Accounts, TLC
MCSymmetry == Permutations(Tokens) \cup Permutations(Tasks) \cup Permutations(Names)
=============================================================================

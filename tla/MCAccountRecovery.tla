-------------------------- MODULE MCAccountRecovery --------------------------
(***************************************************************************)
(* Two handlers at a time, two accounts, two logins, one challenge, which  *)
(* both may have read, and two changes of a password.                      *)
(***************************************************************************)
EXTENDS AccountRecovery, TLC

Symmetry ==
  UNION {Permutations(Requests), Permutations(Users), Permutations(Sessions)}
==============================================================================

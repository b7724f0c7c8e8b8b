----------------------------- MODULE MCAccountBans -----------------------------
(***************************************************************************)
(* One account, bans by user and by e-mail, two administrators and one     *)
(* request at a time, two loads under way.                                 *)
(***************************************************************************)
EXTENDS AccountBans, TLC

Symmetry == Permutations(Requests)
==============================================================================

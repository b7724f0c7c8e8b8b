-------------------------- MODULE MCLoginChallenges --------------------------
(***************************************************************************)
(* Two handlers at a time, two challenges, one attempt, one resend, one    *)
(* authenticator and the codes of two of its time steps.                   *)
(***************************************************************************)
EXTENDS LoginChallenges, TLC

Symmetry == Permutations(Requests) \cup Permutations(Ids)
==============================================================================

--------------------------- MODULE MCRequestLimits ---------------------------
(***************************************************************************)
(* An address that a signed-in caller, who waits as told, shares with an   *)
(* anonymous one, who does not, and the signed-in user; windows of two     *)
(* ticks, one request per window.                                          *)
(***************************************************************************)
EXTENDS RequestLimits, TLC

CONSTANTS r1, r2, ip, user, p1

MCKeysOf == (r1 :> {ip, user}) @@ (r2 :> {ip})
===============================================================================

----------------------------- MODULE EncodeService -----------------------------
(***************************************************************************)
(* What the encoder promises its callers, without saying how: there are    *)
(* Places for calls, to encode or to wait; a call is turned away exactly   *)
(* if all of them are taken, and one that was taken in keeps its place     *)
(* until it is answered with an encode or with the failure of one.         *)
(* EncoderQueue is shown to implement this service, of which its slots,    *)
(* its queue and its two encoders are details.                             *)
(***************************************************************************)
EXTENDS Naturals, FiniteSets

CONSTANTS
  Callers,  \* those that may call
  Places    \* how many calls are taken in at once

VARIABLES
  pending,  \* the callers whose call is taken in and not answered
  answer    \* answer[c]: the answer to the last call of c

vars == <<pending, answer>>

Init ==
  /\ pending = {}
  /\ answer = [c \in Callers |-> "none"]

TakeIn(c) ==
  /\ c \notin pending /\ Cardinality(pending) < Places
  /\ pending' = pending \cup {c}
  /\ answer' = [answer EXCEPT ![c] = "none"]

TurnAway(c) ==
  /\ c \notin pending /\ Cardinality(pending) >= Places
  /\ answer' = [answer EXCEPT ![c] = "busy"]
  /\ UNCHANGED pending

Finish(c) ==
  /\ c \in pending
  /\ pending' = pending \ {c}
  /\ \E outcome \in {"encoded", "failed"} : answer' = [answer EXCEPT ![c] = outcome]

Next == \E c \in Callers : TakeIn(c) \/ TurnAway(c) \/ Finish(c)

Spec == Init /\ [][Next]_vars
-------------------------------------------------------------------------------
\* No more calls are taken in than there are places, and a call that is taken in has no
\* answer yet.
Within ==
  /\ IsFiniteSet(pending) /\ Cardinality(pending) <= Places
  /\ \A c \in pending : answer[c] = "none"
===============================================================================

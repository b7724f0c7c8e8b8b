---------------------------- MODULE MCEncoderQueue ----------------------------
(***************************************************************************)
(* Five callers contend for two encoders and a queue of two seats.         *)
(***************************************************************************)
EXTENDS EncoderQueue

CONSTANTS c1, c2, c3, c4, c5

MCCallers == {c1, c2, c3, c4, c5}
===============================================================================

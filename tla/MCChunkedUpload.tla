---------------------------- MODULE MCChunkedUpload ----------------------------
(***************************************************************************)
(* A file of two slices, the second a short one: two chunk requests, for   *)
(* both slices, for a retry, or racing past the declared size; and two     *)
(* completions of the same upload.                                         *)
(***************************************************************************)
EXTENDS ChunkedUpload, TLC

CONSTANTS w1, w2, p1, p2

TwoRequests == {w1, w2}
TwoCompletions == {p1, p2}
================================================================================

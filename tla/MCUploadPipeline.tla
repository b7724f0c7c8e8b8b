--------------------------- MODULE MCUploadPipeline ---------------------------
(***************************************************************************)
(* Two files in one multipart request, one in a chunked one, and room for  *)
(* two: either request fits alone, and both do not.                        *)
(***************************************************************************)
EXTENDS UploadPipeline, TLC

CONSTANTS r1, r2

MCRequests == {r1, r2}
MCCount == (r1 :> 2) @@ (r2 :> 1)
MCChunked == {r2}
===============================================================================

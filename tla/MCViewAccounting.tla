--------------------------- MODULE MCViewAccounting ---------------------------
(***************************************************************************)
(* A small instance of ViewAccounting: two requests for one image, each    *)
(* through a one-time recipient link or the image's own token, with a view *)
(* id or without; the image has a timer and a limit of one view.           *)
(***************************************************************************)
EXTENDS ViewAccounting, TLC

CONSTANTS r1, r2, v1, v2, l1, nolink

MCRequests == {r1, r2}
MCViews == {v1, v2}
MCUnnamed == {v2}
MCLinks == {l1}
MCOneTime == [l \in {l1} |-> 1]
===============================================================================

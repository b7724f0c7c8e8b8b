------------------------------ MODULE MCExhibits ------------------------------
(***************************************************************************)
(* Two images that look the same, two rows for their look, one gallery and *)
(* two requests of its owner, one of an administrator.                     *)
(***************************************************************************)
EXTENDS Exhibits, TLC

CONSTANTS x1, x2, b1, b2, a1, g1, w1, w2, y1

MCLookOf == [x \in {x1, x2} |-> y1]
MCSymmetry == Permutations({x1, x2}) \cup Permutations({b1, b2}) \cup Permutations({w1, w2})
===============================================================================

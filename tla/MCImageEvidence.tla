---------------------------- MODULE MCImageEvidence ----------------------------
(***************************************************************************)
(* A small instance of ImageEvidence: two requests at once, two entries of *)
(* the log and two reports.                                                *)
(***************************************************************************)
EXTENDS ImageEvidence, TLC
CONSTANTS h1, h2, l1, l2, p1, p2
MCHandlers == {h1, h2}
MCLogs == {l1, l2}
MCReports == {p1, p2}
MCSymmetry == Permutations(MCHandlers) \cup Permutations(MCLogs) \cup Permutations(MCReports)
===============================================================================

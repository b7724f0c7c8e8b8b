------------------------------ MODULE MCDatasets ------------------------------
(***************************************************************************)
(* A small instance of Datasets: two sources, two versions, one crash.     *)
(***************************************************************************)
EXTENDS Datasets, TLC
===============================================================================

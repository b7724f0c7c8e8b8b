----------------------------- MODULE MCRenderCache -----------------------------
(***************************************************************************)
(* Two deliveries, two keys, and a budget that holds two renders but not   *)
(* three.                                                                  *)
(***************************************************************************)
EXTENDS RenderCache, TLC

CONSTANTS h1, h2, k1, k2

MCHandlers == {h1, h2}
MCKeys == {k1, k2}
MCSizes == {2}
================================================================================

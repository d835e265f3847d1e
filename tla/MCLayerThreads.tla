--------------------------- MODULE MCLayerThreads ----------------------------
(***************************************************************************)
(* LayerThreads for TLC.                                                    *)
(***************************************************************************)
EXTENDS LayerThreads
=============================================================================

---------------------------- MODULE MCSendQueue -----------------------------
(***************************************************************************)
(* SendQueue for TLC.                                                      *)
(***************************************************************************)
EXTENDS SendQueue
=============================================================================

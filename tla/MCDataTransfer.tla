--------------------------- MODULE MCDataTransfer ---------------------------
(***************************************************************************)
(* DataTransfer for TLC.                                                   *)
(***************************************************************************)
EXTENDS DataTransferInv
=============================================================================

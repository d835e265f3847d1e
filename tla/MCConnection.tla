---------------------------- MODULE MCConnection ----------------------------
(***************************************************************************)
(* Connection for TLC: one host opens a connection to another.             *)
(***************************************************************************)
EXTENDS Connection

CONSTANTS a, b
=============================================================================

----------------------------- MODULE MCRouting ------------------------------
(* Three hosts in a row, as hosts 1 to 3 of config/topology.cnf. *)
EXTENDS Routing

Row == {{1, 2}, {2, 3}}
=============================================================================

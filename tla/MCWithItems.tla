------------------------------ MODULE MCWithItems ------------------------------
(* The run of WithItems is about all kinds of tasks in Supported.           *)
EXTENDS WithItems
=============================================================================

------------------------------ MODULE MCServerRun ------------------------------
(* One connection for two requests and the batch, so that they have to wait    *)
(* for each other.                                                             *)
EXTENDS ServerRun
================================================================================

-------------------------- MODULE MCZkWorkerRegistry --------------------------
(* A small instance of ZkWorkerRegistry.                                   *)
EXTENDS ZkWorkerRegistry
=============================================================================

----------------------------- MODULE MCPipeline -----------------------------
(* Instances of Pipeline for TLC.  InFlight chooses a worker, so the workers *)
(* are not declared symmetric.                                               *)
EXTENDS Pipeline, TLC
=============================================================================

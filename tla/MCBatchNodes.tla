---------------------------- MODULE MCBatchNodes ----------------------------
(* The instance of BatchNodes for TLC.                                     *)
EXTENDS BatchNodes, TLC

CONSTANTS f1, f2, p1, p2, p3, p4

\* One process for each tool, and a worker of the service.
OneOfEach == (p1 :> "ingest") @@ (p2 :> "transform") @@ (p3 :> "analyze")
             @@ (p4 :> "service")

\* The photos in the order of their sols.
BySol == (f1 :> 1) @@ (f2 :> 2)
=============================================================================

---------------------------- MODULE MCGatewayJobs ----------------------------
(* Instances of GatewayJobs for TLC.                                         *)
EXTENDS GatewayJobs, TLC

CONSTANTS j1, j2, j3, u1, u2, p1, p2, t1, t2, k1, k2

Body(s, i, st) == [status |-> s, pdf |-> s = "COMPLETED", image |-> i,
                   imageState |-> st]

\* The messages that decide a verdict.
VerdictKinds == {Body("PROCESSING_IMAGES", Null, "none"),
                 Body("COMPLETED", Null, "none"), Body("FAILED", Null, "none")}

\* Only the two terminal messages.
EndKinds == {Body(s, Null, "none") : s \in TerminalStatus}

\* Progress of an image and the end of its job.
ImageAndEnd == {Body("PROCESSING_IMAGES", k1, "processing"),
                Body("COMPLETED", Null, "none")}

\* The messages about two images of one job.
TwoImageKinds ==
    {Body("PROCESSING_IMAGES", i, st) : i \in {k1, k2}, st \in {"processing", "done"}}
    \cup {Body("GENERATING_PDF", Null, "none"), Body("COMPLETED", Null, "none")}

Symmetry == Permutations(Users) \cup Permutations(Projects)
            \cup Permutations(Jobs) \cup Permutations(HttpThreads)
===============================================================================

------------------------ MODULE MCArtifactLifecycle ------------------------
(* Instances of ArtifactLifecycle for TLC.                                 *)
EXTENDS ArtifactLifecycle, TLC

CONSTANTS a1, a2, a3, p1, p2, j1, j2, j3, w1, w2, m1, m2

\* Two jobs of a project, and one of another.
TwoProjects == (j1 :> m1) @@ (j2 :> m1) @@ (j3 :> m2)

\* The two jobs of one project are alike.
Symmetry == Permutations(Artifacts) \cup Permutations(Workers)
            \cup Permutations({j1, j2})
============================================================================

----------------------------- MODULE MCProjects -----------------------------
(* Instances of Projects for TLC.                                          *)
EXTENDS Projects, TLC

CONSTANTS p1, p2, i1, i2, u1, u2, l1, l2, t1, t2, w1, b1, b2

\* Two publications of one user: one with an image, one with two, the first of
\* which has the same name.
TwoForms == (b1 :> <<"1.jpg">>) @@ (b2 :> <<"1.jpg", "2.png">>)
OneForm == b1 :> <<"1.jpg">>

Symmetry == Permutations(Projects) \cup Permutations(Images) \cup Permutations(Users)
            \cup Permutations(Lids) \cup Permutations(Requests)
=============================================================================

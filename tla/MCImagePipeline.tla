-------------------------- MODULE MCImagePipeline --------------------------
(* Instances of ImagePipeline for TLC.                                      *)
EXTENDS ImagePipeline, TLC

CONSTANTS j1, j2, l1, l2, w1, w2

OneImage  == (j1 :> <<l1>>)
TwoImages == (j1 :> <<l1, l2>>)

\* A job with an image, and one that was accepted without any.
OneAndNone == (j1 :> <<l1>>) @@ (j2 :> <<>>)

Symmetry == Permutations(Workers)
=============================================================================

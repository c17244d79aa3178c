---------------------------- MODULE MCEvaluation ----------------------------
(* An instance of Evaluation for TLC. The constants of EvalRun and the bounds *)
(* come from the configuration, the plan and the tasks from here.             *)
EXTENDS Evaluation, TLC

CONSTANTS a, b, c, d, e, w1, w2

\* Two jobs of two images and of one; three stages of an image, one of a job.
\* The faults of the first two stages name a lid; no stage is skipped.
MCImagesOf == << <<a, b>>, <<c>> >>
MCStages == << "pds_lookup", "ingest_img_upload", "transform_rgb_upload", "pdf_upload" >>

\* One job of two images.
MCTasks == { <<1, d>>, <<1, e>> }

\* The workers are alike, and so are the images of the tasks.
Alike == Permutations({w1, w2}) \cup Permutations({d, e})
=============================================================================

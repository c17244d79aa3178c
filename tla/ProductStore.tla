---------------------------- MODULE ProductStore ----------------------------
(***************************************************************************)
(* What the worker threads keep in object storage while they process a      *)
(* product: the raw image "img" and its "metadata" (nodes/ingest/one.py),    *)
(* then "summary", "gray" and, for a product in colour, "rgb"               *)
(* (nodes/transform).  The raw image is temporary: whoever transformed the   *)
(* product deletes it.  "gray" is what a worker looks at to see that a       *)
(* product is done.  Two jobs may hold the same product, and a task is       *)
(* delivered again after a restart, so several workers may be at one         *)
(* product; nothing locks it.                                               *)
(*                                                                          *)
(* A storage call stands for its whole retry_call.  What goes wrong is taken *)
(* from the constant Faults, at most MaxFaults times in a behaviour:         *)
(*   misread       exists() answers False to any S3Error                    *)
(*   call_raises   a call raised at its last attempt                        *)
(*   read_raises   the raw image could not be downloaded or decoded         *)
(*   delete_fails  the raw image could not be deleted; nobody is told       *)
(*   crash         the process stops and starts again                       *)
(***************************************************************************)
EXTENDS Naturals, Sequences

CONSTANTS
    Products, Workers,
    Colour,         \* products whose array has the bands for an rgb image
    Unsupported,    \* products whose array has neither two dimensions nor three
    MaxAttempts,    \* _MAX_RETRIES + 1
    Faults,         \* the kinds of fault that happen
    MaxFaults,      \* bound on their number
    Null

FaultKinds == {"misread", "call_raises", "read_raises", "delete_fails", "crash"}

ASSUME StoreAssumption ==
    /\ Colour \subseteq Products /\ Unsupported \subseteq Products \ Colour
    /\ MaxAttempts \in Nat \ {0}
    /\ Faults \subseteq FaultKinds
    /\ MaxFaults \in Nat
    /\ Null \notin Products

VARIABLES
    store,      \* the objects of each product
    worker,     \* the product a worker is at, the next call, and its attempt
    faults      \* the kinds of the faults so far, in their order

vars == <<store, worker, faults>>

Objects == {"img", "metadata", "summary", "gray", "rgb"}

IdleWorker == [pc |-> "idle", product |-> Null, attempt |-> 0, ok |-> FALSE]

Init ==
    /\ store = [p \in Products |-> {}]
    /\ worker = [w \in Workers |-> IdleWorker]
    /\ faults = <<>>

Fault(kind) ==
    /\ kind \in Faults
    /\ Len(faults) < MaxFaults
    /\ faults' = Append(faults, kind)

At(w, pc) == worker[w].pc = pc
Stored(w) == store[worker[w].product]
Go(w, pc) == worker' = [worker EXCEPT ![w].pc = pc]

\* The task ends, with an analysis or with an error.
Answer(w) == worker' = [worker EXCEPT ![w] = IdleWorker]

\* Definitions named Mutant... are wrong variants of the definition they precede;
\* no specification uses them.  Each shows that a property can fail.

\* One attempt too many.
MutantRaise(w) ==
    /\ Fault("call_raises")
    /\ \/ /\ worker[w].attempt <= MaxAttempts
          /\ worker' = [worker EXCEPT ![w].pc = "ingest", ![w].attempt = @ + 1]
       \/ worker[w].attempt = MaxAttempts /\ Answer(w)

\* An exception leaves process_product: _process_with_retry starts it again from
\* the beginning, or gives up.
Raise(w) ==
    /\ Fault("call_raises")
    /\ \/ /\ worker[w].attempt < MaxAttempts
          /\ worker' = [worker EXCEPT ![w].pc = "ingest", ![w].attempt = @ + 1]
       \/ worker[w].attempt = MaxAttempts /\ Answer(w)

\* What storage.exists answers.
Exists(w, object, answer) ==
    \/ answer = (object \in Stored(w)) /\ UNCHANGED faults
    \/ object \in Stored(w) /\ ~answer /\ Fault("misread")

\* storage.upload_bytes writes nothing when the object is there; a call that
\* raised may have written.
Put(w, object) == store' = [store EXCEPT ![worker[w].product] = @ \cup {object}]
Upload(w, object, next) ==
    \/ Put(w, object) /\ Go(w, next) /\ UNCHANGED faults
    \/ (Put(w, object) \/ UNCHANGED store) /\ Raise(w)

----------------------------------------------------------------------------
StartTask(w, p) ==
    /\ At(w, "idle")
    /\ worker' = [worker EXCEPT ![w] = [pc |-> "ingest", product |-> p,
                                        attempt |-> 1, ok |-> TRUE]]
    /\ UNCHANGED <<store, faults>>

\* run_ingest_one: the product is looked up, and gray.jpg says whether it has
\* been transformed.
CheckIngested(w) ==
    /\ At(w, "ingest")
    /\ \/ \E there \in BOOLEAN :
            Exists(w, "gray", there) /\ Go(w, IF there THEN "analyze" ELSE "fetch")
       \/ Answer(w) /\ UNCHANGED faults
       \/ Raise(w)
    /\ UNCHANGED store

\* An image in storage is taken as it is; a download that fails ends the task.
FetchImg(w) ==
    /\ At(w, "fetch")
    /\ \/ \E there \in BOOLEAN :
            Exists(w, "img", there) /\ Go(w, IF there THEN "metadata" ELSE "upload_img")
       \/ Answer(w) /\ UNCHANGED faults
       \/ Raise(w)
    /\ UNCHANGED store

UploadImg(w)      == At(w, "upload_img") /\ Upload(w, "img", "metadata")
UploadMetadata(w) == At(w, "metadata") /\ Upload(w, "metadata", "transform")

\* A product that has been transformed meanwhile leaves nothing to delete.
MutantCheckTransformed(w) ==
    /\ At(w, "transform")
    /\ \/ \E there \in BOOLEAN :
            Exists(w, "gray", there) /\ Go(w, IF there THEN "analyze" ELSE "download")
       \/ Raise(w)
    /\ UNCHANGED store

\* process_one_task: another worker may have transformed the product meanwhile.
CheckTransformed(w) ==
    /\ At(w, "transform")
    /\ \/ \E there \in BOOLEAN :
            Exists(w, "gray", there) /\ Go(w, IF there THEN "delete_img" ELSE "download")
       \/ Raise(w)
    /\ UNCHANGED store

\* An image that is gone, or that cannot be read, is an error: it is not
\* retried, but the image is deleted first.  unsupported_ndim is no error to the
\* callers: the image is deleted and the analysis follows, without a gray.jpg.
DownloadImg(w) ==
    /\ At(w, "download")
    /\ \/ /\ "img" \in Stored(w)
          /\ Go(w, IF worker[w].product \in Unsupported THEN "delete_img" ELSE "summary")
          /\ UNCHANGED faults
       \/ /\ \/ "img" \notin Stored(w) /\ UNCHANGED faults
             \/ Fault("read_raises")
          /\ worker' = [worker EXCEPT ![w].pc = "delete_img", ![w].ok = FALSE]
    /\ UNCHANGED store

\* The summary is uploaded as far as possible.
MutantUploadSummary(w) ==
    /\ At(w, "summary")
    /\ \/ Put(w, "summary") /\ UNCHANGED faults
       \/ UNCHANGED store /\ Fault("call_raises")
    /\ Go(w, "gray")

UploadSummary(w) == At(w, "summary") /\ Upload(w, "summary", "gray")

AfterGray(w) == IF worker[w].product \in Colour THEN "rgb" ELSE "delete_img"

\* An upload that fails is not worth the whole product.
MutantUploadGray(w) ==
    /\ At(w, "gray")
    /\ \/ Put(w, "gray") /\ UNCHANGED faults
       \/ UNCHANGED store /\ Fault("call_raises")
    /\ Go(w, AfterGray(w))

UploadGray(w) == At(w, "gray") /\ Upload(w, "gray", AfterGray(w))
UploadRgb(w)  == At(w, "rgb") /\ Upload(w, "rgb", "delete_img")

\* run_transform_one deletes the raw image whatever process_one_task returned.
DeleteImg(w) ==
    /\ At(w, "delete_img")
    /\ \/ /\ store' = [store EXCEPT ![worker[w].product] = @ \ {"img"}]
          /\ UNCHANGED faults
       \/ UNCHANGED store /\ Fault("delete_fails")
    /\ IF worker[w].ok THEN Go(w, "analyze") ELSE Answer(w)

\* run_analyze_one turns all failures but those of its look for a reusable
\* analysis into an error.
Analyze(w) ==
    /\ At(w, "analyze")
    /\ \/ Answer(w) /\ UNCHANGED faults
       \/ Raise(w)
    /\ UNCHANGED store

\* Storage stays; the tasks are delivered again, if at all.
Crash ==
    /\ Fault("crash")
    /\ worker' = [w \in Workers |-> IdleWorker]
    /\ UNCHANGED store

Ingest(w)    == CheckIngested(w) \/ FetchImg(w) \/ UploadImg(w) \/ UploadMetadata(w)
Transform(w) == CheckTransformed(w) \/ DownloadImg(w) \/ UploadSummary(w)
                \/ UploadGray(w) \/ UploadRgb(w) \/ DeleteImg(w)

Next ==
    \/ \E w \in Workers : \/ \E p \in Products : StartTask(w, p)
                          \/ Ingest(w) \/ Transform(w) \/ Analyze(w)
    \/ Crash

Spec == Init /\ [][Next]_vars

----------------------------------------------------------------------------
(* Properties *)

TypeOK ==
    /\ store \in [Products -> SUBSET Objects]
    /\ worker \in [Workers -> [pc: {"idle", "ingest", "fetch", "upload_img", "metadata",
                                    "transform", "download", "summary", "gray", "rgb",
                                    "delete_img", "analyze"},
                               product: Products \cup {Null},
                               attempt: 0..MaxAttempts, ok: BOOLEAN]]
    /\ \A w \in Workers : worker[w].pc # "idle" => worker[w].product \in Products
    /\ faults \in Seq(FaultKinds) /\ Len(faults) <= MaxFaults

Happened(kinds) == \E i \in DOMAIN faults : faults[i] \in kinds

\* Some worker is at product p, before one of the calls pcs.
Working(p, pcs) == \E w \in Workers : worker[w].product = p /\ worker[w].pc \in pcs

\* The worker will delete the raw image, unless it is interrupted.
OwesDelete == {"metadata", "transform", "download", "summary", "gray", "rgb", "delete_img"}

\* A product that is skipped because of its gray.jpg has the metadata and the
\* array summary its analysis reads, whoever uploaded which.  A product goes to its
\* analysis without a gray.jpg for one reason only: that its array is unsupported.
SkipIsSafe ==
    /\ \A p \in Products : "gray" \in store[p] => {"metadata", "summary"} \subseteq store[p]
    /\ \A w \in Workers : At(w, "analyze") =>
         ("gray" \in Stored(w) <=> worker[w].product \notin Unsupported)

\* No worker takes the source away from another: one that counts on the raw image
\* finds it or the product transformed, unless somebody deleted it because it
\* could not be read or its array is unsupported.
TransformHasSource ==
    \A w \in Workers :
        worker[w].pc \in {"metadata", "transform", "download"} =>
            \/ Stored(w) \cap {"img", "gray"} # {}
            \/ Happened({"read_raises"})
            \/ worker[w].product \in Unsupported

\* What is left over or lacking is in the hands of some worker: a raw image has
\* one that will delete it, and a transformed product in colour without rgb.jpg
\* one that will upload it.  Only an interruption changes that.
LeftoversOwned ==
    \A p \in Products :
        \/ /\ "img" \in store[p] => Working(p, OwesDelete)
           /\ "gray" \in store[p] /\ p \in Colour /\ "rgb" \notin store[p]
                => Working(p, {"rgb"})
        \/ Happened({"call_raises", "delete_fails", "crash"})

\* A product that has gray.jpg and is at no worker has been processed: its raw
\* image is deleted and, in colour, its rgb.jpg is there.  The attempts of
\* _process_with_retry are there to make it so when a call raises.
GrayMeansProcessed ==
    \A p \in Products :
        "gray" \in store[p] /\ (\A w \in Workers : worker[w].product # p) =>
            /\ "img" \notin store[p]
            /\ p \in Colour => "rgb" \in store[p]
=============================================================================

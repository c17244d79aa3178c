------------------------- MODULE ProductStoreProofs -------------------------
(***************************************************************************)
(* Theorems about ProductStore, for any products, workers, attempts and     *)
(* faults.                                                                  *)
(***************************************************************************)
EXTENDS ProductStore, SequenceTheorems, TLAPS

\* The faults stay in the sequence, and grow by those that happen.
LEMMA FaultHappens ==
    ASSUME faults \in Seq(FaultKinds), NEW kind \in FaultKinds, Fault(kind), NEW kinds
    PROVE  /\ faults' \in Seq(FaultKinds)
           /\ Len(faults') <= MaxFaults
           /\ Happened(kinds) => Happened(kinds)'
           /\ kind \in kinds => Happened(kinds)'
<1>1. /\ faults' = Append(faults, kind)
      /\ Len(faults) \in Nat
      /\ Len(faults') = Len(faults) + 1
      /\ DOMAIN faults = 1..Len(faults)
      /\ DOMAIN faults' = 1..(Len(faults) + 1)
      /\ faults'[Len(faults) + 1] = kind
      /\ \A i \in DOMAIN faults : faults'[i] = faults[i]
  BY DEF Fault
<1>2. faults' \in Seq(FaultKinds) /\ Len(faults') <= MaxFaults
  BY <1>1, StoreAssumption DEF Fault
<1>3. Happened(kinds) => Happened(kinds)'
  BY <1>1 DEF Happened
<1>4. kind \in kinds => Happened(kinds)'
  BY <1>1 DEF Happened
<1> QED
  BY <1>2, <1>3, <1>4


----------------------------------------------------------------------------
(* The inductive invariant *)

Unreadable == Happened({"read_raises"})
Interrupted == Happened({"call_raises", "delete_fails", "crash"})

\* What a worker before the call pc relies on, at a product p with the objects s.
Relies(p, pc, ok, s, unreadable) ==
    /\ pc \in {"transform", "download", "summary", "gray", "rgb"} => "metadata" \in s
    /\ pc \in {"summary", "gray", "rgb"} => p \notin Unsupported
    /\ pc \in {"gray", "rgb"} => "summary" \in s
    /\ pc = "rgb" => "gray" \in s
    /\ pc = "analyze" => "gray" \in s \/ p \in Unsupported
    /\ pc = "delete_img" => "gray" \in s \/ p \in Unsupported \/ (~ok /\ unreadable)
    /\ pc \in {"metadata", "transform", "download"} =>
         "img" \in s \/ "gray" \in s \/ p \in Unsupported \/ unreadable

Calls == {"ingest", "fetch", "upload_img", "metadata", "transform", "download",
          "summary", "gray", "rgb", "delete_img", "analyze"}
State == [pc: Calls \cup {"idle"}, product: Products \cup {Null},
          attempt: 0..MaxAttempts, ok: BOOLEAN]

\* What the store has of a product that has its gray.jpg.
Whole(p, s) == "metadata" \in s /\ "summary" \in s /\ p \notin Unsupported

StoreInv == \A p \in Products :
    "gray" \in store[p] => Whole(p, store[p])
ReliesInv == \A w \in Workers : worker[w].pc # "idle" =>
    Relies(worker[w].product, worker[w].pc, worker[w].ok, Stored(w), Unreadable)

Inv == TypeOK /\ StoreInv /\ ReliesInv /\ LeftoversOwned

\* What a step that takes worker w to the call pc, and the objects of its product
\* from s to t, must do: keep all but the raw image, delete that one only when it
\* is of no more use, and neither leave nor make an obligation that the worker does
\* not take over.
Orderly(w, pc, ok, s, t) ==
    /\ s \ {"img"} \subseteq t
    /\ "gray" \in t => Whole(worker[w].product, t)
    /\ "img" \in s => \/ "img" \in t \/ "gray" \in t
                     \/ worker[w].product \in Unsupported \/ Unreadable'
    /\ pc # "idle" => Relies(worker[w].product, pc, ok, t, Unreadable')
    /\ \/ Interrupted'
       \/ /\ "img" \in t =>
               pc \in OwesDelete \/ ("img" \in s /\ worker[w].pc \notin OwesDelete)
          /\ "gray" \in t /\ worker[w].product \in Colour /\ "rgb" \notin t =>
               pc = "rgb" \/ ("gray" \in s /\ worker[w].pc # "rgb")

LEMMA OrderlySteps ==
    ASSUME Inv, NEW w \in Workers, worker[w].pc # "idle",
           NEW r \in State, r.pc # "idle" => r.product = worker[w].product,
           NEW t \in SUBSET Objects,
           worker' = [worker EXCEPT ![w] = r],
           store' = [store EXCEPT ![worker[w].product] = t],
           faults' \in Seq(FaultKinds), Len(faults') <= MaxFaults,
           Unreadable => Unreadable', Interrupted => Interrupted',
           Orderly(w, r.pc, r.ok, Stored(w), t)
    PROVE  Inv'
<1> PICK p \in Products : p = worker[w].product
  BY DEF Inv, TypeOK
<1>1. /\ worker'[w] = r
      /\ \A v \in Workers : v # w => worker'[v] = worker[v]
      /\ store'[p] = t
      /\ \A q \in Products : q # p => store'[q] = store[q]
      /\ Stored(w) = store[p]
  BY DEF Inv, TypeOK, Stored
<1>2. TypeOK'
  <2>1. worker' \in [Workers -> State] /\ store' \in [Products -> SUBSET Objects]
    BY DEF Inv, TypeOK, State, Calls
  <2>2. \A v \in Workers : worker'[v].pc # "idle" => worker'[v].product \in Products
    BY <1>1 DEF Inv, TypeOK
  <2> QED
    BY <2>1, <2>2 DEF TypeOK, State, Calls
<1>3. StoreInv'
  BY <1>1 DEF Inv, StoreInv, Orderly, Whole
<1>4. ReliesInv'
  <2>1. r.pc # "idle" => Relies(r.product, r.pc, r.ok, t, Unreadable')
    BY DEF Orderly, Whole
  <2>2. ASSUME NEW v \in Workers, v # w, worker[v].pc # "idle"
        PROVE  Relies(worker'[v].product, worker'[v].pc, worker'[v].ok, Stored(v)', Unreadable')
    <3>1. /\ Relies(worker[v].product, worker[v].pc, worker[v].ok, Stored(v), Unreadable)
          /\ worker[v].product \in Products
      BY <2>2 DEF Inv, ReliesInv, TypeOK
    <3>2. worker'[v] = worker[v]
      BY <1>1, <2>2
    <3>3. CASE worker[v].product = p
      <4>1. Stored(v) = Stored(w) /\ Stored(v)' = t
        BY <1>1, <3>2, <3>3 DEF Stored
      <4>2. /\ Stored(w) \ {"img"} \subseteq t
            /\ "img" \in Stored(w) => \/ "img" \in t \/ "gray" \in t
                                     \/ worker[v].product \in Unsupported \/ Unreadable'
        BY <3>3 DEF Orderly
      <4>3. /\ Relies(worker[v].product, worker[v].pc, worker[v].ok, Stored(w), Unreadable)
            /\ Unreadable => Unreadable'
        BY <3>1, <4>1
      <4>4. Relies(worker[v].product, worker[v].pc, worker[v].ok, t, Unreadable')
        BY <4>2, <4>3 DEF Relies
      <4> QED
        BY <3>2, <4>1, <4>4
    <3>4. CASE worker[v].product # p
      <4>1. Stored(v)' = Stored(v)
        BY <1>1, <3>1, <3>2, <3>4 DEF Stored
      <4> QED
        BY <3>1, <3>2, <4>1 DEF Relies
    <3> QED
      BY <3>3, <3>4
  <2>3. worker'[w].pc # "idle" =>
          Relies(worker'[w].product, worker'[w].pc, worker'[w].ok, Stored(w)', Unreadable')
    <3>1. CASE r.pc # "idle"
      <4>1. worker'[w] = r /\ Stored(w)' = t
        BY <1>1, <3>1 DEF Stored
      <4> QED
        BY <2>1, <3>1, <4>1 DEF Relies
    <3> QED
      BY <1>1, <3>1
  <2> QED
    BY <1>1, <2>2, <2>3 DEF ReliesInv
<1>5. LeftoversOwned'
  <2> SUFFICES ASSUME ~Interrupted', NEW q \in Products
               PROVE  /\ "img" \in store'[q] => Working(q, OwesDelete)'
                      /\ "gray" \in store'[q] /\ q \in Colour /\ "rgb" \notin store'[q]
                           => Working(q, {"rgb"})'
    BY DEF LeftoversOwned, Interrupted
  <2>1. /\ "img" \in store[q] => Working(q, OwesDelete)
        /\ "gray" \in store[q] /\ q \in Colour /\ "rgb" \notin store[q]
             => Working(q, {"rgb"})
    BY DEF Inv, LeftoversOwned, Interrupted
  <2>2. ASSUME NEW pcs, Working(q, pcs), q # p \/ worker[w].pc \notin pcs
        PROVE  Working(q, pcs)'
    BY <1>1, <2>2 DEF Working
  <2>3. ASSUME NEW pcs, q = p, r.pc \in pcs, r.pc # "idle"
        PROVE  Working(q, pcs)'
    BY <1>1, <2>3 DEF Working
  <2>4. CASE q # p
    BY <1>1, <2>1, <2>2, <2>4
  <2>5. CASE q = p
    <3>1. ASSUME "img" \in t PROVE Working(q, OwesDelete)'
      BY <1>1, <2>1, <2>2, <2>3, <2>5, <3>1 DEF Orderly, Whole, OwesDelete
    <3>2. ASSUME "gray" \in t, q \in Colour, "rgb" \notin t PROVE Working(q, {"rgb"})'
      <4>1. CASE r.pc = "rgb"
        BY <2>3, <2>5, <4>1
      <4>2. CASE r.pc # "rgb"
        <5>1. "gray" \in store[p] /\ worker[w].pc # "rgb" /\ "rgb" \notin store[p]
          BY <1>1, <2>5, <3>2, <4>2 DEF Orderly, Whole
        <5> QED
          BY <2>1, <2>2, <2>5, <3>2, <5>1
      <4> QED
        BY <4>1, <4>2
    <3> QED
      BY <1>1, <2>5, <3>1, <3>2
  <2> QED
    BY <2>4, <2>5
<1> QED
  BY <1>2, <1>3, <1>4, <1>5 DEF Inv
----------------------------------------------------------------------------
(* The steps *)

GoTo(w, pc, ok) == worker' = [worker EXCEPT ![w].pc = pc, ![w].ok = ok]

\* A worker that goes on to the call pc, with no fault or with one.
LEMMA GoSteps ==
    ASSUME Inv, NEW w \in Workers, worker[w].pc # "idle",
           NEW pc \in Calls, NEW ok \in BOOLEAN,
           GoTo(w, pc, ok),
           NEW t \in SUBSET Objects,
           store' = [store EXCEPT ![worker[w].product] = t],
           UNCHANGED faults \/ \E kind \in FaultKinds : Fault(kind),
           Orderly(w, pc, ok, Stored(w), t)
    PROVE  Inv'
<1>1. PICK r \in State : r = [worker[w] EXCEPT !.pc = pc, !.ok = ok]
  BY DEF Inv, TypeOK, State
<1>2. /\ r.pc = pc /\ r.ok = ok /\ r.product = worker[w].product
      /\ worker' = [worker EXCEPT ![w] = r]
  BY <1>1 DEF GoTo, Inv, TypeOK, State
<1>3. /\ faults' \in Seq(FaultKinds) /\ Len(faults') <= MaxFaults
      /\ Unreadable => Unreadable'
      /\ Interrupted => Interrupted'
  <2>1. CASE UNCHANGED faults
    BY <2>1 DEF Inv, TypeOK, Unreadable, Interrupted, Happened
  <2>2. ASSUME NEW kind \in FaultKinds, Fault(kind) PROVE <1>3
    BY <2>2, FaultHappens DEF Inv, TypeOK, Unreadable, Interrupted
  <2> QED
    BY <2>1, <2>2
<1> QED
  BY <1>2, <1>3, OrderlySteps

\* A worker that ends its task, or that starts it again after an exception.
LEMMA RestSteps ==
    ASSUME Inv, NEW w \in Workers, worker[w].pc # "idle",
           NEW t \in SUBSET Objects,
           store' = [store EXCEPT ![worker[w].product] = t],
           \/ /\ Answer(w) /\ Orderly(w, "idle", FALSE, Stored(w), t)
              /\ UNCHANGED faults \/ \E kind \in FaultKinds : Fault(kind)
           \/ /\ Raise(w)
              /\ Stored(w) \subseteq t
              /\ "gray" \in t => Whole(worker[w].product, t)
    PROVE  Inv'
<1>1. /\ faults' \in Seq(FaultKinds) /\ Len(faults') <= MaxFaults
      /\ Unreadable => Unreadable'
      /\ Interrupted => Interrupted'
      /\ Raise(w) => Interrupted'
  <2>1. CASE UNCHANGED faults /\ ~Raise(w)
    BY <2>1 DEF Inv, TypeOK, Unreadable, Interrupted, Happened
  <2>2. ASSUME NEW kind \in FaultKinds, Fault(kind), ~Raise(w) PROVE <1>1
    BY <2>2, FaultHappens DEF Inv, TypeOK, Unreadable, Interrupted
  <2>3. CASE Raise(w)
    <3>1. Fault("call_raises")
      BY <2>3 DEF Raise
    <3> QED
      BY <3>1, FaultHappens DEF Inv, TypeOK, Unreadable, Interrupted, FaultKinds
  <2> QED
    BY <2>1, <2>2, <2>3
<1>2. CASE Answer(w) /\ Orderly(w, "idle", FALSE, Stored(w), t)
  <2> IdleWorker \in State
    BY StoreAssumption DEF StoreAssumption, IdleWorker, State
  <2>1. PICK r \in State : r = IdleWorker
    OBVIOUS
  <2>2. r.pc = "idle" /\ r.ok = FALSE /\ worker' = [worker EXCEPT ![w] = r]
    BY <1>2, <2>1 DEF Answer, IdleWorker
  <2> QED
    BY <1>1, <1>2, <2>2, OrderlySteps
<1>3. CASE Raise(w) /\ ~Answer(w)
  <2>1. PICK r \in State :
          r = [worker[w] EXCEPT !.pc = "ingest", !.attempt = worker[w].attempt + 1]
    BY <1>3, StoreAssumption DEF StoreAssumption, Raise, Inv, TypeOK, State, Calls
  <2>2. r.pc = "ingest" /\ r.product = worker[w].product
    BY <2>1 DEF Inv, TypeOK, State
  <2>3. worker' = [worker EXCEPT ![w] = r]
    BY <1>3, <2>1 DEF Raise, Inv, TypeOK
  <2>4. Orderly(w, r.pc, r.ok, Stored(w), t)
    BY <1>1, <1>3, <2>2 DEF Orderly, Whole, Relies, Answer, Raise
  <2> QED
    BY <1>1, <2>2, <2>3, <2>4, OrderlySteps
<1>4. CASE Raise(w) /\ Answer(w)
  <2>1. \/ /\ Stored(w) \subseteq t
           /\ "gray" \in t => Whole(worker[w].product, t)
        \/ Orderly(w, "idle", FALSE, Stored(w), t)
    OBVIOUS
  <2>2. Orderly(w, "idle", FALSE, Stored(w), t)
    BY <1>1, <1>4, <2>1 DEF Orderly, Whole
  <2> QED
    BY <1>2, <1>4, <2>2
<1> QED
  BY <1>2, <1>3, <1>4

\* Calls that leave the objects alone: the worker goes on, or not.
LEMMA CallSteps ==
    ASSUME Inv, NEW w \in Workers, worker[w].pc # "idle", UNCHANGED store,
           NEW pc \in Calls, NEW ok \in BOOLEAN, GoTo(w, pc, ok),
           UNCHANGED faults \/ \E kind \in FaultKinds : Fault(kind),
           \/ Interrupted'
           \/ /\ worker[w].pc \in OwesDelete => pc \in OwesDelete
              /\ worker[w].pc # "rgb",
           Relies(worker[w].product, pc, ok, Stored(w)', Unreadable')
    PROVE  Inv'
<1> PICK p \in Products : p = worker[w].product
  BY DEF Inv, TypeOK
<1>1. PICK t \in SUBSET Objects : t = Stored(w)
  BY DEF Inv, TypeOK, Stored
<1>2. store' = [store EXCEPT ![worker[w].product] = t]
  BY <1>1 DEF Stored, Inv, TypeOK
<1>3. "gray" \in t => Whole(worker[w].product, t)
  BY <1>1 DEF Stored, Inv, TypeOK, StoreInv, Whole
<1>4. Stored(w)' = t
  <2>1. worker'[w] = [worker[w] EXCEPT !.pc = pc, !.ok = ok]
    BY DEF GoTo, Inv, TypeOK
  <2>2. worker'[w].product = worker[w].product
    BY <2>1 DEF Inv, TypeOK
  <2> QED
    BY <1>1, <2>2 DEF Stored
<1>5. Relies(worker[w].product, pc, ok, t, Unreadable')
  BY <1>4 DEF Relies
<1>6. Orderly(w, pc, ok, Stored(w), t)
  BY <1>1, <1>3, <1>5 DEF Orderly, Whole
<1> QED
  BY <1>2, <1>6, GoSteps

LEMMA EndSteps ==
    ASSUME Inv, NEW w \in Workers, worker[w].pc # "idle", UNCHANGED store,
           \/ Raise(w)
           \/ Answer(w) /\ UNCHANGED faults /\ worker[w].pc \notin OwesDelete
    PROVE  Inv'
<1> PICK p \in Products : p = worker[w].product
  BY DEF Inv, TypeOK
<1>1. PICK t \in SUBSET Objects : t = Stored(w)
  BY DEF Inv, TypeOK, Stored
<1>2. /\ store' = [store EXCEPT ![worker[w].product] = t]
      /\ "gray" \in t => Whole(worker[w].product, t)
  BY <1>1 DEF Stored, Inv, TypeOK, StoreInv, Whole
<1>3. CASE Raise(w)
  BY <1>1, <1>2, <1>3, RestSteps
<1>4. CASE Answer(w) /\ UNCHANGED faults /\ worker[w].pc \notin OwesDelete
  <2>1. Orderly(w, "idle", FALSE, Stored(w), t)
    BY <1>1, <1>2, <1>4 DEF Orderly, Whole, OwesDelete
  <2> QED
    BY <1>2, <1>4, <2>1, RestSteps
<1> QED
  BY <1>3, <1>4

LEMMA UploadSteps ==
    ASSUME Inv, NEW w \in Workers, worker[w].pc # "idle",
           NEW object \in Objects, NEW next \in Calls, Upload(w, object, next),
           object = "gray" => Whole(worker[w].product, Stored(w)),
           object = "gray" => worker[w].product \notin Colour \/ next = "rgb",
           object = "img" \/ worker[w].pc \in OwesDelete,
           worker[w].pc = "rgb" => object = "rgb",
           next \in OwesDelete,
           Relies(worker[w].product, next, worker[w].ok, Stored(w) \cup {object}, Unreadable)
    PROVE  Inv'
<1> PICK p \in Products : p = worker[w].product
  BY DEF Inv, TypeOK
<1>1. /\ Stored(w) \in SUBSET Objects
      /\ "gray" \in Stored(w) => Whole(worker[w].product, Stored(w))
  BY DEF Inv, TypeOK, StoreInv, Whole, Stored
<1>2. CASE UNCHANGED store /\ Raise(w)
  BY <1>2, EndSteps
<1>3. CASE Put(w, object)
  <2>1. PICK t \in SUBSET Objects : t = Stored(w) \cup {object}
    BY <1>1
  <2>2. /\ store' = [store EXCEPT ![worker[w].product] = t]
        /\ "gray" \in t => Whole(worker[w].product, t)
        /\ Stored(w) \subseteq t
    BY <1>1, <1>3, <2>1 DEF Put, Stored, Whole
  <2>3. CASE Raise(w)
    BY <2>2, <2>3, RestSteps
  <2>4. CASE Go(w, next) /\ UNCHANGED faults
    <3>1. GoTo(w, next, worker[w].ok)
      BY <2>4 DEF Go, GoTo, Inv, TypeOK
    <3>2. Unreadable' <=> Unreadable
      BY <2>4 DEF Unreadable, Happened
    <3>3. PICK ok \in BOOLEAN : ok = worker[w].ok
      BY DEF Inv, TypeOK
    <3>4. Relies(worker[w].product, next, ok, t, Unreadable')
      BY <2>1, <3>2, <3>3 DEF Relies
    <3>5. Orderly(w, next, ok, Stored(w), t)
      BY <2>1, <2>2, <3>4 DEF Orderly, Whole, OwesDelete
    <3> QED
      BY <2>2, <2>4, <3>1, <3>3, <3>5, GoSteps
  <2> QED
    BY <2>3, <2>4 DEF Upload
<1> QED
  BY <1>2, <1>3 DEF Upload

\* Go(w, pc) is GoTo, and what the worker relies on is what the store has now.
LEMMA GoCall ==
    ASSUME Inv, NEW w \in Workers, worker[w].pc # "idle", UNCHANGED store,
           NEW pc \in Calls, Go(w, pc),
           UNCHANGED faults \/ \E kind \in FaultKinds : Fault(kind),
           worker[w].pc \in OwesDelete => pc \in OwesDelete,
           worker[w].pc # "rgb",
           Relies(worker[w].product, pc, worker[w].ok, Stored(w), Unreadable)
    PROVE  Inv'
<1>1. PICK ok \in BOOLEAN : ok = worker[w].ok
  BY DEF Inv, TypeOK
<1>2. GoTo(w, pc, ok)
  BY <1>1 DEF Go, GoTo, Inv, TypeOK
<1>3. Stored(w)' = Stored(w)
  <2>1. worker'[w] = [worker[w] EXCEPT !.pc = pc]
    BY DEF Go, Inv, TypeOK
  <2>2. worker'[w].product = worker[w].product
    BY <2>1 DEF Inv, TypeOK
  <2> QED
    BY <2>2 DEF Stored
<1>4. Unreadable => Unreadable'
  <2>1. CASE UNCHANGED faults
    BY <2>1 DEF Unreadable, Happened
  <2>2. ASSUME NEW kind \in FaultKinds, Fault(kind) PROVE <1>4
    BY <2>2, FaultHappens DEF Inv, TypeOK, Unreadable
  <2> QED
    BY <2>1, <2>2
<1>5. Relies(worker[w].product, pc, ok, Stored(w)', Unreadable')
  BY <1>1, <1>3, <1>4 DEF Relies
<1> QED
  BY <1>2, <1>5, CallSteps

LEMMA StartStep ==
    ASSUME Inv, NEW w \in Workers, NEW p \in Products, StartTask(w, p)
    PROVE  Inv'
<1>1. /\ worker[w].pc = "idle"
      /\ worker' = [worker EXCEPT ![w] = [pc |-> "ingest", product |-> p,
                                          attempt |-> 1, ok |-> TRUE]]
      /\ UNCHANGED <<store, faults>>
  BY DEF StartTask, At
<1>2. /\ worker'[w].pc = "ingest" /\ worker'[w].product = p
      /\ \A v \in Workers : v # w => worker'[v] = worker[v]
  BY <1>1 DEF Inv, TypeOK
<1>3. TypeOK'
  <2>1. [pc |-> "ingest", product |-> p, attempt |-> 1, ok |-> TRUE] \in State
    BY StoreAssumption DEF StoreAssumption, State, Calls
  <2>2. worker' \in [Workers -> State]
    BY <1>1, <2>1 DEF Inv, TypeOK, State, Calls
  <2>3. \A v \in Workers : worker'[v].pc # "idle" => worker'[v].product \in Products
    BY <1>2 DEF Inv, TypeOK
  <2> QED
    BY <1>1, <2>2, <2>3 DEF Inv, TypeOK, State, Calls
<1>4. StoreInv'
  BY <1>1 DEF Inv, StoreInv, Whole
<1>5. ReliesInv'
  BY <1>1, <1>2 DEF Inv, ReliesInv, Relies, Stored, Unreadable, Happened
<1>6. LeftoversOwned'
  <2>1. ASSUME NEW q, NEW pcs, "idle" \notin pcs, Working(q, pcs) PROVE Working(q, pcs)'
    BY <1>1, <1>2, <2>1 DEF Working
  <2>2. Happened({"call_raises", "delete_fails", "crash"})'
          <=> Happened({"call_raises", "delete_fails", "crash"})
    BY <1>1 DEF Happened
  <2> QED
    BY <1>1, <2>1, <2>2 DEF Inv, LeftoversOwned, OwesDelete
<1> QED
  BY <1>3, <1>4, <1>5, <1>6 DEF Inv

LEMMA IngestSteps ==
    ASSUME Inv, NEW w \in Workers, Ingest(w)
    PROVE  Inv'
<1>1. CASE CheckIngested(w)
  <2>1. UNCHANGED store /\ worker[w].pc = "ingest"
    BY <1>1 DEF CheckIngested, At
  <2>2. CASE Raise(w) \/ (Answer(w) /\ UNCHANGED faults)
    BY <2>1, <2>2, EndSteps DEF OwesDelete
  <2>3. ASSUME NEW there \in BOOLEAN, Exists(w, "gray", there),
               Go(w, IF there THEN "analyze" ELSE "fetch")
        PROVE  Inv'
    <3>1. PICK pc \in Calls : pc = IF there THEN "analyze" ELSE "fetch"
      BY DEF Calls
    <3>2. Relies(worker[w].product, pc, worker[w].ok, Stored(w), Unreadable)
      BY <2>3, <3>1 DEF Exists, Relies
    <3>3. UNCHANGED faults \/ \E kind \in FaultKinds : Fault(kind)
      BY <2>3 DEF Exists, FaultKinds
    <3> QED
      BY <2>1, <2>3, <3>1, <3>2, <3>3, GoCall DEF OwesDelete
  <2> QED
    BY <1>1, <2>2, <2>3 DEF CheckIngested
<1>2. CASE FetchImg(w)
  <2>1. UNCHANGED store /\ worker[w].pc = "fetch"
    BY <1>2 DEF FetchImg, At
  <2>2. CASE Raise(w) \/ (Answer(w) /\ UNCHANGED faults)
    BY <2>1, <2>2, EndSteps DEF OwesDelete
  <2>3. ASSUME NEW there \in BOOLEAN, Exists(w, "img", there),
               Go(w, IF there THEN "metadata" ELSE "upload_img")
        PROVE  Inv'
    <3>1. PICK pc \in Calls : pc = IF there THEN "metadata" ELSE "upload_img"
      BY DEF Calls
    <3>2. Relies(worker[w].product, pc, worker[w].ok, Stored(w), Unreadable)
      BY <2>3, <3>1 DEF Exists, Relies
    <3>3. UNCHANGED faults \/ \E kind \in FaultKinds : Fault(kind)
      BY <2>3 DEF Exists, FaultKinds
    <3> QED
      BY <2>1, <2>3, <3>1, <3>2, <3>3, GoCall DEF OwesDelete
  <2> QED
    BY <1>2, <2>2, <2>3 DEF FetchImg
<1>3. CASE UploadImg(w)
  <2>1. Relies(worker[w].product, "metadata", worker[w].ok, Stored(w) \cup {"img"}, Unreadable)
    BY DEF Relies
  <2> QED
    BY <1>3, <2>1, UploadSteps DEF UploadImg, At, Objects, Calls, OwesDelete
<1>4. CASE UploadMetadata(w)
  <2>1. worker[w].pc = "metadata"
    BY <1>4 DEF UploadMetadata, At
  <2>2. Relies(worker[w].product, "metadata", worker[w].ok, Stored(w), Unreadable)
    BY <2>1 DEF Inv, ReliesInv
  <2>3. Relies(worker[w].product, "transform", worker[w].ok, Stored(w) \cup {"metadata"}, Unreadable)
    BY <2>2 DEF Relies
  <2> QED
    BY <1>4, <2>1, <2>3, UploadSteps DEF UploadMetadata, Objects, Calls, OwesDelete
<1> QED
  BY <1>1, <1>2, <1>3, <1>4 DEF Ingest

\* The raw image goes: the product is transformed, or could not be read.
LEMMA DeleteStep ==
    ASSUME Inv, NEW w \in Workers, DeleteImg(w)
    PROVE  Inv'
<1> PICK p \in Products : p = worker[w].product
  BY DEF Inv, TypeOK, DeleteImg, At
<1>1. worker[w].pc = "delete_img" /\ Stored(w) = store[p] /\ Stored(w) \subseteq Objects
  BY DEF DeleteImg, At, Stored, Inv, TypeOK
<1>2. PICK ok \in BOOLEAN : ok = worker[w].ok
  BY DEF Inv, TypeOK
<1>3. Relies(worker[w].product, "delete_img", ok, Stored(w), Unreadable)
  BY <1>1, <1>2 DEF Inv, ReliesInv
<1>4. "gray" \in Stored(w) => Whole(worker[w].product, Stored(w))
  BY <1>1 DEF Inv, StoreInv, Whole
<1>5. ASSUME NEW t \in SUBSET Objects, store' = [store EXCEPT ![worker[w].product] = t],
             Stored(w) \ {"img"} \subseteq t, t \subseteq Stored(w),
             UNCHANGED faults \/ \E kind \in FaultKinds : Fault(kind),
             Unreadable => Unreadable',
             "img" \notin t \/ (t = Stored(w) /\ Interrupted')
      PROVE  Inv'
  <2>1. ASSUME NEW pc \in Calls \cup {"idle"}, pc = "analyze" => ok, pc # "idle" => pc = "analyze",
               NEW end \in BOOLEAN
        PROVE  Orderly(w, pc, end, Stored(w), t)
    BY <1>1, <1>3, <1>4, <1>5, <2>1 DEF Orderly, Whole, Relies
  <2>2. CASE ok /\ Go(w, "analyze")
    <3>1. GoTo(w, "analyze", ok)
      BY <1>2, <2>2 DEF Go, GoTo, Inv, TypeOK
    <3>2. Orderly(w, "analyze", ok, Stored(w), t)
      BY <2>1, <2>2 DEF Calls
    <3> QED
      BY <1>1, <1>5, <3>1, <3>2, GoSteps DEF Calls
  <2>3. CASE Answer(w)
    <3>1. Orderly(w, "idle", FALSE, Stored(w), t)
      BY <2>1 DEF Calls
    <3> QED
      BY <1>1, <1>5, <2>3, <3>1, RestSteps
  <2> QED
    BY <1>2, <2>2, <2>3 DEF DeleteImg
<1>6. CASE /\ store' = [store EXCEPT ![worker[w].product] = @ \ {"img"}]
           /\ UNCHANGED faults
  <2> Stored(w) \ {"img"} \in SUBSET Objects
    BY <1>1
  <2>1. PICK t \in SUBSET Objects : t = Stored(w) \ {"img"}
    OBVIOUS
  <2>2. store' = [store EXCEPT ![worker[w].product] = t]
    BY <1>6, <2>1 DEF Stored
  <2>3. Unreadable => Unreadable'
    BY <1>6 DEF Unreadable, Happened
  <2> QED
    BY <1>5, <1>6, <2>1, <2>2, <2>3
<1>7. CASE UNCHANGED store /\ Fault("delete_fails")
  <2>1. PICK t \in SUBSET Objects : t = Stored(w)
    BY <1>1 DEF Inv, TypeOK
  <2>2. store' = [store EXCEPT ![worker[w].product] = t]
    BY <1>7, <2>1 DEF Stored, Inv, TypeOK
  <2>3. (Unreadable => Unreadable') /\ Interrupted'
    BY <1>7, FaultHappens DEF Inv, TypeOK, Unreadable, Interrupted, FaultKinds
  <2>4. \E kind \in FaultKinds : Fault(kind)
    BY <1>7 DEF FaultKinds
  <2> QED
    BY <1>5, <2>1, <2>2, <2>3, <2>4
<1> QED
  BY <1>6, <1>7 DEF DeleteImg

LEMMA TransformSteps ==
    ASSUME Inv, NEW w \in Workers, Transform(w)
    PROVE  Inv'
<1> DEFINE ok == worker[w].ok
           s == Stored(w)
<1>1. worker[w].pc # "idle" => /\ Relies(worker[w].product, worker[w].pc, ok, s, Unreadable)
                               /\ "gray" \in s => Whole(worker[w].product, s)
  BY DEF Inv, ReliesInv, StoreInv, Whole, TypeOK, Stored
<1> HIDE DEF ok, s
<1>2. CASE CheckTransformed(w)
  <2>1. UNCHANGED store /\ worker[w].pc = "transform"
    BY <1>2 DEF CheckTransformed, At
  <2>2. CASE Raise(w)
    BY <2>1, <2>2, EndSteps
  <2>3. ASSUME NEW there \in BOOLEAN, Exists(w, "gray", there),
               Go(w, IF there THEN "delete_img" ELSE "download")
        PROVE  Inv'
    <3>1. PICK pc \in Calls : pc = IF there THEN "delete_img" ELSE "download"
      BY DEF Calls
    <3>2. Relies(worker[w].product, pc, ok, s, Unreadable)
      BY <1>1, <2>1, <2>3, <3>1 DEF Exists, Relies, s
    <3>3. UNCHANGED faults \/ \E kind \in FaultKinds : Fault(kind)
      BY <2>3 DEF Exists, FaultKinds
    <3> QED
      BY <2>1, <2>3, <3>1, <3>2, <3>3, GoCall DEF OwesDelete, ok, s
  <2> QED
    BY <1>2, <2>2, <2>3 DEF CheckTransformed
<1>3. CASE DownloadImg(w)
  <2>1. UNCHANGED store /\ worker[w].pc = "download"
    BY <1>3 DEF DownloadImg, At
  <2>2. Relies(worker[w].product, "download", ok, s, Unreadable)
    BY <1>1, <2>1
  <2>3. ASSUME Go(w, IF worker[w].product \in Unsupported THEN "delete_img" ELSE "summary"),
               UNCHANGED faults
        PROVE  Inv'
    <3>1. PICK pc \in Calls :
            pc = IF worker[w].product \in Unsupported THEN "delete_img" ELSE "summary"
      BY DEF Calls
    <3>2. Relies(worker[w].product, pc, ok, s, Unreadable)
      BY <2>2, <3>1 DEF Relies
    <3> QED
      BY <2>1, <2>3, <3>1, <3>2, GoCall DEF OwesDelete, ok, s
  <2>4. ASSUME ("img" \notin s /\ UNCHANGED faults) \/ Fault("read_raises"),
               worker' = [worker EXCEPT ![w].pc = "delete_img", ![w].ok = FALSE]
        PROVE  Inv'
    <3>1. GoTo(w, "delete_img", FALSE)
      BY <2>4 DEF GoTo
    <3>2. UNCHANGED faults \/ \E kind \in FaultKinds : Fault(kind)
      BY <2>4 DEF FaultKinds
    <3>3. Stored(w)' = s
      <4>1. worker'[w].product = worker[w].product
        BY <2>4 DEF Inv, TypeOK
      <4> QED
        BY <2>1, <4>1 DEF Stored, s
    <3>4. CASE Fault("read_raises")
      <4>1. Unreadable'
        BY <3>4, FaultHappens DEF Inv, TypeOK, Unreadable, FaultKinds
      <4>2. Relies(worker[w].product, "delete_img", FALSE, Stored(w)', Unreadable')
        BY <4>1 DEF Relies
      <4> QED
        BY <2>1, <3>1, <3>2, <4>2, CallSteps DEF OwesDelete, Calls
    <3>5. CASE "img" \notin s /\ UNCHANGED faults
      <4>1. Unreadable' = Unreadable
        BY <3>5 DEF Unreadable, Happened
      <4>2. Relies(worker[w].product, "delete_img", FALSE, Stored(w)', Unreadable')
        BY <2>2, <3>3, <3>5, <4>1 DEF Relies
      <4> QED
        BY <2>1, <3>1, <3>2, <4>2, CallSteps DEF OwesDelete, Calls
    <3> QED
      BY <2>4, <3>4, <3>5
  <2> QED
    BY <1>3, <2>3, <2>4 DEF DownloadImg, s
<1>4. CASE UploadSummary(w)
  <2>1. worker[w].pc = "summary" /\ Upload(w, "summary", "gray")
    BY <1>4 DEF UploadSummary, At
  <2>2. Relies(worker[w].product, "gray", ok, s \cup {"summary"}, Unreadable)
    BY <1>1, <2>1 DEF Relies
  <2> QED
    BY <2>1, <2>2, UploadSteps DEF Objects, Calls, OwesDelete, ok, s
<1>5. CASE UploadGray(w)
  <2>1. worker[w].pc = "gray" /\ Upload(w, "gray", AfterGray(w))
    BY <1>5 DEF UploadGray, At
  <2>2. PICK pc \in Calls : pc = AfterGray(w)
    BY DEF AfterGray, Calls
  <2>3. pc \in OwesDelete /\ (worker[w].product \notin Colour \/ pc = "rgb")
    BY <2>2 DEF AfterGray, OwesDelete
  <2>4. "metadata" \in s /\ "summary" \in s /\ worker[w].product \notin Unsupported
    BY <1>1, <2>1 DEF Relies
  <2>5. Relies(worker[w].product, pc, ok, s \cup {"gray"}, Unreadable)
    BY <2>2, <2>4 DEF AfterGray, Relies, Whole
  <2> QED
    BY <2>1, <2>2, <2>3, <2>4, <2>5, UploadSteps DEF Objects, OwesDelete, ok, s, Whole
<1>6. CASE UploadRgb(w)
  <2>1. worker[w].pc = "rgb" /\ Upload(w, "rgb", "delete_img")
    BY <1>6 DEF UploadRgb, At
  <2>2. Relies(worker[w].product, "delete_img", ok, s \cup {"rgb"}, Unreadable)
    BY <1>1, <2>1 DEF Relies
  <2> QED
    BY <2>1, <2>2, UploadSteps DEF Objects, Calls, OwesDelete, ok, s
<1> QED
  BY <1>2, <1>3, <1>4, <1>5, <1>6, DeleteStep DEF Transform

LEMMA AnalyzeStep ==
    ASSUME Inv, NEW w \in Workers, Analyze(w)
    PROVE  Inv'
BY EndSteps DEF Analyze, At, OwesDelete

LEMMA CrashStep ==
    ASSUME Inv, Crash
    PROVE  Inv'
<1>1. /\ UNCHANGED store /\ \A w \in Workers : worker'[w] = IdleWorker
      /\ worker' = [w \in Workers |-> IdleWorker]
      /\ Fault("crash")
  BY DEF Crash
<1>2. /\ faults' \in Seq(FaultKinds) /\ Len(faults') <= MaxFaults
      /\ Interrupted'
  BY <1>1, FaultHappens DEF Inv, TypeOK, Interrupted, FaultKinds
<1>3. TypeOK'
  <2>1. IdleWorker \in State
    BY StoreAssumption DEF StoreAssumption, IdleWorker, State
  <2>2. worker' \in [Workers -> State] /\ \A w \in Workers : worker'[w].pc = "idle"
    BY <1>1, <2>1 DEF IdleWorker
  <2> QED
    BY <1>1, <1>2, <2>2 DEF Inv, TypeOK, State, Calls
<1>4. StoreInv' /\ ReliesInv'
  BY <1>1 DEF Inv, StoreInv, Whole, ReliesInv, IdleWorker
<1>5. LeftoversOwned'
  BY <1>2 DEF LeftoversOwned, Interrupted
<1> QED
  BY <1>3, <1>4, <1>5 DEF Inv

----------------------------------------------------------------------------
(* The theorems *)

\* Empty storage and idle workers satisfy the invariant.
THEOREM InvInit == Init => Inv
<1> SUFFICES ASSUME Init PROVE Inv
  OBVIOUS
<1>1. IdleWorker \in State
  BY StoreAssumption DEF StoreAssumption, IdleWorker, State
<1>2. TypeOK
  <2>1. worker \in [Workers -> State] /\ \A w \in Workers : worker[w].pc = "idle"
    BY <1>1 DEF Init, IdleWorker
  <2>2. faults \in Seq(FaultKinds) /\ Len(faults) <= MaxFaults
    BY StoreAssumption DEF StoreAssumption, Init
  <2> QED
    BY <2>1, <2>2 DEF Init, TypeOK, State, Calls
<1> QED
  BY <1>2 DEF Inv, Init, StoreInv, Whole, ReliesInv, LeftoversOwned, IdleWorker

\* Every call of a worker, each that raises and a restart keep the invariant.
THEOREM InvStep == Inv /\ [Next]_vars => Inv'
<1> SUFFICES ASSUME Inv, [Next]_vars PROVE Inv'
  OBVIOUS
<1>1. CASE \E w \in Workers : \/ \E p \in Products : StartTask(w, p)
                              \/ Ingest(w) \/ Transform(w) \/ Analyze(w)
  BY <1>1, StartStep, IngestSteps, TransformSteps, AnalyzeStep
<1>2. CASE Crash
  BY <1>2, CrashStep
<1>3. CASE UNCHANGED vars
  BY <1>3
     DEF vars, Inv, TypeOK, StoreInv, Whole, ReliesInv, Relies, LeftoversOwned, Stored, Working,
         Unreadable, Happened
<1> QED
  BY <1>1, <1>2, <1>3 DEF Next

\* The store and the workers have the declared shape.
THEOREM TypeCorrect == Spec => []TypeOK
<1>1. Inv => TypeOK
  BY DEF Inv
<1> QED
  BY <1>1, InvInit, InvStep, PTL DEF Spec

\* Whoever skips a product finds what the analysis reads, whatever fails and
\* whoever uploaded which object; only an unsupported array is analysed without.
THEOREM SkipsAreSafe == Spec => []SkipIsSafe
<1>1. ASSUME Inv PROVE SkipIsSafe
  <2>1. \A p \in Products : "gray" \in store[p] =>
          {"metadata", "summary"} \subseteq store[p] /\ p \notin Unsupported
    BY <1>1 DEF Inv, StoreInv, Whole
  <2>2. ASSUME NEW w \in Workers, At(w, "analyze")
        PROVE  "gray" \in Stored(w) <=> worker[w].product \notin Unsupported
    <3>1. /\ worker[w].product \in Products
          /\ "gray" \in Stored(w) \/ worker[w].product \in Unsupported
      BY <1>1, <2>2 DEF Inv, TypeOK, ReliesInv, Relies, At
    <3> QED
      BY <2>1, <3>1 DEF Stored
  <2> QED
    BY <2>1, <2>2 DEF SkipIsSafe
<1> QED
  BY <1>1, InvInit, InvStep, PTL DEF Spec

\* No worker deletes the source another one counts on.
THEOREM SourcesStay == Spec => []TransformHasSource
<1>1. Inv => TransformHasSource
  BY DEF Inv, ReliesInv, Relies, TransformHasSource, Unreadable
<1> QED
  BY <1>1, InvInit, InvStep, PTL DEF Spec

\* Without an interruption nothing is left over that no worker takes care of.
THEOREM LeftoversAreOwned == Spec => []LeftoversOwned
<1>1. Inv => LeftoversOwned
  BY DEF Inv
<1> QED
  BY <1>1, InvInit, InvStep, PTL DEF Spec
=============================================================================

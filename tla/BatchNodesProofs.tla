--------------------------- MODULE BatchNodesProofs ---------------------------
(***************************************************************************)
(* Theorems about BatchNodes, for any photos, any number of processes of    *)
(* each tool, and any faults.                                               *)
(***************************************************************************)
EXTENDS BatchNodes, TLAPS

Calls == {"look", "upload_json", "fetch", "insert", "download", "upload_summary",
          "upload_gray", "upload_rgb", "mark_done", "mark_failed", "mark_running", "analyze",
          "mark_analyzed", "mark_unanalyzed", "check_gray", "check_result", "ingest_one",
          "delete_img"}
Process == [pc : Calls \cup {"idle"}, photo : Photos \cup {Null}, todo : SUBSET Photos,
            found : BOOLEAN, tool : IngestTools \cup {Null}]

Excused(fl) == "service" \in fl \/ "dry_run" \in fl

\* The calls of the tool of a role; a worker of the service makes those of two.
Plays(pc, role) ==
    /\ pc \in {"look", "upload_json", "fetch", "insert"} => role = "ingest"
    /\ pc \in {"check_gray", "download", "upload_summary", "upload_gray", "upload_rgb",
               "mark_done", "mark_failed"} => role \in {"transform", "service"}
    /\ pc \in {"check_result", "mark_running", "analyze", "mark_analyzed", "mark_unanalyzed"} =>
         role \in {"analyze", "service"}
    /\ pc \in {"ingest_one", "delete_img"} => role = "service"

\* What a process r of a role relies on, at a photo with the objects s, when the
\* faults fl have happened.
Relies(r, role, s, fl) ==
    /\ Plays(r.pc, role)
    /\ role = "service" => "service" \in fl
    /\ role = "ingest" /\ r.tool = "dry_run" => "dry_run" \in fl
    /\ r.pc = "upload_json" /\ r.found => "img" \in s \/ Excused(fl)
    /\ r.pc = "insert" /\ r.photo \in WithImg => "img" \in s \/ Excused(fl)
    /\ r.pc \in {"ingest_one", "check_gray", "download", "upload_summary", "upload_gray"} =>
         ~r.found
    /\ r.pc \in {"upload_gray", "upload_rgb", "mark_done"} => "summary" \in s
    /\ r.pc \in {"upload_rgb", "mark_done"} => "gray" \in s
    /\ r.pc = "mark_done" /\ r.found => "rgb" \in s
    /\ r.pc = "mark_analyzed" => "result" \in s \/ "service" \in fl

\* What row w says of a photo with the objects s.
Backed(w, s, fl) ==
    /\ w.source => "img" \in s \/ Excused(fl)
    /\ w.transform = "done" => "gray" \in s /\ "summary" \in s
    /\ w.rgb => "rgb" \in s
    /\ w.analysis = "done" => "result" \in s \/ "service" \in fl

TypeInv ==
    /\ row \in [Photos -> Row \cup {Null}]
    /\ store \in [Photos -> SUBSET Objects]
    /\ proc \in [Processes -> Process]
    /\ \A p \in Processes : /\ proc[p].pc # "idle" => proc[p].photo \in Photos
                            /\ proc[p].todo \subseteq Photos \ {proc[p].photo}
    /\ faults \subseteq Faults

StoreInv == \A f \in Photos : "gray" \in store[f] => "summary" \in store[f]

ReliesInv == \A p \in Processes :
    proc[p].pc # "idle" => Relies(proc[p], Role[p], store[proc[p].photo], faults)

RowsInv == \A f \in Photos : row[f] # Null => Backed(row[f], store[f], faults)

Inv == TypeInv /\ StoreInv /\ ReliesInv /\ RowsInv

\* Objects s become t while the faults fl become gl: nothing but a raw image
\* disappears, and that one by the service.
Grows(s, t, fl, gl) ==
    /\ s \ {"img"} \subseteq t
    /\ "img" \in s => "img" \in t \/ "service" \in gl
    /\ fl \subseteq gl

----------------------------------------------------------------------------

\* Without rows, objects and processes at work the table says nothing too much.
THEOREM InvInit == Init => Inv
<1> SUFFICES ASSUME Init PROVE Inv
  OBVIOUS
<1>1. Idle \in Process
  BY DEF Idle, Process
<1>2. TypeInv
  <2>1. proc \in [Processes -> Process]
    BY <1>1 DEF Init
  <2>2. \A p \in Processes : proc[p].pc = "idle" /\ proc[p].todo = {}
    BY DEF Init, Idle
  <2> QED
    BY <2>1, <2>2 DEF Init, TypeInv
<1>3. StoreInv /\ ReliesInv /\ RowsInv
  BY DEF Init, Idle, StoreInv, ReliesInv, RowsInv
<1> QED
  BY <1>2, <1>3 DEF Inv

LEMMA ReliesStays ==
    ASSUME NEW r, NEW role, NEW s, NEW t, NEW fl, NEW gl,
           Relies(r, role, s, fl), Grows(s, t, fl, gl)
    PROVE  Relies(r, role, t, gl)
BY DEF Relies, Grows, Excused

LEMMA BackedStays ==
    ASSUME NEW w, NEW s, NEW t, NEW fl, NEW gl, Backed(w, s, fl), Grows(s, t, fl, gl)
    PROVE  Backed(w, t, gl)
BY DEF Backed, Grows, Excused

\* A step that takes process p to r, the objects of the photo f to t, and its
\* row, if at all, to w.
LEMMA ProcessStep ==
    ASSUME Inv, NEW p \in Processes, NEW r \in Process,
           proc' = [proc EXCEPT ![p] = r],
           r.pc # "idle" => r.photo \in Photos,
           r.todo \subseteq Photos \ {r.photo},
           NEW f \in Photos, NEW t \in SUBSET Objects,
           store' = [store EXCEPT ![f] = t],
           "gray" \in t => "summary" \in t,
           Grows(store[f], t, faults, faults'), faults' \subseteq Faults,
           r.pc # "idle" => Relies(r, Role[p], store'[r.photo], faults'),
           NEW w, UNCHANGED row \/ (w \in Row \cup {Null} /\ row' = [row EXCEPT ![f] = w]
                                    /\ (w # Null => Backed(w, t, faults')))
    PROVE  Inv'
<1>1. /\ proc'[p] = r
      /\ \A q \in Processes : q # p => proc'[q] = proc[q]
      /\ store'[f] = t
      /\ \A g \in Photos : g # f => store'[g] = store[g]
  BY DEF Inv, TypeInv
<1>2. \A g \in Photos : Grows(store[g], store'[g], faults, faults')
  BY <1>1 DEF Grows
<1>3. TypeInv'
  <2>1. proc' \in [Processes -> Process] /\ store' \in [Photos -> SUBSET Objects]
    BY DEF Inv, TypeInv
  <2>2. row' \in [Photos -> Row \cup {Null}]
    BY DEF Inv, TypeInv
  <2>3. \A q \in Processes : /\ proc'[q].pc # "idle" => proc'[q].photo \in Photos
                             /\ proc'[q].todo \subseteq Photos \ {proc'[q].photo}
    BY <1>1 DEF Inv, TypeInv
  <2> QED
    BY <2>1, <2>2, <2>3 DEF TypeInv
<1>4. StoreInv'
  BY <1>1 DEF Inv, StoreInv
<1>5. ReliesInv'
  <2> SUFFICES ASSUME NEW q \in Processes, q # p, proc[q].pc # "idle"
               PROVE  Relies(proc[q], Role[q], store'[proc[q].photo], faults')
    BY <1>1 DEF ReliesInv
  <2>1. proc[q].photo \in Photos /\ Relies(proc[q], Role[q], store[proc[q].photo], faults)
    BY DEF Inv, TypeInv, ReliesInv
  <2> QED
    BY <1>2, <2>1, ReliesStays
<1>6. RowsInv'
  <2> SUFFICES ASSUME NEW g \in Photos, row'[g] # Null
               PROVE  Backed(row'[g], store'[g], faults')
    BY DEF RowsInv
  <2>1. CASE row'[g] = row[g]
    <3>1. Backed(row[g], store[g], faults)
      BY <2>1 DEF Inv, RowsInv
    <3> QED
      BY <1>2, <2>1, <3>1, BackedStays
  <2>2. CASE row'[g] # row[g]
    <3>1. g = f /\ row'[g] = w /\ Backed(w, t, faults')
      BY <2>2 DEF Inv, TypeInv
    <3> QED
      BY <1>1, <3>1
  <2> QED
    BY <2>1, <2>2
<1> QED
  BY <1>3, <1>4, <1>5, <1>6 DEF Inv

\* The same of a step that changes process p only, to r.
LEMMA QuietStep ==
    ASSUME Inv, NEW p \in Processes, proc[p].pc # "idle" \/ Photos # {}, NEW r \in Process,
           proc' = [proc EXCEPT ![p] = r],
           r.pc # "idle" => r.photo \in Photos,
           r.todo \subseteq Photos \ {r.photo},
           faults \subseteq faults', faults' \subseteq Faults,
           r.pc # "idle" => Relies(r, Role[p], store[r.photo], faults'),
           UNCHANGED <<row, store>>
    PROVE  Inv'
<1>1. PICK f \in Photos : TRUE
  BY DEF Inv, TypeInv
<1> DEFINE t == store[f]
<1>2. t \in SUBSET Objects /\ store' = [store EXCEPT ![f] = t]
  BY DEF Inv, TypeInv
<1>3. "gray" \in t => "summary" \in t
  BY DEF Inv, StoreInv
<1>4. Grows(store[f], t, faults, faults')
  BY DEF Grows
<1> HIDE DEF t
<1> QED
  BY <1>2, <1>3, <1>4, ProcessStep
----------------------------------------------------------------------------

LEMMA FaultGrows ==
    ASSUME Inv, NEW kind, Fault(kind) \/ UNCHANGED faults
    PROVE  faults \subseteq faults' /\ faults' \subseteq Faults
BY DEF Inv, TypeInv, Fault

LEMMA AtWork ==
    ASSUME Inv, NEW p \in Processes, proc[p].pc # "idle"
    PROVE  /\ proc[p] \in Process /\ Photo(p) \in Photos
           /\ proc[p].todo \subseteq Photos \ {Photo(p)}
           /\ store[Photo(p)] \subseteq Objects
           /\ "gray" \in store[Photo(p)] => "summary" \in store[Photo(p)]
           /\ Relies(proc[p], Role[p], store[Photo(p)], faults)
           /\ Grows(store[Photo(p)], store[Photo(p)], faults, faults')
                 <=> faults \subseteq faults'
BY DEF Inv, TypeInv, StoreInv, ReliesInv, Photo, Grows

LEMMA FirstCall ==
    ASSUME NEW p \in Processes
    PROVE  /\ First[Role[p]] \in Calls /\ Plays(First[Role[p]], Role[p])
           /\ First[Role[p]] \in {"look", "check_gray", "check_result", "ingest_one"}
<1>1. Role[p] \in {"ingest", "transform", "analyze", "service"}
  BY BatchAssumption
<1> QED
  BY <1>1 DEF First, Calls, Plays

\* Process p becomes r: idle, or at the first call of its tool.
Turns(p, tool, r) ==
    /\ proc' = [proc EXCEPT ![p] = r]
    /\ r = Idle \/ (/\ r.pc = First[Role[p]] /\ r.photo \in Photos
                    /\ r.found = FALSE /\ r.tool = tool)
    /\ r.todo \subseteq Photos \ {r.photo}

\* What becomes of a process whose tool takes the next of the photos S, or ends.
LEMMA RunResult ==
    ASSUME NEW p \in Processes, NEW tool \in IngestTools \cup {Null},
           NEW S \in SUBSET Photos, Run(p, tool, S)
    PROVE  \E r \in Process : Turns(p, tool, r)
<1>1. CASE S = {}
  <2>1. Idle \in Process /\ Idle.todo = {}
    BY DEF Idle, Process, Calls
  <2> QED
    BY <1>1, <2>1 DEF Run, Ends, Turns
<1>2. CASE S # {}
  <2>1. PICK f \in S : proc' = [proc EXCEPT ![p] = [pc |-> First[Role[p]], photo |-> f,
                                  todo |-> S \ {f}, found |-> FALSE, tool |-> tool]]
    BY <1>2 DEF Run
  <2> DEFINE r == [pc |-> First[Role[p]], photo |-> f, todo |-> S \ {f}, found |-> FALSE, tool |-> tool]
  <2>2. /\ r \in Process /\ r.pc = First[Role[p]] /\ r.photo = f /\ r.todo = S \ {f}
        /\ r.found = FALSE /\ r.tool = tool
    BY FirstCall DEF Process
  <2> HIDE DEF r
  <2> QED
    BY <2>1, <2>2 DEF r, Turns
<1> QED
  BY <1>1, <1>2

\* Process p is done with its photo, whose objects are now t and whose row may be w.
LEMMA ProceedStep ==
    ASSUME Inv, NEW p \in Processes, proc[p].pc # "idle", Proceed(p, proc[p].todo),
           NEW t \in SUBSET Objects, store' = [store EXCEPT ![Photo(p)] = t],
           "gray" \in t => "summary" \in t,
           Grows(store[Photo(p)], t, faults, faults'), faults' \subseteq Faults,
           NEW w, UNCHANGED row \/ (w \in Row \cup {Null} /\ row' = [row EXCEPT ![Photo(p)] = w]
                                    /\ (w # Null => Backed(w, t, faults')))
    PROVE  Inv'
<1>1. Tool(p) \in IngestTools \cup {Null} /\ proc[p].todo \in SUBSET Photos
      /\ Photo(p) \in Photos
  BY AtWork DEF Process, Tool
<1>2. PICK r \in Process : Turns(p, Tool(p), r)
  <2> DEFINE tool == Tool(p)
             S == proc[p].todo
  <2>1. tool \in IngestTools \cup {Null} /\ S \in SUBSET Photos /\ Run(p, tool, S)
    BY <1>1 DEF Proceed
  <2> HIDE DEF tool, S
  <2>2. \E r \in Process : Turns(p, tool, r)
    BY <2>1, RunResult
  <2> QED
    BY <2>2 DEF tool
<1>3. r.pc # "idle" => r.photo \in Photos
  BY <1>2 DEF Idle, Turns
<1>4. r.pc # "idle" => Relies(r, Role[p], store'[r.photo], faults')
  <2>1. /\ Role[p] = "ingest" /\ Tool(p) = "dry_run" => "dry_run" \in faults'
        /\ Role[p] = "service" => "service" \in faults'
    BY AtWork DEF Relies, Grows, Tool
  <2> QED
    BY <1>2, <2>1, FirstCall DEF Relies, Idle, Turns
<1> QED
  BY <1>1, <1>2, <1>3, <1>4, ProcessStep DEF Turns

\* Process p goes on with its photo, as r.
LEMMA ContinueStep ==
    ASSUME Inv, NEW p \in Processes, proc[p].pc # "idle", NEW r \in Process,
           proc' = [proc EXCEPT ![p] = r], r.photo = Photo(p), r.todo = proc[p].todo,
           NEW t \in SUBSET Objects, store' = [store EXCEPT ![Photo(p)] = t],
           "gray" \in t => "summary" \in t,
           Grows(store[Photo(p)], t, faults, faults'), faults' \subseteq Faults,
           Relies(r, Role[p], t, faults'),
           NEW w, UNCHANGED row \/ (w \in Row \cup {Null} /\ row' = [row EXCEPT ![Photo(p)] = w]
                                    /\ (w # Null => Backed(w, t, faults')))
    PROVE  Inv'
<1>1. Photo(p) \in Photos /\ proc[p].todo \subseteq Photos \ {Photo(p)}
  BY AtWork
<1>2. store'[r.photo] = t
  BY <1>1 DEF Inv, TypeInv
<1>3. /\ r.pc # "idle" => r.photo \in Photos
      /\ r.todo \subseteq Photos \ {r.photo}
      /\ r.pc # "idle" => Relies(r, Role[p], store'[r.photo], faults')
  BY <1>1, <1>2
<1> DEFINE f == Photo(p)
<1>4. /\ f \in Photos /\ store' = [store EXCEPT ![f] = t]
      /\ Grows(store[f], t, faults, faults')
      /\ UNCHANGED row \/ (w \in Row \cup {Null} /\ row' = [row EXCEPT ![f] = w]
                           /\ (w # Null => Backed(w, t, faults')))
  BY <1>1
<1> HIDE DEF f
<1> QED
  BY <1>3, <1>4, ProcessStep

\* What Goto(p, pc) makes of process p.
LEMMA GotoResult ==
    ASSUME Inv, NEW p \in Processes, proc[p].pc # "idle", NEW c \in Calls, Goto(p, c)
    PROVE  \E r \in Process :
             /\ proc' = [proc EXCEPT ![p] = r] /\ r.pc = c /\ r.photo = Photo(p)
             /\ r.todo = proc[p].todo /\ r.found = proc[p].found /\ r.tool = proc[p].tool
<1> DEFINE r == [proc[p] EXCEPT !.pc = c]
<1>1. proc[p] \in Process
  BY AtWork
<1>2. r \in Process /\ r.pc = c /\ r.photo = Photo(p) /\ r.todo = proc[p].todo
      /\ r.found = proc[p].found /\ r.tool = proc[p].tool
  BY <1>1 DEF Process, Photo
<1>3. proc' = [proc EXCEPT ![p] = r]
  BY DEF Goto
<1> QED
  BY <1>2, <1>3

\* A step to another call about the same photo, with the objects t.
LEMMA GotoStep ==
    ASSUME Inv, NEW p \in Processes, proc[p].pc # "idle", NEW c \in Calls, Goto(p, c),
           NEW t \in SUBSET Objects, store' = [store EXCEPT ![Photo(p)] = t],
           "gray" \in t => "summary" \in t,
           Grows(store[Photo(p)], t, faults, faults'), faults' \subseteq Faults,
           \A r \in Process : /\ Relies(proc[p], Role[p], t, faults')
                              /\ r.pc = c /\ r.photo = Photo(p)
                              /\ r.found = proc[p].found /\ r.tool = proc[p].tool
                              => Relies(r, Role[p], t, faults'),
           UNCHANGED row
    PROVE  Inv'
<1>1. PICK r \in Process :
             /\ proc' = [proc EXCEPT ![p] = r] /\ r.pc = c /\ r.photo = Photo(p)
             /\ r.todo = proc[p].todo /\ r.found = proc[p].found /\ r.tool = proc[p].tool
  BY GotoResult
<1>2. Relies(proc[p], Role[p], t, faults')
  BY AtWork, ReliesStays
<1>3. Relies(r, Role[p], t, faults')
  BY <1>1, <1>2
<1> QED
  BY <1>1, <1>3, ContinueStep
----------------------------------------------------------------------------

\* GotoStep where the bucket stays as it is.
LEMMA GotoQuiet ==
    ASSUME Inv, NEW p \in Processes, proc[p].pc # "idle", NEW c \in Calls, Goto(p, c),
           UNCHANGED <<row, store>>, faults \subseteq faults', faults' \subseteq Faults,
           \A r \in Process : /\ Relies(proc[p], Role[p], store[Photo(p)], faults')
                              /\ r.pc = c /\ r.photo = Photo(p)
                              /\ r.found = proc[p].found /\ r.tool = proc[p].tool
                              => Relies(r, Role[p], store[Photo(p)], faults')
    PROVE  Inv'
<1> DEFINE t == store[Photo(p)]
<1>1. t \in SUBSET Objects /\ store' = [store EXCEPT ![Photo(p)] = t]
  BY AtWork DEF Inv, TypeInv
<1>2. "gray" \in t => "summary" \in t
  BY AtWork
<1>3. Grows(store[Photo(p)], t, faults, faults')
  BY DEF Grows
<1>4. \A r \in Process : /\ Relies(proc[p], Role[p], t, faults')
                         /\ r.pc = c /\ r.photo = Photo(p)
                         /\ r.found = proc[p].found /\ r.tool = proc[p].tool
                         => Relies(r, Role[p], t, faults')
  OBVIOUS
<1> HIDE DEF t
<1> QED
  BY <1>1, <1>2, <1>3, <1>4, GotoStep

\* GotoStep where the object o is put.
LEMMA GotoPut ==
    ASSUME Inv, NEW p \in Processes, proc[p].pc # "idle", NEW c \in Calls, Goto(p, c),
           NEW o \in Objects, Put(p, o),
           o = "gray" => "summary" \in store[Photo(p)],
           UNCHANGED row, faults \subseteq faults', faults' \subseteq Faults,
           \A r \in Process : /\ Relies(proc[p], Role[p], store[Photo(p)] \cup {o}, faults')
                              /\ r.pc = c /\ r.photo = Photo(p)
                              /\ r.found = proc[p].found /\ r.tool = proc[p].tool
                              => Relies(r, Role[p], store[Photo(p)] \cup {o}, faults')
    PROVE  Inv'
<1> DEFINE t == store[Photo(p)] \cup {o}
<1>1. t \in SUBSET Objects /\ store' = [store EXCEPT ![Photo(p)] = t]
  BY AtWork DEF Inv, TypeInv, Put
<1>2. "gray" \in t => "summary" \in t
  BY AtWork
<1>3. Grows(store[Photo(p)], t, faults, faults')
  BY DEF Grows
<1>4. \A r \in Process : /\ Relies(proc[p], Role[p], t, faults')
                         /\ r.pc = c /\ r.photo = Photo(p)
                         /\ r.found = proc[p].found /\ r.tool = proc[p].tool
                         => Relies(r, Role[p], t, faults')
  OBVIOUS
<1> HIDE DEF t
<1> QED
  BY <1>1, <1>2, <1>3, <1>4, GotoStep

\* The tool goes on to the next photo, after the row was given the value w, or not.
LEMMA ProceedQuiet ==
    ASSUME Inv, NEW p \in Processes, proc[p].pc # "idle", Proceed(p, proc[p].todo),
           UNCHANGED store, faults \subseteq faults', faults' \subseteq Faults,
           NEW w, UNCHANGED row \/ (w \in Row \cup {Null} /\ row' = [row EXCEPT ![Photo(p)] = w]
                                    /\ (w # Null => Backed(w, store[Photo(p)], faults')))
    PROVE  Inv'
<1> DEFINE t == store[Photo(p)]
<1>1. t \in SUBSET Objects /\ store' = [store EXCEPT ![Photo(p)] = t]
  BY AtWork DEF Inv, TypeInv
<1>2. "gray" \in t => "summary" \in t
  BY AtWork
<1>3. Grows(store[Photo(p)], t, faults, faults')
  BY DEF Grows
<1>4. UNCHANGED row \/ (w \in Row \cup {Null} /\ row' = [row EXCEPT ![Photo(p)] = w]
                        /\ (w # Null => Backed(w, t, faults')))
  OBVIOUS
<1> HIDE DEF t
<1> QED
  BY <1>1, <1>2, <1>3, <1>4, ProceedStep

\* What an UPDATE of the row of process p's photo does, if the new row is backed.
LEMMA UpdateResult ==
    ASSUME Inv, NEW p \in Processes, proc[p].pc # "idle", NEW w, Update(p, w),
           row[Photo(p)] # Null => w \in Row /\ Backed(w, store[Photo(p)], faults)
    PROVE  /\ faults \subseteq faults' /\ faults' \subseteq Faults
           /\ UNCHANGED row \/ (w \in Row \cup {Null} /\ row' = [row EXCEPT ![Photo(p)] = w]
                                /\ (w # Null => Backed(w, store[Photo(p)], faults')))
<1>1. CASE Fault("pg") /\ UNCHANGED row
  BY <1>1, FaultGrows
<1>2. CASE UNCHANGED faults /\ UNCHANGED row
  BY <1>2, FaultGrows
<1>3. CASE UNCHANGED faults /\ row[Photo(p)] # Null /\ row' = [row EXCEPT ![Photo(p)] = w]
  BY <1>3, FaultGrows
<1> QED
  BY <1>1, <1>2, <1>3 DEF Update

\* What exists says of objects.
LEMMA Answers ==
    ASSUME Inv, NEW p \in Processes, NEW objects, NEW seen, Answer(p, objects, seen)
    PROVE  /\ seen \subseteq objects /\ seen \subseteq store[Photo(p)]
           /\ faults \subseteq faults' /\ faults' \subseteq Faults
           /\ UNCHANGED faults \/ Fault("misread")
           /\ seen = objects \cap store[Photo(p)] \/ "misread" \in faults'
BY FaultGrows DEF Answer, Fault

\* A tool that is not at work starts on the photos S.
LEMMA StartStep ==
    ASSUME Inv, NEW p \in Processes, NEW tool \in IngestTools \cup {Null},
           NEW S \in SUBSET Photos, S # {}, Run(p, tool, S),
           Role[p] = "ingest" /\ tool = "dry_run" => "dry_run" \in faults',
           Role[p] = "service" => "service" \in faults',
           faults \subseteq faults', faults' \subseteq Faults, UNCHANGED <<row, store>>
    PROVE  Inv'
<1>1. PICK r \in Process : Turns(p, tool, r)
  BY RunResult
<1>2. r.pc # "idle" => r.photo \in Photos
  BY <1>1 DEF Idle, Turns
<1>3. r.pc # "idle" => Relies(r, Role[p], store[r.photo], faults')
  BY <1>1, FirstCall DEF Relies, Idle, Turns
<1> QED
  BY <1>1, <1>2, <1>3, QuietStep DEF Turns

\* The same of a tool that starts on what it fetched from the table.
LEMMA FetchStep ==
    ASSUME Inv, NEW p \in Processes, Role[p] \in {"transform", "analyze"},
           NEW S \in SUBSET Photos, S # {}, proc[p].pc = "idle", Proceed(p, S),
           UNCHANGED <<row, store, faults>>
    PROVE  Inv'
<1> DEFINE tool == Tool(p)
<1>1. tool \in IngestTools \cup {Null} /\ Run(p, tool, S)
  BY DEF Proceed, Tool, Inv, TypeInv, Process
<1>2. faults \subseteq faults' /\ faults' \subseteq Faults
  BY FaultGrows
<1> HIDE DEF tool
<1> QED
  BY <1>1, <1>2, StartStep

----------------------------------------------------------------------------
(* The tools *)

\* Process p goes on to call c and notes what exists said.
LEMMA NoteResult ==
    ASSUME Inv, NEW p \in Processes, proc[p].pc # "idle", NEW c \in Calls, NEW b \in BOOLEAN,
           Note(p, c, b)
    PROVE  \E r \in Process :
             /\ proc' = [proc EXCEPT ![p] = r] /\ r.pc = c /\ r.photo = Photo(p)
             /\ r.todo = proc[p].todo /\ r.found = b /\ r.tool = proc[p].tool
<1>1. proc[p] \in Process /\ proc \in [Processes -> Process]
  BY AtWork DEF Inv, TypeInv
<1> DEFINE r == [proc[p] EXCEPT !.pc = c, !.found = b]
<1>2. /\ r \in Process /\ r.pc = c /\ r.photo = Photo(p) /\ r.todo = proc[p].todo
      /\ r.found = b /\ r.tool = proc[p].tool
  BY <1>1 DEF Process, Photo
<1>3. proc' = [proc EXCEPT ![p] = r]
  BY DEF Note
<1> HIDE DEF r
<1> QED
  BY <1>2, <1>3

LEMMA NewRow ==
    ASSUME NEW b \in BOOLEAN,
           NEW w, w = [source |-> b, rgb |-> FALSE, transform |-> "pending", analysis |-> "pending"]
    PROVE  /\ w \in Row /\ w.rgb = FALSE /\ w.transform = "pending" /\ w.analysis = "pending"
           /\ w.source => b
BY DEF Row, Status

LEMMA StepIngest ==
    ASSUME Inv, NEW p \in Processes, Ingest(p)
    PROVE  Inv'
<1>1. CASE StartIngest(p)
  <2>1. PICK tool \in IngestTools, S \in (SUBSET Photos) \ {{}} :
           /\ Run(p, tool, S)
           /\ IF tool = "dry_run" THEN Fault("dry_run") ELSE UNCHANGED faults
    BY <1>1 DEF StartIngest
  <2>2. faults \subseteq faults' /\ faults' \subseteq Faults
        /\ (tool = "dry_run" => "dry_run" \in faults')
    BY <2>1, FaultGrows DEF Fault
  <2>3. UNCHANGED <<row, store>>
    BY <1>1 DEF StartIngest
  <2>4. tool \in IngestTools \cup {Null} /\ S \in SUBSET Photos /\ S # {}
    OBVIOUS
  <2>5. /\ Role[p] = "ingest" /\ tool = "dry_run" => "dry_run" \in faults'
        /\ Role[p] = "service" => "service" \in faults'
    BY <1>1, <2>2 DEF StartIngest, Starts
  <2> QED
    BY <2>1, <2>2, <2>3, <2>4, <2>5, StartStep
<1>2. CASE LookUp(p)
  <2> DEFINE t == store[Photo(p)]
  <2>1. proc[p].pc = "look" /\ UNCHANGED <<row, store>>
    BY <1>2 DEF LookUp, At
  <2>2. PICK seen \in SUBSET {"json", "img"} :
           /\ Answer(p, {"json", "img"}, seen)
           /\ \/ "json" \in seen /\ Goto(p, AfterJson(p, "img" \in seen))
              \/ "json" \notin seen /\ Note(p, "upload_json", "img" \in seen)
    BY <1>2 DEF LookUp
  <2>3. faults \subseteq faults' /\ faults' \subseteq Faults /\ seen \subseteq t
    BY <2>2, Answers
  <2>4. Relies(proc[p], Role[p], t, faults) /\ Role[p] = "ingest"
    BY <2>1, AtWork DEF Relies, Plays
  <2>5. ASSUME NEW c \in {"fetch", "insert"}, Goto(p, c),
               c = "insert" /\ Photo(p) \in WithImg => "img" \in seen
        PROVE  Inv'
    <3>1. c \in Calls
      BY DEF Calls
    <3>2. \A r \in Process : /\ Relies(proc[p], Role[p], t, faults')
                             /\ r.pc = c /\ r.photo = Photo(p)
                             /\ r.found = proc[p].found /\ r.tool = proc[p].tool
                             => Relies(r, Role[p], t, faults')
      BY <2>1, <2>3, <2>5 DEF Relies, Plays
    <3> QED
      BY <2>1, <2>3, <2>5, <3>1, <3>2, GotoQuiet
  <2>6. CASE "json" \in seen /\ Goto(p, AfterJson(p, "img" \in seen))
    <3>1. AfterJson(p, "img" \in seen) = "insert" /\ Photo(p) \in WithImg => "img" \in seen
      BY DEF AfterJson
    <3>2. AfterJson(p, "img" \in seen) \in {"fetch", "insert"}
      BY DEF AfterJson
    <3> QED
      BY <2>5, <2>6, <3>1, <3>2
  <2>7. CASE Note(p, "upload_json", "img" \in seen)
    <3> DEFINE b == "img" \in seen
    <3>1. "upload_json" \in Calls /\ b \in BOOLEAN /\ Note(p, "upload_json", b)
      BY <2>7 DEF Calls
    <3>2. b => "img" \in t
      BY <2>3
    <3> HIDE DEF b
    <3>3. PICK r \in Process :
             /\ proc' = [proc EXCEPT ![p] = r] /\ r.pc = "upload_json" /\ r.photo = Photo(p)
             /\ r.todo = proc[p].todo /\ r.found = b /\ r.tool = proc[p].tool
      BY <2>1, <3>1, NoteResult
    <3>4. t \in SUBSET Objects /\ store' = [store EXCEPT ![Photo(p)] = t]
          /\ ("gray" \in t => "summary" \in t)
      BY <2>1, AtWork DEF Inv, TypeInv
    <3>5. Relies(r, Role[p], t, faults')
      BY <2>3, <2>4, <3>2, <3>3 DEF Relies, Plays
    <3>6. Grows(store[Photo(p)], t, faults, faults')
      BY <2>3 DEF Grows
    <3> HIDE DEF t
    <3> QED
      BY <2>1, <2>3, <3>3, <3>4, <3>5, <3>6, ContinueStep
  <2> QED
    BY <2>2, <2>6, <2>7
<1>3. CASE UploadJson(p)
  <2> DEFINE c == AfterJson(p, proc[p].found)
  <2>1. /\ proc[p].pc = "upload_json" /\ Put(p, "json") /\ Goto(p, c) /\ UNCHANGED <<row, faults>>
    BY <1>3 DEF UploadJson, At
  <2>2. faults \subseteq faults' /\ faults' \subseteq Faults
    BY <2>1, FaultGrows
  <2>3. c \in Calls /\ "json" \in Objects
    BY DEF AfterJson, Calls, Objects
  <2>4. \A r \in Process : /\ Relies(proc[p], Role[p], store[Photo(p)] \cup {"json"}, faults')
                           /\ r.pc = c /\ r.photo = Photo(p)
                           /\ r.found = proc[p].found /\ r.tool = proc[p].tool
                           => Relies(r, Role[p], store[Photo(p)] \cup {"json"}, faults')
    <3>1. c \in {"fetch", "insert"} /\ (c = "insert" /\ Photo(p) \in WithImg => proc[p].found)
      BY DEF AfterJson
    <3> HIDE DEF c
    <3> QED
      BY <2>1, <3>1 DEF Relies, Plays
  <2> HIDE DEF c
  <2> QED
    BY <2>1, <2>2, <2>3, <2>4, GotoPut
<1>4. CASE FetchImg(p)
  <2>1. proc[p].pc = "fetch" /\ UNCHANGED row
    BY <1>4 DEF FetchImg, At
  <2>2. CASE Put(p, "img") /\ Goto(p, "insert") /\ UNCHANGED faults
    <3>1. "insert" \in Calls /\ "img" \in Objects
      BY DEF Calls, Objects
    <3>2. \A r \in Process : /\ Relies(proc[p], Role[p], store[Photo(p)] \cup {"img"}, faults')
                             /\ r.pc = "insert" /\ r.photo = Photo(p)
                             /\ r.found = proc[p].found /\ r.tool = proc[p].tool
                             => Relies(r, Role[p], store[Photo(p)] \cup {"img"}, faults')
      BY <2>1 DEF Relies, Plays
    <3>3. faults \subseteq faults' /\ faults' \subseteq Faults
      BY <2>2, FaultGrows
    <3> QED
      BY <2>1, <2>2, <3>1, <3>2, <3>3, GotoPut
  <2>3. CASE Fault("download") /\ Proceed(p, proc[p].todo) /\ UNCHANGED store
    <3>1. faults \subseteq faults' /\ faults' \subseteq Faults
      BY <2>3, FaultGrows
    <3> QED
      BY <2>1, <2>3, <3>1, ProceedQuiet
  <2> QED
    BY <1>4, <2>2, <2>3 DEF FetchImg
<1>5. CASE UploadImgFails(p)
  <2>1. /\ proc[p].pc = "fetch" /\ Fault("download") /\ Proceed(p, proc[p].todo)
        /\ UNCHANGED <<row, store>>
    BY <1>5 DEF UploadImgFails, At
  <2>2. faults \subseteq faults' /\ faults' \subseteq Faults
    BY <2>1, FaultGrows
  <2> QED
    BY <2>1, <2>2, ProceedQuiet
<1>6. CASE DryRun(p)
  <2>1. Tool(p) = "dry_run" /\ UNCHANGED <<row, store, faults>>
    BY <1>6 DEF DryRun
  <2>2. faults \subseteq faults' /\ faults' \subseteq Faults
    BY <2>1, FaultGrows
  <2>3. PICK c \in {"fetch", "insert"} : Goto(p, c) /\ proc[p].pc \in {"upload_json", "fetch"}
    BY <1>6 DEF DryRun, AfterJson, At
  <2>4. c \in Calls
    BY DEF Calls
  <2>5. \A r \in Process : /\ Relies(proc[p], Role[p], store[Photo(p)], faults')
                           /\ r.pc = c /\ r.photo = Photo(p)
                           /\ r.found = proc[p].found /\ r.tool = proc[p].tool
                           => Relies(r, Role[p], store[Photo(p)], faults')
    BY <2>1, <2>3 DEF Relies, Plays, Excused, Tool
  <2> QED
    BY <2>1, <2>2, <2>3, <2>4, <2>5, GotoQuiet
<1>7. CASE EnsurePhotoRow(p)
  <2>1. /\ proc[p].pc = "insert" /\ Proceed(p, proc[p].todo)
        /\ UNCHANGED store
    BY <1>7 DEF EnsurePhotoRow, At
  <2> DEFINE w == [source |-> Photo(p) \in WithImg, rgb |-> FALSE,
                   transform |-> "pending", analysis |-> "pending"]
  <2>2. /\ w \in Row /\ w.rgb = FALSE /\ w.transform = "pending" /\ w.analysis = "pending"
        /\ w.source => Photo(p) \in WithImg
    <3> DEFINE b == Photo(p) \in WithImg
    <3>1. b \in BOOLEAN
      OBVIOUS
    <3> HIDE DEF b
    <3>2. w = [source |-> b, rgb |-> FALSE, transform |-> "pending", analysis |-> "pending"]
      BY ZenonT(20) DEF b
    <3> HIDE DEF w
    <3>3. /\ w \in Row /\ w.rgb = FALSE /\ w.transform = "pending" /\ w.analysis = "pending"
          /\ w.source => b
      BY <3>1, <3>2, NewRow
    <3> QED
      BY <3>3 DEF b
  <2>3. faults \subseteq faults' /\ faults' \subseteq Faults
    BY <1>7, FaultGrows DEF EnsurePhotoRow
  <2>4. Relies(proc[p], Role[p], store[Photo(p)], faults)
    BY <2>1, AtWork
  <2>5. Backed(w, store[Photo(p)], faults')
    <3> HIDE DEF w
    <3> QED
      BY <2>1, <2>2, <2>3, <2>4 DEF Relies, Backed, Excused, Photo
  <2>6. UNCHANGED row \/ row' = [row EXCEPT ![Photo(p)] = w]
    BY <1>7 DEF EnsurePhotoRow
  <2> HIDE DEF w
  <2> QED
    BY <2>1, <2>2, <2>3, <2>5, <2>6, ProceedQuiet
<1> QED
  BY <1>1, <1>2, <1>3, <1>4, <1>5, <1>6, <1>7 DEF Ingest
----------------------------------------------------------------------------

\* The tool or the worker is done with the transformation of its photo, after the
\* row was given the value w, or not.
LEMMA TransformedStep ==
    ASSUME Inv, NEW p \in Processes, proc[p].pc \in {"mark_done", "mark_failed"}, Transformed(p),
           UNCHANGED store, faults \subseteq faults', faults' \subseteq Faults,
           NEW w, UNCHANGED row \/ (w \in Row \cup {Null} /\ row' = [row EXCEPT ![Photo(p)] = w]
                                    /\ (w # Null => Backed(w, store[Photo(p)], faults')))
    PROVE  Inv'
<1>0. proc[p].pc # "idle"
  OBVIOUS
<1>1. CASE Role[p] # "service"
  BY <1>0, <1>1, ProceedQuiet DEF Transformed
<1>2. CASE Role[p] = "service"
  <2> DEFINE t == store[Photo(p)]
  <2>1. Goto(p, "delete_img") /\ "delete_img" \in Calls
    BY <1>2 DEF Transformed, Calls
  <2>2. PICK r \in Process :
             /\ proc' = [proc EXCEPT ![p] = r] /\ r.pc = "delete_img" /\ r.photo = Photo(p)
             /\ r.todo = proc[p].todo /\ r.found = proc[p].found /\ r.tool = proc[p].tool
    BY <1>0, <2>1, GotoResult
  <2>3. t \in SUBSET Objects /\ store' = [store EXCEPT ![Photo(p)] = t]
        /\ ("gray" \in t => "summary" \in t)
    BY <1>0, AtWork DEF Inv, TypeInv
  <2>4. Relies(proc[p], Role[p], t, faults)
    BY <1>0, AtWork
  <2>5. Relies(r, Role[p], t, faults')
    BY <1>2, <2>2, <2>4 DEF Relies, Plays
  <2>6. Grows(store[Photo(p)], t, faults, faults')
    BY DEF Grows
  <2>7. UNCHANGED row \/ (w \in Row \cup {Null} /\ row' = [row EXCEPT ![Photo(p)] = w]
                          /\ (w # Null => Backed(w, t, faults')))
    OBVIOUS
  <2> HIDE DEF t
  <2> QED
    BY <1>0, <2>2, <2>3, <2>5, <2>6, <2>7, ContinueStep
<1> QED
  BY <1>1, <1>2

LEMMA StepTransform ==
    ASSUME Inv, NEW p \in Processes, Transform(p)
    PROVE  Inv'
<1>1. CASE FetchPending(p)
  <2>1. PICK S \in Batches(Untransformed) : Proceed(p, S)
    BY <1>1 DEF FetchPending
  <2>2. S \in SUBSET Photos /\ S # {}
    BY DEF Batches, Untransformed
  <2>3. Role[p] = "transform" /\ proc[p].pc = "idle" /\ UNCHANGED <<row, store, faults>>
    BY <1>1 DEF FetchPending, Starts, At
  <2> QED
    BY <2>1, <2>2, <2>3, FetchStep
<1>2. CASE CheckGray(p)
  <2> DEFINE t == store[Photo(p)]
  <2>1. proc[p].pc = "check_gray" /\ UNCHANGED <<row, store>>
    BY <1>2 DEF CheckGray, At
  <2>2. PICK seen \in SUBSET {"gray", "rgb"} :
           /\ Answer(p, {"gray", "rgb"}, seen)
           /\ \/ "gray" \in seen /\ Note(p, "mark_done", "rgb" \in seen)
              \/ "gray" \notin seen /\ Goto(p, "download")
    BY <1>2 DEF CheckGray
  <2>3. faults \subseteq faults' /\ faults' \subseteq Faults /\ seen \subseteq t
    BY <2>2, Answers
  <2>4. CASE Goto(p, "download")
    <3>1. "download" \in Calls
      BY DEF Calls
    <3>2. \A r \in Process : /\ Relies(proc[p], Role[p], t, faults')
                             /\ r.pc = "download" /\ r.photo = Photo(p)
                             /\ r.found = proc[p].found /\ r.tool = proc[p].tool
                             => Relies(r, Role[p], t, faults')
      BY <2>1 DEF Relies, Plays
    <3> QED
      BY <2>1, <2>3, <2>4, <3>1, <3>2, GotoQuiet
  <2>5. CASE "gray" \in seen /\ Note(p, "mark_done", "rgb" \in seen)
    <3> DEFINE b == "rgb" \in seen
    <3>1. "mark_done" \in Calls /\ b \in BOOLEAN /\ Note(p, "mark_done", b)
      BY <2>5 DEF Calls
    <3>2. (b => "rgb" \in t) /\ "gray" \in t
      BY <2>3, <2>5
    <3> HIDE DEF b
    <3>3. PICK r \in Process :
             /\ proc' = [proc EXCEPT ![p] = r] /\ r.pc = "mark_done" /\ r.photo = Photo(p)
             /\ r.todo = proc[p].todo /\ r.found = b /\ r.tool = proc[p].tool
      BY <2>1, <3>1, NoteResult
    <3>4. t \in SUBSET Objects /\ store' = [store EXCEPT ![Photo(p)] = t]
          /\ ("gray" \in t => "summary" \in t)
      BY <2>1, AtWork DEF Inv, TypeInv
    <3>5. Relies(proc[p], Role[p], t, faults)
      BY <2>1, AtWork
    <3>6. Relies(r, Role[p], t, faults')
      BY <2>1, <2>3, <3>2, <3>3, <3>4, <3>5 DEF Relies, Plays
    <3>7. Grows(store[Photo(p)], t, faults, faults')
      BY <2>3 DEF Grows
    <3> HIDE DEF t
    <3> QED
      BY <2>1, <2>3, <3>3, <3>4, <3>6, <3>7, ContinueStep
  <2> QED
    BY <2>2, <2>4, <2>5
<1>3. CASE Download(p)
  <2>1. proc[p].pc = "download" /\ UNCHANGED <<row, store>>
    BY <1>3 DEF Download, At
  <2>2. faults \subseteq faults' /\ faults' \subseteq Faults
    BY <1>3, FaultGrows DEF Download
  <2>3. PICK c \in {"upload_summary", "mark_failed"} : Goto(p, c)
    BY <1>3 DEF Download
  <2>4. c \in Calls
    BY DEF Calls
  <2>5. \A r \in Process : /\ Relies(proc[p], Role[p], store[Photo(p)], faults')
                           /\ r.pc = c /\ r.photo = Photo(p)
                           /\ r.found = proc[p].found /\ r.tool = proc[p].tool
                           => Relies(r, Role[p], store[Photo(p)], faults')
    BY <2>1 DEF Relies, Plays
  <2> QED
    BY <2>1, <2>2, <2>3, <2>4, <2>5, GotoQuiet
<1>4. CASE UploadSummary(p)
  <2>1. /\ proc[p].pc = "upload_summary" /\ UNCHANGED <<row, faults>>
        /\ Put(p, "summary") /\ Goto(p, "upload_gray")
    BY <1>4 DEF UploadSummary, At
  <2>2. faults \subseteq faults' /\ faults' \subseteq Faults
    BY <2>1, FaultGrows
  <2>3. "upload_gray" \in Calls /\ "summary" \in Objects
    BY DEF Calls, Objects
  <2>4. \A r \in Process : /\ Relies(proc[p], Role[p], store[Photo(p)] \cup {"summary"}, faults')
                           /\ r.pc = "upload_gray" /\ r.photo = Photo(p)
                           /\ r.found = proc[p].found /\ r.tool = proc[p].tool
                           => Relies(r, Role[p], store[Photo(p)] \cup {"summary"}, faults')
    BY <2>1 DEF Relies, Plays
  <2> QED
    BY <2>1, <2>2, <2>3, <2>4, GotoPut
<1>5. CASE UploadGray(p)
  <2>1. /\ proc[p].pc = "upload_gray" /\ UNCHANGED <<row, faults>>
        /\ Put(p, "gray")
    BY <1>5 DEF UploadGray, At
  <2>2. PICK c \in {"upload_rgb", "mark_done"} : Goto(p, c)
    BY <1>5 DEF UploadGray
  <2>3. c \in Calls /\ "gray" \in Objects
    BY DEF Calls, Objects
  <2>4. faults \subseteq faults' /\ faults' \subseteq Faults
    BY <2>1, FaultGrows
  <2>5. "summary" \in store[Photo(p)]
    BY <2>1, AtWork DEF Relies
  <2>6. \A r \in Process : /\ Relies(proc[p], Role[p], store[Photo(p)] \cup {"gray"}, faults')
                           /\ r.pc = c /\ r.photo = Photo(p)
                           /\ r.found = proc[p].found /\ r.tool = proc[p].tool
                           => Relies(r, Role[p], store[Photo(p)] \cup {"gray"}, faults')
    BY <2>1 DEF Relies, Plays
  <2> QED
    BY <2>1, <2>2, <2>3, <2>4, <2>5, <2>6, GotoPut
<1>6. CASE UploadRgb(p)
  <2> DEFINE t == store[Photo(p)] \cup {"rgb"}
  <2>1. /\ proc[p].pc = "upload_rgb" /\ UNCHANGED <<row, faults>>
        /\ Put(p, "rgb") /\ Note(p, "mark_done", TRUE)
    BY <1>6 DEF UploadRgb, At
  <2>2. "mark_done" \in Calls
    BY DEF Calls
  <2>3. PICK r \in Process :
             /\ proc' = [proc EXCEPT ![p] = r] /\ r.pc = "mark_done" /\ r.photo = Photo(p)
             /\ r.todo = proc[p].todo /\ r.found = TRUE /\ r.tool = proc[p].tool
    BY <2>1, <2>2, NoteResult
  <2>4. t \in SUBSET Objects /\ store' = [store EXCEPT ![Photo(p)] = t]
        /\ ("gray" \in t => "summary" \in t)
    BY <2>1, AtWork DEF Inv, TypeInv, Put, Objects
  <2>5. Relies(r, Role[p], t, faults')
    <3>1. Relies(proc[p], Role[p], store[Photo(p)], faults)
      BY <2>1, AtWork
    <3> QED
      BY <2>1, <2>3, <3>1 DEF Relies, Plays
  <2>6. Grows(store[Photo(p)], t, faults, faults') /\ faults' \subseteq Faults
    BY <2>1 DEF Grows, Inv, TypeInv
  <2> HIDE DEF t
  <2> QED
    BY <2>1, <2>3, <2>4, <2>5, <2>6, ContinueStep
<1>7. CASE MarkDone(p)
  <2> DEFINE w == [row[Photo(p)] EXCEPT !.transform = "done", !.rgb = proc[p].found]
  <2>1. /\ proc[p].pc = "mark_done" /\ UNCHANGED store
        /\ Update(p, w) /\ Transformed(p)
    BY <1>7 DEF MarkDone, At
  <2>2. row[Photo(p)] # Null => w \in Row /\ Backed(w, store[Photo(p)], faults)
    <3> SUFFICES ASSUME row[Photo(p)] # Null
                 PROVE  w \in Row /\ Backed(w, store[Photo(p)], faults)
      OBVIOUS
    <3>1. row[Photo(p)] \in Row /\ Backed(row[Photo(p)], store[Photo(p)], faults)
          /\ proc[p].found \in BOOLEAN /\ Relies(proc[p], Role[p], store[Photo(p)], faults)
      BY <2>1, AtWork DEF Inv, TypeInv, RowsInv, Process
    <3>2. /\ w \in Row /\ w.source = row[Photo(p)].source /\ w.rgb = proc[p].found
          /\ w.transform = "done" /\ w.analysis = row[Photo(p)].analysis
      BY <3>1 DEF Row, Status
    <3> HIDE DEF w
    <3> QED
      BY <2>1, <3>1, <3>2 DEF Backed, Relies
  <2> HIDE DEF w
  <2> QED
    BY <2>1, <2>2, UpdateResult, TransformedStep
<1>8. CASE MarkFailed(p)
  <2> DEFINE w == [row[Photo(p)] EXCEPT !.transform = "failed"]
  <2>1. /\ proc[p].pc = "mark_failed" /\ UNCHANGED store
        /\ Update(p, w) /\ Transformed(p)
    BY <1>8 DEF MarkFailed, At
  <2>2. row[Photo(p)] # Null => w \in Row /\ Backed(w, store[Photo(p)], faults)
    <3> SUFFICES ASSUME row[Photo(p)] # Null
                 PROVE  w \in Row /\ Backed(w, store[Photo(p)], faults)
      OBVIOUS
    <3>1. row[Photo(p)] \in Row /\ Backed(row[Photo(p)], store[Photo(p)], faults)
      BY <2>1, AtWork DEF Inv, TypeInv, RowsInv
    <3>2. /\ w \in Row /\ w.source = row[Photo(p)].source /\ w.rgb = row[Photo(p)].rgb
          /\ w.transform = "failed" /\ w.analysis = row[Photo(p)].analysis
      BY <3>1 DEF Row, Status
    <3> HIDE DEF w
    <3> QED
      BY <3>1, <3>2 DEF Backed
  <2> HIDE DEF w
  <2> QED
    BY <2>1, <2>2, UpdateResult, TransformedStep
<1> QED
  BY <1>1, <1>2, <1>3, <1>4, <1>5, <1>6, <1>7, <1>8 DEF Transform
----------------------------------------------------------------------------

\* The row of a photo whose analysis gets the status st is backed, for "done" if
\* the process relies on the result.
LEMMA AnalysisRow ==
    ASSUME Inv, NEW p \in Processes, proc[p].pc # "idle",
           NEW st \in Status, st = "done" => proc[p].pc = "mark_analyzed",
           row[Photo(p)] # Null
    PROVE  /\ [row[Photo(p)] EXCEPT !.analysis = st] \in Row
           /\ Backed([row[Photo(p)] EXCEPT !.analysis = st], store[Photo(p)], faults)
<1> DEFINE w == [row[Photo(p)] EXCEPT !.analysis = st]
<1>1. row[Photo(p)] \in Row /\ Backed(row[Photo(p)], store[Photo(p)], faults)
      /\ Relies(proc[p], Role[p], store[Photo(p)], faults)
  BY AtWork DEF Inv, TypeInv, RowsInv
<1>2. /\ w \in Row /\ w.source = row[Photo(p)].source /\ w.rgb = row[Photo(p)].rgb
      /\ w.transform = row[Photo(p)].transform /\ w.analysis = st
  BY <1>1 DEF Row
<1> HIDE DEF w
<1>3. Backed(w, store[Photo(p)], faults)
  BY <1>1, <1>2 DEF Backed, Relies
<1> QED
  BY <1>2, <1>3 DEF w

LEMMA StepAnalyze ==
    ASSUME Inv, NEW p \in Processes, Analyze(p)
    PROVE  Inv'
<1>1. CASE FetchPendingAnalysis(p)
  <2>1. PICK S \in Batches(Unanalyzed) : Proceed(p, S)
    BY <1>1 DEF FetchPendingAnalysis
  <2>2. S \in SUBSET Photos /\ S # {}
    BY DEF Batches, Unanalyzed
  <2>3. Role[p] = "analyze" /\ proc[p].pc = "idle" /\ UNCHANGED <<row, store, faults>>
    BY <1>1 DEF FetchPendingAnalysis, Starts, At
  <2> QED
    BY <2>1, <2>2, <2>3, FetchStep
<1>2. CASE CheckResult(p)
  <2>1. proc[p].pc = "check_result" /\ UNCHANGED <<row, store>>
    BY <1>2 DEF CheckResult, At
  <2>2. PICK seen \in SUBSET {"result"} :
           /\ Answer(p, {"result"}, seen)
           /\ Goto(p, IF seen = {} THEN "mark_running" ELSE "mark_analyzed")
    BY <1>2 DEF CheckResult
  <2>3. faults \subseteq faults' /\ faults' \subseteq Faults /\ seen \subseteq store[Photo(p)]
    BY <2>2, Answers
  <2>4. PICK c \in {"mark_analyzed", "mark_running"} :
           Goto(p, c) /\ (c = "mark_analyzed" => "result" \in store[Photo(p)])
    BY <2>2, <2>3
  <2>5. c \in Calls
    BY DEF Calls
  <2>6. \A r \in Process : /\ Relies(proc[p], Role[p], store[Photo(p)], faults')
                           /\ r.pc = c /\ r.photo = Photo(p)
                           /\ r.found = proc[p].found /\ r.tool = proc[p].tool
                           => Relies(r, Role[p], store[Photo(p)], faults')
    BY <2>1, <2>4 DEF Relies, Plays
  <2> QED
    BY <2>1, <2>3, <2>4, <2>5, <2>6, GotoQuiet
<1>3. CASE MarkAnalysisRunning(p)
  <2> DEFINE w == [row[Photo(p)] EXCEPT !.analysis = "running"]
             t == store[Photo(p)]
  <2>1. /\ proc[p].pc = "mark_running" /\ UNCHANGED store
        /\ Update(p, w) /\ Goto(p, "analyze")
    BY <1>3 DEF MarkAnalysisRunning, At
  <2>2. "analyze" \in Calls /\ "running" \in Status
    BY DEF Calls, Status
  <2>3. row[Photo(p)] # Null => w \in Row /\ Backed(w, t, faults)
    BY <2>1, <2>2, AnalysisRow
  <2> HIDE DEF w
  <2>4. /\ faults \subseteq faults' /\ faults' \subseteq Faults
        /\ UNCHANGED row \/ (w \in Row \cup {Null} /\ row' = [row EXCEPT ![Photo(p)] = w]
                             /\ (w # Null => Backed(w, t, faults')))
    BY <2>1, <2>3, UpdateResult
  <2>5. PICK r \in Process :
             /\ proc' = [proc EXCEPT ![p] = r] /\ r.pc = "analyze" /\ r.photo = Photo(p)
             /\ r.todo = proc[p].todo /\ r.found = proc[p].found /\ r.tool = proc[p].tool
    BY <2>1, <2>2, GotoResult
  <2>6. t \in SUBSET Objects /\ store' = [store EXCEPT ![Photo(p)] = t]
        /\ ("gray" \in t => "summary" \in t)
    BY <2>1, AtWork DEF Inv, TypeInv
  <2>7. Relies(r, Role[p], t, faults')
    <3>1. Relies(proc[p], Role[p], t, faults)
      BY <2>1, AtWork
    <3> QED
      BY <2>1, <2>4, <2>5, <3>1 DEF Relies, Plays
  <2>8. Grows(store[Photo(p)], t, faults, faults')
    BY <2>4 DEF Grows
  <2> HIDE DEF t
  <2> QED
    BY <2>1, <2>4, <2>5, <2>6, <2>7, <2>8, ContinueStep
<1>4. CASE AnalyzePhoto(p)
  <2>1. proc[p].pc = "analyze" /\ UNCHANGED row
    BY <1>4 DEF AnalyzePhoto, At
  <2>2. /\ faults \subseteq faults' /\ faults' \subseteq Faults
        /\ \/ (PutResult(p) \/ UNCHANGED store) /\ Goto(p, "mark_unanalyzed")
           \/ PutResult(p) /\ Goto(p, "mark_analyzed")
    BY <1>4, Answers, FaultGrows DEF AnalyzePhoto
  <2>3. {"mark_analyzed", "mark_unanalyzed"} \subseteq Calls /\ "result" \in Objects
    BY DEF Calls, Objects
  <2>4. ASSUME NEW c \in {"mark_analyzed", "mark_unanalyzed"}, Put(p, "result"), Goto(p, c)
        PROVE  Inv'
    <3>1. \A r \in Process : /\ Relies(proc[p], Role[p], store[Photo(p)] \cup {"result"}, faults')
                             /\ r.pc = c /\ r.photo = Photo(p)
                             /\ r.found = proc[p].found /\ r.tool = proc[p].tool
                             => Relies(r, Role[p], store[Photo(p)] \cup {"result"}, faults')
      BY <2>1 DEF Relies, Plays
    <3> QED
      BY <2>1, <2>2, <2>3, <2>4, <3>1, GotoPut
  <2>5. ASSUME NEW c \in {"mark_analyzed", "mark_unanalyzed"}, Goto(p, c), UNCHANGED store,
               c = "mark_analyzed" => Role[p] = "service"
        PROVE  Inv'
    <3>1. \A r \in Process : /\ Relies(proc[p], Role[p], store[Photo(p)], faults')
                             /\ r.pc = c /\ r.photo = Photo(p)
                             /\ r.found = proc[p].found /\ r.tool = proc[p].tool
                             => Relies(r, Role[p], store[Photo(p)], faults')
      BY <2>1, <2>5 DEF Relies, Plays
    <3> QED
      BY <2>1, <2>2, <2>3, <2>5, <3>1, GotoQuiet
  <2> QED
    BY <2>2, <2>4, <2>5 DEF PutResult
<1>5. CASE MarkAnalysisDone(p)
  <2> DEFINE w == [row[Photo(p)] EXCEPT !.analysis = "done"]
  <2>1. /\ proc[p].pc = "mark_analyzed" /\ UNCHANGED store
        /\ Update(p, w) /\ Proceed(p, proc[p].todo)
    BY <1>5 DEF MarkAnalysisDone, At
  <2>2. row[Photo(p)] # Null => w \in Row /\ Backed(w, store[Photo(p)], faults)
    BY <2>1, AnalysisRow DEF Status
  <2> HIDE DEF w
  <2> QED
    BY <2>1, <2>2, UpdateResult, ProceedQuiet
<1>6. CASE MarkAnalysisFailed(p)
  <2> DEFINE w == [row[Photo(p)] EXCEPT !.analysis = "failed"]
  <2>1. /\ proc[p].pc = "mark_unanalyzed" /\ UNCHANGED store
        /\ Update(p, w) /\ Proceed(p, proc[p].todo)
    BY <1>6 DEF MarkAnalysisFailed, At
  <2>2. row[Photo(p)] # Null => w \in Row /\ Backed(w, store[Photo(p)], faults)
    BY <2>1, AnalysisRow DEF Status
  <2> HIDE DEF w
  <2> QED
    BY <2>1, <2>2, UpdateResult, ProceedQuiet
<1> QED
  BY <1>1, <1>2, <1>3, <1>4, <1>5, <1>6 DEF Analyze

LEMMA StepToolDies ==
    ASSUME Inv, NEW p \in Processes, ToolDies(p)
    PROVE  Inv'
<1>1. /\ proc[p].pc # "idle" /\ proc' = [proc EXCEPT ![p] = Idle]
      /\ UNCHANGED <<row, store>>
  BY DEF ToolDies, Ends
<1>2. faults \subseteq faults' /\ faults' \subseteq Faults
  BY FaultGrows DEF ToolDies
<1>3. Idle \in Process /\ Idle.pc = "idle" /\ Idle.todo = {}
  BY DEF Idle, Process
<1> DEFINE r == Idle
<1>4. /\ r \in Process /\ proc' = [proc EXCEPT ![p] = r] /\ ~(r.pc # "idle")
      /\ r.todo \subseteq Photos \ {r.photo}
  BY <1>1, <1>3
<1> HIDE DEF r
<1> QED
  BY <1>1, <1>2, <1>4, QuietStep

\* A worker of the service leaves its photo to the analysis, or leaves it alone.
LEMMA AnalyzeOneStep ==
    ASSUME Inv, NEW p \in Processes, proc[p].pc # "idle", Role[p] = "service", AnalyzeOne(p),
           NEW t \in SUBSET Objects, store' = [store EXCEPT ![Photo(p)] = t],
           "gray" \in t => "summary" \in t,
           Grows(store[Photo(p)], t, faults, faults'), faults' \subseteq Faults,
           UNCHANGED row
    PROVE  Inv'
<1>1. CASE Goto(p, "mark_running")
  <2>1. "mark_running" \in Calls
    BY DEF Calls
  <2>2. PICK r \in Process :
             /\ proc' = [proc EXCEPT ![p] = r] /\ r.pc = "mark_running" /\ r.photo = Photo(p)
             /\ r.todo = proc[p].todo /\ r.found = proc[p].found /\ r.tool = proc[p].tool
    BY <1>1, <2>1, GotoResult
  <2>3. Relies(proc[p], Role[p], t, faults')
    BY AtWork, ReliesStays
  <2>4. Relies(r, Role[p], t, faults')
    BY <2>2, <2>3 DEF Relies, Plays
  <2> QED
    BY <2>2, <2>4, ContinueStep
<1>2. CASE Ends(p)
  <2> DEFINE r == Idle
             f == Photo(p)
  <2>1. /\ r \in Process /\ proc' = [proc EXCEPT ![p] = r] /\ ~(r.pc # "idle")
        /\ r.todo \subseteq Photos \ {r.photo}
    BY <1>2 DEF Ends, Idle, Process
  <2>2. /\ f \in Photos /\ store' = [store EXCEPT ![f] = t]
        /\ Grows(store[f], t, faults, faults')
    BY AtWork
  <2> HIDE DEF r, f
  <2> QED
    BY <2>1, <2>2, ProcessStep
<1> QED
  BY <1>1, <1>2 DEF AnalyzeOne

LEMMA StepService ==
    ASSUME Inv, NEW p \in Processes, Service(p)
    PROVE  Inv'
<1>1. CASE StartJob(p)
  <2>1. PICK f \in InJobs : Run(p, Null, {f})
    BY <1>1 DEF StartJob
  <2>2. /\ Role[p] = "service" /\ UNCHANGED <<row, store>>
        /\ faults \subseteq faults' /\ faults' \subseteq Faults /\ "service" \in faults'
    BY <1>1, FaultGrows DEF StartJob, Starts, Fault
  <2>3. {f} \in SUBSET Photos /\ {f} # {}
    BY BatchAssumption
  <2> DEFINE tool == Null
             S == {f}
  <2>4. tool \in IngestTools \cup {Null} /\ S \in SUBSET Photos /\ S # {} /\ Run(p, tool, S)
    BY <2>1, <2>3
  <2>5. ~(Role[p] = "ingest" /\ tool = "dry_run")
    BY <2>2
  <2> HIDE DEF tool, S
  <2> QED
    BY <2>2, <2>4, <2>5, StartStep
<1>2. CASE IngestOne(p)
  <2> DEFINE t == store[Photo(p)]
  <2>1. proc[p].pc = "ingest_one" /\ UNCHANGED row
    BY <1>2 DEF IngestOne, At
  <2>2. PICK seen \in SUBSET {"gray"} :
           /\ Answer(p, {"gray"}, seen)
           /\ \/ seen # {} /\ AnalyzeOne(p) /\ UNCHANGED store
              \/ seen = {} /\ Put(p, "img") /\ Goto(p, "check_gray")
    BY <1>2 DEF IngestOne
  <2>3. faults \subseteq faults' /\ faults' \subseteq Faults
    BY <2>2, Answers
  <2>4. Role[p] = "service"
    BY <2>1, AtWork DEF Relies, Plays
  <2>5. CASE AnalyzeOne(p) /\ UNCHANGED store
    <3>1. t \in SUBSET Objects /\ store' = [store EXCEPT ![Photo(p)] = t]
          /\ ("gray" \in t => "summary" \in t)
      BY <2>1, <2>5, AtWork DEF Inv, TypeInv
    <3>2. Grows(store[Photo(p)], t, faults, faults')
      BY <2>3 DEF Grows
    <3> HIDE DEF t
    <3> QED
      BY <2>1, <2>3, <2>4, <2>5, <3>1, <3>2, AnalyzeOneStep
  <2>6. CASE Put(p, "img") /\ Goto(p, "check_gray")
    <3>1. "check_gray" \in Calls /\ "img" \in Objects
      BY DEF Calls, Objects
    <3>2. \A r \in Process : /\ Relies(proc[p], Role[p], store[Photo(p)] \cup {"img"}, faults')
                             /\ r.pc = "check_gray" /\ r.photo = Photo(p)
                             /\ r.found = proc[p].found /\ r.tool = proc[p].tool
                             => Relies(r, Role[p], store[Photo(p)] \cup {"img"}, faults')
      BY <2>1 DEF Relies, Plays
    <3> QED
      BY <2>1, <2>3, <2>6, <3>1, <3>2, GotoPut
  <2> QED
    BY <2>2, <2>5, <2>6
<1>3. CASE DeleteImg(p)
  <2>1. /\ proc[p].pc = "delete_img" /\ AnalyzeOne(p) /\ UNCHANGED <<row, faults>>
        /\ store' = [store EXCEPT ![Photo(p)] = @ \ {"img"}] \/ UNCHANGED store
    BY <1>3 DEF DeleteImg, At
  <2>2. /\ Role[p] = "service" /\ "service" \in faults'
        /\ store[Photo(p)] \subseteq Objects
        /\ "gray" \in store[Photo(p)] => "summary" \in store[Photo(p)]
    BY <2>1, AtWork DEF Relies, Plays
  <2>3. PICK t \in {store[Photo(p)], store[Photo(p)] \ {"img"}} :
           store' = [store EXCEPT ![Photo(p)] = t]
    BY <2>1 DEF Inv, TypeInv
  <2>4. t \in SUBSET Objects /\ ("gray" \in t => "summary" \in t)
    BY <2>2
  <2>5. Grows(store[Photo(p)], t, faults, faults') /\ faults' \subseteq Faults
    BY <2>1, <2>2 DEF Grows, Inv, TypeInv
  <2> QED
    BY <2>1, <2>2, <2>3, <2>4, <2>5, AnalyzeOneStep
<1> QED
  BY <1>1, <1>2, <1>3 DEF Service

----------------------------------------------------------------------------
(* The theorems *)

\* Every step of every process keeps the invariant.
THEOREM InvStep == Inv /\ [Next]_vars => Inv'
<1> SUFFICES ASSUME Inv, [Next]_vars PROVE Inv'
  OBVIOUS
<1>1. CASE UNCHANGED vars
  BY <1>1 DEF vars, Inv, TypeInv, StoreInv, ReliesInv, RowsInv
<1>2. ASSUME NEW p \in Processes,
             Ingest(p) \/ Transform(p) \/ Analyze(p) \/ Service(p) \/ ToolDies(p)
      PROVE  Inv'
  BY <1>2, StepIngest, StepTransform, StepAnalyze, StepService, StepToolDies
<1> QED
  BY <1>1, <1>2 DEF Next

\* The table never runs ahead of the bucket, whichever calls fail, whichever
\* tools die and however many processes of a tool run at once.
THEOREM RowsAreBackedHolds == Spec => []RowsAreBacked
<1>1. Inv => RowsAreBacked
  BY DEF Inv, RowsInv, RowsAreBacked, Recorded, Backed, Has, Excused
<1> QED
  BY <1>1, InvInit, InvStep, PTL DEF Spec

\* The shape of every variable.
THEOREM TypeOKHolds == Spec => []TypeOK
<1>1. Inv => TypeOK
  BY DEF Inv, TypeInv, TypeOK, Process
<1> QED
  BY <1>1, InvInit, InvStep, PTL DEF Spec

----------------------------------------------------------------------------
(* Who works on what *)

\* What a step of process p leaves alone.
Frame(p) ==
    /\ \A q \in Processes \ {p} : proc'[q] = proc[q]
    /\ \A g \in Photos : store[g] \ {"img"} \subseteq store'[g]
    /\ faults \subseteq faults'

\* Loops and calls change one process.
LEMMA OneProcess ==
    ASSUME Inv, NEW p \in Processes
    PROVE  /\ \A tool, S : Run(p, tool, S) => \A q \in Processes \ {p} : proc'[q] = proc[q]
           /\ \A S : Proceed(p, S) => \A q \in Processes \ {p} : proc'[q] = proc[q]
           /\ \A c : Goto(p, c) => \A q \in Processes \ {p} : proc'[q] = proc[q]
           /\ \A c, b : Note(p, c, b) => \A q \in Processes \ {p} : proc'[q] = proc[q]
           /\ Ends(p) => \A q \in Processes \ {p} : proc'[q] = proc[q]
<1>1. ASSUME NEW tool, NEW S, Run(p, tool, S) PROVE \A q \in Processes \ {p} : proc'[q] = proc[q]
  <2>1. CASE S = {}
    BY <1>1, <2>1 DEF Run, Ends, Inv, TypeInv
  <2>2. CASE S # {}
    BY <1>1, <2>2 DEF Run, Inv, TypeInv
  <2> QED
    BY <2>1, <2>2
<1>2. \A S : Proceed(p, S) => \A q \in Processes \ {p} : proc'[q] = proc[q]
  BY <1>1 DEF Proceed
<1>3. \A c : Goto(p, c) => \A q \in Processes \ {p} : proc'[q] = proc[q]
  BY DEF Goto, Inv, TypeInv
<1>4. \A c, b : Note(p, c, b) => \A q \in Processes \ {p} : proc'[q] = proc[q]
  BY DEF Note, Inv, TypeInv
<1>5. Ends(p) => \A q \in Processes \ {p} : proc'[q] = proc[q]
  BY DEF Ends, Inv, TypeInv
<1> QED
  BY <1>1, <1>2, <1>3, <1>4, <1>5

LEMMA StoreAdds ==
    ASSUME Inv, NEW p \in Processes, (\E o : Put(p, o)) \/ UNCHANGED store
    PROVE  \A g \in Photos : store[g] \ {"img"} \subseteq store'[g]
BY DEF Put, Inv, TypeInv

LEMMA FaultAdds ==
    ASSUME UNCHANGED faults \/ (\E kind : Fault(kind)) \/ (\E p, w : Update(p, w))
           \/ \E p, objects, seen : Answer(p, objects, seen)
    PROVE  faults \subseteq faults'
BY DEF Fault, Update, Answer

LEMMA FrameIngest ==
    ASSUME Inv, NEW p \in Processes, Ingest(p)
    PROVE  Frame(p)
<1>1. \A q \in Processes \ {p} : proc'[q] = proc[q]
  BY OneProcess DEF Ingest, StartIngest, LookUp, UploadJson, FetchImg, UploadImgFails, DryRun,
     EnsurePhotoRow
<1>2. (\E o : Put(p, o)) \/ UNCHANGED store
  BY DEF Ingest, StartIngest, LookUp, UploadJson, FetchImg, UploadImgFails, DryRun,
     EnsurePhotoRow
<1>3. UNCHANGED faults \/ (\E kind : Fault(kind)) \/ \E seen : Answer(p, {"json", "img"}, seen)
  BY DEF Ingest, StartIngest, LookUp, UploadJson, FetchImg, UploadImgFails, DryRun,
     EnsurePhotoRow
<1> QED
  BY <1>1, <1>2, <1>3, StoreAdds, FaultAdds DEF Frame

LEMMA FrameTransform ==
    ASSUME Inv, NEW p \in Processes, Transform(p)
    PROVE  Frame(p)
<1>1. \A q \in Processes \ {p} : proc'[q] = proc[q]
  BY OneProcess DEF Transform, FetchPending, CheckGray, Download, UploadSummary, UploadGray,
     UploadRgb, MarkDone, MarkFailed, Transformed
<1>2. (\E o : Put(p, o)) \/ UNCHANGED store
  BY DEF Transform, FetchPending, CheckGray, Download, UploadSummary, UploadGray,
     UploadRgb, MarkDone, MarkFailed
<1>3. UNCHANGED faults \/ (\E kind : Fault(kind)) \/ (\E w : Update(p, w))
      \/ \E seen : Answer(p, {"gray", "rgb"}, seen)
  BY DEF Transform, FetchPending, CheckGray, Download, UploadSummary, UploadGray,
     UploadRgb, MarkDone, MarkFailed
<1> QED
  BY <1>1, <1>2, <1>3, StoreAdds, FaultAdds DEF Frame

LEMMA FrameAnalyze ==
    ASSUME Inv, NEW p \in Processes, Analyze(p)
    PROVE  Frame(p)
<1>1. \A q \in Processes \ {p} : proc'[q] = proc[q]
  BY OneProcess DEF Analyze, FetchPendingAnalysis, CheckResult, MarkAnalysisRunning,
     AnalyzePhoto, MarkAnalysisDone, MarkAnalysisFailed
<1>2. (\E o : Put(p, o)) \/ UNCHANGED store
  BY DEF Analyze, FetchPendingAnalysis, CheckResult, MarkAnalysisRunning,
     AnalyzePhoto, PutResult, MarkAnalysisDone, MarkAnalysisFailed
<1>3. UNCHANGED faults \/ (\E kind : Fault(kind)) \/ (\E w : Update(p, w))
      \/ \E objects, seen : Answer(p, objects, seen)
  BY DEF Analyze, FetchPendingAnalysis, CheckResult, MarkAnalysisRunning,
     AnalyzePhoto, MarkAnalysisDone, MarkAnalysisFailed
<1> QED
  BY <1>1, <1>2, <1>3, StoreAdds, FaultAdds DEF Frame

LEMMA FrameService ==
    ASSUME Inv, NEW p \in Processes, Service(p)
    PROVE  Frame(p)
<1>1. \A q \in Processes \ {p} : proc'[q] = proc[q]
  BY OneProcess DEF Service, StartJob, IngestOne, DeleteImg, AnalyzeOne
<1>2. \A g \in Photos : store[g] \ {"img"} \subseteq store'[g]
  <2>1. CASE StartJob(p) \/ IngestOne(p)
    BY <2>1, StoreAdds DEF StartJob, IngestOne
  <2>2. CASE DeleteImg(p)
    BY <2>2 DEF DeleteImg, Inv, TypeInv
  <2> QED
    BY <2>1, <2>2 DEF Service
<1>3. UNCHANGED faults \/ (\E kind : Fault(kind)) \/ \E seen : Answer(p, {"gray"}, seen)
  BY DEF Service, StartJob, IngestOne, DeleteImg
<1> QED
  BY <1>1, <1>2, <1>3, FaultAdds DEF Frame

LEMMA FrameDies ==
    ASSUME Inv, NEW p \in Processes, ToolDies(p)
    PROVE  Frame(p)
<1>1. proc' = [proc EXCEPT ![p] = Idle] /\ UNCHANGED store /\ \E kind : Fault(kind)
  BY DEF ToolDies, Ends
<1> QED
  BY <1>1, FaultAdds DEF Frame, Inv, TypeInv

\* After Proceed, the photos a process has in hand are among those it goes on with.
LEMMA RunSet ==
    ASSUME Inv, NEW p \in Processes, NEW S \in SUBSET Photos, Proceed(p, S)
    PROVE  \/ proc'[p].pc = "idle"
           \/ /\ proc'[p].pc = First[Role[p]]
              /\ Photo(p)' \in S /\ proc'[p].todo \subseteq S /\ proc'[p].found = FALSE
<1>1. CASE S = {}
  BY <1>1 DEF Proceed, Run, Ends, Idle, Inv, TypeInv
<1>2. CASE S # {}
  <2>1. PICK f \in S : proc' = [proc EXCEPT ![p] = [pc |-> First[Role[p]], photo |-> f,
                                  todo |-> S \ {f}, found |-> FALSE, tool |-> Tool(p)]]
    BY <1>2 DEF Proceed, Run
  <2>2. proc'[p] = [pc |-> First[Role[p]], photo |-> f, todo |-> S \ {f}, found |-> FALSE, tool |-> Tool(p)]
    BY <2>1 DEF Inv, TypeInv
  <2> QED
    BY <2>2 DEF Photo
<1> QED
  BY <1>1, <1>2

\* Goto keeps the photos a process has in hand.
LEMMA GotoKeeps ==
    ASSUME Inv, NEW p \in Processes, NEW c, Goto(p, c)
    PROVE  /\ proc'[p].pc = c /\ Photo(p)' = Photo(p)
           /\ proc'[p].todo = proc[p].todo /\ proc'[p].found = proc[p].found
BY DEF Goto, Inv, TypeInv, Process, Photo

----------------------------------------------------------------------------
(* What is analysed is transformed *)

\* The photos process p works on, or is to work on.
InHand(p) == {Photo(p)} \cup proc[p].todo

HandInv ==
    \A p \in Processes : Role[p] = "analyze" /\ proc[p].pc # "idle" =>
        InHand(p) \subseteq {f \in Photos : "gray" \in store[f]}

LEMMA HandAnalyze ==
    ASSUME Inv, HandInv, NEW p \in Processes, Analyze(p), Role[p] = "analyze", Frame(p)
    PROVE  HandInv'
<1> DEFINE Gray == {f \in Photos : "gray" \in store[f]}
           GrayNow == {f \in Photos : "gray" \in store'[f]}
<1>9. Role[p] = "analyze"
  OBVIOUS
<1>0. Gray \subseteq GrayNow
  BY DEF Frame
<1>1. proc'[p].pc # "idle" => InHand(p)' \subseteq Gray
  <2>1. CASE FetchPendingAnalysis(p)
    <3>1. PICK S \in Batches(Unanalyzed) : Proceed(p, S)
      BY <2>1 DEF FetchPendingAnalysis
    <3>2. S \subseteq Unanalyzed
      BY DEF Batches
    <3>3. Unanalyzed \subseteq Gray
      BY DEF Unanalyzed, Inv, RowsInv, Backed
    <3>4. S \in SUBSET Photos
      BY <3>2 DEF Unanalyzed
    <3> QED
      BY <3>1, <3>2, <3>3, <3>4, RunSet DEF InHand
  <2>2. ASSUME Proceed(p, proc[p].todo), proc[p].pc # "idle", Role[p] = "analyze"
        PROVE  proc'[p].pc # "idle" => InHand(p)' \subseteq Gray
    <3>1. InHand(p) \subseteq Gray
      BY <2>2 DEF HandInv
    <3>2. proc[p].todo \in SUBSET Photos
      BY <2>2, AtWork
    <3> QED
      BY <2>2, <3>1, <3>2, RunSet DEF InHand
  <2>3. ASSUME NEW c, Goto(p, c), proc[p].pc # "idle", Role[p] = "analyze"
        PROVE  InHand(p)' \subseteq Gray
    <3>1. InHand(p) \subseteq Gray
      BY <2>3 DEF HandInv
    <3> QED
      BY <2>3, <3>1, GotoKeeps DEF InHand
  <2>4. CASE CheckResult(p) \/ MarkAnalysisRunning(p) \/ AnalyzePhoto(p)
    <3>1. Role[p] = "analyze" /\ proc[p].pc # "idle"
      BY <1>9, <2>4 DEF CheckResult, MarkAnalysisRunning, AnalyzePhoto, At
    <3>2. \E c : Goto(p, c)
      BY <2>4 DEF CheckResult, MarkAnalysisRunning, AnalyzePhoto
    <3> QED
      BY <2>3, <3>1, <3>2
  <2>5. CASE MarkAnalysisDone(p) \/ MarkAnalysisFailed(p)
    BY <1>9, <2>2, <2>5 DEF MarkAnalysisDone, MarkAnalysisFailed, At
  <2> QED
    BY <2>1, <2>4, <2>5 DEF Analyze
<1> HIDE DEF Gray, GrayNow
<1>2. ASSUME NEW q \in Processes \ {p}
      PROVE  proc'[q] = proc[q]
  BY DEF Frame
<1>3. ASSUME NEW q \in Processes, Role[q] = "analyze", proc'[q].pc # "idle"
      PROVE  InHand(q)' \subseteq GrayNow
  <2>1. CASE q = p
    BY <1>0, <1>1, <1>3, <2>1
  <2>2. CASE q # p
    <3>1. InHand(q) \subseteq Gray
      BY <1>2, <1>3, <2>2 DEF HandInv, Gray
    <3>2. InHand(q)' = InHand(q)
      BY <1>2, <2>2 DEF InHand, Photo
    <3> QED
      BY <1>0, <3>1, <3>2
  <2> QED
    BY <2>1, <2>2
<1> QED
  BY <1>3 DEF HandInv, GrayNow

\* The other processes leave the analyses alone, and what is in hand of them.
LEMMA HandOthers ==
    ASSUME Inv, HandInv, NEW p \in Processes, Frame(p),
           Role[p] # "analyze" \/ proc'[p].pc = "idle"
    PROVE  HandInv'
<1>1. ASSUME NEW q \in Processes, Role[q] = "analyze", proc'[q].pc # "idle"
      PROVE  InHand(q)' \subseteq {f \in Photos : "gray" \in store'[f]}
  <2>1. q # p /\ proc'[q] = proc[q]
    BY <1>1 DEF Frame
  <2>2. InHand(q) \subseteq {f \in Photos : "gray" \in store[f]} /\ InHand(q)' = InHand(q)
    BY <1>1, <2>1 DEF HandInv, InHand, Photo
  <2> QED
    BY <2>2 DEF Frame
<1> QED
  BY <1>1 DEF HandInv

LEMMA Roles ==
    ASSUME Inv, NEW p \in Processes
    PROVE  /\ Ingest(p) => Role[p] = "ingest"
           /\ Transform(p) => Role[p] \in {"transform", "service"}
           /\ Analyze(p) => Role[p] \in {"analyze", "service"}
           /\ Service(p) => Role[p] = "service"
           /\ ToolDies(p) => proc'[p].pc = "idle"
           /\ Role[p] = "service" /\ proc[p].pc # "idle" => "service" \in faults
<1>1. proc[p].pc # "idle" =>
        /\ Plays(proc[p].pc, Role[p])
        /\ Role[p] = "service" => "service" \in faults
  BY AtWork DEF Relies
<1>2. Ingest(p) => Role[p] = "ingest"
  BY <1>1 DEF Ingest, StartIngest, LookUp, UploadJson, FetchImg, UploadImgFails, DryRun,
     EnsurePhotoRow, Starts, At, Plays
<1>3. Transform(p) => Role[p] \in {"transform", "service"}
  BY <1>1 DEF Transform, FetchPending, CheckGray, Download, UploadSummary, UploadGray,
     UploadRgb, MarkDone, MarkFailed, Starts, At, Plays
<1>4. Analyze(p) => Role[p] \in {"analyze", "service"}
  BY <1>1 DEF Analyze, FetchPendingAnalysis, CheckResult, MarkAnalysisRunning,
     AnalyzePhoto, MarkAnalysisDone, MarkAnalysisFailed, Starts, At, Plays
<1>5. Service(p) => Role[p] = "service"
  BY <1>1 DEF Service, StartJob, IngestOne, DeleteImg, Starts, At, Plays
<1>6. ToolDies(p) => proc'[p].pc = "idle"
  BY DEF ToolDies, Ends, Idle, Inv, TypeInv
<1> QED
  BY <1>1, <1>2, <1>3, <1>4, <1>5, <1>6

LEMMA HandStep ==
    ASSUME Inv, HandInv, [Next]_vars
    PROVE  HandInv'
<1>1. ASSUME NEW p \in Processes, Ingest(p) \/ Transform(p) \/ Service(p) \/ ToolDies(p)
      PROVE  HandInv'
  BY <1>1, Roles, FrameIngest, FrameTransform, FrameService, FrameDies, HandOthers
<1>2. ASSUME NEW p \in Processes, Analyze(p) PROVE HandInv'
  <2>1. CASE Role[p] = "analyze"
    BY <1>2, <2>1, FrameAnalyze, HandAnalyze
  <2>2. CASE Role[p] # "analyze"
    BY <1>2, <2>2, FrameAnalyze, HandOthers
  <2> QED
    BY <2>1, <2>2
<1>3. CASE UNCHANGED vars
  BY <1>3 DEF vars, HandInv, InHand, Photo
<1> QED
  BY <1>1, <1>2, <1>3 DEF Next

\* The analysis tool takes up no photo before it is transformed, however many tools
\* of each kind and workers run at once: the image it is analysed from is there.
THEOREM TransformedFirst == Spec => []AnalysisAfterTransform
<1>1. Inv /\ HandInv => AnalysisAfterTransform
  BY DEF HandInv, InHand, AnalysisAfterTransform, At, Has
<1>2. Init => HandInv
  BY DEF Init, HandInv, Idle
<1>3. Inv /\ HandInv /\ [Next]_vars => HandInv'
  BY HandStep
<1> QED
  BY <1>1, <1>2, <1>3, InvInit, InvStep, PTL DEF Spec

----------------------------------------------------------------------------
(* A running analysis has a process *)

Lost == faults \cap {"crash", "pg"} # {}

OwnedInv ==
    \A f \in Photos : Recorded(f) /\ row[f].analysis = "running" =>
        Lost \/ \E p \in Processes : Analyzing(p, f)

\* A step that sets no row to running and ends no analysis.
LEMMA OwnedOthers ==
    ASSUME Inv, OwnedInv, NEW p \in Processes, Frame(p),
           \A f \in Photos : Recorded(f)' /\ row'[f].analysis = "running" =>
                Recorded(f) /\ row[f].analysis = "running",
           \A f \in Photos : Analyzing(p, f) => Analyzing(p, f)' \/ Lost'
    PROVE  OwnedInv'
<1> SUFFICES ASSUME NEW f \in Photos, Recorded(f)', row'[f].analysis = "running", ~Lost'
             PROVE  \E q \in Processes : Analyzing(q, f)'
  BY DEF OwnedInv
<1>1. ~Lost
  BY DEF Frame, Lost
<1>2. PICK q \in Processes : Analyzing(q, f)
  BY <1>1 DEF OwnedInv
<1>3. CASE q = p
  BY <1>2, <1>3
<1>4. CASE q # p
  BY <1>2, <1>4 DEF Frame, Analyzing, Photo
<1> QED
  BY <1>3, <1>4

\* What the ingest and the transform do to the rows.
LEMMA IngestRows ==
    ASSUME Inv, NEW p \in Processes, Ingest(p), NEW f \in Photos
    PROVE  \/ row'[f] = row[f]
           \/ /\ row'[f].analysis = "pending" /\ row'[f].transform = "pending"
<1>1. CASE UNCHANGED row
  BY <1>1
<1>2. CASE EnsurePhotoRow(p)
  <2> DEFINE new == [source |-> Photo(p) \in WithImg, rgb |-> FALSE,
                     transform |-> "pending", analysis |-> "pending"]
  <2>1. UNCHANGED row \/ row' = [row EXCEPT ![Photo(p)] = new]
    BY <1>2 DEF EnsurePhotoRow
  <2>2. new.analysis = "pending" /\ new.transform = "pending"
    OBVIOUS
  <2> HIDE DEF new
  <2> QED
    BY <2>1, <2>2 DEF Inv, TypeInv
<1> QED
  BY <1>1, <1>2 DEF Ingest, StartIngest, LookUp, UploadJson, FetchImg, UploadImgFails, DryRun

\* What an UPDATE does to the rows.
LEMMA UpdateRows ==
    ASSUME Inv, NEW p \in Processes, NEW w, Update(p, w), NEW f \in Photos
    PROVE  \/ row'[f] = row[f] /\ (f = Photo(p) => row[f] = Null \/ "pg" \in faults')
           \/ f = Photo(p) /\ row[f] # Null /\ row'[f] = w
BY DEF Update, Fault, Inv, TypeInv

LEMMA TransformRows ==
    ASSUME Inv, NEW p \in Processes, Transform(p), NEW f \in Photos
    PROVE  \/ row'[f] = row[f]
           \/ row[f] # Null /\ row'[f].analysis = row[f].analysis
<1>1. CASE UNCHANGED row
  BY <1>1
<1>2. ASSUME NEW w, Update(p, w), row[Photo(p)] # Null => w.analysis = row[Photo(p)].analysis
      PROVE  \/ row'[f] = row[f]
             \/ row[f] # Null /\ row'[f].analysis = row[f].analysis
  BY <1>2, UpdateRows
<1>3. CASE MarkDone(p)
  <2> DEFINE w == [row[Photo(p)] EXCEPT !.transform = "done", !.rgb = proc[p].found]
  <2>1. Update(p, w) /\ Photo(p) \in Photos
    BY <1>3, AtWork DEF MarkDone, At
  <2>2. row[Photo(p)] # Null => w.analysis = row[Photo(p)].analysis
    BY <2>1 DEF Inv, TypeInv, Row
  <2> HIDE DEF w
  <2> QED
    BY <1>2, <2>1, <2>2
<1>4. CASE MarkFailed(p)
  <2> DEFINE w == [row[Photo(p)] EXCEPT !.transform = "failed"]
  <2>1. Update(p, w) /\ Photo(p) \in Photos
    BY <1>4, AtWork DEF MarkFailed, At
  <2>2. row[Photo(p)] # Null => w.analysis = row[Photo(p)].analysis
    BY <2>1 DEF Inv, TypeInv, Row
  <2> HIDE DEF w
  <2> QED
    BY <1>2, <2>1, <2>2
<1> QED
  BY <1>1, <1>3, <1>4 DEF Transform, FetchPending, CheckGray, Download, UploadSummary,
     UploadGray, UploadRgb

LEMMA OwnedAnalyze ==
    ASSUME Inv, OwnedInv, NEW p \in Processes, Analyze(p)
    PROVE  OwnedInv'
<1>0. Frame(p)
  BY FrameAnalyze
<1>1. CASE FetchPendingAnalysis(p) \/ CheckResult(p)
  <2>1. UNCHANGED row /\ proc[p].pc \in {"idle", "check_result"}
    BY <1>1 DEF FetchPendingAnalysis, CheckResult, Starts, At
  <2> QED
    BY <1>0, <2>1, OwnedOthers DEF Recorded, Analyzing
<1>2. CASE AnalyzePhoto(p)
  <2>1. UNCHANGED row /\ \E c \in {"mark_analyzed", "mark_unanalyzed"} : Goto(p, c)
    BY <1>2 DEF AnalyzePhoto
  <2>2. \A f \in Photos : Analyzing(p, f) => Analyzing(p, f)'
    BY <1>0, <2>1, GotoKeeps DEF Analyzing
  <2> QED
    BY <1>0, <2>1, <2>2, OwnedOthers DEF Recorded
<1>3. CASE MarkAnalysisRunning(p)
  <2> DEFINE w == [row[Photo(p)] EXCEPT !.analysis = "running"]
  <2>1. Update(p, w) /\ Goto(p, "analyze") /\ proc[p].pc = "mark_running"
    BY <1>3 DEF MarkAnalysisRunning, At
  <2>2. Analyzing(p, Photo(p))'
    <3>1. proc'[p].pc = "analyze"
      BY <2>1, GotoKeeps
    <3> QED
      BY <1>0, <3>1 DEF Analyzing, Photo
  <2> HIDE DEF w
  <2>3. Photo(p)' = Photo(p)
    BY <2>1, GotoKeeps
  <2> SUFFICES ASSUME NEW f \in Photos, Recorded(f)', row'[f].analysis = "running", ~Lost'
               PROVE  \E q \in Processes : Analyzing(q, f)'
    BY DEF OwnedInv
  <2>4. CASE f = Photo(p)
    <3>1. Analyzing(p, f)'
      BY <2>2, <2>3, <2>4 DEF Analyzing
    <3> QED
      BY <3>1
  <2>5. CASE f # Photo(p)
    <3>1. Recorded(f) /\ row[f].analysis = "running" /\ ~Lost
      BY <1>0, <2>1, <2>5, UpdateRows DEF Recorded, Frame, Lost
    <3>2. PICK q \in Processes : Analyzing(q, f)
      BY <3>1 DEF OwnedInv
    <3>3. q # p
      BY <2>5, <3>2 DEF Analyzing
    <3> QED
      BY <1>0, <3>2, <3>3 DEF Frame, Analyzing, Photo
  <2> QED
    BY <2>4, <2>5
<1>4. ASSUME NEW st \in {"done", "failed"}, proc[p].pc # "idle",
             Update(p, [row[Photo(p)] EXCEPT !.analysis = st])
      PROVE  OwnedInv'
  <2> DEFINE w == [row[Photo(p)] EXCEPT !.analysis = st]
  <2>1. Photo(p) \in Photos
    BY <1>4, AtWork
  <2>2. row[Photo(p)] # Null => w.analysis # "running"
    BY <2>1 DEF Inv, TypeInv, Row
  <2>3. Update(p, w)
    BY <1>4
  <2> HIDE DEF w
  <2> SUFFICES ASSUME NEW f \in Photos, Recorded(f)', row'[f].analysis = "running", ~Lost'
               PROVE  \E q \in Processes : Analyzing(q, f)'
    BY DEF OwnedInv
  <2>4. row'[f] = row[f] /\ f # Photo(p)
    BY <2>2, <2>3, UpdateRows DEF Recorded, Lost
  <2>5. PICK q \in Processes : Analyzing(q, f)
    BY <1>0, <2>4 DEF OwnedInv, Recorded, Frame, Lost
  <2>6. q # p
    BY <2>4, <2>5 DEF Analyzing
  <2> QED
    BY <1>0, <2>5, <2>6 DEF Frame, Analyzing, Photo
<1>5. CASE MarkAnalysisDone(p) \/ MarkAnalysisFailed(p)
  BY <1>4, <1>5 DEF MarkAnalysisDone, MarkAnalysisFailed, At
<1> QED
  BY <1>1, <1>2, <1>3, <1>5 DEF Analyze

LEMMA OwnedStep ==
    ASSUME Inv, OwnedInv, [Next]_vars
    PROVE  OwnedInv'
<1>1. ASSUME NEW p \in Processes, Ingest(p) PROVE OwnedInv'
  <2>1. \A f \in Photos : Recorded(f)' /\ row'[f].analysis = "running" =>
            Recorded(f) /\ row[f].analysis = "running"
    BY <1>1, IngestRows DEF Recorded
  <2>2. \A f \in Photos : ~Analyzing(p, f)
    BY <1>1 DEF Ingest, StartIngest, LookUp, UploadJson, FetchImg, UploadImgFails, DryRun,
       EnsurePhotoRow, Starts, At, Analyzing
  <2> QED
    BY <1>1, <2>1, <2>2, FrameIngest, OwnedOthers
<1>2. ASSUME NEW p \in Processes, Transform(p) PROVE OwnedInv'
  <2>1. \A f \in Photos : Recorded(f)' /\ row'[f].analysis = "running" =>
            Recorded(f) /\ row[f].analysis = "running"
    BY <1>2, TransformRows DEF Recorded
  <2>2. \A f \in Photos : ~Analyzing(p, f)
    BY <1>2 DEF Transform, FetchPending, CheckGray, Download, UploadSummary, UploadGray,
       UploadRgb, MarkDone, MarkFailed, Starts, At, Analyzing
  <2> QED
    BY <1>2, <2>1, <2>2, FrameTransform, OwnedOthers
<1>3. ASSUME NEW p \in Processes, Analyze(p) PROVE OwnedInv'
  BY <1>3, OwnedAnalyze
<1>4. ASSUME NEW p \in Processes, Service(p) PROVE OwnedInv'
  <2>1. UNCHANGED row /\ \A f \in Photos : ~Analyzing(p, f)
    BY <1>4 DEF Service, StartJob, IngestOne, DeleteImg, Starts, At, Analyzing
  <2> QED
    BY <1>4, <2>1, FrameService, OwnedOthers DEF Recorded
<1>5. ASSUME NEW p \in Processes, ToolDies(p) PROVE OwnedInv'
  <2>1. UNCHANGED row
    BY <1>5 DEF ToolDies
  <2>2. proc[p].pc \in {"analyze", "mark_analyzed", "mark_unanalyzed"} => Lost'
    BY <1>5 DEF ToolDies, MayRaise, Fault, Lost
  <2> QED
    BY <1>5, <2>1, <2>2, FrameDies, OwnedOthers DEF Analyzing, Recorded
<1>6. CASE UNCHANGED vars
  BY <1>6 DEF vars, OwnedInv, Recorded, Analyzing, Photo, Lost
<1> QED
  BY <1>1, <1>2, <1>3, <1>4, <1>5, <1>6 DEF Next

\* A row that says running has a process at its analysis, unless a process died or
\* a statement failed: of several tools that fetched the photo, the one that leaves
\* it sets the row, also over the running of another.
THEOREM RunningHasProcess == Spec => []RunningIsOwned
<1>1. Inv /\ OwnedInv => RunningIsOwned
  BY DEF OwnedInv, RunningIsOwned, Lost
<1>2. Init => OwnedInv
  BY DEF Init, OwnedInv, Recorded
<1>3. Inv /\ OwnedInv /\ [Next]_vars => OwnedInv'
  BY OwnedStep
<1> QED
  BY <1>1, <1>2, <1>3, InvInit, InvStep, PTL DEF Spec

----------------------------------------------------------------------------
(* The colour image is recorded *)

Broken == faults \cap {"crash", "raise", "misread", "service"} # {}

AtRgb(f) == \E p \in Processes : At(p, "upload_rgb") /\ Photo(p) = f

\* gray.jpg, by which a photo counts as transformed, is stored before rgb.jpg.
RgbFollows(f) == "gray" \in store[f] => "rgb" \in store[f] \/ AtRgb(f)

RgbNoted(p) == At(p, "mark_done") /\ Photo(p) \in Colour => proc[p].found

RgbRecorded(f) == Recorded(f) /\ row[f].transform = "done" => row[f].rgb

ColourParts ==
    /\ \A f \in Colour : RgbFollows(f) /\ RgbRecorded(f)
    /\ \A p \in Processes : RgbNoted(p)

ColourInv == Broken \/ ColourParts

\* Colour photos are photos.
LEMMA ColourPhotos == Colour \subseteq Photos
BY BatchAssumption

\* The other tools store neither gray.jpg nor rgb.jpg.
LEMMA ColourOthers ==
    ASSUME Inv, ColourParts, NEW p \in Processes, Frame(p),
           ~(At(p, "upload_rgb")), RgbNoted(p)',
           \A f \in Photos : "gray" \in store'[f] => "gray" \in store[f],
           \A f \in Photos : Recorded(f)' /\ row'[f].transform = "done" =>
                Recorded(f) /\ row[f].transform = "done" /\ row'[f].rgb = row[f].rgb
    PROVE  ColourParts'
<1>1. \A q \in Processes : q # p => proc'[q] = proc[q]
  BY DEF Frame
<1>2. ASSUME NEW f \in Colour PROVE RgbFollows(f)'
  <2>1. AtRgb(f) => AtRgb(f)'
    BY <1>1 DEF AtRgb, At, Photo
  <2>2. "gray" \in store'[f] => "gray" \in store[f]
    BY ColourPhotos
  <2>3. "rgb" \in store[f] => "rgb" \in store'[f]
    BY ColourPhotos DEF Frame
  <2> QED
    BY <2>1, <2>2, <2>3 DEF RgbFollows, ColourParts
<1>3. \A f \in Colour : RgbRecorded(f)'
  BY ColourPhotos DEF RgbRecorded, ColourParts
<1>4. \A q \in Processes : RgbNoted(q)'
  BY <1>1 DEF RgbNoted, ColourParts, At, Photo
<1> QED
  BY <1>2, <1>3, <1>4 DEF ColourParts

LEMMA PutGray ==
    ASSUME Inv, NEW p \in Processes, UNCHANGED store \/ \E o \in Objects \ {"gray"} : Put(p, o)
    PROVE  \A f \in Photos : "gray" \in store'[f] => "gray" \in store[f]
BY DEF Put, Inv, TypeInv

\* A process that no transformation is up to in its step.
LEMMA OtherRole ==
    ASSUME Inv, Inv', NEW p \in Processes, Role[p] \in {"ingest", "analyze"}
    PROVE  ~At(p, "upload_rgb") /\ RgbNoted(p)'
<1>1. proc[p].pc # "idle" => Plays(proc[p].pc, Role[p])
  BY AtWork DEF Relies
<1>2. proc'[p].pc # "idle" => Plays(proc'[p].pc, Role[p])
  BY DEF Inv, ReliesInv, Relies
<1> QED
  BY <1>1, <1>2 DEF Plays, At, RgbNoted

LEMMA ColourIngest ==
    ASSUME Inv, Inv', ColourParts, NEW p \in Processes, Ingest(p)
    PROVE  ColourParts'
<1>1. UNCHANGED store \/ \E o \in Objects \ {"gray"} : Put(p, o)
  BY DEF Ingest, StartIngest, LookUp, UploadJson, FetchImg, UploadImgFails, DryRun,
     EnsurePhotoRow, Objects
<1>2. \A f \in Photos : Recorded(f)' /\ row'[f].transform = "done" =>
                Recorded(f) /\ row[f].transform = "done" /\ row'[f].rgb = row[f].rgb
  BY IngestRows DEF Recorded
<1> QED
  BY <1>1, <1>2, PutGray, FrameIngest, Roles, OtherRole, ColourOthers

LEMMA ColourAnalyze ==
    ASSUME Inv, Inv', ColourParts, NEW p \in Processes, Analyze(p), Role[p] = "analyze"
    PROVE  ColourParts'
<1>1. UNCHANGED store \/ \E o \in Objects \ {"gray"} : Put(p, o)
  BY DEF Analyze, FetchPendingAnalysis, CheckResult, MarkAnalysisRunning,
     AnalyzePhoto, PutResult, MarkAnalysisDone, MarkAnalysisFailed, Objects
<1>2. UNCHANGED row \/ (proc[p].pc # "idle" /\ \E st \in Status :
                          Update(p, [row[Photo(p)] EXCEPT !.analysis = st]))
  BY DEF Analyze, FetchPendingAnalysis, CheckResult, MarkAnalysisRunning,
     AnalyzePhoto, MarkAnalysisDone, MarkAnalysisFailed, Status, At
<1>3. ASSUME NEW f \in Photos, Recorded(f)', row'[f].transform = "done"
      PROVE  Recorded(f) /\ row[f].transform = "done" /\ row'[f].rgb = row[f].rgb
  <2>1. CASE UNCHANGED row
    BY <1>3, <2>1 DEF Recorded
  <2>2. ASSUME NEW st \in Status, proc[p].pc # "idle",
               Update(p, [row[Photo(p)] EXCEPT !.analysis = st])
        PROVE  Recorded(f) /\ row[f].transform = "done" /\ row'[f].rgb = row[f].rgb
    <3> DEFINE w == [row[Photo(p)] EXCEPT !.analysis = st]
    <3>1. Photo(p) \in Photos
      BY <2>2, AtWork
    <3>2. row[Photo(p)] # Null =>
             w.transform = row[Photo(p)].transform /\ w.rgb = row[Photo(p)].rgb
      BY <3>1 DEF Inv, TypeInv, Row
    <3>3. Update(p, w)
      BY <2>2
    <3> HIDE DEF w
    <3>4. \/ row'[f] = row[f]
          \/ f = Photo(p) /\ row[f] # Null /\ row'[f] = w
      BY <3>3, UpdateRows
    <3> QED
      BY <1>3, <3>2, <3>4 DEF Recorded
  <2> QED
    BY <1>2, <2>1, <2>2
<1> QED
  BY <1>1, <1>3, PutGray, FrameAnalyze, OtherRole, ColourOthers

\* The transform tool, when there is no other: p is the only one that can be at
\* rgb.jpg, or about to record it.
LEMMA ColourTransform ==
    ASSUME Only("transform"), Inv, Inv', ColourParts, ~Broken', NEW p \in Processes,
           Role[p] = "transform", Transform(p)
    PROVE  ColourParts'
<1>0. Frame(p)
  BY FrameTransform
<1>1. ASSUME NEW q \in Processes, q # p
      PROVE  proc[q].pc \notin {"upload_rgb", "mark_done"} /\ proc'[q] = proc[q]
  <2>1. Role[q] # "transform"
    BY <1>1 DEF Only
  <2>2. proc[q].pc # "idle" => Role[q] # "service"
    BY <1>0, Roles DEF Broken, Frame
  <2>3. proc[q].pc # "idle" => Plays(proc[q].pc, Role[q])
    BY AtWork DEF Relies
  <2>4. proc'[q] = proc[q]
    BY <1>0, <1>1 DEF Frame
  <2> QED
    BY <2>1, <2>2, <2>3, <2>4 DEF Plays
<1>2. \A f : AtRgb(f) <=> proc[p].pc = "upload_rgb" /\ Photo(p) = f
  BY <1>1 DEF AtRgb, At
<1>3. \A f : AtRgb(f)' <=> proc'[p].pc = "upload_rgb" /\ Photo(p)' = f
  BY <1>1 DEF AtRgb, At
<1>4. ASSUME proc'[p].pc = "mark_done" /\ Photo(p)' \in Colour => proc'[p].found
      PROVE  \A q \in Processes : RgbNoted(q)'
  BY <1>1, <1>4 DEF RgbNoted, At
<1>5. CASE FetchPending(p) \/ MarkFailed(p) \/ MarkDone(p)
  <2>1. UNCHANGED store /\ proc[p].pc # "upload_rgb"
    BY <1>5 DEF FetchPending, MarkFailed, MarkDone, Starts, At
  <2>2. proc'[p].pc \in {"idle", "check_gray"}
    <3>1. CASE FetchPending(p)
      <4>1. \E S \in SUBSET Photos : Proceed(p, S)
        BY <3>1 DEF FetchPending, Batches, Untransformed
      <4>2. First[Role[p]] = "check_gray"
        BY DEF First
      <4> QED
        BY <4>1, <4>2, RunSet
    <3>2. CASE MarkFailed(p) \/ MarkDone(p)
      <4>1. Proceed(p, proc[p].todo) /\ proc[p].todo \in SUBSET Photos
        BY <3>2, AtWork DEF MarkFailed, MarkDone, Transformed, At
      <4>2. First[Role[p]] = "check_gray"
        BY DEF First
      <4> QED
        BY <4>1, <4>2, RunSet
    <3> QED
      BY <1>5, <3>1, <3>2
  <2>3. \A f \in Colour : RgbFollows(f)'
    BY <1>2, <2>1 DEF RgbFollows, ColourParts
  <2>4. \A q \in Processes : RgbNoted(q)'
    BY <1>4, <2>2
  <2>5. ASSUME NEW f \in Colour PROVE RgbRecorded(f)'
    <3>0. f \in Photos
      BY ColourPhotos
    <3>1. CASE FetchPending(p)
      BY <3>1 DEF FetchPending, RgbRecorded, ColourParts, Recorded
    <3>2. CASE MarkFailed(p)
      <4> DEFINE w == [row[Photo(p)] EXCEPT !.transform = "failed"]
      <4>1. Update(p, w) /\ Photo(p) \in Photos
        BY <3>2, AtWork DEF MarkFailed, At
      <4>2. row[Photo(p)] # Null => w.transform = "failed"
        BY <4>1 DEF Inv, TypeInv, Row
      <4> HIDE DEF w
      <4> QED
        BY <3>0, <4>1, <4>2, UpdateRows DEF RgbRecorded, ColourParts, Recorded
    <3>3. CASE MarkDone(p)
      <4> DEFINE w == [row[Photo(p)] EXCEPT !.transform = "done", !.rgb = proc[p].found]
      <4>1. Update(p, w) /\ Photo(p) \in Photos /\ At(p, "mark_done")
        BY <3>3, AtWork DEF MarkDone, At
      <4>2. row[Photo(p)] # Null => w.rgb = proc[p].found
        BY <4>1 DEF Inv, TypeInv, Row
      <4>3. Photo(p) \in Colour => proc[p].found
        BY <4>1 DEF RgbNoted, ColourParts
      <4> HIDE DEF w
      <4> QED
        BY <3>0, <4>1, <4>2, <4>3, UpdateRows DEF RgbRecorded, ColourParts, Recorded
    <3> QED
      BY <1>5, <3>1, <3>2, <3>3
  <2> QED
    BY <2>3, <2>4, <2>5 DEF ColourParts
<1>6. ASSUME UNCHANGED row PROVE \A f \in Colour : RgbRecorded(f)'
  BY <1>6 DEF RgbRecorded, ColourParts, Recorded
<1>7. CASE CheckGray(p)
  <2>1. UNCHANGED <<row, store>> /\ proc[p].pc = "check_gray"
    BY <1>7 DEF CheckGray, At
  <2>2. \A f \in Colour : RgbFollows(f)'
    BY <1>2, <2>1 DEF RgbFollows, ColourParts
  <2>3. PICK seen \in SUBSET {"gray", "rgb"} :
           /\ Answer(p, {"gray", "rgb"}, seen)
           /\ \/ "gray" \in seen /\ Note(p, "mark_done", "rgb" \in seen)
              \/ "gray" \notin seen /\ Goto(p, "download")
    BY <1>7 DEF CheckGray
  <2>4. CASE Goto(p, "download")
    <3>1. proc'[p].pc = "download"
      BY <2>4, GotoKeeps
    <3> QED
      BY <1>4, <1>6, <2>1, <2>2, <3>1 DEF ColourParts
  <2>5. CASE "gray" \in seen /\ Note(p, "mark_done", "rgb" \in seen)
    <3>1. seen = {"gray", "rgb"} \cap store[Photo(p)]
      BY <2>3, Answers DEF Broken
    <3>2. Photo(p) \in Colour => "rgb" \in seen
      BY <1>2, <2>1, <2>5, <3>1 DEF ColourParts, RgbFollows
    <3> DEFINE b == "rgb" \in seen
    <3>3. Note(p, "mark_done", b)
      BY <2>5
    <3>4. Photo(p) \in Colour => b
      BY <3>2
    <3> HIDE DEF b
    <3>5. proc'[p].found = b /\ Photo(p)' = Photo(p)
      BY <3>3 DEF Note, Inv, TypeInv, Process, Photo
    <3> QED
      BY <1>4, <1>6, <2>1, <2>2, <3>4, <3>5 DEF ColourParts
  <2> QED
    BY <2>3, <2>4, <2>5
<1>8. CASE Download(p) \/ UploadSummary(p)
  <2>1. UNCHANGED row /\ proc[p].pc # "upload_rgb"
    BY <1>8 DEF Download, UploadSummary, At
  <2>2. proc'[p].pc # "mark_done"
    BY <1>8, GotoKeeps DEF Download, UploadSummary
  <2>3. UNCHANGED store \/ \E o \in Objects \ {"gray"} : Put(p, o)
    BY <1>8 DEF Download, UploadSummary, Objects
  <2>4. \A f \in Colour : "gray" \in store'[f] => "gray" \in store[f]
    BY <2>3, PutGray, ColourPhotos
  <2>5. \A f \in Colour : "rgb" \in store[f] => "rgb" \in store'[f]
    BY <1>0, ColourPhotos DEF Frame
  <2>6. \A f \in Colour : RgbFollows(f)'
    BY <1>2, <2>1, <2>4, <2>5 DEF RgbFollows, ColourParts
  <2> QED
    BY <1>4, <1>6, <2>1, <2>2, <2>6 DEF ColourParts
<1>9. CASE UploadGray(p)
  <2>1. UNCHANGED row /\ proc[p].pc = "upload_gray" /\ Put(p, "gray")
    BY <1>9 DEF UploadGray, At
  <2>2. Photo(p)' = Photo(p)
        /\ proc'[p].pc = IF Photo(p) \in Colour THEN "upload_rgb" ELSE "mark_done"
    BY <1>9, GotoKeeps DEF UploadGray
  <2>3. \A g \in Photos \ {Photo(p)} : store'[g] = store[g]
    BY <2>1 DEF Put, Inv, TypeInv
  <2>4. ASSUME NEW f \in Colour PROVE RgbFollows(f)'
    <3>1. CASE f = Photo(p)
      BY <1>3, <2>2, <3>1 DEF RgbFollows
    <3>2. CASE f # Photo(p)
      <4>1. store'[f] = store[f]
        BY <2>3, <3>2, ColourPhotos
      <4> QED
        BY <1>2, <2>1, <4>1 DEF RgbFollows, ColourParts
    <3> QED
      BY <3>1, <3>2
  <2> QED
    BY <1>4, <1>6, <2>1, <2>2, <2>4 DEF ColourParts
<1>10. CASE UploadRgb(p)
  <2>1. UNCHANGED row /\ proc[p].pc = "upload_rgb" /\ Put(p, "rgb")
        /\ Note(p, "mark_done", TRUE)
    BY <1>10 DEF UploadRgb, At
  <2>2. Photo(p)' = Photo(p) /\ proc'[p].found = TRUE
    BY <2>1 DEF Note, Inv, TypeInv, Process, Photo
  <2>3. ASSUME NEW f \in Colour PROVE RgbFollows(f)'
    <3>0. f \in Photos
      BY ColourPhotos
    <3>1. CASE f = Photo(p)
      <4>1. "rgb" \in store'[f]
        BY <2>1, <3>0, <3>1 DEF Put, Inv, TypeInv
      <4> QED
        BY <4>1 DEF RgbFollows
    <3>2. CASE f # Photo(p)
      <4>1. store'[f] = store[f]
        BY <2>1, <3>0, <3>2 DEF Put, Inv, TypeInv
      <4> QED
        BY <1>2, <3>2, <4>1 DEF RgbFollows, ColourParts
    <3> QED
      BY <3>1, <3>2
  <2> QED
    BY <1>4, <1>6, <2>1, <2>2, <2>3 DEF ColourParts
<1> QED
  BY <1>5, <1>7, <1>8, <1>9, <1>10 DEF Transform

LEMMA ColourStep ==
    ASSUME Only("transform"), Inv, Inv', ColourInv, [Next]_vars
    PROVE  ColourInv'
<1> SUFFICES ASSUME ~Broken' PROVE ColourParts'
  BY DEF ColourInv
<1>1. ASSUME NEW p \in Processes, Ingest(p) \/ Transform(p) \/ Analyze(p)
      PROVE  ColourParts'
  <2>1. Frame(p)
    BY <1>1, FrameIngest, FrameTransform, FrameAnalyze
  <2>2. ~Broken
    BY <2>1 DEF Frame, Broken
  <2>3. ColourParts
    BY <2>2 DEF ColourInv
  <2>4. Role[p] # "service"
    <3>1. Role[p] = "service" => proc[p].pc # "idle"
      BY <1>1, Roles DEF Transform, FetchPending, CheckGray, Download, UploadSummary,
         UploadGray, UploadRgb, MarkDone, MarkFailed, Analyze, FetchPendingAnalysis,
         CheckResult, MarkAnalysisRunning, AnalyzePhoto, MarkAnalysisDone,
         MarkAnalysisFailed, Starts, At
    <3> QED
      BY <2>2, <3>1, Roles DEF Broken
  <2>5. Transform(p) => Role[p] = "transform"
    BY <2>4, Roles
  <2>6. Analyze(p) => Role[p] = "analyze"
    BY <2>4, Roles
  <2> QED
    BY <1>1, <2>3, <2>5, <2>6, ColourIngest, ColourTransform, ColourAnalyze
<1>2. ASSUME NEW p \in Processes, ToolDies(p) PROVE FALSE
  BY <1>2 DEF ToolDies, Fault, Broken
<1>3. ASSUME NEW p \in Processes, Service(p) PROVE FALSE
  <2>1. CASE StartJob(p)
    BY <2>1 DEF StartJob, Fault, Broken
  <2>2. CASE IngestOne(p) \/ DeleteImg(p)
    <3>1. Role[p] = "service" /\ proc[p].pc # "idle"
      BY <1>3, <2>2, Roles DEF IngestOne, DeleteImg, At
    <3>2. Frame(p)
      BY <1>3, FrameService
    <3> QED
      BY <3>1, <3>2, Roles DEF Frame, Broken
  <2> QED
    BY <1>3, <2>1, <2>2 DEF Service
<1>4. CASE UNCHANGED vars
  BY <1>4 DEF vars, ColourInv, Broken, ColourParts, RgbFollows, RgbRecorded, RgbNoted,
     Recorded, AtRgb, At, Photo
<1> QED
  BY <1>1, <1>2, <1>3, <1>4 DEF Next

\* With one transform tool, a colour photo that is done has its rgb.jpg recorded,
\* unless the tool ended between gray.jpg and rgb.jpg, an error of the storage hid
\* the rgb.jpg from a later one, or a worker of the service was at work.
THEOREM ColourIsRecorded == Spec => []ColourRecorded
<1>1. CASE Only("transform")
  <2>1. Inv /\ ColourInv => ColourRecorded
    BY DEF ColourInv, ColourParts, RgbRecorded, ColourRecorded, Broken
  <2>2. Init => ColourInv
    BY ColourPhotos DEF Init, ColourInv, ColourParts, RgbFollows, RgbRecorded, RgbNoted,
       Recorded, At, Idle
  <2>3. Inv /\ ColourInv /\ [Next]_vars => ColourInv'
    BY <1>1, InvStep, ColourStep
  <2> QED
    BY <2>1, <2>2, <2>3, InvInit, InvStep, PTL DEF Spec
<1>2. CASE ~Only("transform")
  <2>1. ColourRecorded
    BY <1>2 DEF ColourRecorded
  <2> QED
    BY <2>1, PTL
<1> QED
  BY <1>1, <1>2
=============================================================================

---------------------------- MODULE ProjectsProofs ----------------------------
(***************************************************************************)
(* Theorems about Projects, for any users, projects, images, requests and   *)
(* workers.  What a thread found out before its last call is worth nothing  *)
(* by itself; Relies says what is left of it whatever the others have done. *)
(***************************************************************************)
EXTENDS Projects, CountingLemmas

Pcs == {"idle", "insert_project", "add_image", "remove_image", "delete", "publish",
        "insert_image", "delete_image", "delete_project", "upload", "put", "backfill"}
Image == [project : Projects, lid : Lids, thumb : Thumbs]
Thread == [pc : Pcs, user : Users \cup {Null}, project : Projects \cup {Null},
           lid : Lids \cup {Null}, thumb : Thumbs, rows : SUBSET Images,
           read : Row \cup {Null}, pub : Publications \cup {Null}, todo : Seq(Paths)]

TypeInv ==
    /\ project \in [Projects -> Row \cup {Null}]
    /\ image \in [Images -> Image \cup {Null}]
    /\ store \in [Projects -> [Paths -> Publications \cup {Null}]]
    /\ thread \in [Threads -> Thread]

\* A row w with paths has its report and its images among the objects s.
Stored(w, s) ==
    /\ w.published => w.paths # Null
    /\ w.paths # Null => s["report"] # Null /\ \A q \in ToSet(w.paths) : s[q] # Null

\* What a thread r relies on.
KnowsProject(r, pr) ==
    /\ r.project \in Projects /\ pr[r.project] # Null => r.user = pr[r.project].owner
    /\ r.pc \in {"publish", "upload", "put"} =>
         /\ r.project \in Projects /\ r.read \in Row
         /\ r.read.paths # Null /\ pr[r.project] # Null => pr[r.project].paths # Null
Uploaded(r, st) ==
    r.pc \in {"upload", "put"} =>
        /\ r.pub \in Publications
        /\ \A q \in {"report"} \cup ToSet(Attached[r.pub]) :
             q \in ToSet(r.todo) \/ st[r.project][q] # Null
        /\ r.pc = "put" => r.todo # <<>>
Previewless(r, im) ==
    r.pc = "backfill" => \A i \in r.rows : im[i] # Null => im[i].thumb # "external"
Prepared(r) ==
    /\ r.pc \in {"add_image", "remove_image", "delete", "insert_image"} => r.project \in Projects
    /\ r.pc = "insert_image" => r.lid \in Lids
    /\ r.pc = "insert_project" => r.user \in Users

Relies(r, pr, im, st) ==
    KnowsProject(r, pr) /\ Uploaded(r, st) /\ Previewless(r, im) /\ Prepared(r)

RowsInv == \A p \in Projects : project[p] # Null => Stored(project[p], store[p])
ReliesInv == \A t \in Threads : Relies(thread[t], project, image, store)

Inv == TypeInv /\ RowsInv /\ ReliesInv

\* The tables change without taking anything from a thread r: projects keep their
\* owners and paths or are new, objects stay, previews stay or images are new.
Keeps(r, pr, qr, im, jm, st, ut) ==
    /\ \A p \in Projects : qr[p] # Null =>
         \/ r.project # p
         \/ /\ pr[p] # Null /\ qr[p].owner = pr[p].owner
            /\ pr[p].paths # Null => qr[p].paths # Null
    /\ \A i \in Images : jm[i] # Null =>
         \/ i \notin r.rows
         \/ im[i] # Null /\ (jm[i].thumb = im[i].thumb \/ jm[i].thumb = "generated")
    /\ \A p \in Projects, q \in Paths : st[p][q] # Null => ut[p][q] # Null

----------------------------------------------------------------------------
(* Paths *)

\* The paths sent with a publication are paths.
LEMMA AttachedPaths ==
    ASSUME NEW b \in Publications
    PROVE  /\ "report" \in Paths /\ ToSet(Attached[b]) \subseteq Paths
           /\ Attached[b] \in Seq(Paths)
<1>1. "report" \in Paths /\ ToSet(Attached[b]) \subseteq Paths
  BY DEF Paths
<1>2. Attached[b] \in Seq(STRING)
  BY ProjectsAssumption
<1>3. \A n \in 1 .. Len(Attached[b]) : Attached[b][n] \in ToSet(Attached[b])
  BY <1>2 DEF ToSet
<1> QED
  BY <1>1, <1>2, <1>3

\* The list of a publication begins with the report and holds every path.
LEMMA FirstTodo ==
    ASSUME NEW b \in Publications
    PROVE  /\ <<"report">> \o Attached[b] \in Seq(Paths)
           /\ {"report"} \cup ToSet(Attached[b]) \subseteq ToSet(<<"report">> \o Attached[b])
<1> DEFINE s == Attached[b]
           u == <<"report">> \o s
<1>1. s \in Seq(Paths) /\ "report" \in Paths
  BY AttachedPaths
<1> HIDE DEF s
<1>2. /\ u \in Seq(Paths) /\ Len(u) = Len(s) + 1 /\ u[1] = "report"
      /\ \A n \in 1 .. Len(s) : u[n + 1] = s[n]
  BY <1>1
<1>3. "report" \in ToSet(u)
  BY <1>1, <1>2 DEF ToSet
<1>4. \A n \in 1 .. Len(s) : s[n] \in ToSet(u)
  <2> SUFFICES ASSUME NEW n \in 1 .. Len(s) PROVE s[n] \in ToSet(u)
    OBVIOUS
  <2>1. n + 1 \in DOMAIN u /\ u[n + 1] = s[n]
    BY <1>1, <1>2
  <2> HIDE DEF u
  <2> QED
    BY <2>1 DEF ToSet
<1>5. ToSet(s) \subseteq ToSet(u)
  <2> HIDE DEF u
  <2> QED
    BY <1>1, <1>4 DEF ToSet
<1> QED
  BY <1>2, <1>3, <1>5 DEF s

\* Whatever is in a list is its head or in its tail.
LEMMA NextTodo ==
    ASSUME NEW s \in Seq(Paths), s # <<>>
    PROVE  /\ Tail(s) \in Seq(Paths) /\ Head(s) \in Paths
           /\ \A q \in ToSet(s) : q = Head(s) \/ q \in ToSet(Tail(s))
<1>1. Tail(s) \in Seq(Paths) /\ Head(s) \in Paths
  OBVIOUS
<1> SUFFICES ASSUME NEW n \in 1 .. Len(s), n # 1 PROVE s[n] \in ToSet(Tail(s))
  BY <1>1 DEF ToSet
<1>2. n - 1 \in 1 .. Len(Tail(s)) /\ Tail(s)[n - 1] = s[n]
  OBVIOUS
<1>3. n - 1 \in DOMAIN Tail(s)
  BY <1>1, <1>2
<1> HIDE <1>1
<1> QED
  BY <1>2, <1>3 DEF ToSet

----------------------------------------------------------------------------
(* One thread after the other *)

\* Without projects, images and requests the invariant holds.
THEOREM InvInit == Init => Inv
<1> SUFFICES ASSUME Init PROVE Inv
  OBVIOUS
<1>1. Idle \in Thread /\ Idle.pc = "idle" /\ Idle.project = Null /\ Idle.rows = {}
  BY DEF Idle, Thread, Pcs, Thumbs
<1>2. Null \notin Projects
  BY ProjectsAssumption
<1>3. TypeInv
  BY <1>1 DEF Init, TypeInv
<1>4. RowsInv
  BY DEF Init, RowsInv
<1>5. \A t \in Threads : thread[t] = Idle
  BY DEF Init
<1>6. Relies(Idle, project, image, store)
  BY <1>1, <1>2 DEF Relies, KnowsProject, Uploaded, Previewless, Prepared
<1> QED
  BY <1>3, <1>4, <1>5, <1>6 DEF Inv, ReliesInv

LEMMA ReliesStays ==
    ASSUME NEW r \in Thread, NEW pr, NEW qr, NEW im, NEW jm, NEW st, NEW ut,
           Relies(r, pr, im, st), Keeps(r, pr, qr, im, jm, st, ut)
    PROVE  Relies(r, qr, jm, ut)
<1>1. KnowsProject(r, qr)
  BY DEF Relies, KnowsProject, Keeps
<1>2. Uploaded(r, ut)
  <2> SUFFICES ASSUME r.pc \in {"upload", "put"},
                      NEW q \in {"report"} \cup ToSet(Attached[r.pub]),
                      q \notin ToSet(r.todo)
               PROVE  ut[r.project][q] # Null
    BY DEF Uploaded, Relies
  <2>1. r.pub \in Publications /\ r.project \in Projects /\ st[r.project][q] # Null
    BY DEF Relies, Uploaded, KnowsProject
  <2>2. q \in Paths
    BY <2>1, AttachedPaths
  <2> QED
    BY <2>1, <2>2 DEF Keeps
<1>3. Previewless(r, jm)
  BY DEF Relies, Previewless, Keeps, Thread
<1> QED
  BY <1>1, <1>2, <1>3 DEF Relies

\* A step that takes thread t to r and leaves the others what they rely on.
LEMMA ThreadStep ==
    ASSUME Inv, NEW t \in Threads, NEW r \in Thread, thread' = [thread EXCEPT ![t] = r],
           Relies(r, project', image', store'),
           \A s \in Threads :
             s # t => Keeps(thread[s], project, project', image, image', store, store'),
           project' \in [Projects -> Row \cup {Null}],
           image' \in [Images -> Image \cup {Null}],
           store' \in [Projects -> [Paths -> Publications \cup {Null}]],
           RowsInv'
    PROVE  Inv'
<1>1. TypeInv'
  BY DEF Inv, TypeInv
<1>2. ReliesInv'
  <2> SUFFICES ASSUME NEW s \in Threads PROVE Relies(thread'[s], project', image', store')
    BY DEF ReliesInv
  <2>1. CASE s = t
    <3>1. thread'[s] = r
      BY <2>1 DEF Inv, TypeInv
    <3> QED
      BY <3>1
  <2>2. CASE s # t
    <3>1. thread'[s] = thread[s] /\ thread[s] \in Thread
      BY <2>2 DEF Inv, TypeInv
    <3>2. Relies(thread[s], project, image, store)
      BY DEF Inv, ReliesInv
    <3>3. Keeps(thread[s], project, project', image, image', store, store')
      BY <2>2
    <3> QED
      BY <3>1, <3>2, <3>3, ReliesStays
  <2> QED
    BY <2>1, <2>2
<1> QED
  BY <1>1, <1>2 DEF Inv

\* A step that reads only.
LEMMA ReadStep ==
    ASSUME Inv, NEW t \in Threads, NEW r \in Thread, thread' = [thread EXCEPT ![t] = r],
           Relies(r, project, image, store), UNCHANGED <<project, image, store>>
    PROVE  Inv'
<1>1. \A s \in Threads : Keeps(thread[s], project, project', image, image', store, store')
  BY DEF Keeps
<1>2. /\ project' \in [Projects -> Row \cup {Null}]
      /\ image' \in [Images -> Image \cup {Null}]
      /\ store' \in [Projects -> [Paths -> Publications \cup {Null}]]
  BY DEF Inv, TypeInv
<1>3. RowsInv'
  BY DEF Inv, RowsInv
<1>4. Relies(r, project', image', store')
  OBVIOUS
<1> QED
  BY <1>1, <1>2, <1>3, <1>4, ThreadStep

\* What Idle relies on: nothing.
LEMMA IdleFacts ==
    /\ Idle \in Thread
    /\ \A pr, im, st : Relies(Idle, pr, im, st)
    /\ Idle.pc = "idle" /\ Idle.project = Null /\ Idle.rows = {}
<1>1. Idle \in Thread /\ Idle.pc = "idle" /\ Idle.project = Null /\ Idle.rows = {}
  BY DEF Idle, Thread, Pcs, Thumbs
<1>2. Null \notin Projects
  BY ProjectsAssumption
<1> QED
  BY <1>1, <1>2 DEF Relies, KnowsProject, Uploaded, Previewless, Prepared
LEMMA AnswerStep ==
    ASSUME Inv, NEW t \in Threads, Answer(t), UNCHANGED <<project, image, store>>
    PROVE  Inv'
<1> DEFINE r == Idle
<1>1. r \in Thread /\ thread' = [thread EXCEPT ![t] = r] /\ Relies(r, project, image, store)
  BY IdleFacts DEF Answer
<1> HIDE DEF r
<1> QED
  BY <1>1, ReadStep

\* A thread that begins: what is known of it is what it was begun with.
LEMMA BeginStep ==
    ASSUME Inv, NEW t \in Threads, UNCHANGED <<project, image, store>>,
           NEW r \in Thread, thread' = [thread EXCEPT ![t] = r],
           r.pc \in {"insert_project", "add_image", "remove_image", "delete", "publish", "backfill"},
           r.pc = "insert_project" => r.user \in Users /\ r.project = Null,
           r.pc = "backfill" => r.project = Null /\ Previewless(r, image),
           r.pc \in Endpoints => r.project \in Live /\ project[r.project].owner = r.user,
           r.pc = "publish" => r.read = project[r.project]
    PROVE  Inv'
<1>1. Null \notin Projects /\ Live \subseteq Projects
  BY ProjectsAssumption DEF Live
<1>2. Prepared(r) /\ Uploaded(r, store) /\ Previewless(r, image)
  BY <1>1 DEF Prepared, Uploaded, Previewless, Endpoints
<1>3. KnowsProject(r, project)
  <2>1. CASE r.pc \in {"insert_project", "backfill"}
    BY <1>1, <2>1 DEF KnowsProject
  <2>2. CASE r.pc \in Endpoints
    BY <1>1, <2>2 DEF KnowsProject, Endpoints, Live, Inv, TypeInv
  <2> QED
    BY <2>1, <2>2 DEF Endpoints
<1> QED
  BY <1>2, <1>3, ReadStep DEF Relies

LEMMA StepQuiet ==
    ASSUME Inv, NEW t \in Threads,
           \/ \E u \in Users : CountProjects(t, u)
           \/ \E u \in Users, p \in Projects, op \in Endpoints \ {"create"} : GetProject(t, u, p, op)
           \/ \E p \in Projects, lid \in Lids : FindPreviewless(t, p, lid)
           \/ CheckImage(t) \/ IndexRaises(t) \/ FindImage(t) \/ NoImageToRemove(t)
           \/ LoadCascade(t) \/ PublishFails(t) \/ NoPreview(t)
    PROVE  Inv'
<1>0. thread[t] \in Thread /\ Relies(thread[t], project, image, store)
  BY DEF Inv, TypeInv, ReliesInv
<1>1. ASSUME NEW u \in Users, CountProjects(t, u) PROVE Inv'
  <2> DEFINE r == [Idle EXCEPT !.pc = "insert_project", !.user = u]
  <2>1. thread' = [thread EXCEPT ![t] = r] /\ UNCHANGED <<project, image, store>>
    BY <1>1 DEF CountProjects
  <2>2. r \in Thread /\ r.pc = "insert_project" /\ r.user = u /\ r.project = Null
    BY IdleFacts DEF Thread, Pcs
  <2> HIDE DEF r
  <2> QED
    BY <2>1, <2>2, BeginStep DEF Endpoints
<1>2. ASSUME NEW u \in Users, NEW p \in Projects, NEW op \in Endpoints \ {"create"},
             GetProject(t, u, p, op)
      PROVE  Inv'
  <2> DEFINE read == IF op = "publish" THEN project[p] ELSE Null
             r == [Idle EXCEPT !.pc = op, !.user = u, !.project = p, !.read = read]
  <2>1. /\ thread' = [thread EXCEPT ![t] = r] /\ UNCHANGED <<project, image, store>>
        /\ p \in Live /\ project[p].owner = u
    BY <1>2 DEF GetProject
  <2>2. read \in Row \cup {Null} /\ (op = "publish" => read = project[p])
    BY <2>1 DEF Inv, TypeInv, Live
  <2>3. op \in {"add_image", "remove_image", "delete", "publish"}
    BY DEF Endpoints
  <2> HIDE DEF read
  <2>4. r \in Thread /\ r.pc = op /\ r.user = u /\ r.project = p /\ r.read = read
    BY <2>2, <2>3, IdleFacts DEF Thread, Pcs
  <2> HIDE DEF r
  <2> QED
    BY <2>1, <2>2, <2>3, <2>4, BeginStep
<1>3. ASSUME NEW p \in Projects, NEW lid \in Lids, FindPreviewless(t, p, lid)
      PROVE  Inv'
  <2>1. PICK i \in ImagesOf(p) :
           /\ image[i].thumb = "none"
           /\ thread' = [thread EXCEPT ![t] = [Idle EXCEPT !.pc = "backfill", !.rows = {i}]]
    BY <1>3 DEF FindPreviewless
  <2> DEFINE r == [Idle EXCEPT !.pc = "backfill", !.rows = {i}]
  <2>2. thread' = [thread EXCEPT ![t] = r] /\ UNCHANGED <<project, image, store>>
    BY <1>3, <2>1 DEF FindPreviewless
  <2>3. i \in Images
    BY DEF ImagesOf, Rows
  <2>4. r \in Thread /\ r.pc = "backfill" /\ r.rows = {i} /\ r.project = Null
    BY <2>3, IdleFacts DEF Thread, Pcs
  <2> HIDE DEF r
  <2>5. Previewless(r, image)
    BY <2>1, <2>4 DEF Previewless
  <2> QED
    BY <2>2, <2>4, <2>5, BeginStep DEF Endpoints
<1>4. CASE CheckImage(t)
  <2>1. CASE Answer(t)
    BY <1>4, <2>1, AnswerStep DEF CheckImage
  <2>2. CASE ~Answer(t)
    <3>1. PICK lid \in Lids, thumb \in {"none", "external"} :
             thread' = [thread EXCEPT ![t] = [@ EXCEPT !.pc = "insert_image", !.lid = lid,
                                                       !.thumb = thumb]]
      BY <1>4, <2>2 DEF CheckImage
    <3> DEFINE r == [thread[t] EXCEPT !.pc = "insert_image", !.lid = lid, !.thumb = thumb]
    <3>2. thread' = [thread EXCEPT ![t] = r] /\ UNCHANGED <<project, image, store>>
          /\ thread[t].pc = "add_image"
      BY <1>4, <3>1 DEF CheckImage
    <3>3. /\ r \in Thread /\ r.pc = "insert_image" /\ r.lid = lid
          /\ r.project = thread[t].project /\ r.user = thread[t].user
      BY <1>0 DEF Thread, Pcs, Thumbs
    <3> HIDE DEF r
    <3>4. Relies(r, project, image, store)
      BY <1>0, <3>2, <3>3 DEF Relies, KnowsProject, Uploaded, Previewless, Prepared
    <3> QED
      BY <3>2, <3>3, <3>4, ReadStep
  <2> QED
    BY <2>1, <2>2
<1>5. CASE IndexRaises(t) \/ NoImageToRemove(t) \/ PublishFails(t) \/ NoPreview(t)
  BY <1>5, AnswerStep DEF IndexRaises, NoImageToRemove, PublishFails, NoPreview
<1>6. CASE FindImage(t)
  <2>1. PICK i \in ImagesOf(thread[t].project) :
           thread' = [thread EXCEPT ![t] = [@ EXCEPT !.pc = "delete_image", !.rows = {i}]]
    BY <1>6 DEF FindImage
  <2> DEFINE r == [thread[t] EXCEPT !.pc = "delete_image", !.rows = {i}]
  <2>2. thread' = [thread EXCEPT ![t] = r] /\ UNCHANGED <<project, image, store>>
    BY <1>6, <2>1 DEF FindImage
  <2>3. i \in Images
    BY DEF ImagesOf, Rows
  <2>4. /\ r \in Thread /\ r.pc = "delete_image"
        /\ r.project = thread[t].project /\ r.user = thread[t].user
    BY <1>0, <2>3 DEF Thread, Pcs
  <2> HIDE DEF r
  <2>5. Relies(r, project, image, store)
    BY <1>0, <2>4 DEF Relies, KnowsProject, Uploaded, Previewless, Prepared
  <2> QED
    BY <2>2, <2>4, <2>5, ReadStep
<1>7. CASE LoadCascade(t)
  <2> DEFINE S == ImagesOf(thread[t].project)
             r == [thread[t] EXCEPT !.pc = "delete_project", !.rows = S]
  <2>1. thread' = [thread EXCEPT ![t] = r] /\ UNCHANGED <<project, image, store>>
    BY <1>7 DEF LoadCascade
  <2>2. S \in SUBSET Images
    BY DEF ImagesOf, Rows
  <2> HIDE DEF S
  <2>3. /\ r \in Thread /\ r.pc = "delete_project"
        /\ r.project = thread[t].project /\ r.user = thread[t].user
    BY <1>0, <2>2 DEF Thread, Pcs
  <2> HIDE DEF r
  <2>4. Relies(r, project, image, store)
    BY <1>0, <2>3 DEF Relies, KnowsProject, Uploaded, Previewless, Prepared
  <2> QED
    BY <2>1, <2>3, <2>4, ReadStep
<1> QED
  BY <1>1, <1>2, <1>3, <1>4, <1>5, <1>6, <1>7
----------------------------------------------------------------------------
(* The steps that write *)

LEMMA StepRows ==
    ASSUME Inv, NEW t \in Threads,
           InsertProject(t) \/ InsertImage(t) \/ DeleteImage(t) \/ DeleteProject(t) \/ SavePreview(t)
    PROVE  Inv'
<1>0. thread[t] \in Thread /\ Relies(thread[t], project, image, store)
  BY DEF Inv, TypeInv, ReliesInv
<1> DEFINE r == Idle
<1>1. /\ r \in Thread /\ thread' = [thread EXCEPT ![t] = r] /\ UNCHANGED store
      /\ \A pr, im, st : Relies(r, pr, im, st)
  BY IdleFacts DEF InsertProject, InsertImage, DeleteImage, DeleteProject, SavePreview, Answer
<1> HIDE DEF r
<1>2. store' \in [Projects -> [Paths -> Publications \cup {Null}]]
  BY <1>1 DEF Inv, TypeInv
<1>3. CASE InsertProject(t)
  <2> DEFINE w == [owner |-> thread[t].user, published |-> FALSE, comment |-> Null, paths |-> Null]
  <2>1. PICK p \in Projects : NewProject(p) /\ project' = [project EXCEPT ![p] = w]
    BY <1>3 DEF InsertProject
  <2>2. w \in Row /\ w.published = FALSE /\ w.paths = Null
    BY <1>0, <1>3 DEF InsertProject, Relies, Prepared, Row
  <2>3. Stored(w, store[p])
    <3> HIDE DEF w
    <3> QED
      BY <2>2 DEF Stored
  <2> HIDE DEF w
  <2>4. /\ project' \in [Projects -> Row \cup {Null}]
        /\ \A q \in Projects : q # p => project'[q] = project[q]
        /\ project'[p] = w
    BY <2>1, <2>2 DEF Inv, TypeInv
  <2>5. UNCHANGED image /\ image' \in [Images -> Image \cup {Null}]
    BY <1>3 DEF InsertProject, Inv, TypeInv
  <2>6. RowsInv'
    BY <1>1, <2>3, <2>4 DEF Inv, RowsInv
  <2>7. \A s \in Threads : thread[s].project # p
    BY <2>1 DEF NewProject
  <2>8. \A s \in Threads : Keeps(thread[s], project, project', image, image', store, store')
    BY <1>1, <2>4, <2>5, <2>7 DEF Keeps
  <2> QED
    BY <1>1, <1>2, <2>4, <2>5, <2>6, <2>8, ThreadStep
<1>4. CASE InsertImage(t)
  <2> DEFINE w == [project |-> thread[t].project, lid |-> thread[t].lid, thumb |-> thread[t].thumb]
  <2>1. PICK i \in NewImages : image' = [image EXCEPT ![i] = w]
    BY <1>4 DEF InsertImage
  <2>2. w \in Image
    BY <1>0, <1>4 DEF InsertImage, Relies, Prepared, Image, Thread
  <2> HIDE DEF w
  <2>3. UNCHANGED project /\ project' \in [Projects -> Row \cup {Null}]
    BY <1>4 DEF InsertImage, Inv, TypeInv
  <2>4. image' \in [Images -> Image \cup {Null}]
        /\ \A k \in Images : k # i => image'[k] = image[k]
    BY <2>1, <2>2 DEF Inv, TypeInv
  <2>5. RowsInv'
    BY <1>1, <2>3 DEF Inv, RowsInv
  <2>6. \A s \in Threads : i \notin thread[s].rows
    BY DEF NewImages
  <2>7. \A s \in Threads : Keeps(thread[s], project, project', image, image', store, store')
    BY <1>1, <2>3, <2>4, <2>6 DEF Keeps
  <2> QED
    BY <1>1, <1>2, <2>3, <2>4, <2>5, <2>7, ThreadStep
<1>5. CASE DeleteImage(t) \/ DeleteProject(t)
  <2>1. \/ UNCHANGED project
        \/ project' = [project EXCEPT ![thread[t].project] = Null]
    BY <1>5 DEF DeleteImage, DeleteProject
  <2>2. project' \in [Projects -> Row \cup {Null}]
        /\ \A p \in Projects : project'[p] # Null => project'[p] = project[p]
    BY <2>1 DEF Inv, TypeInv
  <2>3. image' \in [Images -> Image \cup {Null}]
        /\ \A i \in Images : image'[i] # Null => image'[i] = image[i]
    BY <1>5 DEF DeleteImage, DeleteProject, DeleteRows, Inv, TypeInv
  <2>4. RowsInv'
    BY <1>1, <2>2 DEF Inv, RowsInv
  <2>5. \A s \in Threads : Keeps(thread[s], project, project', image, image', store, store')
    BY <1>1, <2>2, <2>3 DEF Keeps
  <2> QED
    BY <1>1, <1>2, <2>2, <2>3, <2>4, <2>5, ThreadStep
<1>6. CASE SavePreview(t)
  <2>1. \A i \in Images : image[i] # Null =>
          LET w == [image[i] EXCEPT !.thumb = "generated"]
          IN  w \in Image /\ w.thumb = "generated"
    BY DEF Inv, TypeInv, Image, Thumbs
  <2>2. image' = [i \in Images |-> IF i \in thread[t].rows /\ image[i] # Null
                                   THEN [image[i] EXCEPT !.thumb = "generated"] ELSE image[i]]
    BY <1>6 DEF SavePreview
  <2>3. /\ image' \in [Images -> Image \cup {Null}]
        /\ \A i \in Images : image'[i] # Null =>
             image[i] # Null /\ (image'[i].thumb = image[i].thumb \/ image'[i].thumb = "generated")
    BY <2>1, <2>2 DEF Inv, TypeInv
  <2>4. UNCHANGED project /\ project' \in [Projects -> Row \cup {Null}]
    BY <1>6 DEF SavePreview, Inv, TypeInv
  <2>5. RowsInv'
    BY <1>1, <2>4 DEF Inv, RowsInv
  <2>6. \A s \in Threads : Keeps(thread[s], project, project', image, image', store, store')
    BY <1>1, <2>3, <2>4 DEF Keeps
  <2> QED
    BY <1>1, <1>2, <2>3, <2>4, <2>5, <2>6, ThreadStep
<1> QED
  BY <1>3, <1>4, <1>5, <1>6

LEMMA StepPublish ==
    ASSUME Inv, NEW t \in Threads,
           ReceivePublication(t) \/ FindObject(t) \/ PutObject(t) \/ SetPublished(t)
    PROVE  Inv'
<1> DEFINE old == thread[t]
           p == old.project
           b == old.pub
<1>0. /\ old \in Thread /\ Relies(old, project, image, store)
      /\ old.pc \in {"publish", "upload", "put"} /\ p \in Projects
  BY DEF Inv, TypeInv, ReliesInv, ReceivePublication, FindObject, PutObject, SetPublished,
         Relies, KnowsProject
<1>1. CASE ReceivePublication(t)
  <2>1. PICK c \in Publications :
           thread' = [thread EXCEPT ![t] = [@ EXCEPT !.pc = "upload", !.pub = c,
                                                     !.todo = <<"report">> \o Attached[c]]]
    BY <1>1 DEF ReceivePublication
  <2> DEFINE u == <<"report">> \o Attached[c]
             r == [thread[t] EXCEPT !.pc = "upload", !.pub = c, !.todo = u]
  <2>2. thread' = [thread EXCEPT ![t] = r] /\ UNCHANGED <<project, image, store>>
        /\ old.pc = "publish"
    BY <1>1, <2>1 DEF ReceivePublication
  <2>3. u \in Seq(Paths) /\ {"report"} \cup ToSet(Attached[c]) \subseteq ToSet(u)
    BY FirstTodo
  <2> HIDE DEF u
  <2>4. /\ r \in Thread /\ r.pc = "upload" /\ r.pub = c /\ r.todo = u
        /\ r.project = p /\ r.user = old.user /\ r.read = old.read
    BY <1>0, <2>3 DEF Thread, Pcs
  <2> HIDE DEF r
  <2>5. KnowsProject(r, project) /\ Previewless(r, image) /\ Prepared(r)
    BY <1>0, <2>2, <2>4 DEF Relies, KnowsProject, Previewless, Prepared
  <2>6. Uploaded(r, store)
    BY <2>3, <2>4 DEF Uploaded
  <2> QED
    BY <2>2, <2>4, <2>5, <2>6, ReadStep DEF Relies
<1>2. CASE FindObject(t)
  <2>1. /\ old.pc = "upload" /\ old.todo # <<>> /\ UNCHANGED <<project, image, store>>
        /\ Tail(old.todo) \in Seq(Paths) /\ Head(old.todo) \in Paths
        /\ \A q \in ToSet(old.todo) : q = Head(old.todo) \/ q \in ToSet(Tail(old.todo))
    BY <1>0, <1>2, NextTodo DEF FindObject, Thread
  <2>2. CASE ObjectAt(t) = Null
    <3> DEFINE r == [thread[t] EXCEPT !.pc = "put"]
    <3>1. thread' = [thread EXCEPT ![t] = r]
      BY <1>2, <2>2 DEF FindObject, Goto
    <3>2. /\ r \in Thread /\ r.pc = "put" /\ r.pub = b /\ r.todo = old.todo
          /\ r.project = p /\ r.user = old.user /\ r.read = old.read
      BY <1>0 DEF Thread, Pcs
    <3> HIDE DEF r
    <3>3. Relies(r, project, image, store)
      BY <1>0, <2>1, <3>2 DEF Relies, KnowsProject, Uploaded, Previewless, Prepared
    <3> QED
      BY <2>1, <3>1, <3>2, <3>3, ReadStep
  <2>3. CASE ObjectAt(t) # Null
    <3> DEFINE u == Tail(old.todo)
               r == [thread[t] EXCEPT !.todo = u]
    <3>1. thread' = [thread EXCEPT ![t] = r]
      BY <1>2, <2>3 DEF FindObject
    <3>2. u \in Seq(Paths) /\ \A q \in ToSet(old.todo) : q = Head(old.todo) \/ q \in ToSet(u)
      BY <2>1
    <3> HIDE DEF u
    <3>3. /\ r \in Thread /\ r.pc = "upload" /\ r.pub = b /\ r.todo = u
          /\ r.project = p /\ r.user = old.user /\ r.read = old.read
      BY <1>0, <2>1, <3>2 DEF Thread, Pcs
    <3> HIDE DEF r
    <3>4. KnowsProject(r, project) /\ Previewless(r, image) /\ Prepared(r)
      BY <1>0, <2>1, <3>3 DEF Relies, KnowsProject, Previewless, Prepared
    <3>5. Uploaded(r, store)
      BY <1>0, <2>1, <2>3, <3>2, <3>3 DEF Relies, Uploaded, ObjectAt
    <3> QED
      BY <2>1, <3>1, <3>3, <3>4, <3>5, ReadStep DEF Relies
  <2> QED
    BY <2>2, <2>3
<1>3. CASE PutObject(t)
  <2> DEFINE h == Head(old.todo)
             u == Tail(old.todo)
             r == [thread[t] EXCEPT !.pc = "upload", !.todo = u]
  <2>1. /\ old.pc = "put" /\ UNCHANGED <<project, image>>
        /\ store' = [store EXCEPT ![p][h] = b]
        /\ thread' = [thread EXCEPT ![t] = r]
    <3>1. old.pc = "put" /\ UNCHANGED <<project, image>>
      BY <1>3 DEF PutObject
    <3>2. store' = [store EXCEPT ![p][h] = b]
      BY <1>3 DEF PutObject
    <3>3. thread' = [thread EXCEPT ![t] = r]
      BY <1>3 DEF PutObject
    <3> QED
      BY <3>1, <3>2, <3>3
  <2>2. old.todo # <<>> /\ b \in Publications /\ b # Null
    BY <1>0, <2>1, ProjectsAssumption DEF Relies, Uploaded
  <2>3. /\ u \in Seq(Paths) /\ h \in Paths
        /\ \A q \in ToSet(old.todo) : q = h \/ q \in ToSet(u)
    BY <1>0, <2>2, NextTodo DEF Thread
  <2> HIDE DEF u
  <2>4. /\ r \in Thread /\ r.pc = "upload" /\ r.pub = b /\ r.todo = u
        /\ r.project = p /\ r.user = old.user /\ r.read = old.read
    BY <1>0, <2>3 DEF Thread, Pcs
  <2> HIDE DEF h, r
  <2>5. /\ store' \in [Projects -> [Paths -> Publications \cup {Null}]]
        /\ store'[p][h] = b
        /\ \A g \in Projects, q \in Paths : store[g][q] # Null => store'[g][q] # Null
    BY <1>0, <2>1, <2>2, <2>3 DEF Inv, TypeInv
  <2>6. KnowsProject(r, project') /\ Previewless(r, image') /\ Prepared(r)
    BY <1>0, <2>1, <2>4 DEF Relies, KnowsProject, Previewless, Prepared
  <2>7. Uploaded(r, store')
    <3> SUFFICES ASSUME NEW q \in {"report"} \cup ToSet(Attached[b]), q \notin ToSet(u)
                 PROVE  store'[p][q] # Null
      BY <2>2, <2>4 DEF Uploaded
    <3>1. q \in Paths
      BY <2>2, AttachedPaths
    <3>2. q = h \/ store[p][q] # Null
      BY <1>0, <2>1, <2>3 DEF Relies, Uploaded
    <3> QED
      BY <1>0, <2>2, <2>5, <3>1, <3>2
  <2>8. RowsInv'
    <3> SUFFICES ASSUME NEW g \in Projects, project[g] # Null
                 PROVE  Stored(project[g], store'[g])
      BY <2>1 DEF RowsInv
    <3>1. Stored(project[g], store[g]) /\ project[g] \in Row
      BY DEF Inv, TypeInv, RowsInv
    <3>2. "report" \in Paths
      BY DEF Paths
    <3>3. project[g].paths # Null => ToSet(project[g].paths) \subseteq Paths
      BY <3>1, AttachedPaths DEF Row
    <3> QED
      BY <2>5, <3>1, <3>2, <3>3 DEF Stored
  <2>9. /\ project' \in [Projects -> Row \cup {Null}]
        /\ image' \in [Images -> Image \cup {Null}]
        /\ \A s \in Threads : Keeps(thread[s], project, project', image, image', store, store')
    BY <2>1, <2>5 DEF Keeps, Inv, TypeInv
  <2> QED
    BY <2>1, <2>4, <2>5, <2>6, <2>7, <2>8, <2>9, ThreadStep DEF Relies
<1>4. CASE SetPublished(t)
  <2>1. /\ old.pc = "upload" /\ old.todo = <<>> /\ UNCHANGED <<image, store>>
        /\ thread' = [thread EXCEPT ![t] = Idle]
    BY <1>4 DEF SetPublished, Answer
  <2>2. /\ b \in Publications
        /\ \A q \in {"report"} \cup ToSet(Attached[b]) : store[p][q] # Null
    BY <1>0, <2>1 DEF Relies, Uploaded, ToSet
  <2>3. CASE p \notin Live
    <3> DEFINE r == Idle
    <3>1. r \in Thread /\ Relies(r, project, image, store) /\ thread' = [thread EXCEPT ![t] = r]
      BY <2>1, IdleFacts
    <3>2. UNCHANGED project
      BY <1>4, <2>3 DEF SetPublished
    <3> HIDE DEF r
    <3> QED
      BY <2>1, <3>1, <3>2, ReadStep
  <2>4. CASE p \in Live
    <3> DEFINE c == IF b = old.read.comment THEN project[p].comment ELSE b
               a == IF Attached[b] = old.read.paths THEN project[p].paths ELSE Attached[b]
               w == [project[p] EXCEPT !.published = TRUE, !.comment = c, !.paths = a]
               r == Idle
    <3>1. project' = [project EXCEPT ![p] = w]
      BY <1>4, <2>4 DEF SetPublished
    <3>2. project[p] \in Row /\ project[p] # Null /\ Stored(project[p], store[p])
      BY <1>0, <2>4 DEF Live, Inv, TypeInv, RowsInv
    <3>3. /\ c \in Publications \cup {Null}
          /\ a \in {Attached[d] : d \in Publications} \cup {Null}
      BY <2>2, <3>2 DEF Row
    <3>4. a # Null
      BY <1>0, <2>1, <2>2, <3>2, ProjectsAssumption DEF Relies, KnowsProject
    <3>5. store[p]["report"] # Null /\ \A q \in ToSet(a) : store[p][q] # Null
      BY <2>2, <3>2, <3>4 DEF Stored
    <3> HIDE DEF a, c
    <3>6. w \in Row /\ w.owner = project[p].owner /\ w.published = TRUE /\ w.paths = a
      BY <3>2, <3>3 DEF Row
    <3> HIDE DEF w
    <3>7. /\ project' \in [Projects -> Row \cup {Null}] /\ project'[p] = w
          /\ \A g \in Projects : g # p => project'[g] = project[g]
      BY <1>0, <3>1, <3>6 DEF Inv, TypeInv
    <3>8. RowsInv'
      BY <2>1, <3>4, <3>5, <3>6, <3>7 DEF Inv, RowsInv, Stored
    <3>9. /\ image' \in [Images -> Image \cup {Null}]
          /\ store' \in [Projects -> [Paths -> Publications \cup {Null}]]
          /\ \A s \in Threads : Keeps(thread[s], project, project', image, image', store, store')
      BY <2>1, <3>2, <3>4, <3>6, <3>7 DEF Keeps, Inv, TypeInv
    <3>10. r \in Thread /\ Relies(r, project', image', store')
           /\ thread' = [thread EXCEPT ![t] = r]
      BY <2>1, IdleFacts
    <3> HIDE DEF r
    <3> QED
      BY <3>7, <3>8, <3>9, <3>10, ThreadStep
  <2> QED
    BY <2>3, <2>4
<1> QED
  BY <1>1, <1>2, <1>3, <1>4

----------------------------------------------------------------------------
(* The theorems *)

\* Every statement of a request or of a worker keeps what the others rely on.
THEOREM InvStep == Inv /\ [Next]_vars => Inv'
<1> SUFFICES ASSUME Inv, [Next]_vars PROVE Inv'
  OBVIOUS
<1>1. CASE UNCHANGED vars
  BY <1>1 DEF vars, Inv, TypeInv, RowsInv, ReliesInv
<1>2. ASSUME NEW t \in Requests, Request(t) PROVE Inv'
  <2>1. t \in Threads
    BY DEF Threads
  <2> QED
    BY <1>2, <2>1, StepQuiet, StepRows, StepPublish DEF Request
<1>3. ASSUME NEW w \in Workers, Backfill(w) PROVE Inv'
  <2>1. w \in Threads
    BY DEF Threads
  <2> QED
    BY <1>3, <2>1, StepQuiet, StepRows DEF Backfill
<1> QED
  BY <1>1, <1>2, <1>3 DEF Next

\* A project in the gallery has its report and its images in storage, however many
\* publications fail, race or are overtaken by a deletion.
THEOREM PublishedStoredHolds == Spec => []PublishedStored
<1>1. Inv => PublishedStored
  BY DEF Inv, RowsInv, Stored, PublishedStored, Live
<1> QED
  BY <1>1, InvInit, InvStep, PTL DEF Spec

\* The shape of every variable.
THEOREM TypeOKHolds == Spec => []TypeOK
<1>1. Inv => TypeOK
  BY DEF Inv, TypeInv, TypeOK, Thread, Image
<1> QED
  BY <1>1, InvInit, InvStep, PTL DEF Spec
\* Nobody but its owner changes a project or the set of its images.
THEOREM OwnersOnlyHolds == Spec => OwnersOnly
<1>1. Inv => \A t \in Requests : thread[t].project \in Live =>
                 thread[t].user = project[thread[t].project].owner
  BY DEF Inv, ReliesInv, Relies, KnowsProject, Threads, Live
<1>2. Inv /\ [Next]_vars =>
        [\A t \in Requests : thread[t].project \in Live /\ thread'[t] # thread[t] =>
            LET p == thread[t].project
            IN  project'[p] # project[p] \/ ImagesOf(p)' # ImagesOf(p)
                => thread[t].user = project[p].owner]_vars
  BY <1>1
<1> QED
  BY <1>2, InvInit, InvStep, PTL DEF Spec, OwnersOnly

\* A preview that came with the image is never replaced.
THEOREM PreviewKeptHolds == Spec => PreviewKept
<1>1. ASSUME Inv, [Next]_vars, NEW i \in Rows, image[i].thumb = "external", image'[i] # Null
      PROVE  image'[i].thumb = "external"
  <2> SUFFICES ASSUME image'[i] # image[i] PROVE FALSE
    BY <1>1
  <2>1. i \in Images /\ image[i] # Null
    BY DEF Rows
  <2>2. ASSUME NEW t \in Threads, InsertImage(t) PROVE FALSE
    <3>1. PICK k \in NewImages : \E w : image' = [image EXCEPT ![k] = w]
      BY <2>2 DEF InsertImage
    <3>2. k # i
      BY DEF NewImages
    <3> QED
      BY <1>1, <2>1, <3>1, <3>2 DEF Inv, TypeInv
  <2>3. ASSUME NEW t \in Threads, NEW S, DeleteRows(S) PROVE FALSE
    BY <1>1, <2>1, <2>3 DEF DeleteRows
  <2>4. ASSUME NEW t \in Threads, SavePreview(t) PROVE FALSE
    <3>1. i \in thread[t].rows /\ thread[t].pc = "backfill"
      BY <2>1, <2>4 DEF SavePreview
    <3>2. Previewless(thread[t], image)
      BY <1>1 DEF Inv, ReliesInv, Relies
    <3> QED
      BY <1>1, <2>1, <3>1, <3>2 DEF Previewless
  <2>5. CASE UNCHANGED image
    BY <2>5
  <2>6. ASSUME NEW t \in Requests, Request(t) PROVE FALSE
    <3>1. t \in Threads
      BY DEF Threads
    <3>2. UNCHANGED image \/ InsertImage(t) \/ DeleteImage(t) \/ DeleteProject(t)
      BY <2>6 DEF Request, CountProjects, InsertProject, GetProject, CheckImage, IndexRaises,
         FindImage, NoImageToRemove, LoadCascade, ReceivePublication, PublishFails,
         FindObject, PutObject, SetPublished
    <3> QED
      BY <2>2, <2>3, <2>5, <3>1, <3>2 DEF DeleteImage, DeleteProject
  <2>7. ASSUME NEW w \in Workers, Backfill(w) PROVE FALSE
    <3>1. w \in Threads
      BY DEF Threads
    <3>2. UNCHANGED image \/ SavePreview(w)
      BY <2>7 DEF Backfill, FindPreviewless, NoPreview
    <3> QED
      BY <2>4, <2>5, <3>1, <3>2
  <2> QED
    BY <1>1, <2>5, <2>6, <2>7 DEF Next, vars
<1>2. Inv /\ [Next]_vars =>
        [\A i \in Rows : image[i].thumb = "external" /\ image'[i] # Null
            => image'[i].thumb = "external"]_vars
  BY <1>1
<1> QED
  BY <1>2, InvInit, InvStep, PTL DEF Spec, PreviewKept
----------------------------------------------------------------------------
(* The limits *)

Creating(u) == {t \in Requests : thread[t].pc = "insert_project" /\ thread[t].user = u}
Adding(p) == {t \in Requests : thread[t].pc = "insert_image" /\ thread[t].project = p}

ProjectsCounted ==
    /\ IsFiniteSet(Live)
    /\ \A u \in Users : Cardinality(Unpublished(u)) + Cardinality(Creating(u))
                          < MaxProjects + Cardinality(Requests)

ImagesCounted ==
    /\ IsFiniteSet(Rows)
    /\ \A p \in Live : Cardinality(ImagesOf(p)) + Cardinality(Adding(p))
                         < MaxImages + Cardinality(Requests)

\* A request changes its own state only.  It waits to insert a project after a count,
\* and an image after a check, that found the limit not reached.
LEMMA RequestFrame ==
    ASSUME Inv, ImagesCounted, NEW t \in Requests, Request(t)
    PROVE  /\ \A s \in Threads : s # t => thread'[s] = thread[s]
           /\ thread'[t].pc = "insert_project" =>
                /\ Cardinality(Unpublished(thread'[t].user)) < MaxProjects
                /\ UNCHANGED <<project, image>>
           /\ thread'[t].pc = "insert_image" =>
                /\ Cardinality(ImagesOf(thread'[t].project)) < MaxImages
                /\ UNCHANGED <<project, image>>
<1>0. t \in Threads /\ thread[t] \in Thread /\ thread \in [Threads -> Thread] /\ Idle \in Thread
      /\ Idle.pc = "idle"
  BY IdleFacts DEF Inv, TypeInv, Threads
<1>1. CASE Answer(t)
  BY <1>0, <1>1 DEF Answer
<1>2. ASSUME NEW u \in Users, CountProjects(t, u)
      PROVE  /\ \A s \in Threads : s # t => thread'[s] = thread[s]
             /\ thread'[t].pc = "insert_project" /\ thread'[t].user = u
             /\ Cardinality(Unpublished(u)) < MaxProjects /\ UNCHANGED <<project, image>>
  BY <1>0, <1>2 DEF CountProjects, Thread
<1>3. ASSUME NEW u \in Users, NEW p \in Projects, NEW op \in Endpoints \ {"create"},
             GetProject(t, u, p, op)
      PROVE  /\ \A s \in Threads : s # t => thread'[s] = thread[s]
             /\ thread'[t].pc = op
  BY <1>0, <1>3 DEF GetProject, Thread
<1>4. CASE CheckImage(t) /\ ~Answer(t)
  <2>1. /\ Cardinality(ImagesOf(thread[t].project)) < MaxImages /\ UNCHANGED <<project, image>>
        /\ \E lid \in Lids, thumb \in {"none", "external"} :
             thread' = [thread EXCEPT ![t] = [@ EXCEPT !.pc = "insert_image", !.lid = lid,
                                                       !.thumb = thumb]]
    <3>1. PICK lid \in Lids, thumb \in {"none", "external"} :
            /\ ~(Cardinality(ImagesOf(thread[t].project)) >= MaxImages)
            /\ thread' = [thread EXCEPT ![t] = [@ EXCEPT !.pc = "insert_image", !.lid = lid,
                                                         !.thumb = thumb]]
      BY <1>4 DEF CheckImage
    <3>2. UNCHANGED <<project, image>>
      BY <1>4 DEF CheckImage
    <3>3. Cardinality(ImagesOf(thread[t].project)) \in Nat /\ MaxImages \in Nat
      <4>1. ImagesOf(thread[t].project) \subseteq Rows
        BY DEF ImagesOf
      <4> QED
        BY <4>1, FS_Subset, FS_CardinalityType, ProjectsAssumption DEF ImagesCounted
    <3>4. Cardinality(ImagesOf(thread[t].project)) < MaxImages
      BY <3>1, <3>3
    <3> QED
      BY <3>1, <3>2, <3>4
  <2>2. /\ \A s \in Threads : s # t => thread'[s] = thread[s]
        /\ thread'[t].pc = "insert_image" /\ thread'[t].project = thread[t].project
    BY <1>0, <2>1 DEF Thread
  <2> QED
    BY <2>1, <2>2
<1>5. CASE FindImage(t)
  BY <1>0, <1>5 DEF FindImage, Thread
<1>6. CASE LoadCascade(t)
  BY <1>0, <1>6 DEF LoadCascade, Thread
<1>7. CASE ReceivePublication(t)
  BY <1>0, <1>7 DEF ReceivePublication, Thread
<1>8. CASE FindObject(t)
  BY <1>0, <1>8 DEF FindObject, Goto, Thread
<1>9. CASE PutObject(t)
  BY <1>0, <1>9 DEF PutObject, Thread
<1> QED
  BY <1>1, <1>2, <1>3, <1>4, <1>5, <1>6, <1>7, <1>8, <1>9
     DEF Request, InsertProject, IndexRaises, InsertImage, NoImageToRemove, DeleteImage,
         DeleteProject, PublishFails, SetPublished, Endpoints
\* The sets that are counted are finite.
LEMMA Finite ==
    ASSUME ProjectsCounted, ImagesCounted
    PROVE  /\ \A u : /\ IsFiniteSet(Unpublished(u)) /\ Cardinality(Unpublished(u)) \in Nat
                     /\ IsFiniteSet(Creating(u)) /\ Cardinality(Creating(u)) \in Nat
           /\ \A p : /\ IsFiniteSet(ImagesOf(p)) /\ Cardinality(ImagesOf(p)) \in Nat
                     /\ IsFiniteSet(Adding(p)) /\ Cardinality(Adding(p)) \in Nat
           /\ Cardinality(Requests) \in Nat
<1>1. IsFiniteSet(Live) /\ IsFiniteSet(Rows) /\ IsFiniteSet(Requests)
  BY ProjectsAssumption DEF ProjectsCounted, ImagesCounted
<1>2. \A u : Unpublished(u) \subseteq Live /\ Creating(u) \subseteq Requests
  BY DEF Unpublished, Creating
<1>3. \A p : ImagesOf(p) \subseteq Rows /\ Adding(p) \subseteq Requests
  BY DEF ImagesOf, Adding
<1>4. \A S, T : IsFiniteSet(S) /\ T \subseteq S => IsFiniteSet(T) /\ Cardinality(T) \in Nat
  <2> SUFFICES ASSUME NEW S, NEW T, IsFiniteSet(S), T \subseteq S
               PROVE  IsFiniteSet(T) /\ Cardinality(T) \in Nat
    OBVIOUS
  <2>1. IsFiniteSet(T)
    BY FS_Subset
  <2> QED
    BY <2>1, FS_CardinalityType
<1> QED
  BY <1>1, <1>2, <1>3, <1>4, FS_CardinalityType

LEMMA CountsInit == Init => ProjectsCounted /\ ImagesCounted
<1> SUFFICES ASSUME Init PROVE ProjectsCounted /\ ImagesCounted
  OBVIOUS
<1>1. Live = {} /\ Rows = {}
  BY DEF Init, Live, Rows
<1>2. \A t \in Requests : thread[t].pc = "idle"
  BY DEF Init, Threads, Idle
<1>3. \A u : Unpublished(u) = {} /\ Creating(u) = {}
  BY <1>1, <1>2 DEF Unpublished, Creating
<1>4. IsFiniteSet({}) /\ Cardinality({}) = 0
  BY FS_EmptySet
<1>5. Cardinality(Requests) \in Nat /\ MaxProjects \in Nat /\ MaxProjects > 0
  BY ProjectsAssumption, FS_CardinalityType
<1> QED
  BY <1>1, <1>3, <1>4, <1>5 DEF ProjectsCounted, ImagesCounted

LEMMA ProjectsStep ==
    ASSUME Inv, ProjectsCounted, ImagesCounted, NEW t \in Requests, Request(t)
    PROVE  ProjectsCounted'
<1> DEFINE n == MaxProjects + Cardinality(Requests)
<1>0. /\ n \in Nat /\ MaxProjects \in Nat /\ t \in Threads /\ Requests \subseteq Threads
      /\ \A s \in Threads : s # t => thread'[s] = thread[s]
  BY ProjectsAssumption, Finite, RequestFrame DEF Threads
<1>1. CASE InsertProject(t)
  <2> DEFINE u == thread[t].user
  <2>1. /\ thread[t].pc = "insert_project" /\ thread'[t].pc = "idle"
        /\ \E p \in Projects : project' = [project EXCEPT ![p] =
                 [owner |-> u, published |-> FALSE, comment |-> Null, paths |-> Null]]
    BY <1>0, <1>1, IdleFacts DEF InsertProject, Answer, Inv, TypeInv
  <2>2. PICK p \in Projects : project' = [project EXCEPT ![p] =
                 [owner |-> u, published |-> FALSE, comment |-> Null, paths |-> Null]]
    BY <2>1
  <2>3. Live' \subseteq Live \cup {p}
    BY <2>2 DEF Live, Inv, TypeInv
  <2>4. IsFiniteSet(Live')
    <3>1. IsFiniteSet(Live \cup {p})
      BY FS_AddElement DEF ProjectsCounted
    <3> QED
      BY <2>3, <3>1, FS_Subset
  <2>5. ASSUME NEW v \in Users
        PROVE  Cardinality(Unpublished(v)') + Cardinality(Creating(v)') < n
    <3>1. Cardinality(Unpublished(v)) + Cardinality(Creating(v)) < n
      BY DEF ProjectsCounted
    <3>2. IsFiniteSet(Unpublished(v)) /\ IsFiniteSet(Creating(v))
      BY Finite
    <3>3. CASE v = u
      <4>1. Unpublished(v)' \subseteq Unpublished(v) \cup {p}
        BY <2>2, <2>3 DEF Unpublished, Live, Inv, TypeInv
      <4>2. t \in Creating(v) /\ Creating(v)' \subseteq Creating(v) \ {t}
        BY <1>0, <2>1, <3>3 DEF Creating
      <4> HIDE DEF n
      <4> QED
        BY <1>0, <3>1, <3>2, <4>1, <4>2, OneAdded
    <3>4. CASE v # u
      <4>1. Unpublished(v)' \subseteq Unpublished(v)
        BY <2>2, <2>3, <3>4 DEF Unpublished, Live, Inv, TypeInv
      <4>2. Creating(v)' \subseteq Creating(v)
        BY <1>0, <2>1 DEF Creating
      <4> HIDE DEF n
      <4> QED
        BY <1>0, <3>1, <3>2, <4>1, <4>2, NoneAdded
    <3> QED
      BY <3>3, <3>4
  <2> QED
    BY <2>4, <2>5 DEF ProjectsCounted
<1>2. CASE thread'[t].pc = "insert_project"
  <2> DEFINE u == thread'[t].user
  <2>1. UNCHANGED <<project, image>> /\ Cardinality(Unpublished(u)) < MaxProjects
    BY <1>2, RequestFrame
  <2>2. Live' = Live /\ \A v \in Users : Unpublished(v)' = Unpublished(v)
    BY <2>1 DEF Live, Unpublished
  <2>3. ASSUME NEW v \in Users
        PROVE  Cardinality(Unpublished(v)') + Cardinality(Creating(v)') < n
    <3>1. CASE v = u
      <4>1. Cardinality(Unpublished(v)) \in Nat /\ Cardinality(Unpublished(v)) < MaxProjects
        BY <2>1, <3>1, Finite
      <4>2. Creating(v)' \subseteq Requests
        BY DEF Creating
      <4> QED
        BY <1>0, <2>2, <4>1, <4>2, ProjectsAssumption, BelowLimit
    <3>2. CASE v # u
      <4>1. Creating(v)' \subseteq Creating(v)
        BY <1>0, <3>2 DEF Creating
      <4>2. Cardinality(Unpublished(v)) + Cardinality(Creating(v)) < n
        BY DEF ProjectsCounted
      <4>3. IsFiniteSet(Unpublished(v)) /\ IsFiniteSet(Creating(v))
        BY Finite
      <4> HIDE DEF n
      <4> QED
        BY <1>0, <2>2, <4>1, <4>2, <4>3, NoneAdded
    <3> QED
      BY <3>1, <3>2
  <2> QED
    BY <2>2, <2>3 DEF ProjectsCounted
<1>3. CASE ~InsertProject(t) /\ thread'[t].pc # "insert_project"
  <2>1. \A p \in Projects : project'[p] # Null =>
          /\ project[p] # Null /\ project'[p].owner = project[p].owner
          /\ project'[p].published = FALSE => project[p].published = FALSE
    <3>1. CASE DeleteProject(t)
      BY <3>1 DEF DeleteProject, Inv, TypeInv
    <3>2. CASE SetPublished(t)
      BY <3>2 DEF SetPublished, Live, Inv, TypeInv, Row
    <3>3. CASE UNCHANGED project
      BY <3>3
    <3> QED
      BY <1>3, <3>1, <3>2, <3>3
         DEF Request, CountProjects, GetProject, CheckImage, IndexRaises, InsertImage,
         FindImage, NoImageToRemove, DeleteImage, LoadCascade, ReceivePublication,
         PublishFails, FindObject, PutObject
  <2>2. Live' \subseteq Live
    BY <2>1 DEF Live
  <2>3. ASSUME NEW v \in Users
        PROVE  Cardinality(Unpublished(v)') + Cardinality(Creating(v)') < n
    <3>1. Unpublished(v)' \subseteq Unpublished(v)
      BY <2>1, <2>2 DEF Unpublished, Live, Inv, TypeInv, Row
    <3>2. Creating(v)' \subseteq Creating(v)
      BY <1>0, <1>3 DEF Creating
    <3>3. Cardinality(Unpublished(v)) + Cardinality(Creating(v)) < n
      BY DEF ProjectsCounted
    <3>4. IsFiniteSet(Unpublished(v)) /\ IsFiniteSet(Creating(v))
      BY Finite
    <3> HIDE DEF n
    <3> QED
      BY <1>0, <3>1, <3>2, <3>3, <3>4, NoneAdded
  <2>4. IsFiniteSet(Live')
    BY <2>2, FS_Subset DEF ProjectsCounted
  <2> QED
    BY <2>3, <2>4 DEF ProjectsCounted
<1> QED
  BY <1>1, <1>2, <1>3
LEMMA ImagesStep ==
    ASSUME Inv, ProjectsCounted, ImagesCounted, NEW t \in Requests, Request(t)
    PROVE  ImagesCounted'
<1> DEFINE n == MaxImages + Cardinality(Requests)
<1>0. /\ n \in Nat /\ MaxImages \in Nat /\ MaxImages > 0 /\ Cardinality(Requests) \in Nat
      /\ t \in Threads /\ Requests \subseteq Threads
      /\ \A s \in Threads : s # t => thread'[s] = thread[s]
  BY ProjectsAssumption, Finite, RequestFrame DEF Threads
<1>1. CASE InsertImage(t)
  <2> DEFINE g == thread[t].project
  <2>1. PICK i \in NewImages : image' = [image EXCEPT ![i] =
            [project |-> g, lid |-> thread[t].lid, thumb |-> thread[t].thumb]]
    BY <1>1 DEF InsertImage
  <2>2. /\ thread[t].pc = "insert_image" /\ thread'[t].pc = "idle" /\ UNCHANGED project
    BY <1>0, <1>1, IdleFacts DEF InsertImage, Answer, Inv, TypeInv
  <2>3. i \in Images /\ Rows' \subseteq Rows \cup {i} /\ Live' = Live
    BY <2>1, <2>2 DEF NewImages, Rows, Live, Inv, TypeInv
  <2>4. IsFiniteSet(Rows')
    <3>1. IsFiniteSet(Rows \cup {i})
      BY FS_AddElement DEF ImagesCounted
    <3> QED
      BY <2>3, <3>1, FS_Subset
  <2>5. ASSUME NEW p \in Live
        PROVE  Cardinality(ImagesOf(p)') + Cardinality(Adding(p)') < n
    <3>1. Cardinality(ImagesOf(p)) + Cardinality(Adding(p)) < n
      BY DEF ImagesCounted
    <3>2. IsFiniteSet(ImagesOf(p)) /\ IsFiniteSet(Adding(p))
      BY Finite
    <3>3. CASE p = g
      <4>1. ImagesOf(p)' \subseteq ImagesOf(p) \cup {i}
        BY <2>1, <2>3 DEF ImagesOf, Rows, Inv, TypeInv
      <4>2. t \in Adding(p) /\ Adding(p)' \subseteq Adding(p) \ {t}
        BY <1>0, <2>2, <3>3 DEF Adding
      <4> HIDE DEF n
      <4> QED
        BY <1>0, <3>1, <3>2, <4>1, <4>2, OneAdded
    <3>4. CASE p # g
      <4>1. ImagesOf(p)' \subseteq ImagesOf(p)
        BY <2>1, <2>3, <3>4 DEF ImagesOf, Rows, Inv, TypeInv
      <4>2. Adding(p)' \subseteq Adding(p)
        BY <1>0, <2>2 DEF Adding
      <4> HIDE DEF n
      <4> QED
        BY <1>0, <3>1, <3>2, <4>1, <4>2, NoneAdded
    <3> QED
      BY <3>3, <3>4
  <2> QED
    BY <2>3, <2>4, <2>5 DEF ImagesCounted
<1>2. CASE thread'[t].pc = "insert_image"
  <2> DEFINE g == thread'[t].project
  <2>1. UNCHANGED <<project, image>> /\ Cardinality(ImagesOf(g)) < MaxImages
    BY <1>2, RequestFrame
  <2>2. Live' = Live /\ Rows' = Rows /\ \A p : ImagesOf(p)' = ImagesOf(p)
    BY <2>1 DEF Live, Rows, ImagesOf
  <2>3. ASSUME NEW p \in Live
        PROVE  Cardinality(ImagesOf(p)') + Cardinality(Adding(p)') < n
    <3>1. CASE p = g
      <4>1. Cardinality(ImagesOf(p)) \in Nat /\ Cardinality(ImagesOf(p)) < MaxImages
        BY <2>1, <3>1, Finite
      <4>2. Adding(p)' \subseteq Requests
        BY DEF Adding
      <4> QED
        BY <1>0, <2>2, <4>1, <4>2, ProjectsAssumption, BelowLimit
    <3>2. CASE p # g
      <4>1. Adding(p)' \subseteq Adding(p)
        BY <1>0, <3>2 DEF Adding
      <4>2. Cardinality(ImagesOf(p)) + Cardinality(Adding(p)) < n
        BY DEF ImagesCounted
      <4>3. IsFiniteSet(ImagesOf(p)) /\ IsFiniteSet(Adding(p))
        BY Finite
      <4> HIDE DEF n
      <4> QED
        BY <1>0, <2>2, <4>1, <4>2, <4>3, NoneAdded
    <3> QED
      BY <3>1, <3>2
  <2> QED
    BY <2>2, <2>3 DEF ImagesCounted
<1>3. CASE ~InsertImage(t) /\ thread'[t].pc # "insert_image"
  <2>1. \A i \in Images : image'[i] # Null => image'[i] = image[i]
    <3>1. CASE DeleteImage(t) \/ DeleteProject(t)
      BY <3>1 DEF DeleteImage, DeleteProject, DeleteRows
    <3>2. CASE UNCHANGED image
      BY <3>2
    <3> QED
      BY <1>3, <3>1, <3>2
         DEF Request, CountProjects, InsertProject, GetProject, CheckImage, IndexRaises,
         FindImage, NoImageToRemove, LoadCascade, ReceivePublication, PublishFails,
         FindObject, PutObject, SetPublished
  <2>2. Rows' \subseteq Rows /\ \A p : ImagesOf(p)' \subseteq ImagesOf(p)
    BY <2>1 DEF Rows, ImagesOf
  <2>3. \A p \in Live' : p \in Live \/ NewProject(p)
    <3>1. CASE InsertProject(t)
      BY <3>1 DEF InsertProject, Live, Inv, TypeInv
    <3>2. CASE DeleteProject(t) \/ UNCHANGED project
      BY <3>2 DEF DeleteProject, Live, Inv, TypeInv
    <3>3. CASE SetPublished(t)
      BY <3>3 DEF SetPublished, Live, Inv, TypeInv
    <3> QED
      BY <3>1, <3>2, <3>3
         DEF Request, CountProjects, GetProject, CheckImage, IndexRaises, InsertImage,
         FindImage, NoImageToRemove, DeleteImage, LoadCascade, ReceivePublication,
         PublishFails, FindObject, PutObject
  <2>4. \A p : Adding(p)' \subseteq Adding(p)
    BY <1>0, <1>3 DEF Adding
  <2>5. ASSUME NEW p \in Live'
        PROVE  Cardinality(ImagesOf(p)') + Cardinality(Adding(p)') < n
    <3>1. IsFiniteSet(ImagesOf(p)) /\ IsFiniteSet(Adding(p))
      BY Finite
    <3>2. CASE p \in Live
      <4>1. Cardinality(ImagesOf(p)) + Cardinality(Adding(p)) < n
        BY <3>2 DEF ImagesCounted
      <4> HIDE DEF n
      <4> QED
        BY <1>0, <2>2, <2>4, <3>1, <4>1, NoneAdded
    <3>3. CASE NewProject(p)
      <4>1. ImagesOf(p) = {} /\ Adding(p) = {}
        BY <1>0, <3>3 DEF NewProject, Adding
      <4>2. ImagesOf(p)' = {} /\ Adding(p)' = {}
        BY <2>2, <2>4, <4>1
      <4> QED
        BY <1>0, <4>2, FS_EmptySet
    <3> QED
      BY <2>3, <3>2, <3>3
  <2>6. IsFiniteSet(Rows')
    BY <2>2, FS_Subset DEF ImagesCounted
  <2> QED
    BY <2>5, <2>6 DEF ImagesCounted
<1> QED
  BY <1>1, <1>2, <1>3

LEMMA CountsStep ==
    ASSUME Inv, ProjectsCounted, ImagesCounted, [Next]_vars
    PROVE  ProjectsCounted' /\ ImagesCounted'
<1>1. CASE UNCHANGED vars
  BY <1>1 DEF vars, ProjectsCounted, ImagesCounted, Live, Rows, Unpublished, ImagesOf, Creating, Adding
<1>2. CASE \E t \in Requests : Request(t)
  BY <1>2, ProjectsStep, ImagesStep
<1>3. ASSUME NEW w \in Workers, Backfill(w) PROVE ProjectsCounted' /\ ImagesCounted'
  <2>1. /\ UNCHANGED project
        /\ \A i \in Images : image'[i] # Null =>
             image[i] # Null /\ image'[i].project = image[i].project
    BY <1>3 DEF Backfill, FindPreviewless, SavePreview, NoPreview, Inv, TypeInv, Image
  <2>2. Rows' \subseteq Rows /\ \A p : ImagesOf(p)' \subseteq ImagesOf(p)
    BY <2>1 DEF Rows, ImagesOf
  <2>3. /\ Live' = Live /\ \A u : Unpublished(u)' = Unpublished(u)
    BY <2>1 DEF Live, Unpublished
  <2>4. w \in Threads /\ Requests \subseteq Threads /\ \A s \in Threads : s # w => thread'[s] = thread[s]
    BY <1>3 DEF Backfill, FindPreviewless, SavePreview, NoPreview, Answer, Threads, Inv, TypeInv
  <2>5. thread'[w].pc \in {"idle", "backfill"}
    <3>1. thread \in [Threads -> Thread] /\ Idle \in Thread /\ Idle.pc = "idle"
      BY IdleFacts DEF Inv, TypeInv
    <3>2. CASE Answer(w)
      BY <2>4, <3>1, <3>2 DEF Answer
    <3>3. ASSUME NEW p \in Projects, NEW lid \in Lids, FindPreviewless(w, p, lid)
          PROVE  thread'[w].pc = "backfill"
      BY <2>4, <3>1, <3>3 DEF FindPreviewless, Thread
    <3> QED
      BY <1>3, <3>2, <3>3 DEF Backfill, SavePreview, NoPreview
  <2>6. \A u : Creating(u)' \subseteq Creating(u) /\ Adding(u)' \subseteq Adding(u)
    BY <2>4, <2>5 DEF Creating, Adding
  <2>7. IsFiniteSet(Rows') /\ IsFiniteSet(Live')
    BY <2>2, <2>3, FS_Subset DEF ProjectsCounted, ImagesCounted
  <2>8. MaxProjects + Cardinality(Requests) \in Nat /\ MaxImages + Cardinality(Requests) \in Nat
    BY Finite, ProjectsAssumption
  <2>9. ASSUME NEW u \in Users
        PROVE  Cardinality(Unpublished(u)') + Cardinality(Creating(u)')
                 < MaxProjects + Cardinality(Requests)
    BY <2>3, <2>6, <2>8, Finite, NoneAdded DEF ProjectsCounted
  <2>10. ASSUME NEW p \in Live
         PROVE  Cardinality(ImagesOf(p)') + Cardinality(Adding(p)')
                  < MaxImages + Cardinality(Requests)
    BY <2>2, <2>6, <2>8, Finite, NoneAdded DEF ImagesCounted
  <2> QED
    BY <2>3, <2>7, <2>9, <2>10 DEF ProjectsCounted, ImagesCounted
<1> QED
  BY <1>1, <1>2, <1>3 DEF Next

\* The limits are passed by no more than the requests between count and insert.
THEOREM LimitsBoundedHolds == Spec => []LimitsBounded
<1>1. ProjectsCounted /\ ImagesCounted => LimitsBounded
  BY DEF ProjectsCounted, ImagesCounted, LimitsBounded, Creating, Adding
<1>2. Init => Inv /\ ProjectsCounted /\ ImagesCounted
  BY InvInit, CountsInit
<1>3. Inv /\ ProjectsCounted /\ ImagesCounted /\ [Next]_vars
        => (Inv /\ ProjectsCounted /\ ImagesCounted)'
  BY InvStep, CountsStep
<1> QED
  BY <1>1, <1>2, <1>3, PTL DEF Spec

=============================================================================

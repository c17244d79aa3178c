------------------------------ MODULE Projects ------------------------------
(***************************************************************************)
(* Projects, their images and their publication (orchtr/routers/projects.py *)
(* with orchtr/models.py), and the workers that give an image without a     *)
(* preview a generated one (orchtr/services/project_preview.py).            *)
(*                                                                         *)
(* The handlers are plain functions, which FastAPI runs on a pool of        *)
(* threads.  A handler reads the project, then decides, then calls other    *)
(* services, then commits; each of these is an action, since nothing keeps  *)
(* what was read from changing before it is used.  A request that is        *)
(* refused on its first query (404) changes nothing and has no action.      *)
(***************************************************************************)
EXTENDS Naturals, Sequences, FiniteSets, SequencesExt

CONSTANTS
    Projects,       \* the UUIDs of projects
    Images,         \* the UUIDs of rows of project_images
    Users,
    Lids,
    Requests,       \* threads of the HTTP pool
    Workers,        \* image workers, which call backfill_generated_preview
    MaxProjects,    \* _MAX_PROJECTS
    MaxImages,      \* _MAX_IMAGES
    Publications,   \* what a user may send to publish: a report and a comment
    Attached,       \* Attached[b]: the paths of the images sent with it
    Operations,     \* the endpoints in use
    Null

Endpoints == {"create", "add_image", "remove_image", "delete", "publish"}

ASSUME ProjectsAssumption ==
    /\ MaxProjects \in Nat \ {0}
    /\ MaxImages \in Nat \ {0}
    /\ Operations \subseteq Endpoints
    /\ IsFiniteSet(Requests)
    /\ \A b \in Publications : Attached[b] \in Seq(STRING) /\ Attached[b] # Null
    /\ Null \notin Projects \cup Images \cup Users \cup Lids \cup Publications

VARIABLES
    project,    \* the table projects: project[p] is a row, or Null
    image,      \* the table project_images: image[i] is a row, or Null
    store,      \* store[p][path]: whose object is at published/{p}/{path}
    thread      \* the requests and workers that are running

vars == <<project, image, store, thread>>

Threads == Requests \cup Workers
Paths == {"report"} \cup UNION {ToSet(Attached[b]) : b \in Publications}

\* The preview of an image: none, the URL sent with it, or a transformed image.
Thumbs == {"none", "external", "generated"}

Idle == [pc |-> "idle", user |-> Null, project |-> Null, lid |-> Null, thumb |-> "none",
         rows |-> {}, read |-> Null, pub |-> Null, todo |-> <<>>]

Init ==
    /\ project = [p \in Projects |-> Null]
    /\ image = [i \in Images |-> Null]
    /\ store = [p \in Projects |-> [q \in Paths |-> Null]]
    /\ thread = [t \in Threads |-> Idle]

Goto(t, pc) == thread' = [thread EXCEPT ![t].pc = pc]
Answer(t) == thread' = [thread EXCEPT ![t] = Idle]

Live == {p \in Projects : project[p] # Null}
Rows == {i \in Images : image[i] # Null}
ImagesOf(p) == {i \in Rows : image[i].project = p}
Unpublished(u) == {p \in Live : project[p].owner = u /\ ~project[p].published}

\* Definitions named Mutant... are wrong variants of the definition they precede;
\* no specification uses them.  Each shows that a property can fail.

\* The project is looked up by its id only.
MutantGetProject(t, u, p, op) ==
    /\ thread[t].pc = "idle"
    /\ op \in Operations
    /\ p \in Live
    /\ thread' = [thread EXCEPT ![t] = [Idle EXCEPT !.pc = op, !.user = u, !.project = p,
                                                    !.read = IF op = "publish" THEN project[p]
                                                             ELSE Null]]
    /\ UNCHANGED <<project, image, store>>

\* _get_project_or_404, with which every request about one project begins.  The
\* session keeps the row; only a publication uses it again.
GetProject(t, u, p, op) ==
    /\ thread[t].pc = "idle"
    /\ op \in Operations
    /\ p \in Live /\ project[p].owner = u
    /\ thread' = [thread EXCEPT ![t] = [Idle EXCEPT !.pc = op, !.user = u, !.project = p,
                                                    !.read = IF op = "publish" THEN project[p]
                                                             ELSE Null]]
    /\ UNCHANGED <<project, image, store>>

----------------------------------------------------------------------------
(* create_project *)

CountProjects(t, u) ==
    /\ thread[t].pc = "idle"
    /\ "create" \in Operations
    /\ Cardinality(Unpublished(u)) < MaxProjects
    /\ thread' = [thread EXCEPT ![t] = [Idle EXCEPT !.pc = "insert_project", !.user = u]]
    /\ UNCHANGED <<project, image, store>>

\* A UUID is new: no row, thread or object has it.
NewProject(p) ==
    /\ p \notin Live /\ ImagesOf(p) = {}
    /\ \A t \in Threads : thread[t].project # p
    /\ \A q \in Paths : store[p][q] = Null

InsertProject(t) ==
    /\ thread[t].pc = "insert_project"
    /\ \E p \in Projects :
         /\ NewProject(p)
         /\ project' = [project EXCEPT ![p] = [owner |-> thread[t].user, published |-> FALSE,
                                               comment |-> Null, paths |-> Null]]
    /\ Answer(t)
    /\ UNCHANGED <<image, store>>

----------------------------------------------------------------------------
(* add_image and remove_image *)

\* A duplicate is looked for, the limit is not.
MutantCheckImage(t) ==
    /\ thread[t].pc = "add_image"
    /\ \E lid \in Lids, thumb \in {"none", "external"} :
         IF \E i \in ImagesOf(thread[t].project) : image[i].lid = lid
         THEN Answer(t)
         ELSE thread' = [thread EXCEPT ![t] = [@ EXCEPT !.pc = "insert_image", !.lid = lid,
                                                        !.thumb = thumb]]
    /\ UNCHANGED <<project, image, store>>

\* The limit, then the duplicate; index_product follows, a slow call whose
\* error becomes a warning in the answer.
CheckImage(t) ==
    /\ thread[t].pc = "add_image"
    /\ \E lid \in Lids, thumb \in {"none", "external"} :
         LET present == ImagesOf(thread[t].project)
         IN  IF \/ Cardinality(present) >= MaxImages
                \/ \E i \in present : image[i].lid = lid
             THEN Answer(t)
             ELSE thread' = [thread EXCEPT ![t] = [@ EXCEPT !.pc = "insert_image",
                                                            !.lid = lid, !.thumb = thumb]]
    /\ UNCHANGED <<project, image, store>>

NewImages == Images \ (Rows \cup UNION {thread[t].rows : t \in Threads})

\* SQLite does not enforce the foreign key: the project may be gone.
InsertImage(t) ==
    /\ thread[t].pc = "insert_image"
    /\ \E i \in NewImages :
         image' = [image EXCEPT ![i] = [project |-> thread[t].project, lid |-> thread[t].lid,
                                        thumb |-> thread[t].thumb]]
    /\ Answer(t)
    /\ UNCHANGED <<project, store>>

\* index_product lets through an exception that is not a RuntimeError.
IndexRaises(t) ==
    /\ thread[t].pc = "insert_image" /\ thread[t].thumb = "external"
    /\ Answer(t)
    /\ UNCHANGED <<project, image, store>>

FindImage(t) ==
    /\ thread[t].pc = "remove_image"
    /\ \E i \in ImagesOf(thread[t].project) :
         thread' = [thread EXCEPT ![t] = [@ EXCEPT !.pc = "delete_image", !.rows = {i}]]
    /\ UNCHANGED <<project, image, store>>

NoImageToRemove(t) ==
    /\ thread[t].pc = "remove_image"
    /\ \E lid \in Lids : \A i \in ImagesOf(thread[t].project) : image[i].lid # lid
    /\ Answer(t)
    /\ UNCHANGED <<project, image, store>>

\* Without a cascade SQLAlchemy sets the foreign key to NULL.
MutantDeleteRows(S) ==
    image' = [i \in Images |-> IF i \in S \cap Rows
                               THEN [image[i] EXCEPT !.project = Null] ELSE image[i]]

\* A DELETE that matches no row is a warning of SQLAlchemy.
DeleteRows(S) == image' = [i \in Images |-> IF i \in S THEN Null ELSE image[i]]

DeleteImage(t) ==
    /\ thread[t].pc = "delete_image"
    /\ DeleteRows(thread[t].rows)
    /\ Answer(t)
    /\ UNCHANGED <<project, store>>

----------------------------------------------------------------------------
(* delete_project *)

\* db.delete loads the images, for cascade="all, delete-orphan".
LoadCascade(t) ==
    /\ thread[t].pc = "delete"
    /\ thread' = [thread EXCEPT ![t] = [@ EXCEPT !.pc = "delete_project",
                                                 !.rows = ImagesOf(thread[t].project)]]
    /\ UNCHANGED <<project, image, store>>

DeleteProject(t) ==
    /\ thread[t].pc = "delete_project"
    /\ DeleteRows(thread[t].rows)
    /\ project' = [project EXCEPT ![thread[t].project] = Null]
    /\ Answer(t)
    /\ UNCHANGED store

----------------------------------------------------------------------------
(* publish_project *)

\* The form is valid and the report downloaded.
ReceivePublication(t) ==
    /\ thread[t].pc = "publish"
    /\ \E b \in Publications :
         thread' = [thread EXCEPT ![t] = [@ EXCEPT !.pc = "upload", !.pub = b,
                                                   !.todo = <<"report">> \o Attached[b]]]
    /\ UNCHANGED <<project, image, store>>

\* A form that is refused, a report that cannot be downloaded, an upload or a
\* look into storage that raises.
PublishFails(t) ==
    /\ thread[t].pc \in {"publish", "upload", "put"}
    /\ Answer(t)
    /\ UNCHANGED <<project, image, store>>

ObjectAt(t) == store[thread[t].project][Head(thread[t].todo)]

\* upload_bytes passes over an object that exists.
FindObject(t) ==
    /\ thread[t].pc = "upload" /\ thread[t].todo # <<>>
    /\ IF ObjectAt(t) = Null
       THEN Goto(t, "put")
       ELSE thread' = [thread EXCEPT ![t].todo = Tail(@)]
    /\ UNCHANGED <<project, image, store>>

PutObject(t) ==
    /\ thread[t].pc = "put"
    /\ store' = [store EXCEPT ![thread[t].project][Head(thread[t].todo)] = thread[t].pub]
    /\ thread' = [thread EXCEPT ![t] = [@ EXCEPT !.pc = "upload", !.todo = Tail(thread[t].todo)]]
    /\ UNCHANGED <<project, image>>

\* The columns are set before the images are uploaded.
MutantSetPublished(t) ==
    /\ thread[t].pc = "upload" /\ Len(thread[t].todo) <= 1
    /\ LET p == thread[t].project
           b == thread[t].pub
       IN  project' = IF p \notin Live THEN project
                      ELSE [project EXCEPT ![p] = [@ EXCEPT !.published = TRUE, !.comment = b,
                                                            !.paths = Attached[b]]]
    /\ Answer(t)
    /\ UNCHANGED <<image, store>>

\* The commit: the update writes the columns that differ from the row read, and
\* raises StaleDataError when it matches no row.
SetPublished(t) ==
    /\ thread[t].pc = "upload" /\ thread[t].todo = <<>>
    /\ LET p == thread[t].project
           b == thread[t].pub
           read == thread[t].read
           now == project[p]
       IN  project' = IF p \notin Live THEN project
                      ELSE [project EXCEPT ![p] = [now EXCEPT !.published = TRUE,
                              !.comment = IF b = read.comment THEN now.comment ELSE b,
                              !.paths = IF Attached[b] = read.paths THEN now.paths
                                        ELSE Attached[b]]]
    /\ Answer(t)
    /\ UNCHANGED <<image, store>>

----------------------------------------------------------------------------
(* backfill_generated_preview *)

\* Whether the image has a preview is not looked at.
MutantFindPreviewless(w, p, lid) ==
    /\ thread[w].pc = "idle"
    /\ \E i \in ImagesOf(p) :
         /\ image[i].lid = lid
         /\ thread' = [thread EXCEPT ![w] = [Idle EXCEPT !.pc = "backfill", !.rows = {i}]]
    /\ UNCHANGED <<project, image, store>>

\* The first row of the lid, whichever the database returns, has no preview.
FindPreviewless(w, p, lid) ==
    /\ thread[w].pc = "idle"
    /\ \E i \in ImagesOf(p) :
         /\ image[i].lid = lid
         /\ image[i].thumb = "none"
         /\ thread' = [thread EXCEPT ![w] = [Idle EXCEPT !.pc = "backfill", !.rows = {i}]]
    /\ UNCHANGED <<project, image, store>>

\* The preview was found, downloaded and indexed; an update of a row that is
\* gone raises StaleDataError, which the worker logs.
SavePreview(w) ==
    /\ thread[w].pc = "backfill"
    /\ image' = [i \in Images |-> IF i \in thread[w].rows /\ image[i] # Null
                                  THEN [image[i] EXCEPT !.thumb = "generated"] ELSE image[i]]
    /\ Answer(w)
    /\ UNCHANGED <<project, store>>

\* There is no preview, or a call for it raises.
NoPreview(w) ==
    /\ thread[w].pc = "backfill"
    /\ Answer(w)
    /\ UNCHANGED <<project, image, store>>

----------------------------------------------------------------------------

Request(t) ==
    \/ \E u \in Users : CountProjects(t, u)
    \/ InsertProject(t)
    \/ \E u \in Users, p \in Projects, op \in Endpoints \ {"create"} : GetProject(t, u, p, op)
    \/ CheckImage(t) \/ IndexRaises(t) \/ InsertImage(t)
    \/ FindImage(t) \/ NoImageToRemove(t) \/ DeleteImage(t)
    \/ LoadCascade(t) \/ DeleteProject(t)
    \/ ReceivePublication(t) \/ PublishFails(t) \/ FindObject(t) \/ PutObject(t) \/ SetPublished(t)

Backfill(w) ==
    \/ \E p \in Projects, lid \in Lids : FindPreviewless(w, p, lid)
    \/ SavePreview(w) \/ NoPreview(w)

Next == (\E t \in Requests : Request(t)) \/ (\E w \in Workers : Backfill(w))

Spec == Init /\ [][Next]_vars

----------------------------------------------------------------------------
(* Properties *)

Row == [owner : Users, published : BOOLEAN, comment : Publications \cup {Null},
        paths : {Attached[b] : b \in Publications} \cup {Null}]

\* The shape of every variable.
TypeOK ==
    /\ project \in [Projects -> Row \cup {Null}]
    /\ image \in [Images -> [project : Projects, lid : Lids, thumb : Thumbs] \cup {Null}]
    /\ store \in [Projects -> [Paths -> Publications \cup {Null}]]
    /\ \A t \in Threads : thread[t].rows \subseteq Images

\* The limits of a user's unpublished projects (projects.py:202) and of the images
\* of a project (projects.py:404) are passed by no more than the requests that can
\* be between the count and the insert.
LimitsBounded ==
    /\ \A u \in Users :
         Cardinality(Unpublished(u))
           + Cardinality({t \in Requests : thread[t].pc = "insert_project" /\ thread[t].user = u})
         < MaxProjects + Cardinality(Requests)
    /\ \A p \in Live :
         Cardinality(ImagesOf(p))
           + Cardinality({t \in Requests : thread[t].pc = "insert_image" /\ thread[t].project = p})
         < MaxImages + Cardinality(Requests)

\* A project in the gallery has its report and its images in storage, whatever
\* publications fail or run at once: the columns are set after the uploads.
PublishedStored ==
    \A p \in Live : project[p].published =>
        \A q \in {"report"} \cup ToSet(project[p].paths) : store[p][q] # Null

\* A request changes a project, or the set of its images, for the owner only
\* (projects.py:46): nothing between the lookup and the commit looks again.
OwnersOnly ==
    [][\A t \in Requests : thread[t].project \in Live /\ thread'[t] # thread[t] =>
          LET p == thread[t].project
          IN  project'[p] # project[p] \/ ImagesOf(p)' # ImagesOf(p)
              => thread[t].user = project[p].owner]_vars

\* A generated preview never replaces one the user gave (project_preview.py:32),
\* although it is saved long after the row was read.
PreviewKept ==
    [][\A i \in Rows : image[i].thumb = "external" /\ image'[i] # Null
          => image'[i].thumb = "external"]_vars

----------------------------------------------------------------------------
(* Claims that requests one after the other keep and two at once do not: the *)
(* README quotes them and says what breaks each.                            *)

\* "You can't create more than 3 not published projects": of one user.
DraftLimitKept == \A u \in Users : Cardinality(Unpublished(u)) <= MaxProjects

\* "Image already in project".
NoDuplicateLid ==
    \A i, k \in Rows : image[i].project = image[k].project /\ image[i].lid = image[k].lid => i = k

\* Every image has its project: the foreign key of models.py:36, and the
\* cascade of models.py:26, which nothing but the handlers enforces.
NoOrphanImages == \A i \in Rows : image[i].project \in Live

\* The report in the gallery is the one that came with the comment beside it.
ReportIsTheOneSent ==
    \A p \in Live : project[p].published => store[p]["report"] = project[p].comment

=============================================================================

------------------------------ MODULE Ingestion ------------------------------
(***************************************************************************)
(* Upload, background indexing and deletion of a project, for one user.    *)
(*                                                                         *)
(* The backend is deployed as up to three Cloud Run instances, each one    *)
(* uvicorn worker.  An instance has one event loop, which runs the         *)
(* coroutines, and a thread pool, which runs the plain "def" handlers.     *)
(* The background task of an upload never suspends, so it holds its event  *)
(* loop from its first step to its last; the thread pool of the same       *)
(* instance and both parts of the other instances go on meanwhile.         *)
(* Firestore and Qdrant are shared by all instances, a StructuredIndex     *)
(* lives in the memory of one.                                             *)
(*                                                                         *)
(* Every Firestore write of the code is a step of its own.  It succeeds,   *)
(* or it raises: "lost" if the write was not applied, "late" if it was     *)
(* applied and only the answer did not arrive.                             *)
(***************************************************************************)
EXTENDS Naturals, FiniteSets

CONSTANTS
    Instances,      \* the processes of the deployment
    Jobs,           \* identities of upload requests (a fresh uuid each)
    Deletes,        \* identities of DELETE /projects/{id} requests
    Projects,       \* project ids, without the undeletable "default"
    Names,          \* file names an upload may carry
    LogicFiles,     \* names ending in .l5x
    SheetFiles,     \* names ending in .xlsx or .xls
    TableFiles,     \* names ending in .csv
    TextFiles,      \* names ending in .pdf, .txt or .md
    NoJob, NoFile,  \* absence markers
    VectorStore,    \* whether a Qdrant server is configured
    MaxUpload,      \* bound on the files of one request
    MaxCrashes,     \* bound on instance terminations
    MaxFaults       \* bound on Firestore writes that raise

ASSUME KindsAssumption ==
    /\ LogicFiles \subseteq Names
    /\ SheetFiles \subseteq Names
    /\ TableFiles \subseteq Names
    /\ TextFiles \subseteq Names
ASSUME MarkersAssumption == NoJob \notin Jobs /\ NoFile \notin Names
ASSUME StoreAssumption == VectorStore \in BOOLEAN
ASSUME BoundsAssumption ==
    MaxUpload \in Nat /\ MaxCrashes \in Nat /\ MaxFaults \in Nat

VARIABLES
    \* Firestore
    jobStatus,  \* users/{uid}/ingest_jobs/{job}: status, "none" without document
    progress,   \* ... and the files counted in its "k/n files indexed"
    project,    \* users/{uid}/projects/{id}: index_status, "none" without document
    named,      \* ... and whether the document has a name
    fileDocs,   \* users/{uid}/project_files, <<job, name, has embeddings>>
    telDocs,    \* users/{uid}/telemetry_datasets, <<job, name>>
    \* Qdrant
    vectors,    \* names whose chunks are in the collection indusai_{uid}
    \* memory of an instance
    structured, \* [i, p]: names whose tags and rows are in p's index on i
    loop,       \* the background task that holds the event loop, or NoJob
    \* one upload request and its background task
    pc, inst, proj, saved, todo, cur, embedded,
    \* one delete request
    delPc, delInst, delProj,
    \* history: what the environment has done
    crashes, faults,
    faulted,    \* projects one of whose tasks crashed or met a write that raised
    raced       \* projects deleted while one of their tasks was running

jobVars  == <<jobStatus, progress>>
projVars == <<project, named>>
docVars  == <<jobStatus, progress, project, named, fileDocs, telDocs>>
taskVars == <<inst, proj, saved, todo, cur, embedded>>
delVars  == <<delPc, delInst, delProj>>
envVars  == <<crashes, faults, faulted, raced>>
vars == <<jobStatus, progress, project, named, fileDocs, telDocs, vectors,
          structured, loop, pc, inst, proj, saved, todo, cur, embedded, delPc,
          delInst, delProj, crashes, faults, faulted, raced>>

----------------------------------------------------------------------------
Structured == LogicFiles \cup SheetFiles
Supported  == Structured \cup TableFiles \cup TextFiles

\* The points of _run_ingestion_task between two of its external effects.
Registered == {"telemetry", "start", "progress", "parse", "sheet", "embed",
               "record", "sync"}
Failing    == {"failJob", "failProject"}
Running    == {"register", "finish"} \cup Registered \cup Failing
Ended      == {"rejected", "done", "stuck", "lost"}
Labels     == {"idle", "queued"} \cup Running \cup Ended

DelActive == {"clear", "look", "doc", "files", "telemetry"}
DelEnded  == {"deleted", "missing", "error", "lost"}

DelLabels == {"idle"} \cup DelActive \cup DelEnded

JobStatus   == {"none", "processing", "complete", "failed"}
IndexStatus == {"none", "UNLOADED", "INDEXING", "READY", "OUTDATED"}

TypeOK ==
    /\ jobStatus \in [Jobs -> JobStatus]
    /\ progress \in [Jobs -> SUBSET Names]
    /\ project \in [Projects -> IndexStatus]
    /\ named \in [Projects -> BOOLEAN]
    /\ fileDocs \subseteq Jobs \X Names \X BOOLEAN
    /\ telDocs \subseteq Jobs \X Names
    /\ vectors \subseteq Names
    /\ structured \in [Instances \X Projects -> SUBSET Names]
    /\ loop \in [Instances -> Jobs \cup {NoJob}]
    /\ pc \in [Jobs -> Labels]
    /\ inst \in [Jobs -> Instances]
    /\ proj \in [Jobs -> Projects]
    /\ saved \in [Jobs -> SUBSET Names]
    /\ todo \in [Jobs -> SUBSET Names]
    /\ cur \in [Jobs -> Names \cup {NoFile}]
    /\ embedded \in [Jobs -> BOOLEAN]
    /\ delPc \in [Deletes -> DelLabels]
    /\ delInst \in [Deletes -> Instances]
    /\ delProj \in [Deletes -> Projects]
    /\ crashes \in 0..MaxCrashes
    /\ faults \in 0..MaxFaults
    /\ faulted \subseteq Projects
    /\ raced \subseteq Projects

Init ==
    /\ jobStatus = [j \in Jobs |-> "none"]
    /\ progress = [j \in Jobs |-> {}]
    /\ project = [p \in Projects |-> "none"]
    /\ named = [p \in Projects |-> FALSE]
    /\ fileDocs = {} /\ telDocs = {}
    /\ vectors = {}
    /\ structured = [ip \in Instances \X Projects |-> {}]
    /\ loop = [i \in Instances |-> NoJob]
    /\ pc = [j \in Jobs |-> "idle"]
    /\ inst \in [Jobs -> Instances]
    /\ proj \in [Jobs -> Projects]
    /\ saved = [j \in Jobs |-> {}]
    /\ todo = [j \in Jobs |-> {}]
    /\ cur = [j \in Jobs |-> NoFile]
    /\ embedded = [j \in Jobs |-> FALSE]
    /\ delPc = [d \in Deletes |-> "idle"]
    /\ delInst \in [Deletes -> Instances]
    /\ delProj \in [Deletes -> Projects]
    /\ crashes = 0 /\ faults = 0
    /\ faulted = {} /\ raced = {}

----------------------------------------------------------------------------
(* Firestore writes, and moves of a task.                                   *)

\* What a write can do to its caller: see the head of the module.
Outcomes == {"ok"} \cup (IF faults < MaxFaults THEN {"lost", "late"} ELSE {})

\* The history of a write made for project p with outcome o.
Note(p, o) ==
    /\ faults' = IF o = "ok" THEN faults ELSE faults + 1
    /\ faulted' = IF o = "ok" THEN faulted ELSE faulted \cup {p}
    /\ UNCHANGED <<crashes, raced>>

\* The document after a write with outcome o.
Written(o, old, new) == IF o = "lost" THEN old ELSE new

Goto(j, label) == pc' = [pc EXCEPT ![j] = label]

\* The task returns, and with it the event loop.
Release(j) == loop' = [loop EXCEPT ![inst[j]] = NoJob]

LoopFree(i) == loop[i] = NoJob

\* Mutant: a return where the loop means continue.
NextFileReturns(left) == "sync"

\* The head of the per-file loop of _run_ingestion, with `left` still to do.
NextFile(left) == IF left = {} THEN "sync" ELSE "progress"

----------------------------------------------------------------------------
(* POST /project/ingest-upload.  The coroutine is suspended at every        *)
(* upload.read(), but until the job document exists it writes only blobs    *)
(* under its own fresh job id: one step stands for the whole request.       *)

\* Of the files sent, those in S are stored and the others skipped (bad name,
\* bad PDF, upload error); then the job document is written, the background
\* task added and 202 answered.  A raising write answers 500, with no task.
Submit(j, S) ==
    /\ pc[j] = "idle" /\ LoopFree(inst[j])
    /\ IsFiniteSet(S) /\ Cardinality(S) =< MaxUpload
    /\ saved' = [saved EXCEPT ![j] = S]
    /\ \E o \in Outcomes :
        /\ jobStatus' = [jobStatus EXCEPT ![j] = Written(o, @, "processing")]
        /\ Goto(j, IF o = "ok" THEN "queued" ELSE "rejected")
        /\ Note(proj[j], o)
    /\ UNCHANGED <<progress, projVars, fileDocs, telDocs, vectors, structured,
                   loop, inst, proj, todo, cur, embedded, delVars>>

----------------------------------------------------------------------------
(* _run_ingestion_task                                                      *)

\* The event loop turns to the background task.
StartTask(j) ==
    /\ pc[j] = "queued" /\ LoopFree(inst[j])
    /\ loop' = [loop EXCEPT ![inst[j]] = j]
    /\ Goto(j, "register")
    /\ UNCHANGED <<docVars, vectors, structured, taskVars, delVars, envVars>>

\* upsert_project(index_status = INDEXING); whatever it raises is swallowed,
\* and the telemetry registration that follows it in the same try is skipped.
Register(j) ==
    /\ pc[j] = "register"
    /\ \E o \in Outcomes :
        LET tables == saved[j] \cap TableFiles
            telemetry == o = "ok" /\ tables # {}
        IN  /\ project' = [project EXCEPT ![proj[j]] = Written(o, @, "INDEXING")]
            /\ named' = [named EXCEPT ![proj[j]] = Written(o, @, TRUE)]
            /\ Goto(j, IF telemetry THEN "telemetry" ELSE "start")
            /\ todo' = [todo EXCEPT ![j] = IF telemetry THEN tables ELSE saved[j]]
            /\ Note(proj[j], o)
    /\ UNCHANGED <<jobVars, fileDocs, telDocs, vectors, structured, loop, inst,
                   proj, saved, cur, embedded, delVars>>

\* One csv file is registered; the first failure ends the registration.
RegisterTable(j, n) ==
    /\ pc[j] = "telemetry" /\ n \in todo[j]
    /\ \E o \in Outcomes :
        LET left == todo[j] \ {n}
            more == o = "ok" /\ left # {}
        IN  /\ telDocs' = Written(o, telDocs, telDocs \cup {<<j, n>>})
            /\ Goto(j, IF more THEN "telemetry" ELSE "start")
            /\ todo' = [todo EXCEPT ![j] = IF more THEN left ELSE saved[j]]
            /\ Note(proj[j], o)
    /\ UNCHANGED <<jobVars, projVars, fileDocs, vectors, structured, loop, inst,
                   proj, saved, cur, embedded, delVars>>

\* Mutant: the project is marked READY in a finally block.
BeginPipelineFinally(j) ==
    /\ pc[j] = "start"
    /\ \/ Goto(j, NextFile(todo[j]))
       \/ Goto(j, "sync")
    /\ UNCHANGED <<docVars, vectors, structured, loop, taskVars, delVars, envVars>>

\* ingest takes the lock (uncontended: the task holds the loop) and sets up
\* embedder, processors and collection, any of which may raise.
BeginPipeline(j) ==
    /\ pc[j] = "start"
    /\ \/ Goto(j, NextFile(todo[j]))
       \/ Goto(j, "failJob")
    /\ UNCHANGED <<docVars, vectors, structured, loop, taskVars, delVars, envVars>>

\* progress_callback is called outside the per-file try: raising ends the task.
Progress(j, n) ==
    /\ pc[j] = "progress" /\ n \in todo[j]
    /\ \E o \in Outcomes :
        /\ progress' = [progress EXCEPT ![j] =
                          Written(o, @, saved[j] \ (todo[j] \ {n}))]
        /\ IF o = "ok"
             THEN /\ todo' = [todo EXCEPT ![j] = @ \ {n}]
                  /\ cur' = [cur EXCEPT ![j] = n]
                  /\ Goto(j, "parse")
             ELSE /\ Goto(j, "failJob")
                  /\ UNCHANGED <<todo, cur>>
        /\ Note(proj[j], o)
    /\ UNCHANGED <<jobStatus, projVars, fileDocs, telDocs, vectors, structured,
                   loop, inst, proj, saved, embedded, delVars>>

\* Download and parse.  Logic and sheets go into this instance's
\* StructuredIndex; an unsupported file is skipped, a broken one counted.
Parse(j) ==
    /\ pc[j] = "parse"
    /\ \/ /\ Goto(j, NextFile(todo[j]))
          /\ UNCHANGED structured
       \/ /\ cur[j] \in Supported
          /\ structured' = [structured EXCEPT ![<<inst[j], proj[j]>>] =
                IF cur[j] \in Structured THEN @ \cup {cur[j]} ELSE @]
          /\ Goto(j, IF cur[j] \in SheetFiles THEN "sheet" ELSE "embed")
    /\ UNCHANGED <<docVars, vectors, loop, inst, proj, saved, todo, cur,
                   embedded, delVars, envVars>>

\* A sheet is registered as a telemetry dataset; what this raises is swallowed.
RegisterSheet(j) ==
    /\ pc[j] = "sheet"
    /\ \E o \in Outcomes :
        /\ telDocs' = Written(o, telDocs, telDocs \cup {<<j, cur[j]>>})
        /\ Note(proj[j], o)
    /\ Goto(j, "embed")
    /\ UNCHANGED <<jobVars, projVars, fileDocs, vectors, structured, loop,
                   taskVars, delVars>>

\* Mutant: an embedding error is swallowed and the file recorded all the same.
EmbedSwallows(j) ==
    /\ pc[j] = "embed"
    /\ vectors' \in {vectors, vectors \cup {cur[j]}}
    /\ embedded' = [embedded EXCEPT ![j] = TRUE]
    /\ Goto(j, "record")
    /\ UNCHANGED <<docVars, structured, loop, inst, proj, saved, todo, cur, delVars,
                   envVars>>

\* Chunk, embed and upsert into Qdrant.  An embedding or Qdrant error gives the
\* file up, with its chunks in the collection if the upsert was applied before
\* it raised.  Nothing is embedded of an empty file, or without a Qdrant server:
\* then the chunks are counted all the same.
Embed(j) ==
    /\ pc[j] = "embed"
    /\ \/ /\ vectors' = IF VectorStore THEN vectors \cup {cur[j]} ELSE vectors
          /\ embedded' = [embedded EXCEPT ![j] = TRUE]
          /\ Goto(j, "record")
       \/ /\ Goto(j, "record")
          /\ UNCHANGED <<vectors, embedded>>
       \/ /\ VectorStore
          /\ vectors' \in {vectors, vectors \cup {cur[j]}}
          /\ Goto(j, NextFile(todo[j]))
          /\ UNCHANGED embedded
    /\ UNCHANGED <<docVars, structured, loop, inst, proj, saved, todo, cur, delVars,
                   envVars>>

\* upsert_project_file; what it raises is swallowed.
Record(j) ==
    /\ pc[j] = "record"
    /\ \E o \in Outcomes :
        /\ fileDocs' = Written(o, fileDocs,
                               fileDocs \cup {<<j, cur[j], embedded[j]>>})
        /\ Note(proj[j], o)
    /\ embedded' = [embedded EXCEPT ![j] = FALSE]
    /\ Goto(j, NextFile(todo[j]))
    /\ UNCHANGED <<jobVars, projVars, telDocs, vectors, structured, loop, inst,
                   proj, saved, todo, cur, delVars>>

\* Mutant: a job's status word written into the project document.
MergeStatusWord(p, o, s) ==
    /\ project' = [project EXCEPT ![p] =
                     Written(o, @, IF s = "OUTDATED" THEN "failed" ELSE s)]
    /\ UNCHANGED named

\* update_index_status merges into the project document, and so creates one
\* without a name if the project is gone.
MergeStatus(p, o, s) ==
    /\ project' = [project EXCEPT ![p] = Written(o, @, s)]
    /\ UNCHANGED named

\* The pipeline has returned: READY, whatever became of the single files.
SyncStatus(j) ==
    /\ pc[j] = "sync"
    /\ \E o \in Outcomes : MergeStatus(proj[j], o, "READY") /\ Note(proj[j], o)
    /\ Goto(j, "finish")
    /\ UNCHANGED <<jobVars, fileDocs, telDocs, vectors, structured, loop,
                   taskVars, delVars>>

\* The job document turns "complete", or the write raises into the handler.
FinishJob(j) ==
    /\ pc[j] = "finish"
    /\ \E o \in Outcomes :
        /\ jobStatus' = [jobStatus EXCEPT ![j] = Written(o, @, "complete")]
        /\ Note(proj[j], o)
        /\ IF o = "ok" THEN Goto(j, "done") /\ Release(j)
                       ELSE Goto(j, "failJob") /\ UNCHANGED loop
    /\ UNCHANGED <<progress, projVars, fileDocs, telDocs, vectors, structured,
                   taskVars, delVars>>

\* Mutant: the handler reports the job and forgets the project.
FailJobOnly(j) ==
    /\ pc[j] = "failJob"
    /\ \E o \in Outcomes :
        /\ jobStatus' = [jobStatus EXCEPT ![j] = Written(o, @, "failed")]
        /\ Note(proj[j], o)
    /\ Goto(j, "done") /\ Release(j)
    /\ UNCHANGED <<progress, projVars, fileDocs, telDocs, vectors, structured,
                   taskVars, delVars>>

\* The outer handler: "failed" first.  If this raises too the task just ends.
FailJob(j) ==
    /\ pc[j] = "failJob"
    /\ \E o \in Outcomes :
        /\ jobStatus' = [jobStatus EXCEPT ![j] = Written(o, @, "failed")]
        /\ Note(proj[j], o)
        /\ IF o = "ok" THEN Goto(j, "failProject") /\ UNCHANGED loop
                       ELSE Goto(j, "stuck") /\ Release(j)
    /\ UNCHANGED <<progress, projVars, fileDocs, telDocs, vectors, structured,
                   taskVars, delVars>>

\* Mutant: the failed task is queued once more.
FailProjectRetries(j) ==
    /\ pc[j] = "failProject"
    /\ \E o \in Outcomes : MergeStatus(proj[j], o, "OUTDATED") /\ Note(proj[j], o)
    /\ Goto(j, "queued") /\ Release(j)
    /\ UNCHANGED <<jobVars, fileDocs, telDocs, vectors, structured, taskVars, delVars>>

\* Mutant: the handler never gives the event loop back.
FailProjectHolds(j) ==
    /\ pc[j] = "failProject"
    /\ \E o \in Outcomes : MergeStatus(proj[j], o, "OUTDATED") /\ Note(proj[j], o)
    /\ Goto(j, "done")
    /\ UNCHANGED <<jobVars, fileDocs, telDocs, vectors, structured, loop,
                   taskVars, delVars>>

\* Then the project is OUTDATED; what this raises is swallowed.
FailProject(j) ==
    /\ pc[j] = "failProject"
    /\ \E o \in Outcomes : MergeStatus(proj[j], o, "OUTDATED") /\ Note(proj[j], o)
    /\ Goto(j, "done") /\ Release(j)
    /\ UNCHANGED <<jobVars, fileDocs, telDocs, vectors, structured, taskVars, delVars>>

----------------------------------------------------------------------------
(* Thread pool handlers                                                     *)

\* POST /projects: upsert_project without an index_status.
CreateProject(p) ==
    /\ project' = [project EXCEPT ![p] = IF @ = "none" THEN "UNLOADED" ELSE @]
    /\ named' = [named EXCEPT ![p] = TRUE]
    /\ UNCHANGED <<jobVars, fileDocs, telDocs, vectors, structured, loop, pc,
                   taskVars, delVars, envVars>>

\* DELETE /project/reset: the in-memory index of the instance that serves it.
\* The handler may have reached its thread before a task took the event loop,
\* so it clears the index at any time, also under a task that is filling it.
ResetProject(i, p) ==
    /\ structured' = [structured EXCEPT ![<<i, p>>] = {}]
    /\ UNCHANGED <<docVars, vectors, loop, pc, taskVars, delVars, envVars>>

DelGoto(d, label) ==
    /\ delPc' = [delPc EXCEPT ![d] = label]
    /\ UNCHANGED <<delInst, delProj>>

\* DELETE /projects/{id} reaches a thread of the pool by way of the event loop.
DeleteStart(d) ==
    /\ delPc[d] = "idle" /\ LoopFree(delInst[d])
    /\ DelGoto(d, "clear")
    /\ UNCHANGED <<docVars, vectors, structured, loop, pc, taskVars, envVars>>

\* The indexes of this instance first; the vectors of indusai_{uid} stay.
DeleteClear(d) ==
    /\ delPc[d] = "clear"
    /\ structured' = [structured EXCEPT ![<<delInst[d], delProj[d]>>] = {}]
    /\ DelGoto(d, "look")
    /\ UNCHANGED <<docVars, vectors, loop, pc, taskVars, envVars>>

\* delete_doc looks first: 404 if there is no such project, and the rest stays.
DeleteLook(d) ==
    /\ delPc[d] = "look"
    /\ DelGoto(d, IF project[delProj[d]] = "none" THEN "missing" ELSE "doc")
    /\ UNCHANGED <<docVars, vectors, structured, loop, pc, taskVars, envVars>>

\* Then it deletes, whatever has become of the document since.
DeleteDoc(d) ==
    LET p == delProj[d] IN
    /\ delPc[d] = "doc"
    /\ \E o \in Outcomes :
        /\ project' = [project EXCEPT ![p] = Written(o, @, "none")]
        /\ named' = [named EXCEPT ![p] = Written(o, @, FALSE)]
        /\ DelGoto(d, IF o = "ok" THEN "files" ELSE "error")
        /\ faults' = IF o = "ok" THEN faults ELSE faults + 1
        /\ faulted' = IF o = "ok" THEN faulted ELSE faulted \cup {p}
    /\ raced' = IF \E j \in Jobs : proj[j] = p /\ pc[j] \in Running
                  THEN raced \cup {p} ELSE raced
    /\ UNCHANGED crashes
    /\ UNCHANGED <<jobVars, fileDocs, telDocs, vectors, structured, loop, pc,
                   taskVars>>

\* Mutant: only the telemetry records follow the project document.
DeleteFilesSkipped(d) ==
    /\ delPc[d] = "files"
    /\ DelGoto(d, "telemetry")
    /\ UNCHANGED <<docVars, vectors, structured, loop, pc, taskVars, envVars>>

\* _delete_docs_with_filter(project_files)
DeleteFiles(d) ==
    LET p == delProj[d] IN
    /\ delPc[d] = "files"
    /\ \E o \in Outcomes :
        /\ fileDocs' = Written(o, fileDocs, {f \in fileDocs : proj[f[1]] # p})
        /\ DelGoto(d, IF o = "ok" THEN "telemetry" ELSE "error")
        /\ Note(p, o)
    /\ UNCHANGED <<jobVars, projVars, telDocs, vectors, structured, loop, pc,
                   taskVars>>

\* _delete_docs_with_filter(telemetry_datasets)
DeleteTelemetry(d) ==
    LET p == delProj[d] IN
    /\ delPc[d] = "telemetry"
    /\ \E o \in Outcomes :
        /\ telDocs' = Written(o, telDocs, {t \in telDocs : proj[t[1]] # p})
        /\ DelGoto(d, IF o = "ok" THEN "deleted" ELSE "error")
        /\ Note(p, o)
    /\ UNCHANGED <<jobVars, projVars, fileDocs, vectors, structured, loop, pc,
                   taskVars>>

----------------------------------------------------------------------------
\* An instance is killed: deploy, scale-in, out of memory.  Its requests, its
\* background tasks and its indexes are gone; Firestore and Qdrant remain.
Crash(i) ==
    LET hitJobs == {j \in Jobs : inst[j] = i /\ pc[j] \in {"queued"} \cup Running}
        hitDels == {d \in Deletes : delInst[d] = i /\ delPc[d] \in DelActive}
    IN  /\ crashes < MaxCrashes
        /\ crashes' = crashes + 1
        /\ pc' = [j \in Jobs |-> IF j \in hitJobs THEN "lost" ELSE pc[j]]
        /\ delPc' = [d \in Deletes |-> IF d \in hitDels THEN "lost" ELSE delPc[d]]
        /\ loop' = [loop EXCEPT ![i] = NoJob]
        /\ structured' = [ip \in Instances \X Projects |->
                           IF ip[1] = i THEN {} ELSE structured[ip]]
        /\ faulted' = faulted \cup {proj[j] : j \in hitJobs}
                              \cup {delProj[d] : d \in hitDels}
        /\ UNCHANGED <<docVars, vectors, taskVars, delInst, delProj, faults, raced>>

TaskStep(j) ==
    \/ StartTask(j) \/ Register(j) \/ BeginPipeline(j) \/ Parse(j)
    \/ RegisterSheet(j) \/ Embed(j) \/ Record(j) \/ SyncStatus(j) \/ FinishJob(j)
    \/ FailJob(j) \/ FailProject(j)
    \/ \E n \in Names : RegisterTable(j, n) \/ Progress(j, n)

DeleteStep(d) ==
    \/ DeleteClear(d) \/ DeleteLook(d) \/ DeleteDoc(d)
    \/ DeleteFiles(d) \/ DeleteTelemetry(d)

Next ==
    \/ \E j \in Jobs : TaskStep(j) \/ \E S \in SUBSET Names : Submit(j, S)
    \/ \E d \in Deletes : DeleteStart(d) \/ DeleteStep(d)
    \/ \E p \in Projects : CreateProject(p) \/ \E i \in Instances : ResetProject(i, p)
    \/ \E i \in Instances : Crash(i)

Spec == Init /\ [][Next]_vars

\* A live instance runs its accepted coroutines, tasks and threads to their
\* end; nothing makes users send requests or instances die.
Fairness ==
    /\ \A j \in Jobs : WF_vars(TaskStep(j))
    /\ \A d \in Deletes : WF_vars(DeleteStep(d))

FairSpec == Spec /\ Fairness
----------------------------------------------------------------------------
(* Properties                                                               *)

\* A job reported complete has tried every stored file: the client stops
\* polling then, and nothing would try the rest later.
CompleteMeansTried ==
    \A j \in Jobs : jobStatus[j] = "complete" =>
        progress[j] = saved[j] /\ todo[j] = {}

\* A project_files record names a file of its job; if it claims embeddings and
\* Qdrant is configured, the chunks of that file had reached Qdrant before,
\* whatever crashed or raised in between.
FileDocHasVectors ==
    \A f \in fileDocs :
        f[2] \in saved[f[1]] /\ (VectorStore /\ f[3] => f[2] \in vectors)

\* A project is shown INDEXING only while one of its tasks runs, unless a
\* task of it was killed or a write of it raised.  In particular no order in
\* which two instances finish leaves it INDEXING for ever.
IndexingExplained ==
    \A p \in Projects \ faulted :
        project[p] = "INDEXING" =>
            \E j \in Jobs : proj[j] = p /\ pc[j] \in Registered \cup Failing

\* A record of project p is not an orphan, or it is a known one.
NoOrphan(p, clearing) ==
    \/ project[p] # "none"
    \/ p \in faulted \cup raced
    \/ \E d \in Deletes : delProj[d] = p /\ delPc[d] \in clearing

\* Records without their project document, which no later delete can reach
\* (it answers 404), remain only if the delete is still at work, overlapped
\* a running task of the project, or was hit by a fault.
OrphansExplained ==
    /\ \A f \in fileDocs : NoOrphan(proj[f[1]], {"files"})
    /\ \A t \in telDocs : NoOrphan(proj[t[1]], {"files", "telemetry"})

\* A project is READY only after some job of it has tried all its files.
ReadyHasPass ==
    \A p \in Projects : project[p] = "READY" =>
        \E j \in Jobs : /\ proj[j] = p
                        /\ jobStatus[j] # "none"
                        /\ progress[j] = saved[j]

\* Once a job's outcome is shown it is final, but for one correction: the
\* "complete" whose write raised late is overwritten with "failed".
OutcomeSettled ==
    [][\A j \in Jobs :
        /\ jobStatus[j] = "failed" => UNCHANGED <<jobStatus[j], progress[j]>>
        /\ jobStatus[j] = "complete" =>
              jobStatus'[j] = "complete" \/ pc[j] = "failJob"]_vars

\* A job that polls as processing reaches an outcome, unless its instance was
\* killed or the very write that reports its start or its end raised.
JobEnds ==
    \A j \in Jobs :
        jobStatus[j] = "processing" ~>
            \/ jobStatus[j] \in {"complete", "failed"}
            \/ pc[j] \in {"lost", "rejected", "stuck"}

\* The status endpoint answers "Job not found. The server may have restarted.
\* Please re-upload your files." for a job without a document
\* (routes_ingest_upload.py:105-108).  That answer for a restarted server
\* presumes that the restart leaves no job document at processing for ever.
PollingEnds ==
    \A j \in Jobs : jobStatus[j] = "processing" ~>
                        jobStatus[j] # "processing"

\* "Permanently delete a project" (routes_project.py:102): a project document
\* is one that a user or an upload has named, never what a late status write
\* made of a deleted one.
NoGhostProject == \A p \in Projects : project[p] # "none" => named[p]

----------------------------------------------------------------------------
(* What the steps of a task establish for the next ones: the inductive      *)
(* strengthening of the safety properties.                                  *)

Closing == Failing \cup {"done", "stuck", "lost"}
Working == {"parse", "sheet", "embed", "record"}

\* Where a task stands determines its job document and its list of files.
Stage(j) ==
    /\ todo[j] \subseteq saved[j]
    /\ pc[j] = "idle" => jobStatus[j] = "none" /\ progress[j] = {} /\ todo[j] = {}
    /\ pc[j] \in {"queued", "register", "telemetry", "start"} =>
          jobStatus[j] = "processing" /\ progress[j] = {}
    /\ pc[j] = "start" => todo[j] = saved[j]
    /\ pc[j] = "progress" => todo[j] # {}
    /\ pc[j] \in {"progress"} \cup Working =>
          jobStatus[j] = "processing" /\ progress[j] = saved[j] \ todo[j]
    /\ pc[j] \in Working => cur[j] \in saved[j]
    /\ pc[j] \in {"sync", "finish"} =>
          jobStatus[j] = "processing" /\ progress[j] = saved[j] /\ todo[j] = {}
    /\ jobStatus[j] = "complete" =>
          pc[j] \in Closing /\ progress[j] = saved[j] /\ todo[j] = {}
    /\ jobStatus[j] = "failed" => pc[j] \in Closing \ {"failJob"}

Stages == \A j \in Jobs : Stage(j)

\* A task records only files it has stored, and as embedded only those whose
\* chunks it has just written.
Recorded ==
    /\ \A f \in fileDocs : pc[f[1]] # "idle"
    /\ \A j \in Jobs : embedded[j] =>
          (VectorStore => cur[j] \in vectors) /\ pc[j] \in {"record", "lost"}

\* A task that may still write records has a project document to hang them on.
RegisteredExists ==
    \A j \in Jobs : pc[j] \in Registered /\ proj[j] \notin faulted \cup raced =>
                        project[proj[j]] # "none"

Inv ==
    /\ TypeOK /\ Stages
    /\ Recorded /\ FileDocHasVectors
    /\ RegisteredExists /\ OrphansExplained
    /\ IndexingExplained /\ ReadyHasPass
=============================================================================

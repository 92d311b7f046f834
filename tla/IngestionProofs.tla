--------------------------- MODULE IngestionProofs ---------------------------
(* Theorems about Ingestion, for every number of instances, jobs, deletes,  *)
(* projects and files and every bound on crashes and faults.  Each part of  *)
(* Inv has a lemma: one step per action, which shows what of the part the   *)
(* action can disturb.  The types and the stages of the tasks come first:   *)
(* every other part rests on them.                                          *)
EXTENDS Ingestion, Integers, FiniteSetTheorems, TLAPS

----------------------------------------------------------------------------
(* Type correctness: one lemma per action, one step per variable it sets.   *)

\* The part of TypeOK about the history variables.
EnvOK ==
    /\ crashes \in 0..MaxCrashes
    /\ faults \in 0..MaxFaults
    /\ faulted \subseteq Projects
    /\ raced \subseteq Projects

\* The history a write leaves is well typed, whatever its outcome.
LEMMA NoteType ==
    ASSUME EnvOK, NEW p \in Projects, NEW o \in Outcomes, Note(p, o)
    PROVE  EnvOK'
  BY BoundsAssumption DEF EnvOK, Outcomes, Note

LEMMA SubmitType ==
    ASSUME TypeOK, NEW j \in Jobs, NEW S \in SUBSET Names, Submit(j, S)
    PROVE  TypeOK'
<1>0. EnvOK
  BY DEF TypeOK, EnvOK
<1>1. saved' \in [Jobs -> SUBSET Names]
  BY DEF TypeOK, Submit
<1>2. jobStatus' \in [Jobs -> JobStatus]
  BY DEF TypeOK, Submit, Written, JobStatus
<1>3. pc' \in [Jobs -> Labels]
  BY DEF TypeOK, Submit, Goto, Labels, Ended
<1>4. EnvOK'
  BY <1>0, NoteType DEF TypeOK, Submit
<1> QED
  BY <1>1, <1>2, <1>3, <1>4
     DEF TypeOK, Submit, delVars, docVars, envVars, jobVars, projVars,
         taskVars, EnvOK

LEMMA StartTaskType ==
    ASSUME TypeOK, NEW j \in Jobs, StartTask(j)
    PROVE  TypeOK'
<1>1. pc' \in [Jobs -> Labels]
  BY DEF TypeOK, StartTask, Goto, Labels, Running
<1>2. loop' \in [Instances -> Jobs \cup {NoJob}]
  BY DEF TypeOK, StartTask
<1> QED
  BY <1>1, <1>2
     DEF TypeOK, StartTask, delVars, docVars, envVars, jobVars, projVars,
         taskVars

LEMMA RegisterType ==
    ASSUME TypeOK, NEW j \in Jobs, Register(j)
    PROVE  TypeOK'
<1>0. EnvOK
  BY DEF TypeOK, EnvOK
<1>1. project' \in [Projects -> IndexStatus]
  BY DEF TypeOK, Register, Written, IndexStatus
<1>2. named' \in [Projects -> BOOLEAN]
  BY DEF TypeOK, Register, Written
<1>3. pc' \in [Jobs -> Labels]
  BY DEF TypeOK, Register, Goto, Labels, Running, Registered
<1>4. todo' \in [Jobs -> SUBSET Names]
  BY DEF TypeOK, Register
<1>5. EnvOK'
  BY <1>0, NoteType DEF TypeOK, Register
<1> QED
  BY <1>1, <1>2, <1>3, <1>4, <1>5
     DEF TypeOK, Register, delVars, docVars, envVars, jobVars, projVars,
         taskVars, EnvOK

LEMMA RegisterTableType ==
    ASSUME TypeOK, NEW j \in Jobs, NEW n \in Names, RegisterTable(j, n)
    PROVE  TypeOK'
<1>0. EnvOK
  BY DEF TypeOK, EnvOK
<1>1. telDocs' \subseteq Jobs \X Names
  BY DEF TypeOK, RegisterTable, Written
<1>2. pc' \in [Jobs -> Labels]
  BY DEF TypeOK, RegisterTable, Goto, Labels, Running, Registered
<1>3. todo' \in [Jobs -> SUBSET Names]
  BY DEF TypeOK, RegisterTable
<1>4. EnvOK'
  BY <1>0, NoteType DEF TypeOK, RegisterTable
<1> QED
  BY <1>1, <1>2, <1>3, <1>4
     DEF TypeOK, RegisterTable, delVars, docVars, envVars, jobVars, projVars,
         taskVars, EnvOK

LEMMA BeginPipelineType ==
    ASSUME TypeOK, NEW j \in Jobs, BeginPipeline(j)
    PROVE  TypeOK'
<1>1. pc' \in [Jobs -> Labels]
  BY DEF TypeOK, BeginPipeline, NextFile, Goto, Labels, Running, Registered,
         Failing
<1> QED
  BY <1>1
     DEF TypeOK, BeginPipeline, delVars, docVars, envVars, jobVars, projVars,
         taskVars

LEMMA ProgressType ==
    ASSUME TypeOK, NEW j \in Jobs, NEW n \in Names, Progress(j, n)
    PROVE  TypeOK'
<1>0. EnvOK
  BY DEF TypeOK, EnvOK
<1>1. progress' \in [Jobs -> SUBSET Names]
  BY DEF TypeOK, Progress, Written
<1>2. pc' \in [Jobs -> Labels]
  BY DEF TypeOK, Progress, Goto, Labels, Running, Registered, Failing
<1>3. todo' \in [Jobs -> SUBSET Names]
  BY DEF TypeOK, Progress
<1>4. cur' \in [Jobs -> Names \cup {NoFile}]
  BY DEF TypeOK, Progress
<1>5. EnvOK'
  BY <1>0, NoteType DEF TypeOK, Progress
<1> QED
  BY <1>1, <1>2, <1>3, <1>4, <1>5
     DEF TypeOK, Progress, delVars, docVars, envVars, jobVars, projVars,
         taskVars, EnvOK

LEMMA ParseType ==
    ASSUME TypeOK, NEW j \in Jobs, Parse(j)
    PROVE  TypeOK'
<1>1. structured' \in [Instances \X Projects -> SUBSET Names]
  <2>1. cur[j] \in Structured => cur[j] \in Names
    BY KindsAssumption DEF Structured
  <2>2. structured \in [Instances \X Projects -> SUBSET Names]
    BY DEF TypeOK
  <2>3. \/ structured' = structured
        \/ structured' = [structured EXCEPT ![<<inst[j], proj[j]>>] =
              IF cur[j] \in Structured THEN @ \cup {cur[j]} ELSE @]
    BY DEF Parse
  <2> QED BY <2>1, <2>2, <2>3
<1>2. pc' \in [Jobs -> Labels]
  BY DEF TypeOK, Parse, NextFile, Goto, Labels, Running, Registered
<1> QED
  BY <1>1, <1>2
     DEF TypeOK, Parse, delVars, docVars, envVars, jobVars, projVars, taskVars

LEMMA RegisterSheetType ==
    ASSUME TypeOK, NEW j \in Jobs, cur[j] \in Names, RegisterSheet(j)
    PROVE  TypeOK'
<1>0. EnvOK
  BY DEF TypeOK, EnvOK
<1>1. telDocs' \subseteq Jobs \X Names
  BY DEF TypeOK, RegisterSheet, Written
<1>2. pc' \in [Jobs -> Labels]
  BY DEF TypeOK, RegisterSheet, Goto, Labels, Running, Registered
<1>3. EnvOK'
  BY <1>0, NoteType DEF TypeOK, RegisterSheet
<1> QED
  BY <1>1, <1>2, <1>3
     DEF TypeOK, RegisterSheet, delVars, docVars, envVars, jobVars, projVars,
         taskVars, EnvOK

LEMMA EmbedType ==
    ASSUME TypeOK, NEW j \in Jobs, cur[j] \in Names, Embed(j)
    PROVE  TypeOK'
<1>1. vectors' \subseteq Names
  BY DEF TypeOK, Embed
<1>2. embedded' \in [Jobs -> BOOLEAN]
  BY DEF TypeOK, Embed
<1>3. pc' \in [Jobs -> Labels]
  BY DEF TypeOK, Embed, NextFile, Goto, Labels, Running, Registered
<1> QED
  BY <1>1, <1>2, <1>3
     DEF TypeOK, Embed, delVars, docVars, envVars, jobVars, projVars, taskVars

LEMMA RecordType ==
    ASSUME TypeOK, NEW j \in Jobs, cur[j] \in Names, Record(j)
    PROVE  TypeOK'
<1>0. EnvOK
  BY DEF TypeOK, EnvOK
<1>1. fileDocs' \subseteq Jobs \X Names \X BOOLEAN
  BY DEF TypeOK, Record, Written
<1>2. embedded' \in [Jobs -> BOOLEAN]
  BY DEF TypeOK, Record
<1>3. pc' \in [Jobs -> Labels]
  BY DEF TypeOK, Record, NextFile, Goto, Labels, Running, Registered
<1>4. EnvOK'
  BY <1>0, NoteType DEF TypeOK, Record
<1> QED
  BY <1>1, <1>2, <1>3, <1>4
     DEF TypeOK, Record, delVars, docVars, envVars, jobVars, projVars,
         taskVars, EnvOK

LEMMA SyncStatusType ==
    ASSUME TypeOK, NEW j \in Jobs, SyncStatus(j)
    PROVE  TypeOK'
<1>0. EnvOK
  BY DEF TypeOK, EnvOK
<1>1. project' \in [Projects -> IndexStatus]
  BY DEF TypeOK, SyncStatus, MergeStatus, Written, IndexStatus
<1>2. pc' \in [Jobs -> Labels]
  BY DEF TypeOK, SyncStatus, Goto, Labels, Running
<1>3. EnvOK'
  BY <1>0, NoteType DEF TypeOK, SyncStatus
<1> QED
  BY <1>1, <1>2, <1>3
     DEF TypeOK, SyncStatus, delVars, docVars, envVars, jobVars, projVars,
         taskVars, EnvOK, MergeStatus

LEMMA FinishJobType ==
    ASSUME TypeOK, NEW j \in Jobs, FinishJob(j)
    PROVE  TypeOK'
<1>0. EnvOK
  BY DEF TypeOK, EnvOK
<1>1. jobStatus' \in [Jobs -> JobStatus]
  BY DEF TypeOK, FinishJob, Written, JobStatus
<1>2. pc' \in [Jobs -> Labels]
  BY SMTT(30) DEF TypeOK, FinishJob, Goto, Labels, Running, Failing, Ended
<1>3. loop' \in [Instances -> Jobs \cup {NoJob}]
  BY DEF TypeOK, FinishJob, Release
<1>4. EnvOK'
  BY <1>0, NoteType DEF TypeOK, FinishJob
<1> QED
  BY <1>1, <1>2, <1>3, <1>4
     DEF TypeOK, FinishJob, delVars, docVars, envVars, jobVars, projVars,
         taskVars, EnvOK

LEMMA FailJobType ==
    ASSUME TypeOK, NEW j \in Jobs, FailJob(j)
    PROVE  TypeOK'
<1>0. EnvOK
  BY DEF TypeOK, EnvOK
<1>1. jobStatus' \in [Jobs -> JobStatus]
  BY DEF TypeOK, FailJob, Written, JobStatus
<1>2. pc' \in [Jobs -> Labels]
  BY SMTT(30) DEF TypeOK, FailJob, Goto, Labels, Running, Failing, Ended
<1>3. loop' \in [Instances -> Jobs \cup {NoJob}]
  BY DEF TypeOK, FailJob, Release
<1>4. EnvOK'
  BY <1>0, NoteType DEF TypeOK, FailJob
<1> QED
  BY <1>1, <1>2, <1>3, <1>4
     DEF TypeOK, FailJob, delVars, docVars, envVars, jobVars, projVars,
         taskVars, EnvOK

LEMMA FailProjectType ==
    ASSUME TypeOK, NEW j \in Jobs, FailProject(j)
    PROVE  TypeOK'
<1>0. EnvOK
  BY DEF TypeOK, EnvOK
<1>1. project' \in [Projects -> IndexStatus]
  BY DEF TypeOK, FailProject, MergeStatus, Written, IndexStatus
<1>2. pc' \in [Jobs -> Labels]
  BY DEF TypeOK, FailProject, Goto, Labels, Ended
<1>3. loop' \in [Instances -> Jobs \cup {NoJob}]
  BY DEF TypeOK, FailProject, Release
<1>4. EnvOK'
  BY <1>0, NoteType DEF TypeOK, FailProject
<1> QED
  BY <1>1, <1>2, <1>3, <1>4
     DEF TypeOK, FailProject, delVars, docVars, envVars, jobVars, projVars,
         taskVars, EnvOK, MergeStatus

LEMMA CreateProjectType ==
    ASSUME TypeOK, NEW p \in Projects, CreateProject(p)
    PROVE  TypeOK'
<1>1. project' \in [Projects -> IndexStatus]
  BY DEF TypeOK, CreateProject, IndexStatus
<1>2. named' \in [Projects -> BOOLEAN]
  BY DEF TypeOK, CreateProject
<1> QED
  BY <1>1, <1>2
     DEF TypeOK, CreateProject, delVars, docVars, envVars, jobVars, projVars,
         taskVars

LEMMA ResetProjectType ==
    ASSUME TypeOK, NEW i \in Instances, NEW p \in Projects, ResetProject(i, p)
    PROVE  TypeOK'
<1>1. structured' \in [Instances \X Projects -> SUBSET Names]
  BY DEF TypeOK, ResetProject
<1> QED
  BY <1>1
     DEF TypeOK, ResetProject, delVars, docVars, envVars, jobVars, projVars,
         taskVars

LEMMA DeleteStartType ==
    ASSUME TypeOK, NEW d \in Deletes, DeleteStart(d)
    PROVE  TypeOK'
<1>1. delPc' \in [Deletes -> DelLabels]
  BY DEF TypeOK, DeleteStart, DelGoto, DelLabels, DelActive
<1> QED
  BY <1>1
     DEF TypeOK, DeleteStart, delVars, docVars, envVars, jobVars, projVars,
         taskVars, DelGoto

LEMMA DeleteClearType ==
    ASSUME TypeOK, NEW d \in Deletes, DeleteClear(d)
    PROVE  TypeOK'
<1>1. structured' \in [Instances \X Projects -> SUBSET Names]
  BY DEF TypeOK, DeleteClear
<1>2. delPc' \in [Deletes -> DelLabels]
  BY DEF TypeOK, DeleteClear, DelGoto, DelLabels, DelActive
<1> QED
  BY <1>1, <1>2
     DEF TypeOK, DeleteClear, delVars, docVars, envVars, jobVars, projVars,
         taskVars, DelGoto

LEMMA DeleteLookType ==
    ASSUME TypeOK, NEW d \in Deletes, DeleteLook(d)
    PROVE  TypeOK'
<1>1. delPc' \in [Deletes -> DelLabels]
  BY DEF TypeOK, DeleteLook, DelGoto, DelLabels, DelActive, DelEnded
<1> QED
  BY <1>1
     DEF TypeOK, DeleteLook, delVars, docVars, envVars, jobVars, projVars,
         taskVars, DelGoto

LEMMA DeleteDocType ==
    ASSUME TypeOK, NEW d \in Deletes, DeleteDoc(d)
    PROVE  TypeOK'
<1>0. EnvOK
  BY DEF TypeOK, EnvOK
<1>1. project' \in [Projects -> IndexStatus]
  BY DEF TypeOK, DeleteDoc, projVars, Written, IndexStatus
<1>2. named' \in [Projects -> BOOLEAN]
  BY DEF TypeOK, DeleteDoc, projVars, Written
<1>3. delPc' \in [Deletes -> DelLabels]
  BY DEF TypeOK, DeleteDoc, DelGoto, DelLabels, DelActive, DelEnded
<1>4. EnvOK'
  <2>1. delProj[d] \in Projects
    BY DEF TypeOK
  <2>2. raced' \in {raced, raced \cup {delProj[d]}} /\ crashes' = crashes
    BY DEF DeleteDoc
  <2>3. PICK o \in Outcomes :
           /\ faults' = IF o = "ok" THEN faults ELSE faults + 1
           /\ faulted' = IF o = "ok" THEN faulted ELSE faulted \cup {delProj[d]}
    BY DEF DeleteDoc
  <2> QED
    BY <1>0, <2>1, <2>2, <2>3, BoundsAssumption DEF EnvOK, Outcomes
<1> QED
  BY <1>1, <1>2, <1>3, <1>4
     DEF TypeOK, DeleteDoc, delVars, docVars, envVars, jobVars, projVars,
         taskVars, EnvOK, DelGoto

LEMMA DeleteFilesType ==
    ASSUME TypeOK, NEW d \in Deletes, DeleteFiles(d)
    PROVE  TypeOK'
<1>0. EnvOK
  BY DEF TypeOK, EnvOK
<1>1. fileDocs' \subseteq Jobs \X Names \X BOOLEAN
  BY DEF TypeOK, DeleteFiles, Written
<1>2. delPc' \in [Deletes -> DelLabels]
  BY DEF TypeOK, DeleteFiles, DelGoto, DelLabels, DelActive, DelEnded
<1>3. EnvOK'
  BY <1>0, NoteType DEF TypeOK, DeleteFiles
<1> QED
  BY <1>1, <1>2, <1>3
     DEF TypeOK, DeleteFiles, delVars, docVars, envVars, jobVars, projVars,
         taskVars, EnvOK, DelGoto

LEMMA DeleteTelemetryType ==
    ASSUME TypeOK, NEW d \in Deletes, DeleteTelemetry(d)
    PROVE  TypeOK'
<1>0. EnvOK
  BY DEF TypeOK, EnvOK
<1>1. telDocs' \subseteq Jobs \X Names
  BY DEF TypeOK, DeleteTelemetry, Written
<1>2. delPc' \in [Deletes -> DelLabels]
  BY DEF TypeOK, DeleteTelemetry, DelGoto, DelLabels, DelActive, DelEnded
<1>3. EnvOK'
  BY <1>0, NoteType DEF TypeOK, DeleteTelemetry
<1> QED
  BY <1>1, <1>2, <1>3
     DEF TypeOK, DeleteTelemetry, delVars, docVars, envVars, jobVars,
         projVars, taskVars, EnvOK, DelGoto

LEMMA CrashType ==
    ASSUME TypeOK, NEW i \in Instances, Crash(i)
    PROVE  TypeOK'
<1>0. EnvOK
  BY DEF TypeOK, EnvOK
<1>1. pc' \in [Jobs -> Labels]
  BY DEF TypeOK, Crash, Labels, Ended
<1>2. delPc' \in [Deletes -> DelLabels]
  BY DEF TypeOK, Crash, DelLabels, DelEnded
<1>3. loop' \in [Instances -> Jobs \cup {NoJob}]
  BY DEF TypeOK, Crash
<1>4. structured' \in [Instances \X Projects -> SUBSET Names]
  BY DEF TypeOK, Crash
<1>5. EnvOK'
  BY BoundsAssumption DEF TypeOK, EnvOK, Crash
<1> QED
  BY <1>1, <1>2, <1>3, <1>4, <1>5
     DEF TypeOK, Crash, delVars, docVars, envVars, jobVars, projVars,
         taskVars, EnvOK

\* TypeOK is inductive together with the stages of the tasks.
LEMMA TypeStep ==
    ASSUME TypeOK, Stages, [Next]_vars
    PROVE  TypeOK'
<1>1. ASSUME NEW j \in Jobs, NEW S \in SUBSET Names, Submit(j, S)
      PROVE  TypeOK'
  BY <1>1, SubmitType
<1>2. ASSUME NEW j \in Jobs, StartTask(j) PROVE TypeOK'
  BY <1>2, StartTaskType
<1>3. ASSUME NEW j \in Jobs, Register(j) PROVE TypeOK'
  BY <1>3, RegisterType
<1>4. ASSUME NEW j \in Jobs, NEW n \in Names, RegisterTable(j, n)
      PROVE  TypeOK'
  BY <1>4, RegisterTableType
<1>5. ASSUME NEW j \in Jobs, BeginPipeline(j) PROVE TypeOK'
  BY <1>5, BeginPipelineType
<1>6. ASSUME NEW j \in Jobs, NEW n \in Names, Progress(j, n) PROVE TypeOK'
  BY <1>6, ProgressType
<1>7. ASSUME NEW j \in Jobs, Parse(j) PROVE TypeOK'
  BY <1>7, ParseType
<1>8. ASSUME NEW j \in Jobs, RegisterSheet(j) PROVE TypeOK'
  <2>1. cur[j] \in Names
    BY <1>8 DEF RegisterSheet, TypeOK, Stages, Stage, Working
  <2> QED BY <1>8, <2>1, RegisterSheetType
<1>9. ASSUME NEW j \in Jobs, Embed(j) PROVE TypeOK'
  <2>1. cur[j] \in Names
    BY <1>9 DEF Embed, TypeOK, Stages, Stage, Working
  <2> QED BY <1>9, <2>1, EmbedType
<1>10. ASSUME NEW j \in Jobs, Record(j) PROVE TypeOK'
  <2>1. cur[j] \in Names
    BY <1>10 DEF Record, TypeOK, Stages, Stage, Working
  <2> QED BY <1>10, <2>1, RecordType
<1>11. ASSUME NEW j \in Jobs, SyncStatus(j) PROVE TypeOK'
  BY <1>11, SyncStatusType
<1>12. ASSUME NEW j \in Jobs, FinishJob(j) PROVE TypeOK'
  BY <1>12, FinishJobType
<1>13. ASSUME NEW j \in Jobs, FailJob(j) PROVE TypeOK'
  BY <1>13, FailJobType
<1>14. ASSUME NEW j \in Jobs, FailProject(j) PROVE TypeOK'
  BY <1>14, FailProjectType
<1>15. ASSUME NEW p \in Projects, CreateProject(p) PROVE TypeOK'
  BY <1>15, CreateProjectType
<1>16. ASSUME NEW i \in Instances, NEW p \in Projects, ResetProject(i, p)
       PROVE  TypeOK'
  BY <1>16, ResetProjectType
<1>17. ASSUME NEW d \in Deletes, DeleteStart(d) PROVE TypeOK'
  BY <1>17, DeleteStartType
<1>18. ASSUME NEW d \in Deletes, DeleteClear(d) PROVE TypeOK'
  BY <1>18, DeleteClearType
<1>18a. ASSUME NEW d \in Deletes, DeleteLook(d) PROVE TypeOK'
  BY <1>18a, DeleteLookType
<1>19. ASSUME NEW d \in Deletes, DeleteDoc(d) PROVE TypeOK'
  BY <1>19, DeleteDocType
<1>20. ASSUME NEW d \in Deletes, DeleteFiles(d) PROVE TypeOK'
  BY <1>20, DeleteFilesType
<1>21. ASSUME NEW d \in Deletes, DeleteTelemetry(d) PROVE TypeOK'
  BY <1>21, DeleteTelemetryType
<1>22. ASSUME NEW i \in Instances, Crash(i) PROVE TypeOK'
  BY <1>22, CrashType
<1>23. CASE UNCHANGED vars
  BY <1>23 DEF vars, TypeOK
<1> QED
  BY <1>1, <1>2, <1>3, <1>4, <1>5, <1>6, <1>7, <1>8, <1>9, <1>10, <1>11,
     <1>12, <1>13, <1>14, <1>15, <1>16, <1>17, <1>18, <1>18a, <1>19,
     <1>20, <1>21, <1>22, <1>23
     DEF Next, TaskStep, DeleteStep

----------------------------------------------------------------------------
(* Stages                                                                   *)

\* Where a task stands goes on determining its job document, its files left
\* and its current file: a step on one job leaves the others as they are.
LEMMA StagesStep ==
    ASSUME TypeOK, Stages, [Next]_vars
    PROVE  Stages'
<1>. DEFINE Same(k) == /\ pc'[k] = pc[k] /\ jobStatus'[k] = jobStatus[k]
                       /\ progress'[k] = progress[k] /\ saved'[k] = saved[k]
                       /\ todo'[k] = todo[k] /\ cur'[k] = cur[k]
<1>0. ASSUME NEW k \in Jobs, Same(k) PROVE Stage(k)'
  BY <1>0 DEF Stages, Stage
<1>1. ASSUME NEW j \in Jobs, NEW S \in SUBSET Names, Submit(j, S)
      PROVE  Stages'
  <2>1. ASSUME NEW k \in Jobs, k # j PROVE Same(k)
    BY <1>1, <2>1 DEF Submit, TypeOK, Goto, Same, docVars, jobVars, taskVars
  <2>2. Stage(j)'
    <3>1. /\ UNCHANGED <<progress, todo>> /\ todo[j] = {}
          /\ progress[j] = {} /\ jobStatus[j] = "none"
      BY <1>1 DEF Submit, Stages, Stage
    <3>2. \/ pc'[j] = "queued" /\ jobStatus'[j] = "processing"
          \/ pc'[j] = "rejected" /\ jobStatus'[j] \in {"none", "processing"}
      BY <1>1, <3>1 DEF Submit, Goto, Written, TypeOK
    <3> QED
      BY <1>1, <3>1, <3>2 DEF Stage, Closing, Working, Failing, TypeOK
  <2> QED BY <1>0, <2>1, <2>2 DEF Stages
<1>2. ASSUME NEW j \in Jobs, StartTask(j) PROVE Stages'
  <2>1. ASSUME NEW k \in Jobs, k # j PROVE Same(k)
    BY <1>2, <2>1
       DEF StartTask, TypeOK, Goto, Same, docVars, jobVars, taskVars
  <2>2. Stage(j)'
    BY <1>2
       DEF StartTask, TypeOK, Stages, Stage, Goto, Closing, Working, Failing,
           docVars, jobVars, taskVars
  <2> QED BY <1>0, <2>1, <2>2 DEF Stages
<1>3. ASSUME NEW j \in Jobs, Register(j) PROVE Stages'
  <2>1. ASSUME NEW k \in Jobs, k # j PROVE Same(k)
    BY <1>3, <2>1 DEF Register, TypeOK, Goto, Same, docVars, jobVars, taskVars
  <2>2. Stage(j)'
    BY <1>3
       DEF Register, TypeOK, Stages, Stage, Goto, Closing, Working, Failing,
           Written, docVars, jobVars, taskVars
  <2> QED BY <1>0, <2>1, <2>2 DEF Stages
<1>4. ASSUME NEW j \in Jobs, NEW n \in Names, RegisterTable(j, n)
      PROVE  Stages'
  <2>1. ASSUME NEW k \in Jobs, k # j PROVE Same(k)
    BY <1>4, <2>1
       DEF RegisterTable, TypeOK, Goto, Same, docVars, jobVars, taskVars
  <2>2. Stage(j)'
    BY <1>4
       DEF RegisterTable, TypeOK, Stages, Stage, Goto, Closing, Working,
           Failing, Written, docVars, jobVars, taskVars
  <2> QED BY <1>0, <2>1, <2>2 DEF Stages
<1>5. ASSUME NEW j \in Jobs, BeginPipeline(j) PROVE Stages'
  <2>1. ASSUME NEW k \in Jobs, k # j PROVE Same(k)
    BY <1>5, <2>1
       DEF BeginPipeline, TypeOK, Goto, Same, docVars, jobVars, taskVars
  <2>2. Stage(j)'
    BY ZenonT(60), <1>5
       DEF BeginPipeline, TypeOK, Stages, Stage, Goto, Closing, Working,
           Failing, NextFile, docVars, jobVars, taskVars
  <2> QED BY <1>0, <2>1, <2>2 DEF Stages
<1>6. ASSUME NEW j \in Jobs, NEW n \in Names, Progress(j, n) PROVE Stages'
  <2>1. ASSUME NEW k \in Jobs, k # j PROVE Same(k)
    BY <1>6, <2>1 DEF Progress, TypeOK, Goto, Same, docVars, jobVars, taskVars
  <2>2. Stage(j)'
    <3>1. /\ jobStatus'[j] = "processing" /\ saved'[j] = saved[j]
          /\ todo[j] \subseteq saved[j]
      BY <1>6 DEF Progress, Stages, Stage
    <3>2. \/ pc'[j] = "failJob" /\ todo'[j] = todo[j]
          \/ /\ pc'[j] = "parse" /\ todo'[j] = todo[j] \ {n} /\ cur'[j] = n
             /\ progress'[j] = saved[j] \ (todo[j] \ {n})
      BY <1>6 DEF Progress, Goto, Written, TypeOK
    <3> QED
      BY <1>6, <3>1, <3>2 DEF Progress, Stage, Closing, Working, Failing
  <2> QED BY <1>0, <2>1, <2>2 DEF Stages
<1>7. ASSUME NEW j \in Jobs, Parse(j) PROVE Stages'
  <2>1. ASSUME NEW k \in Jobs, k # j PROVE Same(k)
    BY <1>7, <2>1 DEF Parse, TypeOK, Goto, Same, docVars, jobVars, taskVars
  <2>2. Stage(j)'
    <3>1. UNCHANGED <<jobStatus, progress, saved, todo, cur>>
      BY <1>7 DEF Parse, docVars
    <3>2. \/ pc'[j] \in {"sheet", "embed"}
          \/ todo[j] = {} /\ pc'[j] = "sync"
          \/ todo[j] # {} /\ pc'[j] = "progress"
      BY <1>7 DEF Parse, Goto, NextFile, TypeOK
    <3> QED
      BY ZenonT(60), <1>7, <3>1, <3>2
         DEF Parse, Stages, Stage, Closing, Working, Failing
  <2> QED BY <1>0, <2>1, <2>2 DEF Stages
<1>8. ASSUME NEW j \in Jobs, RegisterSheet(j) PROVE Stages'
  <2>1. ASSUME NEW k \in Jobs, k # j PROVE Same(k)
    BY <1>8, <2>1
       DEF RegisterSheet, TypeOK, Goto, Same, docVars, jobVars, taskVars
  <2>2. Stage(j)'
    BY <1>8
       DEF RegisterSheet, TypeOK, Stages, Stage, Goto, Closing, Working,
           Failing, docVars, jobVars, taskVars
  <2> QED BY <1>0, <2>1, <2>2 DEF Stages
<1>9. ASSUME NEW j \in Jobs, Embed(j) PROVE Stages'
  <2>1. ASSUME NEW k \in Jobs, k # j PROVE Same(k)
    BY <1>9, <2>1 DEF Embed, TypeOK, Goto, Same, docVars, jobVars, taskVars
  <2>2. Stage(j)'
    <3>1. UNCHANGED <<jobStatus, progress, saved, todo, cur>>
      BY <1>9 DEF Embed, docVars
    <3>2. \/ pc'[j] = "record"
          \/ todo[j] = {} /\ pc'[j] = "sync"
          \/ todo[j] # {} /\ pc'[j] = "progress"
      BY <1>9 DEF Embed, Goto, NextFile, TypeOK
    <3> QED
      BY <1>9, <3>1, <3>2 DEF Embed, Stages, Stage, Closing, Working, Failing
  <2> QED BY <1>0, <2>1, <2>2 DEF Stages
<1>10. ASSUME NEW j \in Jobs, Record(j) PROVE Stages'
  <2>1. ASSUME NEW k \in Jobs, k # j PROVE Same(k)
    BY <1>10, <2>1 DEF Record, TypeOK, Goto, Same, docVars, jobVars, taskVars
  <2>2. Stage(j)'
    BY ZenonT(60), <1>10
       DEF Record, TypeOK, Stages, Stage, Goto, Closing, Working, Failing,
           NextFile, docVars, jobVars, taskVars
  <2> QED BY <1>0, <2>1, <2>2 DEF Stages
<1>11. ASSUME NEW j \in Jobs, SyncStatus(j) PROVE Stages'
  <2>1. ASSUME NEW k \in Jobs, k # j PROVE Same(k)
    BY <1>11, <2>1
       DEF SyncStatus, TypeOK, Goto, Same, docVars, jobVars, taskVars
  <2>2. Stage(j)'
    BY <1>11
       DEF SyncStatus, TypeOK, Stages, Stage, Goto, Closing, Working,
           Failing, docVars, jobVars, taskVars
  <2> QED BY <1>0, <2>1, <2>2 DEF Stages
<1>12. ASSUME NEW j \in Jobs, FinishJob(j) PROVE Stages'
  <2>1. ASSUME NEW k \in Jobs, k # j PROVE Same(k)
    BY <1>12, <2>1
       DEF FinishJob, TypeOK, Goto, Same, docVars, jobVars, taskVars
  <2>2. Stage(j)'
    BY <1>12
       DEF FinishJob, TypeOK, Stages, Stage, Goto, Closing, Working, Failing,
           Written, docVars, jobVars, taskVars
  <2> QED BY <1>0, <2>1, <2>2 DEF Stages
<1>13. ASSUME NEW j \in Jobs, FailJob(j) PROVE Stages'
  <2>1. ASSUME NEW k \in Jobs, k # j PROVE Same(k)
    BY <1>13, <2>1 DEF FailJob, TypeOK, Goto, Same, docVars, jobVars, taskVars
  <2>2. Stage(j)'
    BY <1>13
       DEF FailJob, TypeOK, Stages, Stage, Goto, Closing, Working, Failing,
           Written, docVars, jobVars, taskVars
  <2> QED BY <1>0, <2>1, <2>2 DEF Stages
<1>14. ASSUME NEW j \in Jobs, FailProject(j) PROVE Stages'
  <2>1. ASSUME NEW k \in Jobs, k # j PROVE Same(k)
    BY <1>14, <2>1
       DEF FailProject, TypeOK, Goto, Same, docVars, jobVars, taskVars
  <2>2. Stage(j)'
    BY <1>14
       DEF FailProject, TypeOK, Stages, Stage, Goto, Closing, Working,
           Failing, docVars, jobVars, taskVars
  <2> QED BY <1>0, <2>1, <2>2 DEF Stages
<1>15. ASSUME NEW i \in Instances, Crash(i) PROVE Stages'
  <2>. SUFFICES ASSUME NEW k \in Jobs PROVE Stage(k)'
    BY DEF Stages
  <2>1. UNCHANGED <<jobStatus, progress, saved, todo, cur>>
    BY <1>15 DEF Crash, docVars, taskVars
  <2>2. \/ pc'[k] = pc[k]
        \/ pc'[k] = "lost" /\ pc[k] \in {"queued"} \cup Running
    BY <1>15 DEF Crash
  <2>3. CASE pc'[k] = pc[k]
    BY <1>0, <2>1, <2>3
  <2>4. CASE pc'[k] = "lost" /\ pc[k] \in {"queued"} \cup Running
    BY <2>1, <2>4
       DEF Stages, Stage, Closing, Working, Failing, Running, Registered
  <2> QED BY <2>2, <2>3, <2>4
<1>16. ASSUME UNCHANGED <<pc, jobStatus, progress, saved, todo, cur>>
       PROVE  Stages'
  BY <1>16, <1>0 DEF Stages
<1>17. ASSUME NEW p \in Projects, CreateProject(p) PROVE Stages'
  BY <1>17, <1>16 DEF CreateProject, docVars, jobVars, taskVars
<1>18. ASSUME NEW i \in Instances, NEW p \in Projects, ResetProject(i, p)
       PROVE  Stages'
  BY <1>18, <1>16 DEF ResetProject, docVars, jobVars, taskVars
<1>19. ASSUME NEW d \in Deletes, DeleteStart(d) PROVE Stages'
  BY <1>19, <1>16 DEF DeleteStart, docVars, jobVars, taskVars
<1>20. ASSUME NEW d \in Deletes, DeleteClear(d) PROVE Stages'
  BY <1>20, <1>16 DEF DeleteClear, docVars, jobVars, taskVars
<1>20a. ASSUME NEW d \in Deletes, DeleteLook(d) PROVE Stages'
  BY <1>20a, <1>16 DEF DeleteLook, docVars, jobVars, taskVars
<1>21. ASSUME NEW d \in Deletes, DeleteDoc(d) PROVE Stages'
  BY <1>21, <1>16 DEF DeleteDoc, docVars, jobVars, taskVars
<1>22. ASSUME NEW d \in Deletes, DeleteFiles(d) PROVE Stages'
  BY <1>22, <1>16 DEF DeleteFiles, docVars, jobVars, taskVars
<1>23. ASSUME NEW d \in Deletes, DeleteTelemetry(d) PROVE Stages'
  BY <1>23, <1>16 DEF DeleteTelemetry, docVars, jobVars, taskVars
<1>24. CASE UNCHANGED vars
  BY <1>24, <1>16 DEF vars
<1> QED
  BY <1>1, <1>2, <1>3, <1>4, <1>5, <1>6, <1>7, <1>8, <1>9, <1>10, <1>11,
     <1>12, <1>13, <1>14, <1>15, <1>17, <1>18, <1>19, <1>20, <1>20a,
     <1>21, <1>22, <1>23, <1>24
     DEF Next, TaskStep, DeleteStep

----------------------------------------------------------------------------
(* Records, jobs and deletes                                               *)

\* A record names a stored file, and one that claims embeddings has vectors:
\* vectors are never removed, and a job's stored files never change.
LEMMA RecordsStep ==
    ASSUME TypeOK, Stages, Recorded, FileDocHasVectors, [Next]_vars
    PROVE  Recorded' /\ FileDocHasVectors'
<1>. DEFINE Frame == /\ fileDocs' \subseteq fileDocs
                    /\ vectors \subseteq vectors'
                    /\ \A k \in Jobs : pc[k] # "idle" =>
                          pc'[k] # "idle" /\ saved'[k] = saved[k]
             Flags == \A k \in Jobs : embedded'[k] =>
                          /\ VectorStore => cur'[k] \in vectors'
                          /\ pc'[k] \in {"record", "lost"}
<1>0. ASSUME Frame, Flags PROVE Recorded' /\ FileDocHasVectors'
  BY <1>0 DEF Recorded, FileDocHasVectors, TypeOK
<1>1. ASSUME NEW j \in Jobs, NEW S \in SUBSET Names, Submit(j, S)
      PROVE  Recorded' /\ FileDocHasVectors'
  <2>1. Frame
    BY <1>1 DEF Submit, Goto, Note, Written, projVars, delVars, TypeOK
  <2>2. Flags
    BY <1>1
       DEF Submit, Goto, Note, Written, projVars, delVars, Recorded, TypeOK
  <2> QED BY <1>0, <2>1, <2>2
<1>2. ASSUME NEW j \in Jobs, StartTask(j)
      PROVE  Recorded' /\ FileDocHasVectors'
  <2>1. Frame
    BY <1>2 DEF StartTask, Goto, docVars, taskVars, delVars, envVars, TypeOK
  <2>2. Flags
    BY <1>2
       DEF StartTask, Goto, docVars, taskVars, delVars, envVars, Recorded,
           TypeOK
  <2> QED BY <1>0, <2>1, <2>2
<1>3. ASSUME NEW j \in Jobs, Register(j) PROVE Recorded' /\ FileDocHasVectors'
  <2>1. Frame
    BY <1>3 DEF Register, Goto, Note, Written, jobVars, delVars, TypeOK
  <2>2. Flags
    BY <1>3
       DEF Register, Goto, Note, Written, jobVars, delVars, Recorded, TypeOK
  <2> QED BY <1>0, <2>1, <2>2
<1>4. ASSUME NEW j \in Jobs, NEW n \in Names, RegisterTable(j, n)
      PROVE  Recorded' /\ FileDocHasVectors'
  <2>1. Frame
    BY <1>4
       DEF RegisterTable, Goto, Note, Written, jobVars, projVars, delVars,
           TypeOK
  <2>2. Flags
    BY <1>4
       DEF RegisterTable, Goto, Note, Written, jobVars, projVars, delVars,
           Recorded, TypeOK
  <2> QED BY <1>0, <2>1, <2>2
<1>5. ASSUME NEW j \in Jobs, BeginPipeline(j)
      PROVE  Recorded' /\ FileDocHasVectors'
  <2>1. Frame
    BY <1>5
       DEF BeginPipeline, Goto, NextFile, docVars, taskVars, delVars,
           envVars, TypeOK
  <2>2. Flags
    BY <1>5
       DEF BeginPipeline, Goto, NextFile, docVars, taskVars, delVars,
           envVars, Recorded, TypeOK
  <2> QED BY <1>0, <2>1, <2>2
<1>6. ASSUME NEW j \in Jobs, NEW n \in Names, Progress(j, n)
      PROVE  Recorded' /\ FileDocHasVectors'
  <2>1. Frame
    BY <1>6 DEF Progress, Goto, Note, Written, projVars, delVars, TypeOK
  <2>2. Flags
    BY <1>6
       DEF Progress, Goto, Note, Written, projVars, delVars, Recorded,
           TypeOK
  <2> QED BY <1>0, <2>1, <2>2
<1>7. ASSUME NEW j \in Jobs, Parse(j) PROVE Recorded' /\ FileDocHasVectors'
  <2>1. Frame
    BY <1>7 DEF Parse, Goto, NextFile, docVars, delVars, envVars, TypeOK
  <2>2. Flags
    BY <1>7
       DEF Parse, Goto, NextFile, docVars, delVars, envVars, Recorded,
           TypeOK
  <2> QED BY <1>0, <2>1, <2>2
<1>8. ASSUME NEW j \in Jobs, RegisterSheet(j)
      PROVE  Recorded' /\ FileDocHasVectors'
  <2>1. Frame
    BY <1>8
       DEF RegisterSheet, Goto, Note, Written, jobVars, projVars, taskVars,
           delVars, TypeOK
  <2>2. Flags
    BY <1>8
       DEF RegisterSheet, Goto, Note, Written, jobVars, projVars, taskVars,
           delVars, Recorded, TypeOK
  <2> QED BY <1>0, <2>1, <2>2
<1>9. ASSUME NEW j \in Jobs, Embed(j) PROVE Recorded' /\ FileDocHasVectors'
  <2>1. Frame
    BY <1>9 DEF Embed, Goto, NextFile, docVars, delVars, envVars, TypeOK
  <2>2. Flags
    BY <1>9
       DEF Embed, Goto, NextFile, docVars, delVars, envVars, Recorded,
           TypeOK
  <2> QED BY <1>0, <2>1, <2>2
<1>10. ASSUME NEW j \in Jobs, Record(j) PROVE Recorded' /\ FileDocHasVectors'
  <2>1. Flags
    BY <1>10 DEF Record, Recorded, Goto, NextFile, TypeOK
  <2>2. vectors' = vectors /\ saved' = saved /\ \A k \in Jobs : pc[k] # "idle" => pc'[k] # "idle"
    BY <1>10 DEF Record, Goto, NextFile, TypeOK
  <2>3. ASSUME NEW f \in fileDocs', f \notin fileDocs
        PROVE  f = <<j, cur[j], embedded[j]>>
    BY <1>10, <2>3 DEF Record, Written
  <2>4. cur[j] \in saved[j] /\ (VectorStore /\ embedded[j] => cur[j] \in vectors) /\ pc'[j] # "idle"
    BY <1>10
       DEF Record, Recorded, Stages, Stage, Working, Goto, NextFile, TypeOK
  <2> QED BY <2>1, <2>2, <2>3, <2>4 DEF Recorded, FileDocHasVectors, TypeOK
<1>11. ASSUME NEW j \in Jobs, SyncStatus(j)
       PROVE  Recorded' /\ FileDocHasVectors'
  <2>1. Frame
    BY <1>11
       DEF SyncStatus, Goto, Note, MergeStatus, Written, jobVars, taskVars,
           delVars, TypeOK
  <2>2. Flags
    BY <1>11
       DEF SyncStatus, Goto, Note, MergeStatus, Written, jobVars, taskVars,
           delVars, Recorded, TypeOK
  <2> QED BY <1>0, <2>1, <2>2
<1>12. ASSUME NEW j \in Jobs, FinishJob(j)
       PROVE  Recorded' /\ FileDocHasVectors'
  <2>1. Frame
    BY <1>12
       DEF FinishJob, Goto, Note, Written, Release, projVars, taskVars,
           delVars, TypeOK
  <2>2. Flags
    BY ZenonT(60), <1>12
       DEF FinishJob, Goto, Note, Written, Release, projVars, taskVars,
           delVars, Recorded, TypeOK
  <2> QED BY <1>0, <2>1, <2>2
<1>13. ASSUME NEW j \in Jobs, FailJob(j) PROVE Recorded' /\ FileDocHasVectors'
  <2>1. Frame
    BY <1>13
       DEF FailJob, Goto, Note, Written, Release, projVars, taskVars,
           delVars, TypeOK
  <2>2. Flags
    BY ZenonT(60), <1>13
       DEF FailJob, Goto, Note, Written, Release, projVars, taskVars,
           delVars, Recorded, TypeOK
  <2> QED BY <1>0, <2>1, <2>2
<1>14. ASSUME NEW j \in Jobs, FailProject(j)
       PROVE  Recorded' /\ FileDocHasVectors'
  <2>1. Frame
    BY <1>14
       DEF FailProject, Goto, Note, MergeStatus, Release, Written, jobVars,
           taskVars, delVars, TypeOK
  <2>2. Flags
    BY <1>14
       DEF FailProject, Goto, Note, MergeStatus, Release, Written, jobVars,
           taskVars, delVars, Recorded, TypeOK
  <2> QED BY <1>0, <2>1, <2>2
<1>15. ASSUME NEW p \in Projects, CreateProject(p)
       PROVE  Recorded' /\ FileDocHasVectors'
  <2>1. Frame
    BY <1>15 DEF CreateProject, jobVars, taskVars, delVars, envVars, TypeOK
  <2>2. Flags
    BY <1>15
       DEF CreateProject, jobVars, taskVars, delVars, envVars, Recorded,
           TypeOK
  <2> QED BY <1>0, <2>1, <2>2
<1>16. ASSUME NEW i \in Instances, NEW p \in Projects, ResetProject(i, p)
       PROVE  Recorded' /\ FileDocHasVectors'
  <2>1. Frame
    BY <1>16 DEF ResetProject, docVars, taskVars, delVars, envVars, TypeOK
  <2>2. Flags
    BY <1>16
       DEF ResetProject, docVars, taskVars, delVars, envVars, Recorded,
           TypeOK
  <2> QED BY <1>0, <2>1, <2>2
<1>17. ASSUME NEW d \in Deletes, DeleteStart(d)
       PROVE  Recorded' /\ FileDocHasVectors'
  <2>1. Frame
    BY <1>17 DEF DeleteStart, DelGoto, docVars, taskVars, envVars, TypeOK
  <2>2. Flags
    BY <1>17
       DEF DeleteStart, DelGoto, docVars, taskVars, envVars, Recorded,
           TypeOK
  <2> QED BY <1>0, <2>1, <2>2
<1>18. ASSUME NEW d \in Deletes, DeleteClear(d)
       PROVE  Recorded' /\ FileDocHasVectors'
  <2>1. Frame
    BY <1>18 DEF DeleteClear, DelGoto, docVars, taskVars, envVars, TypeOK
  <2>2. Flags
    BY <1>18
       DEF DeleteClear, DelGoto, docVars, taskVars, envVars, Recorded,
           TypeOK
  <2> QED BY <1>0, <2>1, <2>2
<1>18a. ASSUME NEW d \in Deletes, DeleteLook(d)
       PROVE  Recorded' /\ FileDocHasVectors'
  <2>1. Frame
    BY <1>18a DEF DeleteLook, DelGoto, docVars, taskVars, envVars, TypeOK
  <2>2. Flags
    BY <1>18a
       DEF DeleteLook, DelGoto, docVars, taskVars, envVars, Recorded,
           TypeOK
  <2> QED BY <1>0, <2>1, <2>2
<1>19. ASSUME NEW d \in Deletes, DeleteDoc(d)
       PROVE  Recorded' /\ FileDocHasVectors'
  <2>1. Frame
    BY <1>19
       DEF DeleteDoc, DelGoto, Written, jobVars, projVars, taskVars, envVars,
           TypeOK
  <2>2. Flags
    BY <1>19
       DEF DeleteDoc, DelGoto, Written, jobVars, projVars, taskVars, envVars,
           Recorded, TypeOK
  <2> QED BY <1>0, <2>1, <2>2
<1>20. ASSUME NEW d \in Deletes, DeleteFiles(d)
       PROVE  Recorded' /\ FileDocHasVectors'
  <2>1. Frame
    BY <1>20
       DEF DeleteFiles, DelGoto, Note, Written, jobVars, projVars, taskVars,
           TypeOK
  <2>2. Flags
    BY <1>20
       DEF DeleteFiles, DelGoto, Note, Written, jobVars, projVars, taskVars,
           Recorded, TypeOK
  <2> QED BY <1>0, <2>1, <2>2
<1>21. ASSUME NEW d \in Deletes, DeleteTelemetry(d)
       PROVE  Recorded' /\ FileDocHasVectors'
  <2>1. Frame
    BY <1>21
       DEF DeleteTelemetry, DelGoto, Note, Written, jobVars, projVars,
           taskVars, TypeOK
  <2>2. Flags
    BY <1>21
       DEF DeleteTelemetry, DelGoto, Note, Written, jobVars, projVars,
           taskVars, Recorded, TypeOK
  <2> QED BY <1>0, <2>1, <2>2
<1>22. ASSUME NEW i \in Instances, Crash(i)
       PROVE  Recorded' /\ FileDocHasVectors'
  <2>1. Frame
    BY <1>22 DEF Crash, docVars, taskVars, TypeOK
  <2>2. Flags
    BY <1>22 DEF Crash, docVars, taskVars, Recorded, TypeOK
  <2> QED BY <1>0, <2>1, <2>2
<1>23. CASE UNCHANGED vars
  BY <1>23, <1>0 DEF vars, Recorded
<1> QED
  BY <1>1, <1>2, <1>3, <1>4, <1>5, <1>6, <1>7, <1>8, <1>9, <1>10, <1>11,
     <1>12, <1>13, <1>14, <1>15, <1>16, <1>17, <1>18, <1>18a, <1>19, <1>20, <1>21,
     <1>22, <1>23
     DEF Next, TaskStep, DeleteStep

\* A running task keeps its project document, unless a delete overlapped it or
\* a write failed: only DeleteDoc removes one.
LEMMA RegisteredStep ==
    ASSUME TypeOK, RegisteredExists, [Next]_vars
    PROVE  RegisteredExists'
<1>. DEFINE Grows == /\ proj' = proj
                    /\ faulted \subseteq faulted'
                    /\ raced \subseteq raced'
             Exists(k) == pc'[k] \in Registered =>
                            \/ pc[k] \in Registered /\ project'[proj[k]] = project[proj[k]]
                            \/ project'[proj[k]] # "none"
                            \/ proj[k] \in faulted' \cup raced'
<1>0. ASSUME Grows, \A k \in Jobs : Exists(k) PROVE RegisteredExists'
  BY <1>0 DEF RegisteredExists, TypeOK
<1>1. ASSUME NEW j \in Jobs, NEW S \in SUBSET Names, Submit(j, S)
      PROVE  RegisteredExists'
  <2>1. Grows
    BY <1>1 DEF Submit, Goto, Note, Written, projVars, delVars, TypeOK
  <2>2. ASSUME NEW k \in Jobs PROVE Exists(k)
    BY <1>1
       DEF Submit, Goto, Note, Written, projVars, delVars, Registered,
           Running, Failing, TypeOK
  <2> QED BY <1>0, <2>1, <2>2
<1>2. ASSUME NEW j \in Jobs, StartTask(j) PROVE RegisteredExists'
  <2>1. Grows
    BY <1>2 DEF StartTask, Goto, docVars, taskVars, delVars, envVars, TypeOK
  <2>2. ASSUME NEW k \in Jobs PROVE Exists(k)
    BY <1>2
       DEF StartTask, Goto, docVars, taskVars, delVars, envVars, Registered,
           Running, Failing, TypeOK
  <2> QED BY <1>0, <2>1, <2>2
<1>3. ASSUME NEW j \in Jobs, Register(j) PROVE RegisteredExists'
  <2>1. Grows
    BY <1>3 DEF Register, Goto, Note, Written, jobVars, delVars, TypeOK
  <2>2. ASSUME NEW k \in Jobs PROVE Exists(k)
    BY <1>3
       DEF Register, Goto, Note, Written, jobVars, delVars, Registered,
           Running, Failing, TypeOK
  <2> QED BY <1>0, <2>1, <2>2
<1>4. ASSUME NEW j \in Jobs, NEW n \in Names, RegisterTable(j, n)
      PROVE  RegisteredExists'
  <2>1. Grows
    BY <1>4
       DEF RegisterTable, Goto, Note, Written, jobVars, projVars, delVars,
           TypeOK
  <2>2. ASSUME NEW k \in Jobs PROVE Exists(k)
    BY <1>4
       DEF RegisterTable, Goto, Note, Written, jobVars, projVars, delVars,
           Registered, Running, Failing, TypeOK
  <2> QED BY <1>0, <2>1, <2>2
<1>5. ASSUME NEW j \in Jobs, BeginPipeline(j) PROVE RegisteredExists'
  <2>1. Grows
    BY <1>5
       DEF BeginPipeline, Goto, NextFile, docVars, taskVars, delVars,
           envVars, TypeOK
  <2>2. ASSUME NEW k \in Jobs PROVE Exists(k)
    BY <1>5
       DEF BeginPipeline, Goto, NextFile, docVars, taskVars, delVars,
           envVars, Registered, Running, Failing, TypeOK
  <2> QED BY <1>0, <2>1, <2>2
<1>6. ASSUME NEW j \in Jobs, NEW n \in Names, Progress(j, n)
      PROVE  RegisteredExists'
  <2>1. Grows
    BY <1>6 DEF Progress, Goto, Note, Written, projVars, delVars, TypeOK
  <2>2. ASSUME NEW k \in Jobs PROVE Exists(k)
    BY <1>6
       DEF Progress, Goto, Note, Written, projVars, delVars, Registered,
           Running, Failing, TypeOK
  <2> QED BY <1>0, <2>1, <2>2
<1>7. ASSUME NEW j \in Jobs, Parse(j) PROVE RegisteredExists'
  <2>1. Grows
    BY <1>7 DEF Parse, Goto, NextFile, docVars, delVars, envVars, TypeOK
  <2>2. ASSUME NEW k \in Jobs PROVE Exists(k)
    BY <1>7
       DEF Parse, Goto, NextFile, docVars, delVars, envVars, Registered,
           Running, Failing, TypeOK
  <2> QED BY <1>0, <2>1, <2>2
<1>8. ASSUME NEW j \in Jobs, RegisterSheet(j) PROVE RegisteredExists'
  <2>1. Grows
    BY <1>8
       DEF RegisterSheet, Goto, Note, Written, jobVars, projVars, taskVars,
           delVars, TypeOK
  <2>2. ASSUME NEW k \in Jobs PROVE Exists(k)
    BY <1>8
       DEF RegisterSheet, Goto, Note, Written, jobVars, projVars, taskVars,
           delVars, Registered, Running, Failing, TypeOK
  <2> QED BY <1>0, <2>1, <2>2
<1>9. ASSUME NEW j \in Jobs, Embed(j) PROVE RegisteredExists'
  <2>1. Grows
    BY <1>9 DEF Embed, Goto, NextFile, docVars, delVars, envVars, TypeOK
  <2>2. ASSUME NEW k \in Jobs PROVE Exists(k)
    BY <1>9
       DEF Embed, Goto, NextFile, docVars, delVars, envVars, Registered,
           Running, Failing, TypeOK
  <2> QED BY <1>0, <2>1, <2>2
<1>10. ASSUME NEW j \in Jobs, Record(j) PROVE RegisteredExists'
  <2>1. Grows
    BY <1>10
       DEF Record, Goto, Note, Written, NextFile, jobVars, projVars, delVars,
           TypeOK
  <2>2. ASSUME NEW k \in Jobs PROVE Exists(k)
    BY <1>10
       DEF Record, Goto, Note, Written, NextFile, jobVars, projVars, delVars,
           Registered, Running, Failing, TypeOK
  <2> QED BY <1>0, <2>1, <2>2
<1>11. ASSUME NEW j \in Jobs, SyncStatus(j) PROVE RegisteredExists'
  <2>1. Grows
    BY <1>11
       DEF SyncStatus, Goto, Note, MergeStatus, Written, jobVars, taskVars,
           delVars, TypeOK
  <2>2. ASSUME NEW k \in Jobs PROVE Exists(k)
    BY <1>11
       DEF SyncStatus, Goto, Note, MergeStatus, Written, jobVars, taskVars,
           delVars, Registered, Running, Failing, TypeOK
  <2> QED BY <1>0, <2>1, <2>2
<1>12. ASSUME NEW j \in Jobs, FinishJob(j) PROVE RegisteredExists'
  <2>1. Grows
    BY <1>12
       DEF FinishJob, Goto, Note, Written, Release, projVars, taskVars,
           delVars, TypeOK
  <2>2. ASSUME NEW k \in Jobs PROVE Exists(k)
    BY <1>12
       DEF FinishJob, Goto, Note, Written, Release, projVars, taskVars,
           delVars, Registered, Running, Failing, TypeOK
  <2> QED BY <1>0, <2>1, <2>2
<1>13. ASSUME NEW j \in Jobs, FailJob(j) PROVE RegisteredExists'
  <2>1. Grows
    BY <1>13
       DEF FailJob, Goto, Note, Written, Release, projVars, taskVars,
           delVars, TypeOK
  <2>2. ASSUME NEW k \in Jobs PROVE Exists(k)
    BY <1>13
       DEF FailJob, Goto, Note, Written, Release, projVars, taskVars,
           delVars, Registered, Running, Failing, TypeOK
  <2> QED BY <1>0, <2>1, <2>2
<1>14. ASSUME NEW j \in Jobs, FailProject(j) PROVE RegisteredExists'
  <2>1. Grows
    BY <1>14
       DEF FailProject, Goto, Note, MergeStatus, Release, Written, jobVars,
           taskVars, delVars, TypeOK
  <2>2. ASSUME NEW k \in Jobs PROVE Exists(k)
    BY <1>14
       DEF FailProject, Goto, Note, MergeStatus, Release, Written, jobVars,
           taskVars, delVars, Registered, Running, Failing, TypeOK
  <2> QED BY <1>0, <2>1, <2>2
<1>15. ASSUME NEW p \in Projects, CreateProject(p) PROVE RegisteredExists'
  <2>1. Grows
    BY <1>15 DEF CreateProject, jobVars, taskVars, delVars, envVars, TypeOK
  <2>2. ASSUME NEW k \in Jobs PROVE Exists(k)
    BY <1>15
       DEF CreateProject, jobVars, taskVars, delVars, envVars, Registered,
           Running, Failing, TypeOK
  <2> QED BY <1>0, <2>1, <2>2
<1>16. ASSUME NEW i \in Instances, NEW p \in Projects, ResetProject(i, p)
       PROVE  RegisteredExists'
  <2>1. Grows
    BY <1>16 DEF ResetProject, docVars, taskVars, delVars, envVars, TypeOK
  <2>2. ASSUME NEW k \in Jobs PROVE Exists(k)
    BY <1>16
       DEF ResetProject, docVars, taskVars, delVars, envVars, Registered,
           Running, Failing, TypeOK
  <2> QED BY <1>0, <2>1, <2>2
<1>17. ASSUME NEW d \in Deletes, DeleteStart(d) PROVE RegisteredExists'
  <2>1. Grows
    BY <1>17 DEF DeleteStart, DelGoto, docVars, taskVars, envVars, TypeOK
  <2>2. ASSUME NEW k \in Jobs PROVE Exists(k)
    BY <1>17
       DEF DeleteStart, DelGoto, docVars, taskVars, envVars, Registered,
           Running, Failing, TypeOK
  <2> QED BY <1>0, <2>1, <2>2
<1>18. ASSUME NEW d \in Deletes, DeleteClear(d) PROVE RegisteredExists'
  <2>1. Grows
    BY <1>18 DEF DeleteClear, DelGoto, docVars, taskVars, envVars, TypeOK
  <2>2. ASSUME NEW k \in Jobs PROVE Exists(k)
    BY <1>18
       DEF DeleteClear, DelGoto, docVars, taskVars, envVars, Registered,
           Running, Failing, TypeOK
  <2> QED BY <1>0, <2>1, <2>2
<1>18a. ASSUME NEW d \in Deletes, DeleteLook(d) PROVE RegisteredExists'
  <2>1. Grows
    BY <1>18a DEF DeleteLook, DelGoto, docVars, taskVars, envVars, TypeOK
  <2>2. ASSUME NEW k \in Jobs PROVE Exists(k)
    BY <1>18a
       DEF DeleteLook, DelGoto, docVars, taskVars, envVars, Registered,
           Running, Failing, TypeOK
  <2> QED BY <1>0, <2>1, <2>2
<1>19. ASSUME NEW d \in Deletes, DeleteDoc(d) PROVE RegisteredExists'
  <2>1. Grows
    BY <1>19
       DEF DeleteDoc, DelGoto, Written, jobVars, projVars, taskVars, envVars,
           TypeOK
  <2>2. ASSUME NEW k \in Jobs PROVE Exists(k)
    BY <1>19
       DEF DeleteDoc, DelGoto, Written, jobVars, projVars, taskVars, envVars,
           Registered, Running, Failing, TypeOK
  <2> QED BY <1>0, <2>1, <2>2
<1>20. ASSUME NEW d \in Deletes, DeleteFiles(d) PROVE RegisteredExists'
  <2>1. Grows
    BY <1>20
       DEF DeleteFiles, DelGoto, Note, Written, jobVars, projVars, taskVars,
           TypeOK
  <2>2. ASSUME NEW k \in Jobs PROVE Exists(k)
    BY <1>20
       DEF DeleteFiles, DelGoto, Note, Written, jobVars, projVars, taskVars,
           Registered, Running, Failing, TypeOK
  <2> QED BY <1>0, <2>1, <2>2
<1>21. ASSUME NEW d \in Deletes, DeleteTelemetry(d) PROVE RegisteredExists'
  <2>1. Grows
    BY <1>21
       DEF DeleteTelemetry, DelGoto, Note, Written, jobVars, projVars,
           taskVars, TypeOK
  <2>2. ASSUME NEW k \in Jobs PROVE Exists(k)
    BY <1>21
       DEF DeleteTelemetry, DelGoto, Note, Written, jobVars, projVars,
           taskVars, Registered, Running, Failing, TypeOK
  <2> QED BY <1>0, <2>1, <2>2
<1>22. ASSUME NEW i \in Instances, Crash(i) PROVE RegisteredExists'
  <2>1. Grows
    BY <1>22 DEF Crash, docVars, taskVars, TypeOK
  <2>2. ASSUME NEW k \in Jobs PROVE Exists(k)
    BY <1>22
       DEF Crash, docVars, taskVars, Registered, Running, Failing, TypeOK
  <2> QED BY <1>0, <2>1, <2>2
<1>23. CASE UNCHANGED vars
  BY <1>23, <1>0 DEF vars
<1> QED
  BY <1>1, <1>2, <1>3, <1>4, <1>5, <1>6, <1>7, <1>8, <1>9, <1>10, <1>11,
     <1>12, <1>13, <1>14, <1>15, <1>16, <1>17, <1>18, <1>18a, <1>19, <1>20, <1>21,
     <1>22, <1>23
     DEF Next, TaskStep, DeleteStep

\* Records without a project stay explained: a step that removes the project
\* starts clearing it, overlapped a task, or failed half-way.
LEMMA OrphansStep ==
    ASSUME TypeOK, Stages, RegisteredExists, OrphansExplained, [Next]_vars
    PROVE  OrphansExplained'
<1>. DEFINE Grows == /\ proj' = proj /\ delProj' = delProj
                    /\ faulted \subseteq faulted' /\ raced \subseteq raced'
             Kept(p) == project'[p] = "none" => project[p] = "none"
             Calm == /\ \A p \in Projects : Kept(p)
                     /\ \A d \in Deletes : delPc[d] \in {"files", "telemetry"} =>
                           delPc'[d] = delPc[d] \/ delProj[d] \in faulted'
<1>0. ASSUME Grows, Calm,
             \A f \in fileDocs' : f \in fileDocs \/ NoOrphan(proj[f[1]], {"files"}),
             \A t \in telDocs' : t \in telDocs
                                   \/ NoOrphan(proj[t[1]], {"files", "telemetry"})
      PROVE  OrphansExplained'
  <2>1. ASSUME NEW p \in Projects, NEW c \in SUBSET {"files", "telemetry"},
               NoOrphan(p, c)
        PROVE  NoOrphan(p, c)'
    BY <1>0, <2>1 DEF NoOrphan
  <2>2. ASSUME NEW f \in fileDocs' PROVE NoOrphan(proj[f[1]], {"files"})
    BY <1>0, <2>2 DEF OrphansExplained
  <2>3. ASSUME NEW t \in telDocs' PROVE NoOrphan(proj[t[1]], {"files", "telemetry"})
    BY <1>0, <2>3 DEF OrphansExplained
  <2>4. /\ \A f \in fileDocs' : proj[f[1]] \in Projects
        /\ \A t \in telDocs' : proj[t[1]] \in Projects
    BY TypeStep DEF TypeOK
  <2> QED BY <1>0, <2>1, <2>2, <2>3, <2>4 DEF OrphansExplained
<1>1. ASSUME NEW j \in Jobs, NEW S \in SUBSET Names, Submit(j, S)
      PROVE  OrphansExplained'
  <2>1. Grows
    BY <1>1 DEF Submit, Goto, Note, Written, projVars, delVars, TypeOK
  <2>2. Calm
    BY <1>1 DEF Submit, Goto, Note, Written, projVars, delVars, TypeOK
  <2>3. fileDocs' = fileDocs /\ telDocs' = telDocs
    BY <1>1 DEF Submit
  <2> QED BY <1>0, <2>1, <2>2, <2>3
<1>2. ASSUME NEW j \in Jobs, StartTask(j) PROVE OrphansExplained'
  <2>1. Grows
    BY <1>2 DEF StartTask, Goto, docVars, taskVars, delVars, envVars, TypeOK
  <2>2. Calm
    BY <1>2 DEF StartTask, Goto, docVars, taskVars, delVars, envVars, TypeOK
  <2>3. fileDocs' = fileDocs /\ telDocs' = telDocs
    BY <1>2 DEF StartTask, docVars
  <2> QED BY <1>0, <2>1, <2>2, <2>3
<1>3. ASSUME NEW j \in Jobs, Register(j) PROVE OrphansExplained'
  <2>1. Grows
    BY <1>3 DEF Register, Goto, Note, Written, jobVars, delVars, TypeOK
  <2>2. Calm
    BY <1>3 DEF Register, Goto, Note, Written, jobVars, delVars, TypeOK
  <2>3. fileDocs' = fileDocs /\ telDocs' = telDocs
    BY <1>3 DEF Register
  <2> QED BY <1>0, <2>1, <2>2, <2>3
<1>4. ASSUME NEW j \in Jobs, NEW n \in Names, RegisterTable(j, n)
      PROVE  OrphansExplained'
  <2>1. Grows
    BY <1>4
       DEF RegisterTable, Goto, Note, Written, jobVars, projVars, delVars,
           TypeOK
  <2>2. Calm
    BY <1>4
       DEF RegisterTable, Goto, Note, Written, jobVars, projVars, delVars,
           TypeOK
  <2>3. NoOrphan(proj[j], {"files"}) /\ NoOrphan(proj[j], {"files", "telemetry"})
    BY <1>4 DEF RegisterTable, RegisteredExists, NoOrphan, Registered
  <2>4. /\ \A f \in fileDocs' : f \in fileDocs \/ f[1] = j
        /\ \A t \in telDocs' : t \in telDocs \/ t[1] = j
    BY <1>4 DEF RegisterTable, Written
  <2> QED BY <1>0, <2>1, <2>2, <2>3, <2>4
<1>5. ASSUME NEW j \in Jobs, BeginPipeline(j) PROVE OrphansExplained'
  <2>1. Grows
    BY <1>5
       DEF BeginPipeline, Goto, NextFile, docVars, taskVars, delVars,
           envVars, TypeOK
  <2>2. Calm
    BY <1>5
       DEF BeginPipeline, Goto, NextFile, docVars, taskVars, delVars,
           envVars, TypeOK
  <2>3. fileDocs' = fileDocs /\ telDocs' = telDocs
    BY <1>5 DEF BeginPipeline, docVars
  <2> QED BY <1>0, <2>1, <2>2, <2>3
<1>6. ASSUME NEW j \in Jobs, NEW n \in Names, Progress(j, n)
      PROVE  OrphansExplained'
  <2>1. Grows
    BY <1>6 DEF Progress, Goto, Note, Written, projVars, delVars, TypeOK
  <2>2. Calm
    BY <1>6 DEF Progress, Goto, Note, Written, projVars, delVars, TypeOK
  <2>3. fileDocs' = fileDocs /\ telDocs' = telDocs
    BY <1>6 DEF Progress
  <2> QED BY <1>0, <2>1, <2>2, <2>3
<1>7. ASSUME NEW j \in Jobs, Parse(j) PROVE OrphansExplained'
  <2>1. Grows
    BY <1>7 DEF Parse, Goto, NextFile, docVars, delVars, envVars, TypeOK
  <2>2. Calm
    BY <1>7 DEF Parse, Goto, NextFile, docVars, delVars, envVars, TypeOK
  <2>3. fileDocs' = fileDocs /\ telDocs' = telDocs
    BY <1>7 DEF Parse, docVars
  <2> QED BY <1>0, <2>1, <2>2, <2>3
<1>8. ASSUME NEW j \in Jobs, RegisterSheet(j) PROVE OrphansExplained'
  <2>1. Grows
    BY <1>8
       DEF RegisterSheet, Goto, Note, Written, jobVars, projVars, taskVars,
           delVars, TypeOK
  <2>2. Calm
    BY <1>8
       DEF RegisterSheet, Goto, Note, Written, jobVars, projVars, taskVars,
           delVars, TypeOK
  <2>3. NoOrphan(proj[j], {"files"}) /\ NoOrphan(proj[j], {"files", "telemetry"})
    BY <1>8 DEF RegisterSheet, RegisteredExists, NoOrphan, Registered
  <2>4. /\ \A f \in fileDocs' : f \in fileDocs \/ f[1] = j
        /\ \A t \in telDocs' : t \in telDocs \/ t[1] = j
    BY <1>8 DEF RegisterSheet, Written
  <2> QED BY <1>0, <2>1, <2>2, <2>3, <2>4
<1>9. ASSUME NEW j \in Jobs, Embed(j) PROVE OrphansExplained'
  <2>1. Grows
    BY <1>9 DEF Embed, Goto, NextFile, docVars, delVars, envVars, TypeOK
  <2>2. Calm
    BY <1>9 DEF Embed, Goto, NextFile, docVars, delVars, envVars, TypeOK
  <2>3. fileDocs' = fileDocs /\ telDocs' = telDocs
    BY <1>9 DEF Embed, docVars
  <2> QED BY <1>0, <2>1, <2>2, <2>3
<1>10. ASSUME NEW j \in Jobs, Record(j) PROVE OrphansExplained'
  <2>1. Grows
    BY <1>10
       DEF Record, Goto, Note, Written, NextFile, jobVars, projVars, delVars,
           TypeOK
  <2>2. Calm
    BY <1>10
       DEF Record, Goto, Note, Written, NextFile, jobVars, projVars, delVars,
           TypeOK
  <2>3. NoOrphan(proj[j], {"files"}) /\ NoOrphan(proj[j], {"files", "telemetry"})
    BY <1>10 DEF Record, RegisteredExists, NoOrphan, Registered
  <2>4. /\ \A f \in fileDocs' : f \in fileDocs \/ f[1] = j
        /\ \A t \in telDocs' : t \in telDocs \/ t[1] = j
    BY <1>10 DEF Record, Written
  <2> QED BY <1>0, <2>1, <2>2, <2>3, <2>4
<1>11. ASSUME NEW j \in Jobs, SyncStatus(j) PROVE OrphansExplained'
  <2>1. Grows
    BY <1>11
       DEF SyncStatus, Goto, Note, MergeStatus, Written, jobVars, taskVars,
           delVars, TypeOK
  <2>2. Calm
    BY <1>11
       DEF SyncStatus, Goto, Note, MergeStatus, Written, jobVars, taskVars,
           delVars, TypeOK
  <2>3. fileDocs' = fileDocs /\ telDocs' = telDocs
    BY <1>11 DEF SyncStatus
  <2> QED BY <1>0, <2>1, <2>2, <2>3
<1>12. ASSUME NEW j \in Jobs, FinishJob(j) PROVE OrphansExplained'
  <2>1. Grows
    BY <1>12
       DEF FinishJob, Goto, Note, Written, Release, projVars, taskVars,
           delVars, TypeOK
  <2>2. Calm
    BY <1>12
       DEF FinishJob, Goto, Note, Written, Release, projVars, taskVars,
           delVars, TypeOK
  <2>3. fileDocs' = fileDocs /\ telDocs' = telDocs
    BY <1>12 DEF FinishJob
  <2> QED BY <1>0, <2>1, <2>2, <2>3
<1>13. ASSUME NEW j \in Jobs, FailJob(j) PROVE OrphansExplained'
  <2>1. Grows
    BY <1>13
       DEF FailJob, Goto, Note, Written, Release, projVars, taskVars,
           delVars, TypeOK
  <2>2. Calm
    BY <1>13
       DEF FailJob, Goto, Note, Written, Release, projVars, taskVars,
           delVars, TypeOK
  <2>3. fileDocs' = fileDocs /\ telDocs' = telDocs
    BY <1>13 DEF FailJob
  <2> QED BY <1>0, <2>1, <2>2, <2>3
<1>14. ASSUME NEW j \in Jobs, FailProject(j) PROVE OrphansExplained'
  <2>1. Grows
    BY <1>14
       DEF FailProject, Goto, Note, MergeStatus, Release, Written, jobVars,
           taskVars, delVars, TypeOK
  <2>2. Calm
    BY <1>14
       DEF FailProject, Goto, Note, MergeStatus, Release, Written, jobVars,
           taskVars, delVars, TypeOK
  <2>3. fileDocs' = fileDocs /\ telDocs' = telDocs
    BY <1>14 DEF FailProject
  <2> QED BY <1>0, <2>1, <2>2, <2>3
<1>15. ASSUME NEW p \in Projects, CreateProject(p) PROVE OrphansExplained'
  <2>1. Grows
    BY <1>15 DEF CreateProject, jobVars, taskVars, delVars, envVars, TypeOK
  <2>2. Calm
    BY <1>15 DEF CreateProject, jobVars, taskVars, delVars, envVars, TypeOK
  <2>3. fileDocs' = fileDocs /\ telDocs' = telDocs
    BY <1>15 DEF CreateProject
  <2> QED BY <1>0, <2>1, <2>2, <2>3
<1>16. ASSUME NEW i \in Instances, NEW p \in Projects, ResetProject(i, p)
       PROVE  OrphansExplained'
  <2>1. Grows
    BY <1>16 DEF ResetProject, docVars, taskVars, delVars, envVars, TypeOK
  <2>2. Calm
    BY <1>16 DEF ResetProject, docVars, taskVars, delVars, envVars, TypeOK
  <2>3. fileDocs' = fileDocs /\ telDocs' = telDocs
    BY <1>16 DEF ResetProject, docVars
  <2> QED BY <1>0, <2>1, <2>2, <2>3
<1>17. ASSUME NEW d \in Deletes, DeleteStart(d) PROVE OrphansExplained'
  <2>1. Grows
    BY <1>17 DEF DeleteStart, DelGoto, docVars, taskVars, envVars, TypeOK
  <2>2. Calm
    BY <1>17 DEF DeleteStart, DelGoto, docVars, taskVars, envVars, TypeOK
  <2>3. fileDocs' = fileDocs /\ telDocs' = telDocs
    BY <1>17 DEF DeleteStart, docVars
  <2> QED BY <1>0, <2>1, <2>2, <2>3
<1>18. ASSUME NEW d \in Deletes, DeleteClear(d) PROVE OrphansExplained'
  <2>1. Grows
    BY <1>18 DEF DeleteClear, DelGoto, docVars, taskVars, envVars, TypeOK
  <2>2. Calm
    BY <1>18 DEF DeleteClear, DelGoto, docVars, taskVars, envVars, TypeOK
  <2>3. fileDocs' = fileDocs /\ telDocs' = telDocs
    BY <1>18 DEF DeleteClear, docVars
  <2> QED BY <1>0, <2>1, <2>2, <2>3
<1>18a. ASSUME NEW d \in Deletes, DeleteLook(d) PROVE OrphansExplained'
  <2>1. Grows
    BY <1>18a DEF DeleteLook, DelGoto, docVars, taskVars, envVars, TypeOK
  <2>2. Calm
    BY <1>18a DEF DeleteLook, DelGoto, docVars, taskVars, envVars, TypeOK
  <2>3. fileDocs' = fileDocs /\ telDocs' = telDocs
    BY <1>18a DEF DeleteLook, docVars
  <2> QED BY <1>0, <2>1, <2>2, <2>3
<1>19. ASSUME NEW d \in Deletes, DeleteDoc(d) PROVE OrphansExplained'
  <2>. DEFINE p == delProj[d]
  <2>1. /\ fileDocs' = fileDocs /\ telDocs' = telDocs
        /\ proj' = proj /\ delProj' = delProj
        /\ faulted \subseteq faulted' /\ raced \subseteq raced'
    BY <1>19 DEF DeleteDoc, DelGoto, jobVars, taskVars, envVars
  <2>2. \/ project'[p] = project[p]
        \/ delPc'[d] = "files"
        \/ p \in faulted'
    BY <1>19 DEF DeleteDoc, DelGoto, projVars, TypeOK
  <2>3. /\ \A q \in Projects : q # p => project'[q] = project[q]
        /\ \A e \in Deletes : e # d => delPc'[e] = delPc[e]
        /\ delPc[d] = "doc"
    BY <1>19 DEF DeleteDoc, DelGoto, projVars, TypeOK
  <2>4. ASSUME NEW q \in Projects, NEW c \in SUBSET {"files", "telemetry"},
               "files" \in c, NoOrphan(q, c)
        PROVE  NoOrphan(q, c)'
    BY <2>1, <2>2, <2>3, <2>4 DEF NoOrphan, TypeOK
  <2>5. /\ \A f \in fileDocs : proj[f[1]] \in Projects
        /\ \A t \in telDocs : proj[t[1]] \in Projects
    BY DEF TypeOK
  <2> QED BY <2>1, <2>4, <2>5 DEF OrphansExplained
<1>20. ASSUME NEW d \in Deletes, DeleteFiles(d) PROVE OrphansExplained'
  <2>. DEFINE p == delProj[d]
  <2>1. /\ telDocs' = telDocs /\ fileDocs' \subseteq fileDocs
        /\ proj' = proj /\ delProj' = delProj /\ project' = project
        /\ faulted \subseteq faulted' /\ raced \subseteq raced'
    BY <1>20 DEF DeleteFiles, DelGoto, Note, Written, projVars, taskVars
  <2>2. \/ /\ delPc'[d] = "telemetry"
           /\ \A f \in fileDocs' : proj[f[1]] # p
        \/ p \in faulted'
    BY <1>20 DEF DeleteFiles, DelGoto, Note, Written, TypeOK
  <2>3. \A e \in Deletes : e # d => delPc'[e] = delPc[e]
    BY <1>20 DEF DeleteFiles, DelGoto, TypeOK
  <2>4. ASSUME NEW q \in Projects, q # p, NEW c \in SUBSET {"files", "telemetry"},
               NoOrphan(q, c)
        PROVE  NoOrphan(q, c)'
    BY <2>1, <2>3, <2>4 DEF NoOrphan
  <2>5. /\ \A f \in fileDocs : proj[f[1]] \in Projects
        /\ \A t \in telDocs : proj[t[1]] \in Projects
    BY DEF TypeOK
  <2>6. ASSUME NEW f \in fileDocs' PROVE NoOrphan(proj[f[1]], {"files"})'
    <3>1. f \in fileDocs /\ NoOrphan(proj[f[1]], {"files"})
      BY <2>1, <2>6 DEF OrphansExplained
    <3>2. CASE proj[f[1]] = p
      BY <2>1, <2>2, <2>6, <3>2 DEF NoOrphan
    <3>3. CASE proj[f[1]] # p
      BY <2>1, <2>4, <2>5, <3>1, <3>3
    <3> QED BY <3>2, <3>3
  <2>7. ASSUME NEW t \in telDocs'
        PROVE  NoOrphan(proj[t[1]], {"files", "telemetry"})'
    <3>1. t \in telDocs /\ NoOrphan(proj[t[1]], {"files", "telemetry"})
      BY <2>1, <2>7 DEF OrphansExplained
    <3>2. CASE proj[t[1]] = p
      BY <2>1, <2>2, <3>2 DEF NoOrphan
    <3>3. CASE proj[t[1]] # p
      BY <2>1, <2>4, <2>5, <3>1, <3>3
    <3> QED BY <3>2, <3>3
  <2> QED BY <2>1, <2>6, <2>7 DEF OrphansExplained
<1>21. ASSUME NEW d \in Deletes, DeleteTelemetry(d) PROVE OrphansExplained'
  <2>. DEFINE p == delProj[d]
  <2>1. /\ fileDocs' = fileDocs /\ telDocs' \subseteq telDocs
        /\ proj' = proj /\ delProj' = delProj /\ project' = project
        /\ faulted \subseteq faulted' /\ raced \subseteq raced'
    BY <1>21 DEF DeleteTelemetry, DelGoto, Note, Written, projVars, taskVars
  <2>2. \/ \A t \in telDocs' : proj[t[1]] # p
        \/ p \in faulted'
    BY <1>21 DEF DeleteTelemetry, DelGoto, Note, Written, TypeOK
  <2>3. /\ \A e \in Deletes : e # d => delPc'[e] = delPc[e]
        /\ delPc[d] = "telemetry"
    BY <1>21 DEF DeleteTelemetry, DelGoto, TypeOK
  <2>4. ASSUME NEW q \in Projects, NEW c \in SUBSET {"files", "telemetry"},
               q # p \/ c = {"files"}, NoOrphan(q, c)
        PROVE  NoOrphan(q, c)'
    BY <2>1, <2>3, <2>4 DEF NoOrphan
  <2>5. /\ \A f \in fileDocs : proj[f[1]] \in Projects
        /\ \A t \in telDocs : proj[t[1]] \in Projects
    BY DEF TypeOK
  <2>6. ASSUME NEW f \in fileDocs' PROVE NoOrphan(proj[f[1]], {"files"})'
    BY <2>1, <2>4, <2>5, <2>6 DEF OrphansExplained
  <2>7. ASSUME NEW t \in telDocs'
        PROVE  NoOrphan(proj[t[1]], {"files", "telemetry"})'
    <3>1. t \in telDocs /\ NoOrphan(proj[t[1]], {"files", "telemetry"})
      BY <2>1, <2>7 DEF OrphansExplained
    <3>2. CASE proj[t[1]] = p
      BY <2>1, <2>2, <2>7, <3>2 DEF NoOrphan
    <3>3. CASE proj[t[1]] # p
      BY <2>1, <2>4, <2>5, <3>1, <3>3
    <3> QED BY <3>2, <3>3
  <2> QED BY <2>1, <2>6, <2>7 DEF OrphansExplained
<1>22. ASSUME NEW i \in Instances, Crash(i) PROVE OrphansExplained'
  <2>1. Grows
    BY <1>22 DEF Crash, docVars, taskVars, TypeOK
  <2>2. Calm
    BY <1>22 DEF Crash, docVars, taskVars, DelActive, TypeOK
  <2>3. fileDocs' = fileDocs /\ telDocs' = telDocs
    BY <1>22 DEF Crash, docVars
  <2> QED BY <1>0, <2>1, <2>2, <2>3
<1>23. CASE UNCHANGED vars
  BY <1>23, <1>0 DEF vars
<1> QED
  BY <1>1, <1>2, <1>3, <1>4, <1>5, <1>6, <1>7, <1>8, <1>9, <1>10, <1>11,
     <1>12, <1>13, <1>14, <1>15, <1>16, <1>17, <1>18, <1>18a, <1>19, <1>20, <1>21,
     <1>22, <1>23
     DEF Next, TaskStep, DeleteStep

\* INDEXING stays explained: whoever set it runs until it overwrites it.
LEMMA IndexingStep ==
    ASSUME TypeOK, IndexingExplained, [Next]_vars
    PROVE  IndexingExplained'
<1>. DEFINE Busy == Registered \cup Failing
             Grows == proj' = proj /\ faulted \subseteq faulted'
             Shown(p) == project'[p] = "INDEXING" =>
                           \/ project[p] = "INDEXING"
                           \/ \E k \in Jobs : proj[k] = p /\ pc'[k] \in Busy
                           \/ p \in faulted'
             Stays(k) == pc[k] \in Busy =>
                           \/ pc'[k] \in Busy
                           \/ project'[proj[k]] # "INDEXING"
                           \/ proj[k] \in faulted'
<1>0. ASSUME Grows, \A p \in Projects : Shown(p), \A k \in Jobs : Stays(k)
      PROVE  IndexingExplained'
  BY <1>0 DEF IndexingExplained
<1>1. ASSUME NEW j \in Jobs, NEW S \in SUBSET Names, Submit(j, S)
      PROVE  IndexingExplained'
  <2>1. Grows
    BY <1>1 DEF Submit, Goto, Note, Written, projVars, delVars, TypeOK
  <2>2. ASSUME NEW q \in Projects PROVE Shown(q)
    BY <1>1
       DEF Submit, Goto, Note, Written, projVars, delVars, Registered,
           Failing, TypeOK
  <2>3. ASSUME NEW k \in Jobs PROVE Stays(k)
    BY <1>1
       DEF Submit, Goto, Note, Written, projVars, delVars, Registered,
           Running, Failing, TypeOK
  <2> QED BY <1>0, <2>1, <2>2, <2>3
<1>2. ASSUME NEW j \in Jobs, StartTask(j) PROVE IndexingExplained'
  <2>1. Grows
    BY <1>2 DEF StartTask, Goto, docVars, taskVars, delVars, envVars, TypeOK
  <2>2. ASSUME NEW q \in Projects PROVE Shown(q)
    BY <1>2
       DEF StartTask, Goto, docVars, taskVars, delVars, envVars, Registered,
           Failing, TypeOK
  <2>3. ASSUME NEW k \in Jobs PROVE Stays(k)
    BY <1>2
       DEF StartTask, Goto, docVars, taskVars, delVars, envVars, Registered,
           Running, Failing, TypeOK
  <2> QED BY <1>0, <2>1, <2>2, <2>3
<1>3. ASSUME NEW j \in Jobs, Register(j) PROVE IndexingExplained'
  <2>1. Grows
    BY <1>3 DEF Register, Goto, Note, Written, jobVars, delVars, TypeOK
  <2>2. ASSUME NEW q \in Projects PROVE Shown(q)
    BY <1>3
       DEF Register, Goto, Note, Written, jobVars, delVars, Registered,
           Failing, TypeOK
  <2>3. ASSUME NEW k \in Jobs PROVE Stays(k)
    BY <1>3
       DEF Register, Goto, Note, Written, jobVars, delVars, Registered,
           Running, Failing, TypeOK
  <2> QED BY <1>0, <2>1, <2>2, <2>3
<1>4. ASSUME NEW j \in Jobs, NEW n \in Names, RegisterTable(j, n)
      PROVE  IndexingExplained'
  <2>1. Grows
    BY <1>4
       DEF RegisterTable, Goto, Note, Written, jobVars, projVars, delVars,
           TypeOK
  <2>2. ASSUME NEW q \in Projects PROVE Shown(q)
    BY <1>4
       DEF RegisterTable, Goto, Note, Written, jobVars, projVars, delVars,
           Registered, Failing, TypeOK
  <2>3. ASSUME NEW k \in Jobs PROVE Stays(k)
    BY <1>4
       DEF RegisterTable, Goto, Note, Written, jobVars, projVars, delVars,
           Registered, Running, Failing, TypeOK
  <2> QED BY <1>0, <2>1, <2>2, <2>3
<1>5. ASSUME NEW j \in Jobs, BeginPipeline(j) PROVE IndexingExplained'
  <2>1. Grows
    BY <1>5
       DEF BeginPipeline, Goto, NextFile, docVars, taskVars, delVars,
           envVars, TypeOK
  <2>2. ASSUME NEW q \in Projects PROVE Shown(q)
    BY <1>5
       DEF BeginPipeline, Goto, NextFile, docVars, taskVars, delVars,
           envVars, Registered, Failing, TypeOK
  <2>3. ASSUME NEW k \in Jobs PROVE Stays(k)
    BY <1>5
       DEF BeginPipeline, Goto, NextFile, docVars, taskVars, delVars,
           envVars, Registered, Running, Failing, TypeOK
  <2> QED BY <1>0, <2>1, <2>2, <2>3
<1>6. ASSUME NEW j \in Jobs, NEW n \in Names, Progress(j, n)
      PROVE  IndexingExplained'
  <2>1. Grows
    BY <1>6 DEF Progress, Goto, Note, Written, projVars, delVars, TypeOK
  <2>2. ASSUME NEW q \in Projects PROVE Shown(q)
    BY <1>6
       DEF Progress, Goto, Note, Written, projVars, delVars, Registered,
           Failing, TypeOK
  <2>3. ASSUME NEW k \in Jobs PROVE Stays(k)
    BY <1>6
       DEF Progress, Goto, Note, Written, projVars, delVars, Registered,
           Running, Failing, TypeOK
  <2> QED BY <1>0, <2>1, <2>2, <2>3
<1>7. ASSUME NEW j \in Jobs, Parse(j) PROVE IndexingExplained'
  <2>1. Grows
    BY <1>7 DEF Parse, Goto, NextFile, docVars, delVars, envVars, TypeOK
  <2>2. ASSUME NEW q \in Projects PROVE Shown(q)
    BY <1>7
       DEF Parse, Goto, NextFile, docVars, delVars, envVars, Registered,
           Failing, TypeOK
  <2>3. ASSUME NEW k \in Jobs PROVE Stays(k)
    BY <1>7
       DEF Parse, Goto, NextFile, docVars, delVars, envVars, Registered,
           Running, Failing, TypeOK
  <2> QED BY <1>0, <2>1, <2>2, <2>3
<1>8. ASSUME NEW j \in Jobs, RegisterSheet(j) PROVE IndexingExplained'
  <2>1. Grows
    BY <1>8
       DEF RegisterSheet, Goto, Note, Written, jobVars, projVars, taskVars,
           delVars, TypeOK
  <2>2. ASSUME NEW q \in Projects PROVE Shown(q)
    BY <1>8
       DEF RegisterSheet, Goto, Note, Written, jobVars, projVars, taskVars,
           delVars, Registered, Failing, TypeOK
  <2>3. ASSUME NEW k \in Jobs PROVE Stays(k)
    BY <1>8
       DEF RegisterSheet, Goto, Note, Written, jobVars, projVars, taskVars,
           delVars, Registered, Running, Failing, TypeOK
  <2> QED BY <1>0, <2>1, <2>2, <2>3
<1>9. ASSUME NEW j \in Jobs, Embed(j) PROVE IndexingExplained'
  <2>1. Grows
    BY <1>9 DEF Embed, Goto, NextFile, docVars, delVars, envVars, TypeOK
  <2>2. ASSUME NEW q \in Projects PROVE Shown(q)
    BY <1>9
       DEF Embed, Goto, NextFile, docVars, delVars, envVars, Registered,
           Failing, TypeOK
  <2>3. ASSUME NEW k \in Jobs PROVE Stays(k)
    BY <1>9
       DEF Embed, Goto, NextFile, docVars, delVars, envVars, Registered,
           Running, Failing, TypeOK
  <2> QED BY <1>0, <2>1, <2>2, <2>3
<1>10. ASSUME NEW j \in Jobs, Record(j) PROVE IndexingExplained'
  <2>1. Grows
    BY <1>10
       DEF Record, Goto, Note, Written, NextFile, jobVars, projVars, delVars,
           TypeOK
  <2>2. ASSUME NEW q \in Projects PROVE Shown(q)
    BY <1>10
       DEF Record, Goto, Note, Written, NextFile, jobVars, projVars, delVars,
           Registered, Failing, TypeOK
  <2>3. ASSUME NEW k \in Jobs PROVE Stays(k)
    BY <1>10
       DEF Record, Goto, Note, Written, NextFile, jobVars, projVars, delVars,
           Registered, Running, Failing, TypeOK
  <2> QED BY <1>0, <2>1, <2>2, <2>3
<1>11. ASSUME NEW j \in Jobs, SyncStatus(j) PROVE IndexingExplained'
  <2>1. Grows
    BY <1>11
       DEF SyncStatus, Goto, Note, MergeStatus, Written, jobVars, taskVars,
           delVars, TypeOK
  <2>2. ASSUME NEW q \in Projects PROVE Shown(q)
    BY <1>11
       DEF SyncStatus, Goto, Note, MergeStatus, Written, jobVars, taskVars,
           delVars, Registered, Failing, TypeOK
  <2>3. ASSUME NEW k \in Jobs PROVE Stays(k)
    BY <1>11
       DEF SyncStatus, Goto, Note, MergeStatus, Written, jobVars, taskVars,
           delVars, Registered, Running, Failing, TypeOK
  <2> QED BY <1>0, <2>1, <2>2, <2>3
<1>12. ASSUME NEW j \in Jobs, FinishJob(j) PROVE IndexingExplained'
  <2>1. Grows
    BY <1>12
       DEF FinishJob, Goto, Note, Written, Release, projVars, taskVars,
           delVars, TypeOK
  <2>2. ASSUME NEW q \in Projects PROVE Shown(q)
    BY <1>12
       DEF FinishJob, Goto, Note, Written, Release, projVars, taskVars,
           delVars, Registered, Failing, TypeOK
  <2>3. ASSUME NEW k \in Jobs PROVE Stays(k)
    BY <1>12
       DEF FinishJob, Goto, Note, Written, Release, projVars, taskVars,
           delVars, Registered, Running, Failing, TypeOK
  <2> QED BY <1>0, <2>1, <2>2, <2>3
<1>13. ASSUME NEW j \in Jobs, FailJob(j) PROVE IndexingExplained'
  <2>1. Grows
    BY <1>13
       DEF FailJob, Goto, Note, Written, Release, projVars, taskVars,
           delVars, TypeOK
  <2>2. ASSUME NEW q \in Projects PROVE Shown(q)
    BY <1>13
       DEF FailJob, Goto, Note, Written, Release, projVars, taskVars,
           delVars, Registered, Failing, TypeOK
  <2>3. ASSUME NEW k \in Jobs PROVE Stays(k)
    BY <1>13
       DEF FailJob, Goto, Note, Written, Release, projVars, taskVars,
           delVars, Registered, Running, Failing, TypeOK
  <2> QED BY <1>0, <2>1, <2>2, <2>3
<1>14. ASSUME NEW j \in Jobs, FailProject(j) PROVE IndexingExplained'
  <2>1. Grows
    BY <1>14
       DEF FailProject, Goto, Note, MergeStatus, Release, Written, jobVars,
           taskVars, delVars, TypeOK
  <2>2. ASSUME NEW q \in Projects PROVE Shown(q)
    BY <1>14
       DEF FailProject, Goto, Note, MergeStatus, Release, Written, jobVars,
           taskVars, delVars, Registered, Failing, TypeOK
  <2>3. ASSUME NEW k \in Jobs PROVE Stays(k)
    BY <1>14
       DEF FailProject, Goto, Note, MergeStatus, Release, Written, jobVars,
           taskVars, delVars, Registered, Running, Failing, TypeOK
  <2> QED BY <1>0, <2>1, <2>2, <2>3
<1>15. ASSUME NEW p \in Projects, CreateProject(p) PROVE IndexingExplained'
  <2>1. Grows
    BY <1>15 DEF CreateProject, jobVars, taskVars, delVars, envVars, TypeOK
  <2>2. ASSUME NEW q \in Projects PROVE Shown(q)
    BY <1>15
       DEF CreateProject, jobVars, taskVars, delVars, envVars, Registered,
           Failing, TypeOK
  <2>3. ASSUME NEW k \in Jobs PROVE Stays(k)
    BY <1>15
       DEF CreateProject, jobVars, taskVars, delVars, envVars, Registered,
           Running, Failing, TypeOK
  <2> QED BY <1>0, <2>1, <2>2, <2>3
<1>16. ASSUME NEW i \in Instances, NEW p \in Projects, ResetProject(i, p)
       PROVE  IndexingExplained'
  <2>1. Grows
    BY <1>16 DEF ResetProject, docVars, taskVars, delVars, envVars, TypeOK
  <2>2. ASSUME NEW q \in Projects PROVE Shown(q)
    BY <1>16
       DEF ResetProject, docVars, taskVars, delVars, envVars, Registered,
           Failing, TypeOK
  <2>3. ASSUME NEW k \in Jobs PROVE Stays(k)
    BY <1>16
       DEF ResetProject, docVars, taskVars, delVars, envVars, Registered,
           Running, Failing, TypeOK
  <2> QED BY <1>0, <2>1, <2>2, <2>3
<1>17. ASSUME NEW d \in Deletes, DeleteStart(d) PROVE IndexingExplained'
  <2>1. Grows
    BY <1>17 DEF DeleteStart, DelGoto, docVars, taskVars, envVars, TypeOK
  <2>2. ASSUME NEW q \in Projects PROVE Shown(q)
    BY <1>17
       DEF DeleteStart, DelGoto, docVars, taskVars, envVars, Registered,
           Failing, TypeOK
  <2>3. ASSUME NEW k \in Jobs PROVE Stays(k)
    BY <1>17
       DEF DeleteStart, DelGoto, docVars, taskVars, envVars, Registered,
           Running, Failing, TypeOK
  <2> QED BY <1>0, <2>1, <2>2, <2>3
<1>18. ASSUME NEW d \in Deletes, DeleteClear(d) PROVE IndexingExplained'
  <2>1. Grows
    BY <1>18 DEF DeleteClear, DelGoto, docVars, taskVars, envVars, TypeOK
  <2>2. ASSUME NEW q \in Projects PROVE Shown(q)
    BY <1>18
       DEF DeleteClear, DelGoto, docVars, taskVars, envVars, Registered,
           Failing, TypeOK
  <2>3. ASSUME NEW k \in Jobs PROVE Stays(k)
    BY <1>18
       DEF DeleteClear, DelGoto, docVars, taskVars, envVars, Registered,
           Running, Failing, TypeOK
  <2> QED BY <1>0, <2>1, <2>2, <2>3
<1>18a. ASSUME NEW d \in Deletes, DeleteLook(d) PROVE IndexingExplained'
  <2>1. Grows
    BY <1>18a DEF DeleteLook, DelGoto, docVars, taskVars, envVars, TypeOK
  <2>2. ASSUME NEW q \in Projects PROVE Shown(q)
    BY <1>18a
       DEF DeleteLook, DelGoto, docVars, taskVars, envVars, Registered,
           Failing, TypeOK
  <2>3. ASSUME NEW k \in Jobs PROVE Stays(k)
    BY <1>18a
       DEF DeleteLook, DelGoto, docVars, taskVars, envVars, Registered,
           Running, Failing, TypeOK
  <2> QED BY <1>0, <2>1, <2>2, <2>3
<1>19. ASSUME NEW d \in Deletes, DeleteDoc(d) PROVE IndexingExplained'
  <2>1. Grows
    BY <1>19 DEF DeleteDoc, envVars, taskVars
  <2>2. /\ pc' = pc
        /\ \A q \in Projects : project'[q] = "none" \/ project'[q] = project[q]
    BY <1>19 DEF DeleteDoc, Written, projVars, TypeOK
  <2> QED BY <1>0, <2>1, <2>2
<1>20. ASSUME NEW d \in Deletes, DeleteFiles(d) PROVE IndexingExplained'
  <2>1. Grows
    BY <1>20
       DEF DeleteFiles, DelGoto, Note, Written, jobVars, projVars, taskVars,
           TypeOK
  <2>2. ASSUME NEW q \in Projects PROVE Shown(q)
    BY <1>20
       DEF DeleteFiles, DelGoto, Note, Written, jobVars, projVars, taskVars,
           Registered, Failing, TypeOK
  <2>3. ASSUME NEW k \in Jobs PROVE Stays(k)
    BY <1>20
       DEF DeleteFiles, DelGoto, Note, Written, jobVars, projVars, taskVars,
           Registered, Running, Failing, TypeOK
  <2> QED BY <1>0, <2>1, <2>2, <2>3
<1>21. ASSUME NEW d \in Deletes, DeleteTelemetry(d) PROVE IndexingExplained'
  <2>1. Grows
    BY <1>21
       DEF DeleteTelemetry, DelGoto, Note, Written, jobVars, projVars,
           taskVars, TypeOK
  <2>2. ASSUME NEW q \in Projects PROVE Shown(q)
    BY <1>21
       DEF DeleteTelemetry, DelGoto, Note, Written, jobVars, projVars,
           taskVars, Registered, Failing, TypeOK
  <2>3. ASSUME NEW k \in Jobs PROVE Stays(k)
    BY <1>21
       DEF DeleteTelemetry, DelGoto, Note, Written, jobVars, projVars,
           taskVars, Registered, Running, Failing, TypeOK
  <2> QED BY <1>0, <2>1, <2>2, <2>3
<1>22. ASSUME NEW i \in Instances, Crash(i) PROVE IndexingExplained'
  <2>1. Grows
    BY <1>22 DEF Crash, docVars, taskVars, TypeOK
  <2>2. ASSUME NEW q \in Projects PROVE Shown(q)
    BY <1>22 DEF Crash, docVars, taskVars, Registered, Failing, TypeOK
  <2>3. ASSUME NEW k \in Jobs PROVE Stays(k)
    BY <1>22
       DEF Crash, docVars, taskVars, Registered, Running, Failing, TypeOK
  <2> QED BY <1>0, <2>1, <2>2, <2>3
<1>23. CASE UNCHANGED vars
  BY <1>23, <1>0 DEF vars
<1> QED
  BY <1>1, <1>2, <1>3, <1>4, <1>5, <1>6, <1>7, <1>8, <1>9, <1>10, <1>11,
     <1>12, <1>13, <1>14, <1>15, <1>16, <1>17, <1>18, <1>18a, <1>19, <1>20, <1>21,
     <1>22, <1>23
     DEF Next, TaskStep, DeleteStep

\* The job that made a project READY stays a witness: its progress is full,
\* and a task that still counts files up has not tried them all.
LEMMA ReadyStep ==
    ASSUME TypeOK, Stages, ReadyHasPass, [Next]_vars
    PROVE  ReadyHasPass'
<1>. DEFINE Pass(k) == jobStatus[k] # "none" /\ progress[k] = saved[k]
             Shown(p) == project'[p] = "READY" =>
                           \/ project[p] = "READY"
                           \/ \E k \in Jobs : proj[k] = p /\ Pass(k)'
<1>0. ASSUME proj' = proj, \A p \in Projects : Shown(p),
             \A k \in Jobs : Pass(k) => Pass(k)'
      PROVE  ReadyHasPass'
  BY <1>0 DEF ReadyHasPass
<1>1. ASSUME NEW j \in Jobs, NEW S \in SUBSET Names, Submit(j, S)
      PROVE  ReadyHasPass'
  <2>1. proj' = proj
    BY <1>1 DEF Submit
  <2>2. ASSUME NEW k \in Jobs, Pass(k) PROVE Pass(k)'
    BY <1>1, <2>2
       DEF Submit, Goto, Note, Written, projVars, delVars, TypeOK, Stages,
           Stage
  <2>3. ASSUME NEW q \in Projects PROVE Shown(q)
    BY <1>1 DEF Submit, Goto, Note, Written, projVars, delVars, TypeOK
  <2> QED BY <1>0, <2>1, <2>2, <2>3
<1>2. ASSUME NEW j \in Jobs, StartTask(j) PROVE ReadyHasPass'
  <2>1. proj' = proj
    BY <1>2 DEF StartTask, taskVars
  <2>2. ASSUME NEW k \in Jobs, Pass(k) PROVE Pass(k)'
    BY <1>2, <2>2
       DEF StartTask, Goto, docVars, taskVars, delVars, envVars, TypeOK
  <2>3. ASSUME NEW q \in Projects PROVE Shown(q)
    BY <1>2 DEF StartTask, Goto, docVars, taskVars, delVars, envVars, TypeOK
  <2> QED BY <1>0, <2>1, <2>2, <2>3
<1>3. ASSUME NEW j \in Jobs, Register(j) PROVE ReadyHasPass'
  <2>1. proj' = proj
    BY <1>3 DEF Register
  <2>2. ASSUME NEW k \in Jobs, Pass(k) PROVE Pass(k)'
    BY <1>3, <2>2 DEF Register, Goto, Note, Written, jobVars, delVars, TypeOK
  <2>3. ASSUME NEW q \in Projects PROVE Shown(q)
    BY <1>3 DEF Register, Goto, Note, Written, jobVars, delVars, TypeOK
  <2> QED BY <1>0, <2>1, <2>2, <2>3
<1>4. ASSUME NEW j \in Jobs, NEW n \in Names, RegisterTable(j, n)
      PROVE  ReadyHasPass'
  <2>1. proj' = proj
    BY <1>4 DEF RegisterTable
  <2>2. ASSUME NEW k \in Jobs, Pass(k) PROVE Pass(k)'
    BY <1>4, <2>2
       DEF RegisterTable, Goto, Note, Written, jobVars, projVars, delVars,
           TypeOK
  <2>3. ASSUME NEW q \in Projects PROVE Shown(q)
    BY <1>4
       DEF RegisterTable, Goto, Note, Written, jobVars, projVars, delVars,
           TypeOK
  <2> QED BY <1>0, <2>1, <2>2, <2>3
<1>5. ASSUME NEW j \in Jobs, BeginPipeline(j) PROVE ReadyHasPass'
  <2>1. proj' = proj
    BY <1>5 DEF BeginPipeline, taskVars
  <2>2. ASSUME NEW k \in Jobs, Pass(k) PROVE Pass(k)'
    BY <1>5, <2>2
       DEF BeginPipeline, Goto, NextFile, docVars, taskVars, delVars,
           envVars, TypeOK
  <2>3. ASSUME NEW q \in Projects PROVE Shown(q)
    BY <1>5
       DEF BeginPipeline, Goto, NextFile, docVars, taskVars, delVars,
           envVars, TypeOK
  <2> QED BY <1>0, <2>1, <2>2, <2>3
<1>6. ASSUME NEW j \in Jobs, NEW n \in Names, Progress(j, n)
      PROVE  ReadyHasPass'
  <2>1. proj' = proj
    BY <1>6 DEF Progress
  <2>2. ASSUME NEW k \in Jobs, Pass(k) PROVE Pass(k)'
    BY <1>6, <2>2
       DEF Progress, Goto, Note, Written, projVars, delVars, TypeOK, Stages,
           Stage
  <2>3. ASSUME NEW q \in Projects PROVE Shown(q)
    BY <1>6 DEF Progress, Goto, Note, Written, projVars, delVars, TypeOK
  <2> QED BY <1>0, <2>1, <2>2, <2>3
<1>7. ASSUME NEW j \in Jobs, Parse(j) PROVE ReadyHasPass'
  <2>1. proj' = proj
    BY <1>7 DEF Parse
  <2>2. ASSUME NEW k \in Jobs, Pass(k) PROVE Pass(k)'
    BY <1>7, <2>2 DEF Parse, Goto, NextFile, docVars, delVars, envVars, TypeOK
  <2>3. ASSUME NEW q \in Projects PROVE Shown(q)
    BY <1>7 DEF Parse, Goto, NextFile, docVars, delVars, envVars, TypeOK
  <2> QED BY <1>0, <2>1, <2>2, <2>3
<1>8. ASSUME NEW j \in Jobs, RegisterSheet(j) PROVE ReadyHasPass'
  <2>1. proj' = proj
    BY <1>8 DEF RegisterSheet, taskVars
  <2>2. ASSUME NEW k \in Jobs, Pass(k) PROVE Pass(k)'
    BY <1>8, <2>2
       DEF RegisterSheet, Goto, Note, Written, jobVars, projVars, taskVars,
           delVars, TypeOK
  <2>3. ASSUME NEW q \in Projects PROVE Shown(q)
    BY <1>8
       DEF RegisterSheet, Goto, Note, Written, jobVars, projVars, taskVars,
           delVars, TypeOK
  <2> QED BY <1>0, <2>1, <2>2, <2>3
<1>9. ASSUME NEW j \in Jobs, Embed(j) PROVE ReadyHasPass'
  <2>1. proj' = proj
    BY <1>9 DEF Embed
  <2>2. ASSUME NEW k \in Jobs, Pass(k) PROVE Pass(k)'
    BY <1>9, <2>2 DEF Embed, Goto, NextFile, docVars, delVars, envVars, TypeOK
  <2>3. ASSUME NEW q \in Projects PROVE Shown(q)
    BY <1>9 DEF Embed, Goto, NextFile, docVars, delVars, envVars, TypeOK
  <2> QED BY <1>0, <2>1, <2>2, <2>3
<1>10. ASSUME NEW j \in Jobs, Record(j) PROVE ReadyHasPass'
  <2>1. proj' = proj
    BY <1>10 DEF Record
  <2>2. ASSUME NEW k \in Jobs, Pass(k) PROVE Pass(k)'
    BY <1>10, <2>2
       DEF Record, Goto, Note, Written, NextFile, jobVars, projVars, delVars,
           TypeOK
  <2>3. ASSUME NEW q \in Projects PROVE Shown(q)
    BY <1>10
       DEF Record, Goto, Note, Written, NextFile, jobVars, projVars, delVars,
           TypeOK
  <2> QED BY <1>0, <2>1, <2>2, <2>3
<1>11. ASSUME NEW j \in Jobs, SyncStatus(j) PROVE ReadyHasPass'
  <2>1. proj' = proj
    BY <1>11 DEF SyncStatus, taskVars
  <2>2. ASSUME NEW k \in Jobs, Pass(k) PROVE Pass(k)'
    BY <1>11, <2>2
       DEF SyncStatus, Goto, Note, MergeStatus, Written, jobVars, taskVars,
           delVars, TypeOK
  <2>3. ASSUME NEW q \in Projects PROVE Shown(q)
    BY <1>11
       DEF SyncStatus, Goto, Note, MergeStatus, Written, jobVars, taskVars,
           delVars, TypeOK, Stages, Stage
  <2> QED BY <1>0, <2>1, <2>2, <2>3
<1>12. ASSUME NEW j \in Jobs, FinishJob(j) PROVE ReadyHasPass'
  <2>1. proj' = proj
    BY <1>12 DEF FinishJob, taskVars
  <2>2. ASSUME NEW k \in Jobs, Pass(k) PROVE Pass(k)'
    BY <1>12, <2>2
       DEF FinishJob, Goto, Note, Written, Release, projVars, taskVars,
           delVars, TypeOK
  <2>3. ASSUME NEW q \in Projects PROVE Shown(q)
    BY <1>12
       DEF FinishJob, Goto, Note, Written, Release, projVars, taskVars,
           delVars, TypeOK
  <2> QED BY <1>0, <2>1, <2>2, <2>3
<1>13. ASSUME NEW j \in Jobs, FailJob(j) PROVE ReadyHasPass'
  <2>1. proj' = proj
    BY <1>13 DEF FailJob, taskVars
  <2>2. ASSUME NEW k \in Jobs, Pass(k) PROVE Pass(k)'
    BY <1>13, <2>2
       DEF FailJob, Goto, Note, Written, Release, projVars, taskVars,
           delVars, TypeOK
  <2>3. ASSUME NEW q \in Projects PROVE Shown(q)
    BY <1>13
       DEF FailJob, Goto, Note, Written, Release, projVars, taskVars,
           delVars, TypeOK
  <2> QED BY <1>0, <2>1, <2>2, <2>3
<1>14. ASSUME NEW j \in Jobs, FailProject(j) PROVE ReadyHasPass'
  <2>1. proj' = proj
    BY <1>14 DEF FailProject, taskVars
  <2>2. ASSUME NEW k \in Jobs, Pass(k) PROVE Pass(k)'
    BY <1>14, <2>2
       DEF FailProject, Goto, Note, MergeStatus, Release, Written, jobVars,
           taskVars, delVars, TypeOK
  <2>3. ASSUME NEW q \in Projects PROVE Shown(q)
    BY <1>14
       DEF FailProject, Goto, Note, MergeStatus, Release, Written, jobVars,
           taskVars, delVars, TypeOK
  <2> QED BY <1>0, <2>1, <2>2, <2>3
<1>15. ASSUME NEW p \in Projects, CreateProject(p) PROVE ReadyHasPass'
  <2>1. proj' = proj
    BY <1>15 DEF CreateProject, taskVars
  <2>2. ASSUME NEW k \in Jobs, Pass(k) PROVE Pass(k)'
    BY <1>15, <2>2
       DEF CreateProject, jobVars, taskVars, delVars, envVars, TypeOK
  <2>3. ASSUME NEW q \in Projects PROVE Shown(q)
    BY <1>15 DEF CreateProject, jobVars, taskVars, delVars, envVars, TypeOK
  <2> QED BY <1>0, <2>1, <2>2, <2>3
<1>16. ASSUME NEW i \in Instances, NEW p \in Projects, ResetProject(i, p)
       PROVE  ReadyHasPass'
  <2>1. proj' = proj
    BY <1>16 DEF ResetProject, taskVars
  <2>2. ASSUME NEW k \in Jobs, Pass(k) PROVE Pass(k)'
    BY <1>16, <2>2
       DEF ResetProject, docVars, taskVars, delVars, envVars, TypeOK
  <2>3. ASSUME NEW q \in Projects PROVE Shown(q)
    BY <1>16 DEF ResetProject, docVars, taskVars, delVars, envVars, TypeOK
  <2> QED BY <1>0, <2>1, <2>2, <2>3
<1>17. ASSUME NEW d \in Deletes, DeleteStart(d) PROVE ReadyHasPass'
  <2>1. proj' = proj
    BY <1>17 DEF DeleteStart, taskVars
  <2>2. ASSUME NEW k \in Jobs, Pass(k) PROVE Pass(k)'
    BY <1>17, <2>2
       DEF DeleteStart, DelGoto, docVars, taskVars, envVars, TypeOK
  <2>3. ASSUME NEW q \in Projects PROVE Shown(q)
    BY <1>17 DEF DeleteStart, DelGoto, docVars, taskVars, envVars, TypeOK
  <2> QED BY <1>0, <2>1, <2>2, <2>3
<1>18. ASSUME NEW d \in Deletes, DeleteClear(d) PROVE ReadyHasPass'
  <2>1. proj' = proj
    BY <1>18 DEF DeleteClear, taskVars
  <2>2. ASSUME NEW k \in Jobs, Pass(k) PROVE Pass(k)'
    BY <1>18, <2>2
       DEF DeleteClear, DelGoto, docVars, taskVars, envVars, TypeOK
  <2>3. ASSUME NEW q \in Projects PROVE Shown(q)
    BY <1>18 DEF DeleteClear, DelGoto, docVars, taskVars, envVars, TypeOK
  <2> QED BY <1>0, <2>1, <2>2, <2>3
<1>18a. ASSUME NEW d \in Deletes, DeleteLook(d) PROVE ReadyHasPass'
  <2>1. proj' = proj
    BY <1>18a DEF DeleteLook, taskVars
  <2>2. ASSUME NEW k \in Jobs, Pass(k) PROVE Pass(k)'
    BY <1>18a, <2>2
       DEF DeleteLook, DelGoto, docVars, taskVars, envVars, TypeOK
  <2>3. ASSUME NEW q \in Projects PROVE Shown(q)
    BY <1>18a DEF DeleteLook, DelGoto, docVars, taskVars, envVars, TypeOK
  <2> QED BY <1>0, <2>1, <2>2, <2>3
<1>19. ASSUME NEW d \in Deletes, DeleteDoc(d) PROVE ReadyHasPass'
  <2>1. UNCHANGED <<proj, jobStatus, progress, saved>>
    BY <1>19 DEF DeleteDoc, jobVars, taskVars
  <2>2. \A q \in Projects : project'[q] = "none" \/ project'[q] = project[q]
    BY <1>19 DEF DeleteDoc, Written, projVars, TypeOK
  <2> QED BY <1>0, <2>1, <2>2
<1>20. ASSUME NEW d \in Deletes, DeleteFiles(d) PROVE ReadyHasPass'
  <2>1. proj' = proj
    BY <1>20 DEF DeleteFiles, taskVars
  <2>2. ASSUME NEW k \in Jobs, Pass(k) PROVE Pass(k)'
    BY <1>20, <2>2
       DEF DeleteFiles, DelGoto, Note, Written, jobVars, projVars, taskVars,
           TypeOK
  <2>3. ASSUME NEW q \in Projects PROVE Shown(q)
    BY <1>20
       DEF DeleteFiles, DelGoto, Note, Written, jobVars, projVars, taskVars,
           TypeOK
  <2> QED BY <1>0, <2>1, <2>2, <2>3
<1>21. ASSUME NEW d \in Deletes, DeleteTelemetry(d) PROVE ReadyHasPass'
  <2>1. proj' = proj
    BY <1>21 DEF DeleteTelemetry, taskVars
  <2>2. ASSUME NEW k \in Jobs, Pass(k) PROVE Pass(k)'
    BY <1>21, <2>2
       DEF DeleteTelemetry, DelGoto, Note, Written, jobVars, projVars,
           taskVars, TypeOK
  <2>3. ASSUME NEW q \in Projects PROVE Shown(q)
    BY <1>21
       DEF DeleteTelemetry, DelGoto, Note, Written, jobVars, projVars,
           taskVars, TypeOK
  <2> QED BY <1>0, <2>1, <2>2, <2>3
<1>22. ASSUME NEW i \in Instances, Crash(i) PROVE ReadyHasPass'
  <2>1. proj' = proj
    BY <1>22 DEF Crash, taskVars
  <2>2. ASSUME NEW k \in Jobs, Pass(k) PROVE Pass(k)'
    BY <1>22, <2>2 DEF Crash, docVars, taskVars, TypeOK
  <2>3. ASSUME NEW q \in Projects PROVE Shown(q)
    BY <1>22 DEF Crash, docVars, taskVars, TypeOK
  <2> QED BY <1>0, <2>1, <2>2, <2>3
<1>23. CASE UNCHANGED vars
  BY <1>23, <1>0 DEF vars
<1> QED
  BY <1>1, <1>2, <1>3, <1>4, <1>5, <1>6, <1>7, <1>8, <1>9, <1>10, <1>11,
     <1>12, <1>13, <1>14, <1>15, <1>16, <1>17, <1>18, <1>18a, <1>19, <1>20, <1>21,
     <1>22, <1>23
     DEF Next, TaskStep, DeleteStep

----------------------------------------------------------------------------
(* The theorems                                                             *)

\* Nothing has been asked of the system yet.
LEMMA InitInv == Init => Inv
<1>. SUFFICES ASSUME Init PROVE Inv
  OBVIOUS
<1>1. TypeOK
  BY BoundsAssumption
     DEF Init, TypeOK, JobStatus, IndexStatus, Labels, DelLabels
<1>2. Stages /\ Recorded /\ FileDocHasVectors
  BY DEF Init, Stages, Stage, Working, Recorded, FileDocHasVectors
<1>3. RegisteredExists /\ OrphansExplained
  BY DEF Init, RegisteredExists, OrphansExplained, Registered
<1>4. IndexingExplained /\ ReadyHasPass
  BY <1>1 DEF Init, TypeOK, IndexingExplained, ReadyHasPass
<1> QED BY <1>1, <1>2, <1>3, <1>4 DEF Inv

\* Every step preserves each part, from the parts its lemma names.
LEMMA NextInv == Inv /\ [Next]_vars => Inv'
  BY TypeStep, StagesStep, RecordsStep, RegisteredStep, OrphansStep,
     IndexingStep, ReadyStep DEF Inv

\* Inv is invariant: everything below follows from it.
THEOREM Invariance == Spec => []Inv
  BY InitInv, NextInv, PTL DEF Spec

\* The variables keep their types: in particular the project document only
\* ever holds one of the statuses the client knows, never a job's status.
THEOREM TypeCorrect == Spec => []TypeOK
<1>1. Inv => TypeOK
  BY DEF Inv
<1> QED BY <1>1, Invariance, PTL

\* A job is shown complete only when every stored file has been tried
\* (_run_ingestion_task reports after ingest has returned).
THEOREM CompleteIsTried == Spec => []CompleteMeansTried
<1>1. Inv => CompleteMeansTried
  BY DEF Inv, Stages, Stage, CompleteMeansTried
<1> QED BY <1>1, Invariance, PTL

\* A project_files record that claims embeddings has its chunks in Qdrant,
\* however many tasks, deletes, crashes and faults interleave.
THEOREM FilesHaveVectors == Spec => []FileDocHasVectors
<1>1. Inv => FileDocHasVectors
  BY DEF Inv
<1> QED BY <1>1, Invariance, PTL

\* A project left INDEXING with no task at work was hit by a crash or a fault.
THEOREM IndexingIsExplained == Spec => []IndexingExplained
<1>1. Inv => IndexingExplained
  BY DEF Inv
<1> QED BY <1>1, Invariance, PTL

\* Records left without a project document come from an overlap of a delete
\* with a task, or from a fault, or are just being deleted.
THEOREM OrphansAreExplained == Spec => []OrphansExplained
<1>1. Inv => OrphansExplained
  BY DEF Inv
<1> QED BY <1>1, Invariance, PTL

\* A project turns READY only by a job that has tried all its files.
THEOREM ReadyIsEarned == Spec => []ReadyHasPass
<1>1. Inv => ReadyHasPass
  BY DEF Inv
<1> QED BY <1>1, Invariance, PTL

\* A reported outcome is final, up to the one correction from complete to
\* failed: no order of late answers, retries or crashes turns it back.
THEOREM OutcomesSettle == Spec => OutcomeSettled
<1>. DEFINE Settled(j) ==
       /\ jobStatus[j] = "failed" => UNCHANGED <<jobStatus[j], progress[j]>>
       /\ jobStatus[j] = "complete" =>
             jobStatus'[j] = "complete" \/ pc[j] = "failJob"
<1>1. ASSUME Inv, Next PROVE \A j \in Jobs : Settled(j)
  <2>. SUFFICES ASSUME NEW k \in Jobs PROVE Settled(k)
    OBVIOUS
  <2>1. /\ jobStatus[k] = "failed" => pc[k] \in Closing \ {"failJob"}
        /\ jobStatus[k] = "complete" => pc[k] \in Closing
    BY <1>1 DEF Inv, Stages, Stage
  <2>2. CASE UNCHANGED <<jobStatus, progress>>
    BY <2>2
  <2>3. ASSUME NEW j \in Jobs, NEW S \in SUBSET Names, Submit(j, S) PROVE Settled(k)
    BY <1>1, <2>1, <2>3
       DEF Submit, Inv, TypeOK, Written, Goto, Closing, Failing
  <2>4. ASSUME NEW j \in Jobs, NEW n \in Names, Progress(j, n) PROVE Settled(k)
    BY <1>1, <2>1, <2>4
       DEF Progress, Inv, TypeOK, Written, Goto, Closing, Failing
  <2>5. ASSUME NEW j \in Jobs, FinishJob(j) PROVE Settled(k)
    BY <1>1, <2>1, <2>5
       DEF FinishJob, Inv, TypeOK, Written, Goto, Closing, Failing
  <2>6. ASSUME NEW j \in Jobs, FailJob(j) PROVE Settled(k)
    BY <1>1, <2>1, <2>6
       DEF FailJob, Inv, TypeOK, Written, Goto, Closing, Failing
  <2>7. \/ UNCHANGED <<jobStatus, progress>>
        \/ \E j \in Jobs : \/ FinishJob(j) \/ FailJob(j)
                          \/ \E S \in SUBSET Names : Submit(j, S)
                          \/ \E m \in Names : Progress(j, m)
    BY ZenonT(60), <1>1
       DEF Next, TaskStep, DeleteStep, docVars, jobVars, StartTask, Register,
           RegisterTable, BeginPipeline, Parse, RegisterSheet, Embed, Record,
           SyncStatus, FailProject, CreateProject, ResetProject, DeleteStart,
           DeleteClear, DeleteLook, DeleteDoc, DeleteFiles,
           DeleteTelemetry, Crash
  <2> QED BY <2>2, <2>3, <2>4, <2>5, <2>6, <2>7
<1>2. Inv /\ [Next]_vars => [\A j \in Jobs : Settled(j)]_vars
  BY <1>1
<1> QED BY <1>2, Invariance, PTL DEF Spec, OutcomeSettled

----------------------------------------------------------------------------
(* A task ends: what JobEnds and a fair schedule rest on                    *)

\* The event loop of an instance is held by the one task that runs on it, and
\* by none other: _run_ingestion_task never suspends.
LoopHeld ==
    /\ \A j \in Jobs : pc[j] \in Running => loop[inst[j]] = j
    /\ \A i \in Instances :
          loop[i] # NoJob => pc[loop[i]] \in Running /\ inst[loop[i]] = i

\* A request carries so many files at the most.
UploadBounded ==
    \A j \in Jobs : IsFiniteSet(saved[j]) /\ Cardinality(saved[j]) =< MaxUpload

\* The steps that a task has left, which depend on the files still to do.
StepsLeft(j) ==
    LET left == Cardinality(todo[j])
        all == Cardinality(saved[j])
    IN  CASE pc[j] = "queued"      -> 7 * all + 7
          [] pc[j] = "register"    -> 7 * all + 6
          [] pc[j] = "telemetry"   -> 6 * all + 5 + left
          [] pc[j] = "start"       -> 6 * all + 5
          [] pc[j] = "progress"    -> 6 * left + 4
          [] pc[j] = "parse"       -> 6 * left + 8
          [] pc[j] = "sheet"       -> 6 * left + 7
          [] pc[j] = "embed"       -> 6 * left + 6
          [] pc[j] = "record"      -> 6 * left + 5
          [] pc[j] = "sync"        -> 4
          [] pc[j] = "finish"      -> 3
          [] pc[j] = "failJob"     -> 2
          [] pc[j] = "failProject" -> 1
          [] OTHER                 -> 0

LEMMA FilesCounted ==
    ASSUME TypeOK, Stages, UploadBounded, NEW j \in Jobs
    PROVE  /\ IsFiniteSet(saved[j]) /\ IsFiniteSet(todo[j])
           /\ Cardinality(saved[j]) \in 0..MaxUpload
           /\ Cardinality(todo[j]) \in 0..Cardinality(saved[j])
           /\ Cardinality(todo[j]) = 0 <=> todo[j] = {}
<1>1. IsFiniteSet(saved[j]) /\ Cardinality(saved[j]) =< MaxUpload
  BY DEF UploadBounded
<1>2. todo[j] \in SUBSET saved[j]
  BY DEF Stages, Stage
<1>3. IsFiniteSet(todo[j]) /\ Cardinality(todo[j]) =< Cardinality(saved[j])
  BY <1>1, <1>2, FS_Subset
<1>4. Cardinality(todo[j]) \in Nat /\ Cardinality(saved[j]) \in Nat
  BY <1>1, <1>3, FS_CardinalityType
<1> QED BY <1>1, <1>3, <1>4, BoundsAssumption, FS_EmptySet

\* What a step of a task does to the event loop.
LEMMA TaskMoves ==
    ASSUME TypeOK, NEW j \in Jobs, TaskStep(j)
    PROVE  /\ \A k \in Jobs \ {j} : pc'[k] = pc[k] /\ todo'[k] = todo[k]
           /\ inst' = inst /\ saved' = saved
           /\ \/ /\ pc[j] = "queued" /\ pc'[j] = "register"
                 /\ loop[inst[j]] = NoJob /\ loop' = [loop EXCEPT ![inst[j]] = j]
              \/ pc[j] \in Running /\ pc'[j] \in Running /\ loop' = loop
              \/ /\ pc[j] \in Running /\ pc'[j] \in {"done", "stuck"}
                 /\ loop' = [loop EXCEPT ![inst[j]] = NoJob]
<1>0. /\ pc \in [Jobs -> Labels] /\ todo \in [Jobs -> SUBSET Names]
      /\ inst \in [Jobs -> Instances] /\ loop \in [Instances -> Jobs \cup {NoJob}]
  BY DEF TypeOK
<1>1. CASE StartTask(j)
  BY <1>0, <1>1 DEF StartTask, Goto, LoopFree, taskVars
<1>2. CASE Register(j)
  BY <1>0, <1>2 DEF Register, Goto, Running, Registered
<1>3. CASE \E n \in Names : RegisterTable(j, n)
  BY <1>0, <1>3 DEF RegisterTable, Goto, Running, Registered
<1>4. CASE BeginPipeline(j)
  BY <1>0, <1>4 DEF BeginPipeline, NextFile, Goto, Running, Registered, Failing, taskVars
<1>5. CASE \E n \in Names : Progress(j, n)
  BY <1>0, <1>5 DEF Progress, Goto, Running, Registered, Failing
<1>6. CASE Parse(j)
  BY <1>0, <1>6 DEF Parse, NextFile, Goto, Running, Registered
<1>7. CASE RegisterSheet(j)
  BY <1>0, <1>7 DEF RegisterSheet, Goto, Running, Registered, taskVars
<1>8. CASE Embed(j)
  BY <1>0, <1>8 DEF Embed, NextFile, Goto, Running, Registered
<1>9. CASE Record(j)
  BY <1>0, <1>9 DEF Record, NextFile, Goto, Running, Registered
<1>10. CASE SyncStatus(j)
  BY <1>0, <1>10 DEF SyncStatus, Goto, Running, Registered, taskVars
<1>11. CASE FinishJob(j)
  BY <1>0, <1>11 DEF FinishJob, Goto, Release, Running, Failing, taskVars
<1>12. CASE FailJob(j)
  BY <1>0, <1>12 DEF FailJob, Goto, Release, Running, Failing, taskVars
<1>13. CASE FailProject(j)
  BY <1>0, <1>13 DEF FailProject, Goto, Release, Running, Failing, taskVars
<1> QED
  BY <1>1, <1>2, <1>3, <1>4, <1>5, <1>6, <1>7, <1>8, <1>9, <1>10, <1>11, <1>12, <1>13
     DEF TaskStep

\* A step of a task leaves it fewer.
LEMMA TaskShortens ==
    ASSUME TypeOK, Stages, UploadBounded, TypeOK', Stages', UploadBounded',
           NEW j \in Jobs, TaskStep(j)
    PROVE  StepsLeft(j)' < StepsLeft(j)
<1> DEFINE left == Cardinality(todo[j])
           all == Cardinality(saved[j])
           left1 == Cardinality(todo'[j])
<1>0. /\ pc \in [Jobs -> Labels] /\ todo \in [Jobs -> SUBSET Names]
      /\ saved \in [Jobs -> SUBSET Names]
  BY DEF TypeOK
<1>a. saved' = saved
  BY TaskMoves
<1>b. all \in Nat /\ left \in 0..all /\ (left = 0 <=> todo[j] = {}) /\ IsFiniteSet(saved[j])
      /\ IsFiniteSet(todo[j])
  BY FilesCounted
<1>c. IsFiniteSet(todo'[j]) /\ left1 \in 0..all /\ (left1 = 0 <=> todo'[j] = {})
  <2>1. todo'[j] \in SUBSET saved[j]
    BY <1>a DEF Stages, Stage
  <2>2. IsFiniteSet(todo'[j]) /\ left1 =< all
    BY <1>b, <2>1, FS_Subset
  <2> QED BY <1>b, <2>2, FS_CardinalityType, FS_EmptySet
<1> HIDE DEF left, all, left1
<1> DEFINE Before(n) == StepsLeft(j) = n
           After(n) == StepsLeft(j)' = n
<1>d. /\ pc[j] = "queued" => Before(7 * all + 7)
      /\ pc[j] = "register" => Before(7 * all + 6)
      /\ pc[j] = "telemetry" => Before(6 * all + 5 + left)
      /\ pc[j] = "start" => Before(6 * all + 5)
      /\ pc[j] = "progress" => Before(6 * left + 4)
      /\ pc[j] = "parse" => Before(6 * left + 8)
      /\ pc[j] = "sheet" => Before(6 * left + 7)
      /\ pc[j] = "embed" => Before(6 * left + 6)
      /\ pc[j] = "record" => Before(6 * left + 5)
      /\ pc[j] = "sync" => Before(4)
      /\ pc[j] = "finish" => Before(3)
      /\ pc[j] = "failJob" => Before(2)
      /\ pc[j] = "failProject" => Before(1)
  BY DEF StepsLeft, left, all
<1>e. /\ pc'[j] = "register" => After(7 * all + 6)
      /\ pc'[j] = "telemetry" => After(6 * all + 5 + left1)
      /\ pc'[j] = "start" => After(6 * all + 5)
      /\ pc'[j] = "progress" => After(6 * left1 + 4)
      /\ pc'[j] = "parse" => After(6 * left1 + 8)
      /\ pc'[j] = "sheet" => After(6 * left1 + 7)
      /\ pc'[j] = "embed" => After(6 * left1 + 6)
      /\ pc'[j] = "record" => After(6 * left1 + 5)
      /\ pc'[j] = "sync" => After(4)
      /\ pc'[j] = "finish" => After(3)
      /\ pc'[j] = "failJob" => After(2)
      /\ pc'[j] = "failProject" => After(1)
      /\ pc'[j] \in {"done", "stuck"} => After(0)
  BY <1>a DEF StepsLeft, left1, all
<1> HIDE DEF Before, After
<1>f. ASSUME NEW x \in Nat, NEW y \in Nat, Before(x), After(y), y < x
      PROVE  StepsLeft(j)' < StepsLeft(j)
  BY <1>f DEF Before, After
<1>1. CASE StartTask(j)
  <2>1. pc[j] = "queued" /\ pc'[j] = "register"
    BY <1>0, <1>1 DEF StartTask, Goto
  <2> QED BY <1>b, <1>d, <1>e, <1>f, <2>1
<1>2. CASE Register(j)
  <2>1. pc[j] = "register" /\ pc'[j] \in {"telemetry", "start"}
    BY <1>0, <1>2 DEF Register, Goto
  <2> QED BY <1>b, <1>c, <1>d, <1>e, <1>f, <2>1
<1>3. CASE \E n \in Names : RegisterTable(j, n)
  <2>1. PICK n \in todo[j] : RegisterTable(j, n)
    BY <1>3 DEF RegisterTable
  <2>2. pc[j] = "telemetry" /\ (pc'[j] = "start" \/ (pc'[j] = "telemetry" /\ todo'[j] = todo[j] \ {n}))
    BY <1>0, <2>1 DEF RegisterTable, Goto
  <2>3. left > 0
    BY <1>b, <2>1
  <2>4. Cardinality(todo[j] \ {n}) = left - 1
    BY <1>b, <2>1, FS_RemoveElement DEF left
  <2>5. todo'[j] = todo[j] \ {n} => left1 = left - 1
    BY <2>4 DEF left1
  <2> QED BY <1>b, <1>c, <1>d, <1>e, <1>f, <2>2, <2>3, <2>5
<1>4. CASE BeginPipeline(j)
  <2>1. /\ pc[j] = "start" /\ pc'[j] \in {"sync", "progress", "failJob"} 
    BY <1>0, <1>4 DEF BeginPipeline, Goto, NextFile
  <2> QED BY <1>b, <1>c, <1>d, <1>e, <1>f, <2>1
<1>5. CASE \E n \in Names : Progress(j, n)
  <2>1. PICK n \in todo[j] : Progress(j, n)
    BY <1>5 DEF Progress
  <2>2. pc[j] = "progress" /\ (pc'[j] = "failJob" \/ (pc'[j] = "parse" /\ todo'[j] = todo[j] \ {n}))
    BY <1>0, <2>1 DEF Progress, Goto
  <2>3. left > 0
    BY <1>b, <2>1
  <2>4. Cardinality(todo[j] \ {n}) = left - 1
    BY <1>b, <2>1, FS_RemoveElement DEF left
  <2>5. todo'[j] = todo[j] \ {n} => left1 = left - 1
    BY <2>4 DEF left1
  <2> QED BY <1>b, <1>c, <1>d, <1>e, <1>f, <2>2, <2>3, <2>5
<1>6. CASE Parse(j)
  <2>1. /\ pc[j] = "parse" /\ pc'[j] \in {"sync", "progress", "sheet", "embed"} /\ left1 = left
    BY <1>0, <1>6 DEF Parse, Goto, NextFile, left, left1
  <2> QED BY <1>b, <1>d, <1>e, <1>f, <2>1
<1>7. CASE RegisterSheet(j)
  <2>1. /\ pc[j] = "sheet" /\ pc'[j] = "embed" /\ left1 = left
    BY <1>0, <1>7 DEF RegisterSheet, Goto, taskVars, left, left1
  <2> QED BY <1>b, <1>d, <1>e, <1>f, <2>1
<1>8. CASE Embed(j)
  <2>1. /\ pc[j] = "embed" /\ pc'[j] \in {"record", "sync", "progress"} /\ left1 = left
    BY <1>0, <1>8 DEF Embed, Goto, NextFile, left, left1
  <2> QED BY <1>b, <1>d, <1>e, <1>f, <2>1
<1>9. CASE Record(j)
  <2>1. /\ pc[j] = "record" /\ pc'[j] \in {"sync", "progress"} /\ left1 = left
    BY <1>0, <1>9 DEF Record, Goto, NextFile, left, left1
  <2> QED BY <1>b, <1>d, <1>e, <1>f, <2>1
<1>10. CASE SyncStatus(j)
  <2>1. pc[j] = "sync" /\ pc'[j] = "finish"
    BY <1>0, <1>10 DEF SyncStatus, Goto
  <2> QED BY <1>d, <1>e, <1>f, <2>1
<1>11. CASE FinishJob(j)
  <2>1. pc[j] = "finish" /\ pc'[j] \in {"done", "failJob"}
    BY <1>0, <1>11 DEF FinishJob, Goto
  <2> QED BY <1>d, <1>e, <1>f, <2>1
<1>12. CASE FailJob(j)
  <2>1. pc[j] = "failJob" /\ pc'[j] \in {"failProject", "stuck"}
    BY <1>0, <1>12 DEF FailJob, Goto
  <2> QED BY <1>d, <1>e, <1>f, <2>1
<1>13. CASE FailProject(j)
  <2>1. pc[j] = "failProject" /\ pc'[j] = "done"
    BY <1>0, <1>13 DEF FailProject, Goto
  <2> QED BY <1>d, <1>e, <1>f, <2>1
<1> QED
  BY <1>1, <1>2, <1>3, <1>4, <1>5, <1>6, <1>7, <1>8, <1>9, <1>10, <1>11, <1>12, <1>13
     DEF TaskStep

\* Steps that are not a task's own leave every task that has begun as it is, or
\* end it.
LEMMA OtherMoves ==
    ASSUME TypeOK, Next, \A j \in Jobs : ~TaskStep(j)
    PROVE  \/ \E j \in Jobs : /\ pc[j] = "idle" /\ pc'[j] \in {"queued", "rejected"}
                              /\ \A k \in Jobs \ {j} : pc'[k] = pc[k] /\ saved'[k] = saved[k]
                              /\ IsFiniteSet(saved'[j]) /\ Cardinality(saved'[j]) =< MaxUpload
                              /\ UNCHANGED <<loop, inst, todo>>
           \/ UNCHANGED <<pc, loop, inst, saved, todo>>
           \/ \E i \in Instances :
                 /\ \A j \in Jobs : pc'[j] = IF inst[j] = i /\ pc[j] \in {"queued"} \cup Running
                                             THEN "lost" ELSE pc[j]
                 /\ loop' = [loop EXCEPT ![i] = NoJob]
                 /\ UNCHANGED <<inst, saved, todo>>
<1>0. pc \in [Jobs -> Labels] /\ saved \in [Jobs -> SUBSET Names]
  BY DEF TypeOK
<1>1. CASE \E j \in Jobs : \E S \in SUBSET Names : Submit(j, S)
  <2>1. PICK j \in Jobs, S \in SUBSET Names : Submit(j, S)
    BY <1>1
  <2>2. /\ pc[j] = "idle" /\ pc'[j] \in {"queued", "rejected"} /\ saved'[j] = S
        /\ \A k \in Jobs \ {j} : pc'[k] = pc[k] /\ saved'[k] = saved[k]
        /\ IsFiniteSet(S) /\ Cardinality(S) =< MaxUpload
        /\ UNCHANGED <<loop, inst, todo>>
    BY <1>0, <2>1 DEF Submit, Goto
  <2> QED BY <2>2
<1>2. CASE \E d \in Deletes : DeleteStart(d) \/ DeleteStep(d)
  BY <1>2 DEF DeleteStart, DeleteStep, DeleteClear, DeleteLook, DeleteDoc, DeleteFiles,
     DeleteTelemetry, taskVars
<1>3. CASE \E p \in Projects : CreateProject(p) \/ \E i \in Instances : ResetProject(i, p)
  BY <1>3 DEF CreateProject, ResetProject, taskVars
<1>4. CASE \E i \in Instances : Crash(i)
  <2>1. PICK i \in Instances : Crash(i)
    BY <1>4
  <2> QED BY <2>1 DEF Crash, taskVars
<1> QED BY <1>1, <1>2, <1>3, <1>4 DEF Next

LEMMA LoopStep ==
    ASSUME TypeOK, LoopHeld, UploadBounded, [Next]_vars
    PROVE  LoopHeld' /\ UploadBounded'
<1>0. /\ pc \in [Jobs -> Labels] /\ inst \in [Jobs -> Instances]
      /\ loop \in [Instances -> Jobs \cup {NoJob}] /\ NoJob \notin Jobs
      /\ {"idle", "queued", "rejected", "done", "stuck", "lost"} \cap Running = {}
  BY MarkersAssumption DEF TypeOK, Running, Registered, Failing
<1>1. CASE UNCHANGED <<pc, loop, inst, saved>>
  BY <1>1 DEF LoopHeld, UploadBounded
<1>2. ASSUME NEW j \in Jobs, TaskStep(j) PROVE LoopHeld' /\ UploadBounded'
  <2>1. /\ \A k \in Jobs \ {j} : pc'[k] = pc[k]
        /\ inst' = inst /\ saved' = saved
        /\ \/ /\ pc[j] = "queued" /\ pc'[j] = "register"
              /\ loop[inst[j]] = NoJob /\ loop' = [loop EXCEPT ![inst[j]] = j]
           \/ pc[j] \in Running /\ pc'[j] \in Running /\ loop' = loop
           \/ /\ pc[j] \in Running /\ pc'[j] \in {"done", "stuck"}
              /\ loop' = [loop EXCEPT ![inst[j]] = NoJob]
    BY <1>2, TaskMoves
  <2>2. UploadBounded'
    BY <2>1 DEF UploadBounded
  <2>3. "register" \in Running
    BY DEF Running
  <2>4. ASSUME NEW k \in Jobs, pc'[k] \in Running PROVE loop'[inst'[k]] = k
    BY <1>0, <2>1, <2>3, <2>4 DEF LoopHeld
  <2>5. ASSUME NEW i \in Instances, loop'[i] # NoJob
        PROVE  pc'[loop'[i]] \in Running /\ inst'[loop'[i]] = i
    BY <1>0, <2>1, <2>3, <2>5 DEF LoopHeld
  <2> QED BY <2>2, <2>4, <2>5 DEF LoopHeld
<1>3. ASSUME Next, \A j \in Jobs : ~TaskStep(j) PROVE LoopHeld' /\ UploadBounded'
  <2>1. CASE \E j \in Jobs : /\ pc[j] = "idle" /\ pc'[j] \in {"queued", "rejected"}
                             /\ \A k \in Jobs \ {j} : pc'[k] = pc[k] /\ saved'[k] = saved[k]
                             /\ IsFiniteSet(saved'[j]) /\ Cardinality(saved'[j]) =< MaxUpload
                             /\ UNCHANGED <<loop, inst, todo>>
    <3>1. UploadBounded'
      BY <2>1 DEF UploadBounded
    <3>2. LoopHeld'
      BY <1>0, <2>1 DEF LoopHeld
    <3> QED BY <3>1, <3>2
  <2>2. CASE \E i \in Instances :
                 /\ \A j \in Jobs : pc'[j] = IF inst[j] = i /\ pc[j] \in {"queued"} \cup Running
                                             THEN "lost" ELSE pc[j]
                 /\ loop' = [loop EXCEPT ![i] = NoJob]
                 /\ UNCHANGED <<inst, saved, todo>>
    <3>1. UploadBounded'
      BY <2>2 DEF UploadBounded
    <3>2. LoopHeld'
      BY <1>0, <2>2 DEF LoopHeld
    <3> QED BY <3>1, <3>2
  <2> QED BY <1>1, <1>3, <2>1, <2>2, OtherMoves
<1> QED BY <1>1, <1>2, <1>3 DEF vars

\* One task at a time runs on an instance, and every task that runs holds the
\* event loop of its own: no order of submissions, ends and crashes leaves the
\* loop with a task that is over, or lets two tasks in.
THEOREM LoopIsHeld == Spec => [](LoopHeld /\ UploadBounded)
<1>1. Init => LoopHeld /\ UploadBounded
  BY FS_EmptySet, BoundsAssumption
     DEF Init, LoopHeld, UploadBounded, Running, Registered, Failing
<1> QED BY <1>1, LoopStep, TypeCorrect, PTL DEF Spec

\* Every step of a task leaves it fewer, and no other step more: a task ends after
\* seven steps for each of its files and seven more, whatever raises and crashes.
StepsBounded == \A j \in Jobs : StepsLeft(j) \in 0..(7 * MaxUpload + 7)
TaskGoesOn ==
    \A j \in Jobs :
        /\ TaskStep(j) => StepsLeft(j)' < StepsLeft(j)
        /\ pc[j] # "idle" => StepsLeft(j)' =< StepsLeft(j)
TasksGoOn == [][TaskGoesOn]_vars

LEMMA StepsLeftType ==
    ASSUME TypeOK, Stages, UploadBounded, NEW j \in Jobs
    PROVE  StepsLeft(j) \in 0..(7 * MaxUpload + 7)
<1> DEFINE left == Cardinality(todo[j])
           all == Cardinality(saved[j])
<1>1. all \in 0..MaxUpload /\ left \in 0..all /\ MaxUpload \in Nat
  BY FilesCounted, BoundsAssumption
<1>2. pc[j] \in {"parse", "sheet", "embed", "record"} => all > 0
  <2>1. pc[j] \in {"parse", "sheet", "embed", "record"} => saved[j] # {}
    BY DEF Stages, Stage, Working
  <2>2. all = 0 => saved[j] = {}
    BY FilesCounted, FS_EmptySet
  <2> QED BY <1>1, <2>1, <2>2
<1> DEFINE Is(n) == StepsLeft(j) = n
           ToDo == {"queued", "register", "telemetry", "start", "progress",
                    "parse", "sheet", "embed", "record"}
           Last == {"sync", "finish", "failJob", "failProject"}
<1>3. /\ pc[j] = "queued" => Is(7 * all + 7)
      /\ pc[j] = "register" => Is(7 * all + 6)
      /\ pc[j] = "telemetry" => Is(6 * all + 5 + left)
      /\ pc[j] = "start" => Is(6 * all + 5)
      /\ pc[j] = "progress" => Is(6 * left + 4)
      /\ pc[j] = "parse" => Is(6 * left + 8)
      /\ pc[j] = "sheet" => Is(6 * left + 7)
      /\ pc[j] = "embed" => Is(6 * left + 6)
      /\ pc[j] = "record" => Is(6 * left + 5)
  BY DEF StepsLeft
<1>4. /\ pc[j] = "sync" => Is(4)
      /\ pc[j] = "finish" => Is(3)
      /\ pc[j] = "failJob" => Is(2)
      /\ pc[j] = "failProject" => Is(1)
  BY DEF StepsLeft
<1>5. pc[j] \notin ToDo \union Last => Is(0)
  BY DEF StepsLeft
<1> HIDE DEF left, all, Is
<1>6. ASSUME NEW n \in 0..(7 * MaxUpload + 7), Is(n)
      PROVE  StepsLeft(j) \in 0..(7 * MaxUpload + 7)
  BY <1>6 DEF Is
<1>7. CASE pc[j] \in ToDo
  BY <1>1, <1>2, <1>3, <1>6, <1>7
<1>8. CASE pc[j] \in Last
  BY <1>1, <1>4, <1>6, <1>8
<1> QED BY <1>1, <1>5, <1>6, <1>7, <1>8

\* No task goes round in circles: what _run_ingestion_task still has to do shrinks
\* with each of its own steps and grows with nobody else's.
THEOREM TasksAdvance == Spec => []StepsBounded /\ TasksGoOn
<1> DEFINE Held == TypeOK /\ Stages /\ LoopHeld /\ UploadBounded
<1>1. ASSUME Held, Held', Next, NEW k \in Jobs, pc[k] # "idle"
      PROVE  StepsLeft(k)' =< StepsLeft(k)
  <2>1. StepsLeft(k) \in 0..(7 * MaxUpload + 7)
    BY <1>1, StepsLeftType
  <2>2. ASSUME pc'[k] = pc[k], todo'[k] = todo[k], saved'[k] = saved[k]
        PROVE  StepsLeft(k)' =< StepsLeft(k)
    <3>1. StepsLeft(k)' = StepsLeft(k)
      BY <2>2 DEF StepsLeft
    <3> QED BY <2>1, <3>1, BoundsAssumption
  <2>3. ASSUME NEW j \in Jobs, TaskStep(j) PROVE StepsLeft(k)' =< StepsLeft(k)
    <3>1. CASE k = j
      <4>1. StepsLeft(k)' < StepsLeft(k)
        BY <1>1, <2>3, <3>1, TaskShortens
      <4>2. StepsLeft(k)' \in Int
        <5>1. Cardinality(saved'[k]) \in Nat /\ Cardinality(todo'[k]) \in Nat
          <6>1. IsFiniteSet(saved'[k])
            BY <1>1 DEF UploadBounded
          <6>2. todo'[k] \in SUBSET saved'[k]
            BY <1>1 DEF Stages, Stage
          <6> QED BY <6>1, <6>2, FS_Subset, FS_CardinalityType
        <5> QED BY <5>1 DEF StepsLeft
      <4> QED BY <2>1, <4>1, <4>2, BoundsAssumption
    <3>2. CASE k # j
      BY <1>1, <2>2, <2>3, <3>2, TaskMoves
    <3> QED BY <3>1, <3>2
  <2>4. ASSUME \A j \in Jobs : ~TaskStep(j) PROVE StepsLeft(k)' =< StepsLeft(k)
    <3>1. \/ pc'[k] = pc[k] /\ todo'[k] = todo[k] /\ saved'[k] = saved[k]
          \/ pc'[k] = "lost"
      BY <1>1, <2>4, OtherMoves
    <3>2. CASE pc'[k] = "lost"
      <4>1. StepsLeft(k)' = 0
        BY <3>2 DEF StepsLeft
      <4> QED BY <2>1, <4>1, BoundsAssumption
    <3> QED BY <2>2, <3>1, <3>2
  <2> QED BY <2>3, <2>4
<1>2. Held => StepsBounded
  BY StepsLeftType DEF StepsBounded
<1>3. Held /\ Held' /\ [Next]_vars =>
        [TaskGoesOn]_vars
  BY <1>1, TaskShortens DEF TaskGoesOn
<1>4. Inv => TypeOK /\ Stages
  BY DEF Inv
<1> QED BY <1>2, <1>3, <1>4, Invariance, LoopIsHeld, PTL DEF Spec, TasksGoOn

\* A task that waits, waits for a task that runs on its instance: it is next, or
\* one of those that are queued, once that one has made its last step.
WaitsForRunner ==
    \A j \in Jobs : pc[j] = "queued" /\ ~LoopFree(inst[j]) =>
        \E k \in Jobs : inst[k] = inst[j] /\ pc[k] \in Running

\* No background task is left queued behind an event loop that nobody holds: while
\* one waits, some task of the same instance has a step to make.
THEOREM QueueMoves == Spec => []WaitsForRunner
<1>1. TypeOK /\ LoopHeld => WaitsForRunner
  BY DEF TypeOK, LoopHeld, LoopFree, WaitsForRunner
<1> QED BY <1>1, TypeCorrect, LoopIsHeld, PTL

----------------------------------------------------------------------------
(* What a fair schedule makes of it                                         *)

\* What is over has been shown: a task that has made its last step has reported the
\* outcome of its job, unless the very write that reports it raised.
OutcomeShown ==
    \A j \in Jobs : pc[j] \in {"done", "failProject"} => jobStatus[j] \in {"complete", "failed"}

LEMMA OutcomeStep ==
    ASSUME TypeOK, OutcomeShown, [Next]_vars
    PROVE  OutcomeShown'
<1>0. pc \in [Jobs -> Labels] /\ jobStatus \in [Jobs -> JobStatus]
  BY DEF TypeOK
<1>1. ASSUME UNCHANGED jobStatus,
             \A j \in Jobs : pc'[j] \in {"done", "failProject"} => pc'[j] = pc[j]
      PROVE  OutcomeShown'
  BY <1>1 DEF OutcomeShown
<1>2. ASSUME NEW j \in Jobs, TaskStep(j) PROVE OutcomeShown'
  <2>1. CASE StartTask(j) \/ Register(j) \/ BeginPipeline(j) \/ Parse(j)
    BY <1>0, <1>1, <2>1 DEF StartTask, Register, BeginPipeline, Parse, Goto, NextFile,
       docVars, jobVars
  <2>2. CASE RegisterSheet(j) \/ Embed(j) \/ Record(j) \/ SyncStatus(j)
    BY <1>0, <1>1, <2>2 DEF RegisterSheet, Embed, Record, SyncStatus, Goto, NextFile,
       docVars, jobVars
  <2>3. CASE \E n \in Names : RegisterTable(j, n) \/ Progress(j, n)
    BY <1>0, <1>1, <2>3 DEF RegisterTable, Progress, Goto, docVars, jobVars
  <2>4. CASE FinishJob(j)
    <3>1. PICK o \in Outcomes :
            /\ jobStatus' = [jobStatus EXCEPT ![j] = Written(o, @, "complete")]
            /\ IF o = "ok" THEN Goto(j, "done") ELSE Goto(j, "failJob")
      BY <2>4 DEF FinishJob
    <3> QED BY <1>0, <3>1 DEF OutcomeShown, Goto, Written
  <2>5. CASE FailJob(j)
    <3>1. PICK o \in Outcomes :
            /\ jobStatus' = [jobStatus EXCEPT ![j] = Written(o, @, "failed")]
            /\ IF o = "ok" THEN Goto(j, "failProject") ELSE Goto(j, "stuck")
      BY <2>5 DEF FailJob
    <3> QED BY <1>0, <3>1 DEF OutcomeShown, Goto, Written
  <2>6. CASE FailProject(j)
    BY <1>0, <2>6 DEF FailProject, OutcomeShown, Goto, jobVars
  <2> QED BY <1>2, <2>1, <2>2, <2>3, <2>4, <2>5, <2>6 DEF TaskStep
<1>3. ASSUME NEW j \in Jobs, NEW S \in SUBSET Names, Submit(j, S) PROVE OutcomeShown'
  BY <1>0, <1>3 DEF Submit, OutcomeShown, Goto, Written
<1>4. CASE \E d \in Deletes : DeleteStart(d) \/ DeleteStep(d)
  BY <1>1, <1>4 DEF DeleteStart, DeleteStep, DeleteClear, DeleteLook, DeleteDoc, DeleteFiles,
     DeleteTelemetry, docVars, jobVars
<1>5. CASE \E p \in Projects : CreateProject(p) \/ \E i \in Instances : ResetProject(i, p)
  BY <1>1, <1>5 DEF CreateProject, ResetProject, docVars, jobVars
<1>6. CASE \E i \in Instances : Crash(i)
  BY <1>0, <1>1, <1>6 DEF Crash, docVars, jobVars
<1>7. CASE UNCHANGED vars
  BY <1>7 DEF vars, OutcomeShown
<1> QED BY <1>2, <1>3, <1>4, <1>5, <1>6, <1>7 DEF Next

\* Where the task of a job that still polls as processing is.
ProcessingExplained ==
    \A j \in Jobs : jobStatus[j] = "processing" =>
        pc[j] \in {"queued"} \cup Running \cup {"lost", "rejected", "stuck"}

\* A job that polls as processing waits, is worked at, was on an instance that was
\* killed, or met an error in the very write that reports its start or its end: no
\* other way through _run_ingestion_task and its handlers leaves it so.
THEOREM ProcessingIsExplained == Spec => []ProcessingExplained
<1>1. Init => OutcomeShown
  BY DEF Init, OutcomeShown
<1>2. TypeOK /\ Stages /\ OutcomeShown => ProcessingExplained
  BY DEF TypeOK, Stages, Stage, OutcomeShown, ProcessingExplained, Labels, Ended
<1>3. Inv => TypeOK /\ Stages
  BY DEF Inv
<1> QED BY <1>1, <1>2, <1>3, OutcomeStep, Invariance, PTL DEF Spec

\* What Fairness is of a task that runs, and of a delete, with its guard written
\* out: it makes another step for ever, unless it is over for ever or time and again.
TaskRuns(j)   == []<>(pc[j] \notin Running) \/ []<><<TaskStep(j)>>_vars
DeleteRuns(d) == []<>(delPc[d] \notin DelActive) \/ []<><<DeleteStep(d)>>_vars

\* A task that has begun, and has n steps left at the most.
AtWork(j, n) == pc[j] \in Running /\ StepsLeft(j) =< n
Begun(j, n)  == pc[j] \notin {"idle", "queued"} /\ StepsLeft(j) =< n

Sooner(j, n) ==
    Spec /\ TaskRuns(j) => (AtWork(j, n + 1) ~> (AtWork(j, n) \/ pc[j] \notin Running))

LEMMA OneStepSooner == ASSUME NEW j \in Jobs, NEW n \in Nat PROVE Sooner(j, n)
<1> DEFINE Held == TypeOK /\ Stages /\ LoopHeld /\ UploadBounded
<1>0. ASSUME Held, Held', [Next]_vars, pc[j] \notin {"idle", "queued"}
      PROVE  pc'[j] \notin {"idle", "queued"}
  <2>1. {"idle", "queued"} \cap Running = {}
    BY DEF Running, Registered, Failing
  <2>2. ASSUME NEW k \in Jobs, TaskStep(k) PROVE pc'[j] \notin {"idle", "queued"}
    <3>1. CASE k = j
      BY <1>0, <2>1, <2>2, <3>1, TaskMoves DEF Running
    <3>2. CASE k # j
      BY <1>0, <2>2, <3>2, TaskMoves
    <3> QED BY <3>1, <3>2
  <2>3. ASSUME Next, \A k \in Jobs : ~TaskStep(k) PROVE pc'[j] \notin {"idle", "queued"}
    BY <1>0, <2>3, OtherMoves
  <2>4. CASE UNCHANGED vars
    BY <1>0, <2>4 DEF vars
  <2> QED BY <1>0, <2>2, <2>3, <2>4
<1>1. ASSUME Held, Held' PROVE StepsLeft(j) \in Int /\ StepsLeft(j)' \in Int
  <2>1. StepsLeft(j) \in 0..(7 * MaxUpload + 7) /\ StepsBounded
    BY <1>1, StepsLeftType DEF StepsBounded
  <2>2. Cardinality(saved'[j]) \in Nat /\ Cardinality(todo'[j]) \in Nat
    <3>1. IsFiniteSet(saved'[j]) /\ todo'[j] \in SUBSET saved'[j]
      BY <1>1 DEF UploadBounded, Stages, Stage
    <3> QED BY <3>1, FS_Subset, FS_CardinalityType
  <2>3. StepsLeft(j)' \in Int
    BY <2>2 DEF StepsLeft
  <2> QED BY <2>1, <2>3, BoundsAssumption
<1>2. Held /\ Held' /\ Begun(j, n + 1) /\ [Next]_vars /\ [TaskGoesOn]_vars
      => Begun(j, n + 1)'
  <2> SUFFICES ASSUME Held, Held', Begun(j, n + 1), [Next]_vars,
                      (pc[j] # "idle" => StepsLeft(j)' =< StepsLeft(j)) \/ UNCHANGED vars
               PROVE  Begun(j, n + 1)'
    BY DEF TaskGoesOn
  <2>1. pc'[j] \notin {"idle", "queued"}
    BY <1>0 DEF Begun
  <2>2. StepsLeft(j)' =< StepsLeft(j)
    <3>1. CASE UNCHANGED vars
      <4>1. StepsLeft(j)' = StepsLeft(j)
        BY <3>1 DEF vars, StepsLeft
      <4> QED BY <1>1, <4>1
    <3> QED BY <3>1 DEF Begun
  <2> QED BY <1>1, <2>1, <2>2 DEF Begun
<1>3. Held /\ Held' /\ Begun(j, n + 1) /\ <<TaskStep(j)>>_vars
      => AtWork(j, n)' \/ (pc[j] \notin Running)'
  <2> SUFFICES ASSUME Held, Held', Begun(j, n + 1), TaskStep(j), pc'[j] \in Running
               PROVE  AtWork(j, n)'
    OBVIOUS
  <2>1. StepsLeft(j)' < StepsLeft(j)
    BY TaskShortens
  <2> QED BY <1>1, <2>1 DEF Begun, AtWork
<1>4. AtWork(j, n + 1) => Begun(j, n + 1)
  BY DEF AtWork, Begun, Running, Registered, Failing
<1>5. Inv => TypeOK /\ Stages
  BY DEF Inv
<1> QED BY <1>2, <1>3, <1>4, <1>5, Invariance, LoopIsHeld, TasksAdvance, PTL
   DEF Spec, Sooner, TaskRuns, TasksGoOn

\* A task that runs on comes nearer to its end, whatever its files and its writes
\* do: from any number of steps left to one fewer, or out of _run_ingestion_task.
\* There are never more than 7 * MaxUpload + 7 of them (WorkIsFinite); this, repeated
\* as often, is what JobEnds says of a task that has begun.
THEOREM TasksGetNearer ==
    \A j \in Jobs : \A n \in Nat :
        Spec /\ TaskRuns(j) => (AtWork(j, n + 1) ~> (AtWork(j, n) \/ pc[j] \notin Running))
<1> SUFFICES ASSUME NEW j \in Jobs, NEW n \in Nat
             PROVE  Spec /\ TaskRuns(j) =>
                      (AtWork(j, n + 1) ~> (AtWork(j, n) \/ pc[j] \notin Running))
  OBVIOUS
<1>1. Sooner(j, n)
  BY OneStepSooner
<1> QED BY <1>1, PTL DEF Sooner

WorkHasSteps == \A j \in Jobs : pc[j] \in Running => StepsLeft(j) \in 1..(7 * MaxUpload + 7)

\* A task is at work only as long as it has a step left, and it never has more than
\* its files allow.
THEOREM WorkIsFinite == Spec => []WorkHasSteps
<1>1. ASSUME TypeOK, Stages, UploadBounded, NEW j \in Jobs, pc[j] \in Running
      PROVE  StepsLeft(j) \in 1..(7 * MaxUpload + 7)
  <2>1. StepsLeft(j) \in 0..(7 * MaxUpload + 7)
    BY <1>1, StepsLeftType
  <2>2. Cardinality(saved[j]) \in Nat /\ Cardinality(todo[j]) \in Nat
    BY <1>1, FilesCounted
  <2>3. StepsLeft(j) # 0
    BY <1>1, <2>2 DEF StepsLeft, Running, Registered, Failing
  <2> QED BY <2>1, <2>3, BoundsAssumption
<1>2. TypeOK /\ Stages /\ UploadBounded => WorkHasSteps
  BY <1>1 DEF WorkHasSteps
<1>3. Inv => TypeOK /\ Stages
  BY DEF Inv
<1> QED BY <1>2, <1>3, Invariance, LoopIsHeld, PTL

DelRank(point) ==
    CASE point = "idle"      -> 0
      [] point = "clear"     -> 1
      [] point = "look"      -> 2
      [] point = "doc"       -> 3
      [] point = "files"     -> 4
      [] point = "telemetry" -> 5
      [] OTHER               -> 6

\* A delete that runs on comes to its next step, or is over.
DeleteSooner(d, n, m) ==
    Spec /\ DeleteRuns(d) =>
        (DelRank(delPc[d]) >= n ~> (DelRank(delPc[d]) >= m \/ delPc[d] \in DelEnded))

LEMMA OneDeleteSooner ==
    ASSUME NEW d \in Deletes, NEW n \in 1..6, NEW m \in 1..6, m = n + 1
    PROVE  DeleteSooner(d, n, m)
<1>0. ASSUME TypeOK, [Next]_vars
      PROVE  delPc'[d] = delPc[d] \/ DelRank(delPc'[d]) > DelRank(delPc[d])
  <2>1. delPc \in [Deletes -> DelLabels]
    BY <1>0 DEF TypeOK
  <2>2. CASE \E e \in Deletes : DeleteStart(e) \/ DeleteStep(e)
    <3>1. PICK e \in Deletes : DeleteStart(e) \/ DeleteStep(e)
      BY <2>2
    <3>2. CASE DeleteStart(e)
      BY <2>1, <3>2 DEF DeleteStart, DelGoto, DelRank
    <3>3. CASE DeleteClear(e) \/ DeleteLook(e)
      BY <2>1, <3>3 DEF DeleteClear, DeleteLook, DelGoto, DelRank
    <3>4. CASE DeleteDoc(e)
      BY <2>1, <3>4 DEF DeleteDoc, DelGoto, DelRank
    <3>5. CASE DeleteFiles(e)
      BY <2>1, <3>5 DEF DeleteFiles, DelGoto, DelRank
    <3>6. CASE DeleteTelemetry(e)
      BY <2>1, <3>6 DEF DeleteTelemetry, DelGoto, DelRank
    <3> QED BY <3>1, <3>2, <3>3, <3>4, <3>5, <3>6 DEF DeleteStep
  <2>3. CASE \E j \in Jobs : TaskStep(j) \/ \E S \in SUBSET Names : Submit(j, S)
    <3>1. ASSUME NEW j \in Jobs, TaskStep(j)
          PROVE  delPc' = delPc
      <4>1. CASE StartTask(j) \/ Register(j) \/ BeginPipeline(j) \/ Parse(j)
        BY <4>1 DEF StartTask, Register, BeginPipeline, Parse, delVars
      <4>2. CASE RegisterSheet(j) \/ Embed(j) \/ Record(j) \/ SyncStatus(j)
        BY <4>2 DEF RegisterSheet, Embed, Record, SyncStatus, delVars
      <4>3. CASE FinishJob(j) \/ FailJob(j) \/ FailProject(j)
        BY <4>3 DEF FinishJob, FailJob, FailProject, delVars
      <4>4. CASE \E f \in Names : RegisterTable(j, f) \/ Progress(j, f)
        BY <4>4 DEF RegisterTable, Progress, delVars
      <4> QED BY <3>1, <4>1, <4>2, <4>3, <4>4 DEF TaskStep
    <3>2. ASSUME NEW j \in Jobs, NEW S \in SUBSET Names, Submit(j, S)
          PROVE  delPc' = delPc
      BY <3>2 DEF Submit, delVars
    <3> QED BY <2>3, <3>1, <3>2
  <2>4. CASE \E p \in Projects : CreateProject(p) \/ \E i \in Instances : ResetProject(i, p)
    BY <2>4 DEF CreateProject, ResetProject, delVars
  <2>5. CASE \E i \in Instances : Crash(i)
    <3>1. delPc'[d] = delPc[d] \/ (delPc[d] \in DelActive /\ delPc'[d] = "lost")
      BY <2>1, <2>5 DEF Crash
    <3> QED BY <3>1 DEF DelActive, DelRank
  <2>6. CASE UNCHANGED vars
    BY <2>6 DEF vars
  <2> QED BY <1>0, <2>2, <2>3, <2>4, <2>5, <2>6 DEF Next
<1>1. TypeOK /\ TypeOK' /\ DelRank(delPc[d]) >= n /\ [Next]_vars => (DelRank(delPc[d]) >= n)'
  <2> SUFFICES ASSUME TypeOK, DelRank(delPc[d]) >= n, [Next]_vars PROVE DelRank(delPc'[d]) >= n
    OBVIOUS
  <2>1. DelRank(delPc[d]) \in 0..6 /\ DelRank(delPc'[d]) \in 0..6
    BY DEF DelRank
  <2> QED BY <1>0, <2>1
<1>2. TypeOK /\ TypeOK' /\ DelRank(delPc[d]) >= n /\ <<DeleteStep(d)>>_vars
      => (DelRank(delPc[d]) >= m)'
  <2> SUFFICES ASSUME TypeOK, DelRank(delPc[d]) >= n, DeleteStep(d) PROVE DelRank(delPc'[d]) >= m
    OBVIOUS
  <2>1. DelRank(delPc[d]) \in 0..6 /\ DelRank(delPc'[d]) \in 0..6
    BY DEF DelRank
  <2>2. delPc'[d] # delPc[d]
    BY DEF TypeOK, DeleteStep, DeleteClear, DeleteLook, DeleteDoc, DeleteFiles,
       DeleteTelemetry, DelGoto
  <2>3. [Next]_vars
    BY DEF Next
  <2> QED BY <1>0, <2>1, <2>2, <2>3
<1>3. TypeOK /\ DelRank(delPc[d]) >= n /\ delPc[d] \notin DelActive => delPc[d] \in DelEnded
  BY DEF TypeOK, DelLabels, DelRank
<1> QED BY <1>1, <1>2, <1>3, TypeCorrect, PTL DEF Spec, DeleteSooner, DeleteRuns

\* Every delete that has begun comes to an end - deleted, no such project, an error or
\* a killed instance - if its thread runs on, whatever the tasks of the project do.
THEOREM DeletesEnd ==
    \A d \in Deletes :
        Spec /\ DeleteRuns(d) => (delPc[d] \in DelActive ~> delPc[d] \in DelEnded)
<1> SUFFICES ASSUME NEW d \in Deletes
             PROVE  Spec /\ DeleteRuns(d) => (delPc[d] \in DelActive ~> delPc[d] \in DelEnded)
  OBVIOUS
<1>1. /\ DeleteSooner(d, 1, 2) /\ DeleteSooner(d, 2, 3) /\ DeleteSooner(d, 3, 4)
      /\ DeleteSooner(d, 4, 5) /\ DeleteSooner(d, 5, 6)
  BY OneDeleteSooner
<1>2. delPc[d] \in DelActive => DelRank(delPc[d]) >= 1
  BY DEF DelActive, DelRank
<1>3. TypeOK /\ DelRank(delPc[d]) >= 6 => delPc[d] \in DelEnded
  BY DEF TypeOK, DelLabels, DelActive, DelRank
<1> QED BY <1>1, <1>2, <1>3, TypeCorrect, PTL DEF DeleteSooner
=============================================================================

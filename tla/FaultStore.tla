------------------------------ MODULE FaultStore ------------------------------
(***************************************************************************)
(* The fault dataset of one instance, and the singletons it is reached     *)
(* through.                                                                *)
(*                                                                         *)
(* FaultService keeps one dataset in memory behind a lock; uploads are     *)
(* coroutines, so the event loop runs one at a time, and blocks with it on *)
(* the lock; every other handler runs in a thread of the pool.  The        *)
(* service, the gateway and the orchestrator are made by the requests that *)
(* first need them, with no lock around the test and the construction: two *)
(* may both make a store and a lock.  A handler goes for the lock object   *)
(* that it finds, and waits for that one even if there is another by now.  *)
(* Analyses and quick statistics look into the store without its lock.     *)
(***************************************************************************)
EXTENDS Naturals, FiniteSets

CONSTANTS
    Uploads,     \* POST /fault/upload and /fault/load-dataset
    Readers,     \* GET /fault/list, /summary, /detail, /metrics
    Resets,      \* DELETE /fault/reset, and the reset in DELETE /projects/{id}
    Analyses,    \* POST /fault/analyze, GET /fault/quick-stats
    Projects,
    NoDataset,
    MaxDatasets  \* MAX_DATASETS

Requests == Uploads \cup Readers \cup Resets \cup Analyses

ASSUME KindsDisjoint ==
    /\ Uploads \cap (Readers \cup Resets \cup Analyses) = {}
    /\ Readers \cap (Resets \cup Analyses) = {}
    /\ Resets \cap Analyses = {}
ASSUME NoDatasetAssumption == NoDataset \notin Uploads
ASSUME MaxDatasetsAssumption == MaxDatasets \in Nat \ {0}

VARIABLES
    \* the container: has it made its gateway, and its orchestrator
    gateway, orchestrator,
    \* _initialized of the one FaultService that __new__ gives to everyone;
    \* _fault_service is set after it, and only spares asking again
    initialized,
    store,       \* _store: the upload that made each project's dataset
    lock,        \* which lock object _lock is, by the __init__ that made it
    mine,        \* the lock object that a request holds or waits for, if any
    held,        \* lock objects that are held, and by whom
    loop,        \* the upload that holds the event loop, if any
    pc, project, \* of a request
    answer,      \* what it has been answered
    loaded       \* history: the answered upload that stands for each project,
                 \* neither replaced nor cleared nor swept away by an __init__

storeVars == <<gateway, orchestrator, initialized, store, lock, mine, held, loop,
               pc, project, answer, loaded>>
bootVars == <<gateway, orchestrator, initialized>>

----------------------------------------------------------------------------
Dataset == Uploads \cup {NoDataset}
NoDatasets == [p \in Projects |-> NoDataset]
Points  == {"idle", "ensure", "gateway", "service", "init", "locking",
            "orchestrator", "work", "waiting", "inside", "building", "done"}
Outcomes == {"none", "missing", "refused", "failed", "cleared", "broken"}
Answers == Outcomes \cup Uploads   \* or the dataset that was read, by its upload
ASSUME UploadsAssumption == Uploads \cap Outcomes = {}
InFlight == {r \in Requests : pc[r] \notin {"idle", "done"}}
Inside == {r \in Requests : pc[r] \in {"inside", "building"}}   \* a "with" of the lock

StoreTypeOK ==
    /\ gateway \in BOOLEAN /\ orchestrator \in BOOLEAN
    /\ initialized \in BOOLEAN
    /\ store \in [Projects -> Dataset]
    /\ lock \in Nat
    /\ mine \in [Requests -> 0..lock]
    /\ loop = InFlight \cap Uploads /\ Cardinality(loop) =< 1
    /\ held = {<<mine[r], r>> : r \in Inside}
    /\ pc \in [Requests -> Points]
    /\ project \in [Requests -> Projects]
    /\ answer \in [Requests -> Answers]
    /\ loaded \in [Projects -> Dataset]

StoreInit ==
    /\ gateway = FALSE /\ orchestrator = FALSE
    /\ initialized = FALSE
    /\ store = NoDatasets /\ loaded = NoDatasets
    /\ lock = 0 /\ mine = [r \in Requests |-> 0]
    /\ held = {} /\ loop = {}
    /\ pc = [r \in Requests |-> "idle"]
    /\ project \in [Requests -> Projects]
    /\ answer = [r \in Requests |-> "none"]

Goto(r, point) == pc' = [pc EXCEPT ![r] = point]
Reply(r, a) == answer' = [answer EXCEPT ![r] = a]
Loaded == {p \in Projects : store[p] # NoDataset}

----------------------------------------------------------------------------
(* Requests arrive: an upload holds the event loop from here to its answer. *)

\* Mutant: uploads run in the pool like the other handlers.
ArrivePooled(r) ==
    /\ pc[r] = "idle"
    /\ loop' = IF r \in Uploads THEN loop \cup {r} ELSE loop
    /\ Goto(r, IF r \in Analyses THEN "ensure" ELSE "service")
    /\ UNCHANGED <<bootVars, store, lock, mine, held, project, answer, loaded>>

Arrive(r) ==
    /\ pc[r] = "idle"
    /\ IF r \in Uploads THEN loop = {} /\ loop' = {r} ELSE UNCHANGED loop
    /\ Goto(r, IF r \in Analyses THEN "ensure" ELSE "service")
    /\ UNCHANGED <<bootVars, store, lock, mine, held, project, answer, loaded>>

----------------------------------------------------------------------------
(* Container._ensure_gateway                                                *)

\* It tests for the gateway, and leaves the orchestrator to whoever made that.
EnsureGateway(r) ==
    /\ pc[r] = "ensure"
    /\ Goto(r, IF gateway THEN "work" ELSE "gateway")
    /\ UNCHANGED <<bootVars, store, lock, mine, held, loop, project, answer, loaded>>

\* The gateway is there; making the orchestrator first asks for the service.
MakeGateway(r) ==
    /\ pc[r] = "gateway"
    /\ gateway' = TRUE
    /\ Goto(r, "service")
    /\ UNCHANGED <<orchestrator, initialized, store, lock, mine, held, loop, project,
                   answer, loaded>>

MakeOrchestrator(r) ==
    /\ pc[r] = "orchestrator"
    /\ orchestrator' = TRUE
    /\ Goto(r, "work")
    /\ UNCHANGED <<gateway, initialized, store, lock, mine, held, loop, project, answer,
                   loaded>>

----------------------------------------------------------------------------
(* get_fault_service                                                        *)

\* Where a request goes on with the service it asked for.
Onward(r) == IF r \in Analyses THEN "orchestrator" ELSE "work"

\* __new__ has one instance under its lock; __init__ tests it outside that lock,
AskService(r) ==
    /\ pc[r] = "service"
    /\ Goto(r, IF initialized THEN Onward(r) ELSE "init")
    /\ UNCHANGED <<bootVars, store, lock, mine, held, loop, project, answer, loaded>>

\* and then gives it an empty store,
InitService(r) ==
    /\ pc[r] = "init"
    /\ store' = NoDatasets /\ loaded' = NoDatasets
    /\ Goto(r, "locking")
    /\ UNCHANGED <<bootVars, lock, mine, held, loop, project, answer>>

\* and after it a new lock.
InitLock(r) ==
    /\ pc[r] = "locking"
    /\ lock' = lock + 1
    /\ initialized' = TRUE
    /\ Goto(r, Onward(r))
    /\ UNCHANGED <<gateway, orchestrator, store, mine, held, loop, project, answer,
                   loaded>>

----------------------------------------------------------------------------
(* The service                                                              *)

\* "with self._lock": it takes the lock object there is, and then waits for it.
GoForLock(r) ==
    /\ pc[r] = "work" /\ r \notin Analyses
    /\ mine' = [mine EXCEPT ![r] = lock]
    /\ Goto(r, "waiting")
    /\ UNCHANGED <<bootVars, store, lock, held, loop, project, answer, loaded>>

LockFree(r) == \A h \in held : h[1] # mine[r]

\* Mutant: nobody is kept waiting.
TakeLockBusy(r) ==
    /\ pc[r] = "waiting"
    /\ held' = held \cup {<<mine[r], r>>}
    /\ Goto(r, "inside")
    /\ UNCHANGED <<bootVars, store, lock, mine, loop, project, answer, loaded>>

\* It has the lock for as long as it works: a reader in its thread of the pool,
\* too, so that an upload may wait for it and the event loop with the upload.
TakeLock(r) ==
    /\ pc[r] = "waiting" /\ LockFree(r)
    /\ held' = held \cup {<<mine[r], r>>}
    /\ Goto(r, "inside")
    /\ UNCHANGED <<bootVars, store, lock, mine, loop, project, answer, loaded>>

\* The answer, and the way out of "with self._lock".
LeaveWith(r, a) ==
    /\ held' = {h \in held : h[2] # r}
    /\ mine' = [mine EXCEPT ![r] = 0]
    /\ Reply(r, a) /\ Goto(r, "done")
    /\ loop' = loop \ {r}

\* Mutant: one dataset more than there may be.
FullLate(p) == Cardinality(Loaded) > MaxDatasets /\ p \notin Loaded

Full(p) == Cardinality(Loaded) >= MaxDatasets /\ p \notin Loaded

\* Mutant: the lock is not given back on the way out by an error.
RefuseHolding(r) ==
    /\ pc[r] = "inside" /\ r \in Uploads
    /\ Reply(r, "refused") /\ Goto(r, "done") /\ loop' = {}
    /\ UNCHANGED <<bootVars, store, lock, mine, held, project, loaded>>

\* Mutant: the old dataset goes before the rows are counted.
RefuseCleared(r) ==
    /\ pc[r] = "inside" /\ r \in Uploads
    /\ store' = [store EXCEPT ![project[r]] = NoDataset]
    /\ LeaveWith(r, "refused")
    /\ UNCHANGED <<bootVars, lock, project, loaded>>

\* upload, refused: the instance has its dataset, or the file too many rows.
Refuse(r) ==
    /\ pc[r] = "inside" /\ r \in Uploads
    /\ LeaveWith(r, "refused")
    /\ UNCHANGED <<bootVars, store, lock, project, loaded>>

\* upload up to the statistics: the project's old dataset goes first.
BeginUpload(r) ==
    /\ pc[r] = "inside" /\ r \in Uploads
    /\ ~Full(project[r])
    /\ store' = [store EXCEPT ![project[r]] = NoDataset]
    /\ Goto(r, "building")
    /\ UNCHANGED <<bootVars, lock, mine, held, loop, project, answer, loaded>>

\* The statistics are there, and the new dataset with them.
EndUpload(r) ==
    /\ pc[r] = "building"
    /\ store' = [store EXCEPT ![project[r]] = r]
    /\ loaded' = [loaded EXCEPT ![project[r]] = r]
    /\ LeaveWith(r, r)
    /\ UNCHANGED <<bootVars, lock, project>>

\* The statistics raise: the lock is given back, and the old dataset is gone.
FailUpload(r) ==
    /\ pc[r] = "building"
    /\ loaded' = [loaded EXCEPT ![project[r]] = NoDataset]
    /\ LeaveWith(r, "failed")
    /\ UNCHANGED <<bootVars, store, lock, project>>

\* reset
Reset(r) ==
    /\ pc[r] = "inside" /\ r \in Resets
    /\ LeaveWith(r, IF store[project[r]] = NoDataset THEN "missing" ELSE "cleared")
    /\ store' = [store EXCEPT ![project[r]] = NoDataset]
    /\ loaded' = [loaded EXCEPT ![project[r]] = NoDataset]
    /\ UNCHANGED <<bootVars, lock, project>>

Found(r) == IF store[project[r]] = NoDataset THEN "missing" ELSE store[project[r]]

\* get_page, get_summary, get_detail, get_metrics
Read(r) ==
    /\ pc[r] = "inside" /\ r \in Readers
    /\ LeaveWith(r, Found(r))
    /\ UNCHANGED <<bootVars, store, lock, project, loaded>>

\* analyze_fault and quick_stats: without an orchestrator they fail, and with
\* one they look into the store of its service, locked or not.
Analyse(r) ==
    /\ pc[r] = "work" /\ r \in Analyses
    /\ Reply(r, IF orchestrator THEN Found(r) ELSE "broken")
    /\ Goto(r, "done")
    /\ UNCHANGED <<bootVars, store, lock, mine, held, loop, project, loaded>>

RequestStep(r) ==
    \/ EnsureGateway(r) \/ MakeGateway(r) \/ MakeOrchestrator(r)
    \/ AskService(r) \/ InitService(r) \/ InitLock(r) \/ GoForLock(r) \/ TakeLock(r)
    \/ Refuse(r) \/ BeginUpload(r) \/ EndUpload(r) \/ FailUpload(r)
    \/ Reset(r) \/ Read(r) \/ Analyse(r)

StoreNext == \E r \in Requests : Arrive(r) \/ RequestStep(r)

StoreSpec == StoreInit /\ [][StoreNext]_storeVars

----------------------------------------------------------------------------
(* Properties                                                               *)

\* An instance never holds more datasets than it may.
WithinLimit == Cardinality(Loaded) =< MaxDatasets

\* A dataset whose upload was answered stands until it is cleared or another
\* upload of its project replaces it, unless a second __init__ sweeps all away.
LoadedStays ==
    \A p \in Projects :
        \/ store[p] = loaded[p]
        \/ store[p] = NoDataset /\ \E r \in Uploads :
                pc[r] = "building" /\ project[r] = p

\* The store is the register of DatasetRegister, whose datasets are those that
\* stand and whose requests are asked from their arrival to their answer: what
\* an upload takes away first and what an analysis reads unlocked included.
Register == INSTANCE DatasetRegister WITH
    made <- lock,
    makers <- {r \in Requests : pc[r] \in {"init", "locking"}},
    standing <- loaded,
    phase <- [r \in Requests |-> IF pc[r] \in {"idle", "done"} THEN pc[r] ELSE "asked"]

DatasetSpec == Register!RegisterSpec

\* Nobody is stuck at the lock, however many locks there are and whatever has
\* failed: who holds one is at work and waits for none, and if an upload waits, and
\* the event loop with it, it is for a thread of the pool, which needs no loop to
\* give it back - never for another upload.
NobodyStuck ==
    \A r \in Requests, h \in held :
        pc[r] = "waiting" /\ h[1] = mine[r] =>
            h[2] \in Inside /\ ~(r \in Uploads /\ h[2] \in Uploads)

\* "def fault_orchestrator(self) -> FaultAnalysisOrchestrator"
\* (dependency_injection.py:154): whoever asks the container gets one.
OrchestratorReady == \A r \in Analyses : answer[r] # "broken"
=============================================================================

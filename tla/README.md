# IndusAI: models, checks and proofs

TLA+ models of IndusAI (`industrial_ai_assistant/`): a FastAPI backend over Firestore, Firebase
Storage, Qdrant and a language model, with a React client. `app/` below is
`src/industrial_ai_assistant/app/`.

## 1. The system

The backend is deployed on Cloud Run (`Dockerfile:25-28`, `cloudbuild.yaml:17`): up to three
instances, each a single uvicorn worker. A worker has one event loop, on which `async def`
handlers and background tasks run, and a pool of threads for the `def` handlers; none of the
blocking calls made by a coroutine gives the loop back. Firestore, Storage and Qdrant are shared
by all instances; the structured index, the fault dataset, the locks and the gateway are
objects in the memory of one.

| component | state | operations | talks to |
|---|---|---|---|
| upload and ingestion: `api/routes_ingest_upload.py`, `services/project_ingestion_pipeline.py` | `ingest_jobs` documents, a lock per project and process, the running task | upload, background task, status poll | project service, structured index, Qdrant, embedder |
| projects: `services/project_service.py`, `api/routes_project.py` | `projects`, `project_files`, `telemetry_datasets` documents | create, list, status write, cascading delete | Firestore, indexes, fault service |
| structured index: `indexes/structured_index.py` | tags, routines, AOIs, IO rows, a cache of tag names, per project and process | add, look up, count, clear | ingestion, query orchestrator |
| semantic index: `indexes/semantic_index.py` | collection `project_knowledge`, BM25 cache | upsert, hybrid search, delete project | Qdrant, query orchestrator |
| fault dataset: `services/fault_service.py`, `api/routes_fault.py` | one dataset per process, its sorted rows and statistics, a lock | upload, load, page, summary, detail, reset | statistics, fault analysis |
| fault statistics: `utils/fault_statistics.py`, `utils/schema_normalizer.py` | none (pure) | normalise, windows, bursts, co-occurrence, trend | fault dataset, analysis |
| fault analysis: `services/fault_analysis_orchestrator.py`, `rag_service.py`, `fault_response_validator.py` | one request: facts, prompt, answer | retrieve, ask, retry, validate | gateway, memory, experiences |
| fault memory: `services/fault_memory.py` | a history document per machine and fault code | record, pattern | Firestore |
| fault experiences: `services/fault_experience_index.py` | experience documents, at most five per code | store, recall, prune | Firestore |
| AI gateway: `services/ai_gateway.py`, `ai_providers/`, `llm/` | the providers built at start | invoke with one retry, normalise | Gemini, OpenAI, Ollama |
| query orchestrator: `services/query_orchestrator.py`, `query_classifier.py`, `api/routes_knowledge.py` | one request | classify, look up, search, ask | both indexes, gateway, history |
| history: `services/history_service.py`, `api/routes_history.py` | sessions and their messages | create, append, complete, resume, delete | Firestore |
| settings, keys, health: `services/user_settings_service.py`, `encryption.py`, `llm/provider_factory.py`, `system_health_service.py` | a settings document per user, the master key of an instance, the Gemini key of the process | save, show, encrypt, make clients, probe | Firestore, embedders, providers |
| parsers, chunkers, embedders: `parsers/`, `chunking/`, `embeddings/`, `ingestion/` | none | bytes to chunks and vectors | ingestion |
| project context manager: `services/project_context_manager.py` | a registry no code fills | none is called | none |
| client: `client/src/` | the persisted store, polling timers | chat, upload and poll, switch project | every route |

### What is hard, and what makes each part correct

**Upload and ingestion.** The 202 is answered before the background task starts; the task runs on
the event loop of one instance and is in no queue, so a killed instance leaves a job that says
`processing` and a project that says `INDEXING`. Its per-project lock lives in one process, so two
instances ingest one project at once and their `index_status` writes interleave. A file that fails
half way is skipped with its earlier effects in place. The error handler writes to Firestore too
and can itself fail. Correct means: an outcome once shown stays, `complete` means every stored file
was tried, a file record that claims embeddings has its chunks in Qdrant, `READY` was earned by some
pass over all files, `INDEXING` has a running task or an explanation, and every job ends.

**Projects.** The cascading delete removes the project document first and its records after it, in
steps that can fail, and races with the tasks of the project, which write with merge and without
looking. Correct means: no orphaned records and no project that nobody named, except where the delete
overlapped a task or a fault came between.

**Fault dataset.** Uploads are coroutines that take a thread lock on the event loop; readers take it
in threads; analyses do not take it. The old dataset goes before the new one is ready. The service,
the gateway and the orchestrator are made by whoever asks first, with no lock around test and
construction. Correct means: never more than one dataset, an answered upload stands until it is
cleared or replaced, no reader behind the same lock sees the gap, an upload that waits for a lock and
blocks the event loop waits for a thread that needs no loop, every request is answered, and whoever asks gets an orchestrator; in one sentence, the store is a register that each request reads or
writes at one moment.

**Fault memory and experiences.** Read, change in memory, write back whole; list, then delete what
was found too many; from the thread pools of several instances, with calls that raise and are
swallowed. Correct means: lost updates never corrupt a history document or inflate it, and
overlapping prunings never delete one of the best explanations, nor leave more than five at rest.

**Fault analysis and gateway.** Two layers retry, each for failures of its own; an error string two
layers down decides whether a failure becomes an error or an answer. Correct means: calls are
bounded, only text that parsed is learned, the answer agrees with what the model brought, the memory
is used exactly as `FaultLearning` says, and every analysis ends.

**Structured index and questions.** The index lives in the memory of one instance and is lost with
it, while READY stays in Firestore. Writers take a lock; look-ups iterate over the dicts without it,
and `all_tag_names` tests its cache before the lock and reads the field again after it. A question
passes some ten steps in a thread, while files are indexed, both indexes are reset, another question
warms the keyword index, the collection fails to answer or the process ends. Correct means: the cache
agrees with the table whenever nobody is writing, callers are given what a plain set of names would
give, a STRICT answer cites only what was selected, no tag is flagged that was in force all along,
a question fails only with a reason, and a keyword index holds all that a warming can load once nobody
is filling it.

**Fault statistics.** Windows found by bisection and by a moving left end over rows that share time
stamps or are the row itself; rows are numbered by their place, so a number outlives its dataset.
Correct means: the counts are those of the definition, and the row opened is the row shown, unless the
dataset was replaced in between.

**Settings and keys.** A save reads, defaults, merges and reads back in steps that interleave with
saves on other instances; keys are sealed under a master key that a rollout can change; whoever makes a
Gemini client sets the key of the whole process. Correct means: nothing that was named is lost, the
reply shows what was saved, every call is made with a key that its user or the environment explains, or
by a client of whom it is known that it is not.

**History and client.** The only writer of messages is never reached (section 5), so the sessions have
no life worth a model; the client keeps what it is shown and polls.

## 2. Modules

| module | models | extends |
|---|---|---|
| `Ingestion` | upload, background task, projects, delete, crash | |
| `DatasetRegister` | abstract: a register per project, written and read at one moment by each request | |
| `FaultStore` | fault dataset of one instance, lazy singletons, event loop and locks | instantiates `DatasetRegister` |
| `FaultStatistics` | normalised rows, windows, burst, co-occurrence, trend, verdicts, pages and details | |
| `FaultLearning` | fault history and experiences in Firestore, abstract in what an analysis is | |
| `FaultAnalysis` | whole analyses with gateway, retries, validation and learning | `FaultLearning` |
| `TagNames` | abstract: a set of names that threads learn, forget and read | |
| `StructuredIndex` | the four tables of a project, their lock and the tag-name cache | instantiates `TagNames` |
| `Knowledge` | questions to both endpoints, file loading, reset, keyword index, restart | `StructuredIndex` |
| `UserSettings` | settings saves, encryption, and the clients made from a user's keys | |
| `SetInduction` | induction over numbers and finite sets, and what it gives of sums | |
| `IngestionProofs` | theorems about `Ingestion` | `Ingestion` |
| `FaultStoreProofs` | theorems about `FaultStore` | `FaultStore` |
| `FaultStatisticsProofs` | theorems about `FaultStatistics` | `FaultStatistics`, `SetInduction` |
| `LearningProofs` | theorems about `FaultLearning` | `FaultLearning`, `SetInduction` |
| `AnalysisProofs` | theorems about `FaultAnalysis`, refinement | `FaultAnalysis`, `LearningProofs` |
| `KnowledgeProofs` | theorems about `StructuredIndex` and `Knowledge`, refinements | `Knowledge` |
| `UserSettingsProofs` | theorems about `UserSettings` | `UserSettings` |
| `MC...` | instances for TLC: symmetry sets, requests, logs | the module they name |

Operators whose comment starts with "Mutant" are plausible bugs in the definition that follows them;
no specification uses them. For each property a check puts one in the place of the definition and
expects the property to fail.

### `Ingestion`

| TLA+ | code |
|---|---|
| `jobStatus`, `progress` | `users/{uid}/ingest_jobs/{job}`: `status`, and the files counted in `k/n files indexed` |
| `project`, `named` | `users/{uid}/projects/{id}`: `index_status`, and whether `name` is there |
| `fileDocs`, `telDocs` | `project_files` and `telemetry_datasets`; a record has the job in its blob path |
| `vectors` | chunks in the collection `indusai_{uid}`, by file name as the chunk ids are |
| `structured[i, p]` | the `StructuredIndex` of project p on instance i |
| `loop[i]` | the background task that holds the event loop of i |
| `Submit` | `ingest_upload`: accepted (`queued`), or a raising first write (`rejected`) |
| `StartTask` .. `FailProject` | `_run_ingestion_task` and `_run_ingestion`, one action per external effect, the two `except` blocks last |
| `DeleteStart` .. `DeleteTelemetry` | `delete_project` of the route and of `ProjectService`, `delete_doc` |
| `CreateProject`, `ResetProject` | `POST /projects`, `DELETE /project/reset` |
| `Crash` | SIGKILL, scale-in or memory exhaustion of one instance |

A Firestore write succeeds, raises without being applied (`lost`), or raises after it was applied
(`late`). `faulted` and `raced` record which projects met a fault or were deleted under a running
task; the safety properties name them as the only excuses. A file belongs to one of four kinds and
parses or raises; its content is data. The task never suspends, which is why `LoopFree` guards every
handler that needs the loop and not the handlers of the pool: a delete or a reset may have been
dispatched before a task took the loop, and clears the index under it. `Embed` may raise before the
upsert is applied or after it, with the chunks in the collection and the file counted as failed.

### `FaultStore`

`store`, `lock`, `held` are `_store`, the identity of the lock object that `_lock` names, and who holds
which lock object; `loop` is the upload on the event loop; `gateway`, `orchestrator`, `initialized` are
the tests of `_ensure_gateway` and of `FaultService.__init__`. A request arrives, passes the singletons
step by step, goes for the lock (`GoForLock`), takes it (`TakeLock`) and is then `inside`, holding it,
until it answers (`LeaveWith`): `BeginUpload` (old dataset removed, `building` from here on), `EndUpload`
or `FailUpload` (statistics built or raised), `Refuse`, `Reset`, `Read`; `Analyse` takes no lock. Readers
and resets hold it in a thread of the pool, so an upload may wait for them, and the event loop with it. `InitService` and `InitLock` are `__init__` past its test, first a new store and then a new lock,
as often as the test was passed. `with self._lock` looks the lock up and then waits for what it found:
`GoForLock` keeps that in `mine`, so that a request may wait for a lock object that is no longer `_lock`.

`loaded` is history: the upload that was answered and stands for a project, which a reset, a failed
replacement or the empty store of a second `__init__` takes away. `DatasetRegister` is the abstract
specification: a request is asked, has its effect and its answer at one moment, and is done. The mapping is

| `DatasetRegister` | `FaultStore` |
|---|---|
| `standing` | `loaded`: the gap of an upload is none of the register |
| `phase` | `asked` from the arrival of a request to its answer, whatever its steps |
| `made`, `makers` | `lock`, and the requests that are past the test of `__init__` |

What the register promises less firmly is what the code does not keep: an analysis may be told `missing`
while an upload of its project is on its way, every other request too once there is a second lock, and
each maker sweeps the registers before it has made its lock (`DatasetSpec` in the run `FaultStore_serve`).

### `FaultLearning`

`history` and `experiences` are the two collections. A session meets a fault, reads (`ReadHistory`)
and writes back (`WriteHistory`) the history, recalls the best explanation, thinks, and then either
forgets or stores an explanation (`StoreExperience`), lists (`ListExperiences`) and prunes
(`Prune`). `Counted` is what `record_fault` makes of a document, `Better` the order the query sorts
by, `Overflow` the slice behind the limit. A blank device cell makes an empty machine id (`NoMachine`),
for which the query drops its filter: such a fault is given the best explanation of its code, of whatever
machine (`OfMachine`). Sessions are numbers that stand for the order of document
ids, by which Firestore breaks ties. Reading and writing are separate steps, so are listing and
deleting: that is where analyses interleave.

### `FaultAnalysis`

Adds `stage`, the retry counters of both layers (`attempt`, `try`), what the model brought and the
answer. `Invoke` is one call to the provider with what both layers make of its reply; `Conclude`
validates and decides whether to learn; `Respond` answers once the memory is done. `Parsed` tells the
replies apart by their summary: one that can be stored, one that cannot (`brief`: under twenty characters,
or a bracket in front), and one of less than ten (`short`), in whose place the validator puts a fixed
sentence if a fault was asked for. That sentence is stored like an explanation (`Summary`, `Storable`),
although no reply said it, and `LearnedIsParsed` says so. `LearnSpec` is
the abstract specification of this module: every analysis, retries included, uses the memory as a
session of `FaultLearning` does. It is a property of the run `FaultAnalysis_learn` and the theorem
`AnalysisImplementsLearning`; the refinement mapping is the identity on `learnVars`.

### `TagNames`, `StructuredIndex`, `Knowledge`

| TLA+ | code |
|---|---|
| `records` | `_tags`, `_routines`, `_aois`, `_io`, by lower-case key |
| `cache`, `lock` | `_tag_name_cache`, `_lock` |
| `at`, `answer` | where a thread is in a call of the index, and what `all_tag_names` returned to it |
| `StoreTag`, `Invalidate` | `add_tag` up to the table, and the cache dropped after it; `Clear` likewise |
| `AddRecord`, `Skip` | the other writers; a table at its limit |
| `AskNames`, `Rebuild`, `ReturnNames` | the test without the lock, the filling under it, the second read without it |
| `points`, `store` | chunks of the project in `project_knowledge`, and in the BM25 index of the instance |
| `PointId`, `Textless`, `Broken` | the order of a scroll, and the payloads that a warming skips or raises at |
| `WarmLimit`, `ListLimit` | `limit=50000` of the warming and `limit=10000` of the file list; neither asks for a next page |
| `FirstPage`, `Loadable` | what a scroll brings, and what a warming makes of it: an exception in the loop keeps what came before |
| `Scroll`, `Warm` | `warm_bm25_from_qdrant`, chunk by chunk |
| `Count` .. `Judge` | `POST /project/query`: chunk count, scope, look-up, retrieval, warming, search, language model, tag guard |
| `DetectTags`, `LegacyRag` | `POST /knowledge/query` on a project without chunks |
| `Load` | the records of the uploaded files, tags before routines before AOIs |
| `ResetIndex`, `DeletePoints`, `PopCaches` | `DELETE /project/reset` in its steps, the deletion that may fail included |
| `Restart` | the end of the process, with its threads and what was in memory |

`steady` and `touched` are history: the names in force ever since a question came, and whether the
index was written since. `TagNames` is the abstract specification: a set of names, changed at one
moment per write, and a read that is given the set or `None`. The mapping is
`names <- Visible`, which is the cache where there is one and the tag table where there is none: a
write takes effect for readers when the cache that hides it is dropped, not when the table changes.
`Knowledge` uses the index only through the actions of `StructuredIndex`, so the same mapping carries
over to whole questions (`TagNamesSpec` in the run `Knowledge_queries`).

### `FaultStatistics`

`dataset` is the list of rows of a project, sorted and numbered as `normalize` and `upload` leave
them, `burst` what is computed once with it. `Upload` normalises a log and cuts it to the sample limit,
or refuses it; `Show` is a row of a page, `Open` the detail asked for by its number. The functions are
translated one by one: `OccurrencesInWindow` (bisection), `FaultBurst` (the sliding window: `Sweep` over the rows, one `Turn` for each),
`Cooccurrence`, `RollingMetrics`, `Trend`, `Integrity`, `Confidence`, `GetPage`. Scores are fractions,
kept as numerator and denominator. The properties give their definitions again by counting sets.

### `UserSettings`

| TLA+ | code |
|---|---|
| `profile` | `users/{uid}/profile/settings`; a field that is missing is `None` |
| `master` | `ENCRYPTION_KEY` of an instance; `Open` is `decrypt` with what it raises taken for no key |
| `envKey` | `GEMINI_API_KEY` of an instance, which a revision may have or not |
| `configured` | what `genai.configure` of the process was called with last |
| `BeginSave`, `WriteProfile`, `ReadBack` | `save_settings`: validation and first read, encryption and merge, `get_settings` for the reply |
| `BeginClient`, `ReadKey`, `NoKey`, `ReadPdfKey` | the reads of `get_embedder_for_user`, `get_llm_for_user` and `_run_ingestion` |
| `View`, `RepliesShow` | the reply: fields as they are, of a key that there is one and its preview |
| `ConfigureProvider`, `ConfigureEnv`, `ConfigureOwn`, `ConfigurePdf`, `MakeShared` | everybody who calls `genai.configure`; without a key of its own and in the environment nobody does (`ConfigureDefault`) |
| `Call` | `embed_text`, `embed_batch`, `generate`; a tested provider without a key asks nobody (`AsksNobody`) |
| `CallPdf` | upload, polling and generation of a PDF, each with the key configured by then |
| `Rollout` | a new revision on an instance, with the same, another or no master key and Gemini key |

`named`, `overtaken`, `behind` and `crowded` are history: what was named last, whether another save
wrote between read and write or between write and reply, and whether somebody else configured Gemini
in the process since this client did. `Keyless` is a client with neither a key of its own nor one of the
environment: it configures nothing and spends whatever was left in the process.

## 3. Runs

| run | asks | expected |
|---|---|---|
| `Ingestion_safety` | what do the shared documents say of each other in every interleaving of two uploads and a delete on two instances, with a crash and a raising write? | holds, about 1.5 M states |
| `Ingestion_jobs` | does every job end, and has a complete one tried every file? Two files of different kinds, no Qdrant | holds |
| `Ingestion_polling` | does a job document stop saying `processing` after a restart? | violated |
| `Ingestion_ghost` | can a deleted project come back? | violated |
| `FaultStore_serve` | two uploads, a reader, a reset and an analysis of two projects on a fresh instance: what stands, who waits for whom, and do they implement `DatasetRegister`? | holds, about 1.9 M states |
| `FaultStore_boot` | is every first analysis handed an orchestrator? | violated |
| `FaultLearning_safety` | three analyses of rows with and without a machine and of one code, two mishaps | holds, about 2.1 M states |
| `FaultAnalysis_learn` | do whole analyses implement `FaultLearning`, spend a bounded number of calls and end? | holds, about 0.56 M states |
| `FaultAnalysis_silent` | is a model that cannot be reached an explicit error? | violated |
| `FaultStatistics_timelines` | do windows, burst, co-occurrence and verdicts agree with their definitions, and is the row opened the row shown? | holds, about 22 000 states |
| `Knowledge_queries` | what are two questions answered while a file is loaded, both indexes are reset, the collection fails and the process ends? Does the index implement `TagNames`? | holds, about 2.5 M states |
| `UserSettings_clients` | what becomes of two saves on two instances, what do they answer, and whose key is used by a question, an ingestion and a test? One rollout | holds, about 1.9 M states |

### Bounds, and why they are enough

* `Ingestion_safety`: the properties speak of one project and of at most two actors on it, and two
  tasks can only overlap on two instances. One crash and one raising write reach every `except` block,
  the one inside the error handler included. The sheet is the kind of file with the most effects
  (index, telemetry record, vectors, file record). `Ingestion_jobs` adds two files and two kinds, so
  that a task can fail on one file and go on with the next, and a job that waits behind another.
* `FaultStore`: one dataset (`MAX_DATASETS`) and two projects, so that the limit bites; two uploads
  and one request of each other kind meet in every order, while the singletons are not made yet, and
  so with up to five stores and locks. The row limit is a free choice to refuse.
* `FaultLearning_safety`: three sessions and a limit of two, so that two prunings can work on stale
  lists while a third explanation arrives; rows with a machine and without one, which look for
  explanations in different ways; two scores give ties and differences; two mishaps allow a
  session to lose its write and another its pruning. `MAX_EXPERIENCES_PER_FAULT` is five in the
  code; the theorems hold for any limit.
* `FaultAnalysis_learn`: four replies, one of each sort the layers tell apart (one that is replaced and
  stored, one that parses and is not stored, a success without an object, a failure that is raised) and
  retrieval that fails; the hour, machine and score are single because `FaultLearning_safety` varies them. The theorems hold for any replies.
* `FaultStatistics_timelines`: logs of every content up to four lines over two codes and three times
  at unequal distances, so that rows share times, fall on both edges of a window and form a burst or
  just not; windows and thresholds keep the order of the code (near = burst < half hour < hour < day;
  `Frequent` below burst threshold and sample) at sizes that these times and rows can tell apart, so that
  every trend and every confidence occurs, MEDIUM with a burst and without. Two uploads replace a dataset
  between the page and the detail.
* `Knowledge_queries`: two questions, because a warming by one is met by the other; five chunks, of which
  one has no text, one is broken and the last is beyond the page, so that a warming loads two; a tag table
  that holds one name, so that the limit bites; two files and a folder, so that STRICT leaves something
  out; a reply that names an indexed tag, one the limit may have refused, and an invented one; one
  restart. `Similar` is empty: likeness only takes flags away.
* `UserSettings_clients`: two saves of one user overlap only on two instances; the question, ingestion
  and test share the process of one of them, which has a `GEMINI_API_KEY` or not. The
  requests are those in which fields meet: providers with a blank key, a key without a provider, a provider that is refused. Two calls let an ingestion
  meet another client between them. One rollout changes or drops the master key, and the Gemini key.
* Symmetry is declared on jobs and instances, uploads and their projects, machines, questions and master keys, which the
  models treat alike, and never in a run with a liveness property. Sessions are ordered, so they are
  not symmetric.
* `CHECK_DEADLOCK FALSE` stands where a finite set of requests is served and the model then stops
  (`FaultStore`, `FaultLearning`, `FaultAnalysis`, `FaultStatistics`, `UserSettings`). In `Knowledge`
  deadlock is checked: its step `Rest` is enabled only when everybody is done. `NobodyStuck` says for
  `FaultStore` more than deadlock checking would: nobody is left waiting while others move, and no upload
  waits for another, which would need the loop that it blocks. In `Ingestion`, projects can be
  created at any time, so deadlock is checked but says little; `JobEnds` is the real statement.

### Fairness

`Ingestion!Fairness` is weak fairness of the steps of each task and delete: a live instance runs the
coroutines and threads it has accepted to their end. No fairness makes users send requests, files
parse or writes succeed. Weak fairness is enough: once a task waits for the loop, the only thing
that holds it is another task, which is fair as well and finite. A background task that was queued on
a killed instance has no step left, which is what `Ingestion_polling` shows.

`FaultAnalysis!AnalysisFairness` is weak fairness of each analysis: its thread runs on and every call
of a client library returns or raises. That is an assumption about the libraries: `timeout_ms` of
the gateway's policy is never passed to a provider, so nothing in this repository enforces it.

`FaultStore` has no run under fairness; its liveness is proved instead. Analyses wait for no lock and
need no more than weak fairness of their own thread. Of the others it is assumed that a thread which is
inside a lock goes on (`HolderRuns`: it computes a page, builds statistics or deletes, and ends), and that
a lock lets in at last who finds it free again and again (`LetIn`). The second is an assumption about
Python: `threading.RLock` promises no order among those who wait, and without it requests that come for
ever may keep one waiting for ever.

The other modules are safety only.

## 4. Proofs

Assumed are only the named assumptions on the constants:

* kinds of files are names; markers (`NoJob`, `None`, `NoDoc`, `NoAnswer`, `Nobody`, `Nothing`) are none
  of the values they stand beside; bounds, sessions, scores and time stamps are naturals; limits and
  the thresholds of a burst and of a sample are positive, and the occurrences that make MEDIUM not above the
  sample (3 and 5 in the code); windows are ordered as in the code, and a
  day is a number of hours;
* there is at least one machine, code, hour, project and request; threads of different kinds are
  different; a request names what its schema allows; `GEMINI_API_KEY` of an instance is a key or not set;
* there are finitely many hours and fault codes (`FinitenessAssumption`: 24 hours, and the codes of the
  logs that were uploaded), because the sums of a history range over them.

`Submit` takes a finite set of files, which every request carries, so nothing is assumed of `Names`.
Everything else is for every value: any number of instances, jobs, deletes, projects, files, sessions,
users, threads, names, keys, replies, logs, crashes and faults, and any limits.

**`SetInduction`.** The induction theorems of the library take a predicate, which the installed provers
cannot instantiate. A set is not a predicate: `SmallestNat` (from the well-foundedness of `<`, stated
over relations), `NatInductionOnSet` and `FiniteSetInduction` say the same with the set of values that
satisfy it. From them come `FirstPlaces`, which counts the first places of a sequence in order, and
`SumBump`: a sum grows by one when one value of the function does.

**`Ingestion`.** `Invariance` proves `Inv`. `TypeOK` is inductive by itself (`TypeStep`, one lemma
per action). The safety properties are not: `complete` is written by a task whose position says that
it has run the whole loop, so `Stages` ties the place of every task to its job document and to its
files that are left. `Recorded` says that `embedded` is set only between the upsert and the record
of the same file. `RegisteredExists` says that a task which still writes records has a project
document unless the project was faulted or raced; without it `OrphansExplained` is not inductive,
because a record may be written at any time. Each part has a lemma with one step per action
(`StagesStep`, `RecordsStep`, `RegisteredStep`, `OrphansStep`, `IndexingStep`, `ReadyStep`). From `Inv`
follow `TypeCorrect`, `CompleteIsTried`, `FilesHaveVectors`, `IndexingIsExplained`,
`OrphansAreExplained`, `ReadyIsEarned`, and the action property `OutcomesSettle`.

`JobEnds` is not proved as a whole, but all of it is in pieces. `LoopIsHeld`: on every
instance the loop is free or held by a task that runs there, and each running task holds its own.
`TasksAdvance`: `StepsLeft` is a number up to `7 * MaxUpload + 7`, six for each file still to do and one
for its telemetry record, made smaller by each step of the task and larger by nothing. `QueueMoves`:
a task that waits for the loop waits for a running one. `TasksGetNearer` adds the fair thread
(`TaskRuns`): from any number of steps left a running task comes to fewer, or ends; `WorkIsFinite` says that
there are at most `7 * MaxUpload + 7` such arrows. To put them together is an induction over a
temporal formula, which the prover has not; for a number of files that is given one could write them out.
`ProcessingIsExplained` is the other half: what a job that says `processing` for ever went through. For a
delete the arrows are five, and `DeletesEnd` puts them together (`DelRank`, `OneDeleteSooner`).

**`FaultLearning`.** `LearnInvariance` proves `LearnInv`. `TopKept` is not inductive: a pruning
deletes what it found too many in the past. `Kept` says that what is missing or doomed has at least
`MaxExperiences` better explanations among all that were ever stored; `Above` only grows when an
explanation is added (`AboveGrows`), so a stale list stays right (`PushedStays`). `Counts` bounds
the total an analysis has read by the writers there were, to which it does not belong itself: writing
the total plus one cannot exceed the writers afterwards, however late it comes. `LearnTypeOK` also
says that an analysis is only given an explanation of its own code, and of its own machine if its row
names one.

`HistoryAddsUp` is nearly inductive: `DocumentsAdd` says the same of what an analysis has read, since that
is written back later; the step is `SumBump`. `PruningSuffices` is not: between storing and pruning a code
has too many. `AllDoomed` says that for every code somebody has yet to list, or what is too much is
on the list of somebody who has yet to delete it. A second explanation that arrives in between makes
somebody list again, because `OneEach` lets every analysis store once and then list; what a pruning
deletes leaves no less doomed for the others.

**`FaultAnalysis`.** `StepImplements`: each action is a step of `FaultLearning` or leaves its
variables alone, hence `AnalysisImplementsLearning`. `AnalysisInvariance` proves `AnalysisInv`, whose
core `Talk` bounds the calls by the two counters, `calls =< 2 * attempt + try - 3` while asking, and says
that nothing that parsed came before. Who is learning has an answer whose summary can be stored, or the
fixed sentence in place of a short one (`Said`). From it follow `AnalysisTypeCorrect`, `LearnedWasParsed`,
`CallsAreSpent`; `AnalysesKeepTheBest` is `BestAreKept` carried over by the refinement, and
`AnalysesCountAndPrune` does the same for sums and pruning. `AnalysesAdvance`: `StepsLeft` falls from 13 with
each step of an analysis, a raising call and a retry included, and rises with nobody's. With a fair
thread (`ThreadRuns`) an analysis therefore comes from each of the thirteen numbers to a smaller one, or
ends (`OneStepNearer`), and these thirteen arrows in a row are `AnalysisEnds` (`AnalysesEnd`).

**`FaultStore`.** `StoreInvariance` proves `StoreInv`. `WithinLimit` is tested before the statistics
are built and the dataset is stored after: `RoomLeft` says that there is room for the project of every
upload in between, and is kept because `OneAtATime` - the event loop - lets nobody else be there. That is
what holds the limit, not the lock, of which two `__init__` may make two. `Gap` says that the dataset
to be replaced is gone by then, `Places` which requests come where, and that who goes for a lock finds one.
`Exclusion` says that two who are inside past the same lock object are the same, and `StoreTypeOK` that
`held` is exactly who is inside. From these follow `StoreTyped`, `LimitHolds`, `UploadsStay`, and
`GapIsLocked`: a reader inside has another lock than an upload that is building (`OthersLock`), so that
`NoGapRead` holds: a reader is told that there is nothing only if there is nothing or it has another lock.

`StoreImplementsRegister` maps each action to one of `DatasetRegister` or a stutter. The core is
`FindsSeen`: what a request finds in `_store` is what stands, or the gap of an upload that the register may
show it, because two requests past different locks mean that there are two. `EndUpload` has room in
the register because nobody else builds, so that what stands and what is stored differ in its project only.

The requests end for three reasons. `RequestsAdvance`: `Rank` only rises along the way of a
request. `LockIsGivenBack`, which is `NobodyStuck`: who holds a lock is inside and waits for nobody, and if
an upload waits, and the event loop with it, it is for a thread of the pool. And the fairness, with the
guards of the steps written out. With `HolderRuns` the lock that a request waits for is free again and again
(`LocksAreFreed`): a step of who is inside gives it back (`GoneIsFree`) or begins to build, and the next one
gives it back then. With `LetIn` a request climbs from rank to rank (`OneStepFurther`) to its answer
(`RequestsAnswered`), uploads on the event loop included, however many others come. An analysis climbs with its
own thread alone (`PoolRuns`), since it never waits (`AnalysesNeverWait`).

**`FaultStatistics`.** `StatisticsInvariant` proves `StatInv`: `RowsNumbered` (in the order of time, numbered
in it), `BurstOfRows` (the burst kept is that of these rows) and `ShownStays` (until it is replaced, the
dataset has the row that was shown). The properties follow from it and from lemmas about the pure
functions, each proved for every sequence of rows in the order of time:
`OthersByPlace` turns the two bisections into the places between them and takes the row itself out, whatever
the ties; `SweepTurns` describes the loop of the burst turn by turn, and by induction on it the left end is
the first row within the window (`SweepFinds`), no window holds more (`SweepBounds`) and one holds as many
(`SweepReaches`); `FirstOfStamp` and `NearRows` are the same for co-occurrence, `VerdictOfCounts` for
trend, integrity and confidence.

**`StructuredIndex`.** `IndexInv` adds to `CacheAgrees` that who has written a table holds the lock
(`WritersHold`), and that a cache still to be dropped is one write behind (`OneBehind`): it then holds
all names but one, or the table has just been cleared. So the moment the cache is dropped is one
`Learn`, one `Forget` or nothing for the names in force, which is `IndexImplementsNames`.

**`Knowledge`.** `StepOfIndex` maps every step to one of the index or a stutter, hence
`KnowledgeUsesIndex`, and `KnowledgeCacheAgrees` and `KnowledgeImplementsNames` are carried over. Of
the others none is inductive. `ScopeInv` says of a STRICT question that its scope is there before it
searches and that what it has gathered lies within the selection (`StrictHolds`). `GuardInv` follows the
names: what was in force ever since the question came is still in force, is in what the guard was given,
and a `None` or a changed table size means that the index was written (`GuardIsFair`,
`FailuresExplained`). `WarmInv` says that what the keyword index lacks is in the hands of a question
that is warming it, as far as a warming can load it - first page, chunks with text, up to the first that
is broken - and that a reset drops it only after the collection was emptied (`WarmMissesNone`).

**`UserSettings`.** `SettingsInvariant` proves `SettingsInv`. `SaveInv`: the document a save has read is
the document as it is, unless it was overtaken, which is why a default replaces a provider that was
named only if another save came between; what it has written is still there while nobody is `behind`. `ClientInv`: a client
about to call holds a key where it uses one of its own, and otherwise the key of the process is one of
its own or of the environment, unless it is `crowded` or `Keyless`. `Elsewhere` is all that one thread can do to
another client, so each action is looked at once for its own client and once for all others. From these
follow `SettingsTyped`, `SavesAreKept`, `RepliesAreTrue` and `CallsAreExplained`. The type of
`configured` needs `ClientInv`, `ClientInv` needs the types: they are proved together.

The properties were checked by TLC on the instances of section 3 before they were proved, and so were
the inductive invariants of the fault modules and of `Ingestion`, with `LoopHeld`, `StepsBounded` and
`TasksGoOn`.

### Only model-checked

* `JobEnds`, for the reason given under `Ingestion`.
* That weak fairness as TLC uses it, with ENABLED, is what the liveness theorems assume with guards
  (`TaskRuns`, `DeleteRuns`, `ThreadRuns`, `PoolRuns`, `HolderRuns`): the prover has no rules for ENABLED. The guards are
  those of the actions. `JobEnds` and `AnalysisEnds` are checked under WF as well; what is proved of `FaultStore`
  and of deletes has no run under fairness, only this argument.
* The four violations of section 5.

## 5. Where code and documents disagree

1. `Ingestion_polling`: the status endpoint has an answer for a restarted server
   (`routes_ingest_upload.py:105-108`) that it can never give, because the job document survives, at
   `processing` for ever. (The client gives up after 300 s with a message of its own,
   `ProjectPage.tsx:163-170`.)
2. `Ingestion_ghost`: `Permanently delete a project` (`routes_project.py:102`) does not hold against a
   task that is still running: `update_index_status` merges the project back, without a name.
3. `FaultStore_boot`: `_ensure_gateway` tests for the gateway but makes the orchestrator later, so a
   second first request is handed `None` where the signature promises an orchestrator.
4. `FaultAnalysis_silent`: `No Silent Fallback` (`README.md:34`) holds only for errors of type
   CONNECTION or TIMEOUT, which the one connected provider never reports; its failures end as a 200 with
   `[PARSE FAILED]`.

### Observed while modelling

These are what the code does; the models have them as they are.

* A `READY` project cannot be answered from its files: ingestion writes to `indusai_{uid}`, questions
  count and search `project_knowledge`, and `upsert_chunks`, the only writer of that, has no caller.
* `_route_project` uses a name `user` that is not defined there (`routes_knowledge.py:142`): a project
  with chunks answers `POST /knowledge/query` with a 500, and the history writer behind it
  (`routes_knowledge.py:192-219`) is never reached.
* `all_tag_names` can return `None` when a write drops the cache between its two reads.
* The guard runs over the text; copies of a general answer stay unredacted although the warning says
  redacted. `PREFER` without a selection returns three times `top_k`; `STRICT` without one is `GLOBAL`.
* Two questions that warm at once count terms twice; a reset that races with a warming leaves deleted
  chunks in memory, and it reports success when Qdrant refused.
* `Cooccurrence` is given the time and not the row: for rows that share a time stamp it may name the
  row's own code.
* `fault_confidence.py:5-8` asks for ten occurrences in the hour for HIGH and for three for MEDIUM. The code
  asks for no ten; and with three or four the sample of five is not reached, integrity fails and the
  confidence is LOW. `fault_statistics.py:239` says that in a burst the count of the hour must be at least that
  of the burst; the code logs a warning and passes. `VerdictsAgree` says nothing of these three cases, and
  the branch for a burst without an occurrence is unreachable.
* A row number has no dataset in it: after a re-upload it opens another row. `DatasetHashMismatchError`
  is raised in `FaultService.analyze` only, which nothing calls.
* Two columns that mean the same name make `normalize` raise an error that becomes a 500.
* `genai.configure` is of the process: "per-user embedder instances" (`embedder_factory.py:2`) and the
  test "using the user's saved BYOK key" (`routes_user.py:71`) hold as long as nobody else makes a
  Gemini client in between, and only for a user who has a key or where the environment has one: an embedder
  with neither configures nothing and spends the key that somebody else left in the process.
  `CallsExplained` excuses both (`crowded`, `Keyless`), so it states less than these documents do; no run
  of its own shows the difference. The calls of the gateway use whatever was configured last.
* `has_llm_key` and `has_embedding_key` are true of a blank key and of one that cannot be decrypted.
* The keyword index is warmed from one page of at most 50000 points and keeps what it copied before an
  exception; the rest is found by vectors alone until the process ends.
* The fixed sentence that replaces a short summary is stored as an experience, and may be the best one.
* A Gemini embedder takes the language model's key even if that is an OpenAI key, and so does the
  PDF processor. A key saved without a provider can replace one that another save has just named.
  Keys sealed under a rotated `ENCRYPTION_KEY` count as absent.

### What the properties excuse

Some properties name the case that the code gets wrong and claim nothing of it; they keep everything
else right around the hazard, and do not catch the hazard itself.

* `JobEnds` excuses a killed task and a lost report: that such a job stays `processing` is
  `Ingestion_polling`.
* `LoadedStays` excuses the sweep of a second `__init__` and the old dataset of an upload that fails.
* `SavesKept` excuses a default provider that replaces one which an overtaking save named, `RepliesShow` a
  reply that shows the save which came in between.
* `CallsExplained` excuses `crowded` and `Keyless` clients, `OpenedIsShown` a dataset that was replaced,
  `CooccursElsewhere` all but the first row of a time stamp.
* `AnalysisEnds` takes it for granted that a call to a provider returns; nothing passes it a timeout.

## 6. What is not modelled, and abstractions

* One user: every document is under `users/{uid}`, and users share only the process.
* Vectors are kept per file name: chunk ids depend on the name only, so equal names in two projects
  overwrite each other. The model has the same identity, so it cannot tell them apart.
* The container is taken as one object. `lru_cache` may build two for two simultaneous first requests;
  what that adds to `FaultStore_boot` is more of the same.
* `_fault_service` of the container is set after `_initialized` and only spares asking again.
* What a handler of the fault service does under its lock is one step, but for the gap of an upload. Past
  two different locks its single accesses could interleave as well, for instance two `del` of one key; the
  `KeyError` would be one more way for an upload to fail.
* The secondary provider of the gateway, `reload_providers`, `FaultService.analyze`, the session
  store of `FaultService` and the project context manager have no caller and are left out.
* OpenAI and Ollama providers are in `Reply` through the errors they report, although the container
  registers neither.
* Prompts, confidences of an analysis and scores of retrieval are data; `FaultStatistics` has the
  numbers of rows, but not the histograms by hour, day, code and device, which are plain counts.
* Conversation history: its only writer is unreachable; what is left are reads, a rename and deletes of
  sessions no code creates.
* The project context manager, `upsert_chunks`, `remove_file`, `save_to_disk` and `load_from_disk` have
  no caller.
* Health probes change nothing; parsers are third-party. `llm_model` and `ollama_url` are saved as the
  keys are.
* In `Knowledge` nothing fills the collection: what it holds was there before, by the first observation
  above. A record keeps its kind, name and file; word matching is a choice of the request.
* `POST /project/ingest` hands a folder path to the blob download, which finds nothing: it changes
  no modelled state.
* React rendering and routing.

## 7. Plan

Done: `Ingestion`, `FaultStore`, `FaultLearning`, `FaultAnalysis`, `FaultStatistics`, `StructuredIndex`
with `TagNames`, `Knowledge`, `UserSettings`, `DatasetRegister`, and proofs about all of them: every invariant, action
property and refinement of a passing run is a theorem, and so is all liveness but `JobEnds`, under fairness with
its guards written out.
They came in the order of the shared state that several actors change. What is left:

1. Liveness of questions: every one is answered, under weak fairness of its thread; and the composition
   of `Knowledge` with `Ingestion`, so that READY and the index of the instance are in one model. This
   pays off once ingestion and questions use one collection.
2. Equal file names in two projects of a user: chunk ids with their payload in place of vectors by name.
3. `last_seen` of the fault memory and the order of analyses of older rows.
4. `History`, when its writer is reachable: append, complete, resume and delete from two clients, with a
   session as a list that only grows until it is deleted as the abstract specification.

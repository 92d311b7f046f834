------------------------------- MODULE Knowledge -------------------------------
(***************************************************************************)
(* Questions about one project, asked of one instance.                     *)
(*                                                                         *)
(* A question runs in a thread of the pool through count, scope, look-up,  *)
(* retrieval, language model and tag guard.  Meanwhile a background task   *)
(* writes the records of the uploaded files into the structured index, a   *)
(* reset clears both indexes, another question warms the keyword index,    *)
(* the collection project_knowledge fails to answer, or the process ends.  *)
(* Nothing but a reset writes to that collection: what it holds was there  *)
(* before (see the README).                                                *)
(***************************************************************************)
EXTENDS StructuredIndex

CONSTANTS
    Queries, Loaders, Resets,  \* the threads, by what they do
    Chunks,       \* the project's points in project_knowledge
    FileOf,       \* payload source_file, by chunk
    PointId,      \* by which the collection is scrolled
    Textless,     \* points without text or chunk_id in their payload
    Broken,       \* points whose payload SemanticChunk does not accept
    WarmLimit, ListLimit, \* limit of the two scrolls; neither asks for a next page
    Parsed,       \* the records an ingestion reads from its files
    Requests,     \* the questions with their scope, see RequestOK
    Replies,      \* what the language model can say, see ReplyOK
    Tags,         \* tags a reply can mention, invented ones included
    Similar,      \* pairs of a tag and a name that are alike at 0.85
    TopK,         \* top_k
    NoScope,      \* effective_scope is None
    MaxRestarts   \* bound on the ends of the process

ASSUME ThreadsAssumption ==
    /\ Threads = Queries \cup Loaders \cup Resets
    /\ Queries \cap (Loaders \cup Resets) = {} /\ Loaders \cap Resets = {}
ASSUME ParsedAssumption == Parsed \subseteq Record
ASSUME NoScopeAssumption == \A F \in SUBSET Files : F # NoScope
ASSUME ChunksAssumption == FileOf \in [Chunks -> Files] /\ PointId \in [Chunks -> Nat]
ASSUME LimitsAssumption == WarmLimit \in Nat \ {0} /\ ListLimit \in Nat \ {0}
ASSUME BoundAssumption == MaxRestarts \in Nat

Labels == {"TAG_LOOKUP", "IO_LOOKUP", "ROUTINE_FLOW", "SYSTEM_FLOW", "DOCUMENTATION",
           "COMMISSION_PROGRESS", "UNKNOWN"}
Intents == {"FAULT_ANALYSIS", "FILE_EXPLANATION", "GENERAL_QUERY"}

VARIABLES
    points,    \* chunks of the project in project_knowledge
    store,     \* chunks of the project in the BM25 index of the instance
    pc,        \* where each thread is
    req,       \* the request of each query
    scope,     \* effective_scope
    size,      \* length of the tag table when the query began to scan it
    toWarm,    \* what the query has yet to copy from its scroll to the store
    sources,   \* source files of the hits
    fast,      \* the file was read whole
    reply,     \* [code, sources, flagged] of each query
    todo,      \* records a loader has yet to add
    restarts,
    steady,    \* history: names in force ever since the query came
    touched    \* history: the index was written since the query came

queryVars == <<points, store, pc, req, scope, size, toWarm, sources, fast, reply, todo,
               restarts>>
vars == <<indexVars, queryVars, steady, touched>>

RequestOK(r) ==
    /\ r.endpoint \in {"project", "knowledge"}
    /\ r.mode \in {"STRICT", "PREFER", "GLOBAL"}
    /\ r.files \subseteq Files     \* selected_files
    /\ r.folders \subseteq Files   \* what lies under selected_folders
    /\ r.picked \in BOOLEAN        \* something is selected
    /\ r.rules \subseteq Labels \ {"UNKNOWN"}  \* the rule groups that match
    /\ r.words \subseteq Keys      \* the words of the question
    /\ r.snake \in BOOLEAN /\ r.camel \in BOOLEAN  \* it holds such an identifier
    /\ r.intent \in Intents        \* the first intent pattern that matches
    /\ r.explain \in BOOLEAN       \* it asks to explain or describe
ASSUME RequestsAssumption == Requests # {} /\ \A r \in Requests : RequestOK(r)

\* Did the reply parse as JSON, and which tags do summary and evidence mention?
ReplyOK(r) == r \in [json : BOOLEAN, summary : SUBSET Tags, evidence : SUBSET Tags]
ASSUME RepliesAssumption == \A r \in Replies : ReplyOK(r)

Points == {"idle", "count", "scope", "lookup", "scan", "retrieve", "scroll", "warm",
           "search", "ask", "names", "judge", "legacy", "clear", "delete", "pop", "done"}
NoReply == [code |-> "none", sources |-> {}, flagged |-> {}]
Codes == {"none", "NOT_READY", "NOT_INDEXED", "LEGACY_RAG", "NO_RESULTS", "ANSWER",
          "LLM_FAILED", "QUERY_FAILED", "lost"}
AnyRequest == CHOOSE r \in Requests : TRUE
InFlight(q) == pc[q] \notin {"idle", "done"}

KnowTypeOK ==
    /\ IndexTypeOK
    /\ points \subseteq Chunks /\ store \subseteq Chunks
    /\ pc \in [Threads -> Points]
    /\ req \in [Queries -> Requests]
    /\ scope \in [Queries -> {NoScope} \cup SUBSET Files]
    /\ size \in [Queries -> Nat]
    /\ toWarm \in [Queries -> SUBSET Chunks]
    /\ sources \in [Queries -> SUBSET Files]
    /\ fast \in [Queries -> BOOLEAN]
    /\ reply \in [Queries -> [code : Codes, sources : SUBSET Files, flagged : SUBSET Tags]]
    /\ todo \in [Loaders -> SUBSET Record]
    /\ restarts \in 0..MaxRestarts
    /\ steady \in [Queries -> SUBSET Keys] /\ touched \in [Queries -> BOOLEAN]

Init ==
    /\ IndexInit
    /\ points = Chunks
    /\ store = {}
    /\ pc = [t \in Threads |-> "idle"]
    /\ req = [q \in Queries |-> AnyRequest]
    /\ scope = [q \in Queries |-> NoScope]
    /\ size = [q \in Queries |-> 0]
    /\ toWarm = [q \in Queries |-> {}]
    /\ sources = [q \in Queries |-> {}]
    /\ fast = [q \in Queries |-> FALSE]
    /\ reply = [q \in Queries |-> NoReply]
    /\ todo = [l \in Loaders |-> Parsed]
    /\ restarts = 0
    /\ steady = [q \in Queries |-> {}]
    /\ touched = [q \in Queries |-> FALSE]

Goto(t, point) == pc' = [pc EXCEPT ![t] = point]

\* The answer of a query; what it gathered is dropped.
Respond(q, code, cited, flagged) ==
    /\ reply' = [reply EXCEPT ![q] = [code |-> code, sources |-> cited, flagged |-> flagged]]
    /\ pc' = [pc EXCEPT ![q] = "done"]
    /\ scope' = [scope EXCEPT ![q] = NoScope]
    /\ size' = [size EXCEPT ![q] = 0]
    /\ toWarm' = [toWarm EXCEPT ![q] = {}]
    /\ sources' = [sources EXCEPT ![q] = {}]
    /\ fast' = [fast EXCEPT ![q] = FALSE]
Refuse(q, code) == Respond(q, code, {}, {})

Gathered == <<scope, size, toWarm, sources, fast>>
Held == <<points, store, req, todo, restarts>>

----------------------------------------------------------------------------
(* Both endpoints                                                           *)

Receive(q) ==
    /\ pc[q] = "idle"
    /\ \E r \in Requests : req' = [req EXCEPT ![q] = r]
    /\ Goto(q, "count")
    /\ UNCHANGED <<indexVars, points, store, todo, restarts, Gathered, reply>>

\* collection_size: if the collection does not answer, what is in memory counts.
CollectionSizes == {Cardinality(points), Cardinality(store)}

\* POST /project/query refuses a project without chunks.  POST /knowledge/query
\* looks for tags in the question of one, and fails for one with chunks: its
\* _route_project uses a name, user, that is not defined there.
Count(q) ==
    /\ pc[q] = "count"
    /\ \E n \in CollectionSizes :
        \/ n > 0 /\ req[q].endpoint = "project" /\ Goto(q, "scope")
           /\ UNCHANGED <<Gathered, reply>>
        \/ n = 0 /\ req[q].endpoint = "project" /\ Refuse(q, "NOT_READY")
        \/ n > 0 /\ req[q].endpoint = "knowledge" /\ Refuse(q, "QUERY_FAILED")
        \/ n = 0 /\ req[q].endpoint = "knowledge" /\ Goto(q, "names")
           /\ UNCHANGED <<Gathered, reply>>
    /\ UNCHANGED <<indexVars, Held>>

\* all_tag_names_lower, for the detection of tags and for the guard
GetNames(q) ==
    /\ pc[q] = "names"
    /\ AskNames(q) \/ Rebuild(q) \/ ReturnNames(q)
    /\ IF at[q] = "return" THEN Goto(q, "judge") ELSE UNCHANGED pc
    /\ UNCHANGED <<Held, Gathered, reply>>

----------------------------------------------------------------------------
(* POST /knowledge/query on a project without chunks                        *)

\* _detect_project_tags; None is no iterable and nothing catches the TypeError.
DetectTags(q) ==
    /\ pc[q] = "judge" /\ req[q].endpoint = "knowledge"
    /\ \/ answer[q] = NoAnswer /\ Refuse(q, "QUERY_FAILED")
       \/ answer[q] # NoAnswer /\ answer[q] \cap req[q].words # {} /\ Refuse(q, "NOT_INDEXED")
       \/ answer[q] # NoAnswer /\ answer[q] \cap req[q].words = {} /\ Goto(q, "legacy")
          /\ UNCHANGED <<Gathered, reply>>
    /\ UNCHANGED <<indexVars, Held>>

\* A gateway that fails is answered with a fixed text, in the same mode.
LegacyRag(q) ==
    /\ pc[q] = "legacy"
    /\ Refuse(q, "LEGACY_RAG")
    /\ UNCHANGED <<indexVars, Held>>

----------------------------------------------------------------------------
(* POST /project/query, QueryOrchestrator.query                             *)

\* The labels of the rules that match and of the identifiers in the question.
Classify(r) ==
    LET matched == r.rules \cup (IF r.snake THEN {"TAG_LOOKUP"} ELSE {})
                           \cup (IF r.camel THEN {"ROUTINE_FLOW"} ELSE {})
    IN  IF matched = {} THEN {"UNKNOWN"} ELSE matched
SemanticRequired(r) == Classify(r) \cap {"SYSTEM_FLOW", "DOCUMENTATION", "UNKNOWN"} # {}

\* What a scroll of the collection brings.
FirstPage(limit) == {c \in points : Cardinality({d \in points : PointId[d] < PointId[c]}) < limit}

\* The files the indexes know, as far as one page of the collection shows them.
\* If it does not answer the memory stands in, unless that changes meanwhile.
KnownFiles ==
    {SourceFiles \cup {FileOf[c] : c \in held} : held \in {FirstPage(ListLimit), store, {}}}

Selective(r) == r.mode \in {"STRICT", "PREFER"} /\ r.picked

\* Selected files are taken as they come, folders through the known files.  A
\* selection of one file that the server can read is answered from that file.
ResolveScope(q) ==
    LET r == req[q] IN
    /\ pc[q] = "scope"
    /\ \/ /\ ~Selective(r)
          /\ Goto(q, "lookup")
          /\ UNCHANGED <<Gathered, reply>>
       \/ /\ Selective(r) /\ lock = Nobody
          /\ \E known \in KnownFiles :
             LET resolved == r.files \cup (r.folders \cap known) IN
             \/ r.mode = "STRICT" /\ resolved = {} /\ Refuse(q, "NO_RESULTS")
             \/ /\ r.mode # "STRICT" \/ resolved # {}
                /\ scope' = [scope EXCEPT ![q] = resolved]
                /\ Goto(q, "lookup")
                /\ UNCHANGED <<size, toWarm, sources, fast, reply>>
             \/ /\ r.mode = "STRICT" /\ Cardinality(resolved) = 1 /\ r.explain
                /\ scope' = [scope EXCEPT ![q] = resolved]
                /\ sources' = [sources EXCEPT ![q] = resolved]
                /\ fast' = [fast EXCEPT ![q] = TRUE]
                /\ Goto(q, "ask")
                /\ UNCHANGED <<size, toWarm, reply>>
    /\ UNCHANGED <<indexVars, Held>>

\* What STRICT leaves of a set of files.
Within(q, files) ==
    IF req[q].mode = "STRICT" /\ scope[q] # NoScope THEN files \cap scope[q] ELSE files

LabelOf == [tag |-> "TAG_LOOKUP", io |-> "IO_LOOKUP", routine |-> "ROUTINE_FLOW"]
Hits(r) == {x \in records : x.kind # "aoi" /\ x.key \in r.words
                            /\ LabelOf[x.kind] \in Classify(r)}

\* The tables a look-up iterates over, without the lock.
Scanned(r) == {x \in records : x.kind \in {"tag", "io"} /\ LabelOf[x.kind] \in Classify(r)}

LookUp(q) ==
    /\ pc[q] = "lookup"
    /\ size' = [size EXCEPT ![q] = Cardinality(Scanned(req[q]))]
    /\ Goto(q, "scan")
    /\ UNCHANGED <<indexVars, Held, scope, toWarm, sources, fast, reply>>

\* A dict that changed its size meanwhile raises a RuntimeError.
ScanEnds(q) ==
    /\ pc[q] = "scan"
    /\ IF Cardinality(Scanned(req[q])) # size[q]
       THEN Refuse(q, "QUERY_FAILED")
       ELSE /\ sources' = [sources EXCEPT ![q] = Within(q, {x.file : x \in Hits(req[q])})]
            /\ Goto(q, IF SemanticRequired(req[q]) THEN "retrieve" ELSE "ask")
            /\ size' = [size EXCEPT ![q] = 0]
            /\ UNCHANGED <<scope, toWarm, fast, reply>>
    /\ UNCHANGED <<indexVars, Held>>

----------------------------------------------------------------------------
(* SemanticIndex.hybrid_search                                              *)

\* The keyword index is filled by the first question that finds it empty.
Retrieve(q) ==
    /\ pc[q] = "retrieve"
    /\ Goto(q, IF store = {} THEN "scroll" ELSE "search")
    /\ UNCHANGED <<indexVars, Held, Gathered, reply>>

\* What warm_bm25_from_qdrant makes of its page: points without text are skipped,
\* the first that is broken raises; that is caught around the loop, and what came
\* before stays.
Loadable ==
    {c \in FirstPage(WarmLimit) \ Textless :
        \A d \in points \ Textless : PointId[d] =< PointId[c] => d \notin Broken}

\* The scroll, which may fail.
Scroll(q) ==
    /\ pc[q] = "scroll"
    /\ \E page \in {Loadable, {}} :
        /\ toWarm' = [toWarm EXCEPT ![q] = page]
        /\ Goto(q, IF page = {} THEN "search" ELSE "warm")
    /\ UNCHANGED <<indexVars, Held, scope, size, sources, fast, reply>>

\* Mutant: the loop returns after its first chunk.
WarmReturns(q) ==
    /\ pc[q] = "warm"
    /\ \E c \in toWarm[q] : store' = store \cup {c}
    /\ toWarm' = [toWarm EXCEPT ![q] = {}]
    /\ Goto(q, "search")
    /\ UNCHANGED <<indexVars, points, req, todo, restarts, scope, size, sources, fast, reply>>

\* _bm25_add, chunk by chunk
Warm(q) ==
    /\ pc[q] = "warm"
    /\ \E c \in toWarm[q] :
        /\ \A d \in toWarm[q] : PointId[c] =< PointId[d]
        /\ store' = store \cup {c}
        /\ toWarm' = [toWarm EXCEPT ![q] = @ \ {c}]
        /\ Goto(q, IF toWarm[q] = {c} THEN "search" ELSE "warm")
    /\ UNCHANGED <<indexVars, points, req, todo, restarts, scope, size, sources, fast, reply>>

\* The sets of at most n elements that ranking can leave of S.
Best(n, S) == {T \in SUBSET S : Cardinality(T) = IF Cardinality(S) < n THEN Cardinality(S) ELSE n}

\* PREFER asks for three times as many and cuts only if there is a scope.
Wanted(q) == IF req[q].mode = "PREFER" /\ scope[q] \in {NoScope, {}} THEN 3 * TopK ELSE TopK

\* Mutant: the keyword search does not get the scope.
SearchUnscoped(q) ==
    /\ pc[q] = "search"
    /\ LET found == {c \in points : FileOf[c] \in Within(q, Files)} \cup store IN
       \E best \in Best(Wanted(q), found) :
        sources' = [sources EXCEPT ![q] = @ \cup {FileOf[c] : c \in best}]
    /\ Goto(q, "ask")
    /\ UNCHANGED <<indexVars, Held, scope, size, toWarm, fast, reply>>

\* Vector search over the collection and BM25 over the memory, merged.  If the
\* collection or the embedding fails the question goes on without chunks.
Search(q) ==
    /\ pc[q] = "search"
    /\ LET found == {c \in points \cup store : FileOf[c] \in Within(q, Files)} IN
       \/ \E best \in Best(Wanted(q), found) :
            sources' = [sources EXCEPT ![q] = @ \cup {FileOf[c] : c \in best}]
       \/ UNCHANGED sources
    /\ Goto(q, "ask")
    /\ UNCHANGED <<indexVars, Held, scope, size, toWarm, fast, reply>>

----------------------------------------------------------------------------
(* The language model and the guard                                         *)

\* Mutant: a gateway that fails is not caught; no answer says so.
AskUncaught(q) ==
    /\ pc[q] = "ask"
    /\ \/ Refuse(q, "UNCAUGHT")
       \/ Goto(q, "names") /\ UNCHANGED <<Gathered, reply>>
    /\ UNCHANGED <<indexVars, Held>>

Ask(q) ==
    /\ pc[q] = "ask"
    /\ \/ Refuse(q, "LLM_FAILED")
       \/ Goto(q, "names") /\ UNCHANGED <<Gathered, reply>>
    /\ UNCHANGED <<indexVars, Held>>

\* Text that is no JSON becomes the summary, without evidence.
ParseOutput(raw) == [raw EXCEPT !.evidence = IF raw.json THEN @ ELSE {}]

\* The text the guard reads: a file explanation has no evidence in it.
GuardText(q, said) ==
    IF fast[q] \/ req[q].intent = "FILE_EXPLANATION"
    THEN said.summary ELSE said.summary \cup said.evidence

\* With no tag indexed nothing is flagged.
Hallucinated(text, known) ==
    IF known = {} THEN {}
    ELSE {tag \in text : tag \notin known /\ ~\E k \in known : <<tag, k>> \in Similar}

\* The end of query; the TypeError of a None is answered as a failure.
Judge(q) ==
    /\ pc[q] = "judge" /\ req[q].endpoint = "project"
    /\ \/ answer[q] = NoAnswer /\ Refuse(q, "QUERY_FAILED")
       \/ /\ answer[q] # NoAnswer
          /\ \E raw \in Replies :
                Respond(q, "ANSWER", sources[q],
                        Hallucinated(GuardText(q, ParseOutput(raw)), answer[q]))
    /\ UNCHANGED <<indexVars, Held>>

QueryStep(q) ==
    \/ Count(q) \/ GetNames(q) \/ DetectTags(q) \/ LegacyRag(q)
    \/ ResolveScope(q) \/ LookUp(q) \/ ScanEnds(q)
    \/ Retrieve(q) \/ Scroll(q) \/ Warm(q) \/ Search(q)
    \/ Ask(q) \/ Judge(q)

----------------------------------------------------------------------------
(* Ingestion, reset and restart                                             *)

\* Of a file the tags come first, then its routines, then its AOIs.
Rank == [tag |-> 1, routine |-> 2, aoi |-> 3, io |-> 1]
Load(l) ==
    /\ pc[l] = "idle"
    /\ \/ /\ at[l] = "written" /\ Invalidate(l)
          /\ UNCHANGED todo
       \/ \E r \in todo[l] :
            /\ \A x \in todo[l] : x.file = r.file => Rank[r.kind] =< Rank[x.kind]
            /\ StoreTag(l, r) \/ AddRecord(l, r) \/ Skip(l, r)
            /\ todo' = [todo EXCEPT ![l] = @ \ {r}]
    /\ UNCHANGED <<points, store, pc, req, restarts, Gathered, reply>>

\* DELETE /project/reset: the structured index first,
ResetIndex(x) ==
    /\ \/ pc[x] = "idle" /\ Clear(x) /\ Goto(x, "clear")
       \/ pc[x] = "clear" /\ Invalidate(x) /\ Goto(x, "delete")
    /\ UNCHANGED <<Held, Gathered, reply>>

\* then the chunks; if that fails the copies in memory stay, and the reset is
\* reported all the same.
DeletePoints(x) ==
    /\ pc[x] = "delete"
    /\ \/ points' = {} /\ Goto(x, "pop")
       \/ UNCHANGED points /\ Goto(x, "done")
    /\ UNCHANGED <<indexVars, store, req, todo, restarts, Gathered, reply>>

PopCaches(x) ==
    /\ pc[x] = "pop"
    /\ store' = {}
    /\ Goto(x, "done")
    /\ UNCHANGED <<indexVars, points, req, todo, restarts, Gathered, reply>>

ResetStep(x) == ResetIndex(x) \/ DeletePoints(x) \/ PopCaches(x)

\* The process ends with all its threads; what it held in memory is gone.
Restart ==
    /\ restarts < MaxRestarts
    /\ restarts' = restarts + 1
    /\ IndexLost
    /\ store' = {}
    /\ pc' = [t \in Threads |-> IF pc[t] = "idle" /\ t \in Queries \cup Resets
                                THEN "idle" ELSE "done"]
    /\ todo' = [l \in Loaders |-> {}]
    /\ reply' = [q \in Queries |-> IF InFlight(q) THEN [NoReply EXCEPT !.code = "lost"]
                                                  ELSE reply[q]]
    /\ scope' = [q \in Queries |-> NoScope] /\ size' = [q \in Queries |-> 0]
    /\ toWarm' = [q \in Queries |-> {}] /\ sources' = [q \in Queries |-> {}]
    /\ fast' = [q \in Queries |-> FALSE]
    /\ UNCHANGED <<points, req>>

Step ==
    \/ \E q \in Queries : Receive(q) \/ QueryStep(q)
    \/ \E l \in Loaders : Load(l)
    \/ \E x \in Resets : ResetStep(x)
    \/ Restart

\* The history variables follow a question until it is answered.  The name a
\* write under way brings in is in force when the write has dropped the cache.
InForce == IF lock = Nobody THEN TagKeys ELSE TagKeys \cap Visible
Written == lock # Nobody \/ lock' # Nobody \/ records' # records
Observe ==
    /\ steady' = [q \in Queries |->
                    CASE pc'[q] \in {"idle", "done"} -> {}
                      [] pc[q] = "idle" /\ pc'[q] = "count" -> InForce'
                      [] OTHER -> steady[q] \cap InForce']
    /\ touched' = [q \in Queries |->
                    pc'[q] \notin {"idle", "done"} /\ (touched[q] \/ Written)]

\* Everybody is done.
Rest ==
    /\ \A t \in Queries \cup Resets : pc[t] = "done"
    /\ \A l \in Loaders : todo[l] = {} /\ at[l] = "out"
    /\ UNCHANGED vars

Next == (Step /\ Observe) \/ Rest

Spec == Init /\ [][Next]_vars

----------------------------------------------------------------------------
(* Properties                                                               *)

\* Under STRICT an answer cites no file outside the selection, wherever its hits
\* come from - tables, collection, memory or disk - and whatever was indexed or
\* reset between the resolution of the scope and the searches.
StrictInScope ==
    \A q \in Queries :
        req[q].mode = "STRICT" /\ req[q].picked
            => reply[q].sources \subseteq req[q].files \cup req[q].folders

\* The guard flags no tag whose name was in force ever since the question came,
\* however many writes, resets and rebuilds of the cache ran beside it.
NeverFlagsHeld ==
    [][\A q \in Queries : reply'[q].flagged = reply[q].flagged
                          \/ reply'[q].flagged \cap steady[q] = {}]_vars

\* A question to the project fails for the language model's sake or because the
\* index was written while it ran (a look-up or the guard met the write); on an
\* index that rests it is answered.
FailureExplained ==
    [][\A q \in Queries :
        req[q].endpoint = "project" /\ InFlight(q) /\ reply'[q].code = "QUERY_FAILED"
            => touched[q]]_vars

\* When no question is warming it, the keyword index of an instance is empty or
\* holds all that a warming can load: two that warm at once, or one that a reset
\* overtakes, leave no chunk out but those beyond the first page and behind a
\* broken one.
WarmLoadsAll == (\A q \in Queries : toWarm[q] = {}) => store = {} \/ Loadable \subseteq store
=============================================================================

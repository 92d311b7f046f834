----------------------------- MODULE FaultAnalysis -----------------------------
(***************************************************************************)
(* One analysis of a fault, from the request to its answer: it looks the   *)
(* row up, turns to the memory (FaultLearning), retrieves documents, asks  *)
(* the model through the gateway, validates what comes back, learns from   *)
(* it and answers (FaultAnalysisOrchestrator.analyze_fault, RAGService,    *)
(* AIGatewayService, FaultResponseValidator).                              *)
(*                                                                         *)
(* The gateway calls its provider again when it fails; the orchestrator    *)
(* asks the gateway again when it brings nothing it can use.  What cannot  *)
(* be parsed in the end is handed on as raw text; an error that says the   *)
(* provider was not reached is raised.                                     *)
(***************************************************************************)
EXTENDS FaultLearning

CONSTANTS
    Replies,    \* what a provider may do with a call: see Reply
    Retrievals  \* what retrieval may come to: see Retrieval

\* What comes back parsed, by its summary: one that can be stored; one that
\* cannot, of ten to nineteen characters or with a bracket in front; and one of
\* less than ten, which the validator finds short.
Parsed == {"valid", "brief", "short"}
\* A success without an object in it is not a failure to the gateway.
Failures == {"malformed", "unknown", "absent", "connection"}
Reply == Parsed \cup {"empty"} \cup Failures
Retrieval == {"found", "none", "unreachable"}

ASSUME RepliesAssumption == Replies \subseteq Reply
ASSUME RetrievalsAssumption == Retrievals \subseteq Retrieval

VARIABLES
    stage,     \* where an analysis stands
    intent,    \* what its question is classified as
    documents, \* what its retrieval came to
    attempt,   \* of _call_llm_with_retry
    try,       \* of AIGatewayService.execute
    output,    \* what the orchestrator makes its answer of
    answer,
    \* history of the model
    calls,     \* calls to the provider
    replies    \* what they have brought

talkVars == <<documents, attempt, try, output, calls, replies>>
analysisVars == <<learnVars, stage, intent, talkVars, answer>>

----------------------------------------------------------------------------
Stages == {"idle", "memory", "model", "validate", "learning", "answered", "dead"}
Answers == {"none", "refused", "analysis", "raw text", "unavailable"}

AnalysisTypeOK ==
    /\ LearnTypeOK
    /\ stage \in [Sessions -> Stages]
    /\ intent \in [Sessions -> {"fault", "question"}]
    /\ documents \in [Sessions -> Retrieval]
    /\ attempt \in [Sessions -> 1..2]
    /\ try \in [Sessions -> 1..2]
    /\ output \in [Sessions -> Parsed \cup {"nothing", "raw"}]
    /\ answer \in [Sessions -> Answers]
    /\ calls \in [Sessions -> Nat]
    /\ replies \in [Sessions -> SUBSET Replies]
    \* it is in the memory, at the model or learning as its stage says
    /\ \A s \in Sessions :
        /\ stage[s] = "idle" => step[s] = "idle"
        /\ stage[s] = "memory" => step[s] \in {"read", "write", "recall", "thinking"}
        /\ stage[s] \in {"model", "validate"} => step[s] = "thinking"
        /\ stage[s] = "learning" => step[s] \in {"store", "list", "prune", "done"}
        /\ stage[s] \in {"answered", "dead"} => step[s] \in {"idle", "done"}
        /\ (answer[s] # "none") <=> (stage[s] = "answered")

AnalysisInit ==
    /\ LearnInit
    /\ stage = [s \in Sessions |-> "idle"]
    /\ intent = [s \in Sessions |-> "fault"]
    /\ documents = [s \in Sessions |-> "none"]
    /\ attempt = [s \in Sessions |-> 1]
    /\ try = [s \in Sessions |-> 1]
    /\ output = [s \in Sessions |-> "nothing"]
    /\ answer = [s \in Sessions |-> "none"]
    /\ calls = [s \in Sessions |-> 0]
    /\ replies = [s \in Sessions |-> {}]

Enter(s, where) == stage' = [stage EXCEPT ![s] = where]
Answer(s, what) == Enter(s, "answered") /\ answer' = [answer EXCEPT ![s] = what]

----------------------------------------------------------------------------
\* No dataset, no such row, or no statistics.
RefuseAnalysis(s) ==
    /\ stage[s] = "idle"
    /\ Answer(s, "refused")
    /\ UNCHANGED <<learnVars, intent, talkVars>>

Begin(s, f) ==
    /\ stage[s] = "idle"
    /\ Meet(s, f)
    /\ \E i \in {"fault", "question"} : intent' = [intent EXCEPT ![s] = i]
    /\ Enter(s, "memory")
    /\ UNCHANGED <<talkVars, answer>>

\* Steps 3 and 10: the calls to the two memory services.
Remember(s) ==
    /\ stage[s] \in {"memory", "learning"}
    /\ LearnStep(s)
    /\ UNCHANGED <<stage, intent, talkVars, answer>>

\* Step 4: hybrid search, then the legacy retriever; what both raise is logged.
Retrieve(s) ==
    /\ stage[s] = "memory" /\ step[s] = "thinking"
    /\ \E r \in Retrievals : documents' = [documents EXCEPT ![s] = r]
    /\ Enter(s, "model")
    /\ UNCHANGED <<learnVars, intent, attempt, try, output, answer, calls, replies>>

----------------------------------------------------------------------------
(* Step 7: one call to the provider, and what gateway and orchestrator make *)
(* of it.                                                                   *)

\* Mutant: one retry too many.
TriesAgainTwice(s, r) == r \in Failures /\ calls[s] < 2 * attempt[s] + 1

\* AIGatewayService.execute: retry once if failed
TriesAgain(s, r) == r \in Failures /\ try[s] = 1

Usable(r) == r \in Parsed

\* Mutant: what the provider does is retried from the start of the analysis.
InvokeRestarts(s) ==
    /\ stage[s] = "model"
    /\ \E r \in Replies :
        /\ replies' = [replies EXCEPT ![s] = @ \cup {r}]
        /\ calls' = [calls EXCEPT ![s] = @ + 1]
        /\ \/ /\ Usable(r)
              /\ output' = [output EXCEPT ![s] = r]
              /\ Enter(s, "validate")
              /\ UNCHANGED <<learnVars, attempt, try, answer>>
           \/ /\ ~Usable(r) /\ attempt[s] = 1
              /\ attempt' = [attempt EXCEPT ![s] = 2]
              /\ Move(s, "read") /\ Enter(s, "memory")
              /\ UNCHANGED <<history, experiences, fault, read, prior, doomed,
                             mishaps, wrote, stored, unpruned, try, output, answer>>
           \/ /\ ~Usable(r) /\ attempt[s] = 2
              /\ output' = [output EXCEPT ![s] = "raw"]
              /\ Enter(s, "validate")
              /\ UNCHANGED <<learnVars, attempt, try, answer>>
    /\ UNCHANGED <<intent, documents>>

Invoke(s) ==
    /\ stage[s] = "model"
    /\ \E r \in Replies :
        /\ replies' = [replies EXCEPT ![s] = @ \cup {r}]
        /\ calls' = [calls EXCEPT ![s] = @ + 1]
        /\ \/ /\ Usable(r)
              /\ output' = [output EXCEPT ![s] = r]
              /\ Enter(s, "validate")
              /\ UNCHANGED <<learnVars, attempt, try, answer>>
           \/ /\ TriesAgain(s, r)
              /\ try' = [try EXCEPT ![s] = 2]
              /\ UNCHANGED <<learnVars, stage, attempt, output, answer>>
           \/ /\ ~Usable(r) /\ ~TriesAgain(s, r) /\ r = "connection"
              /\ Forget(s)
              /\ Answer(s, "unavailable")
              /\ UNCHANGED <<attempt, try, output>>
           \/ /\ ~Usable(r) /\ ~TriesAgain(s, r) /\ r # "connection"
              /\ attempt[s] = 1
              /\ attempt' = [attempt EXCEPT ![s] = 2]
              /\ try' = [try EXCEPT ![s] = 1]
              /\ UNCHANGED <<learnVars, stage, output, answer>>
           \/ /\ ~Usable(r) /\ ~TriesAgain(s, r) /\ r # "connection"
              /\ attempt[s] = 2
              /\ output' = [output EXCEPT ![s] = "raw"]
              /\ Enter(s, "validate")
              /\ UNCHANGED <<learnVars, attempt, try, answer>>
    /\ UNCHANGED <<intent, documents>>

----------------------------------------------------------------------------
\* The summary an answer goes out with.  A short one of a fault is replaced by
\* a fixed sentence, a short one of a question is left; raw text is marked.
Summary(s) ==
    CASE output[s] = "raw" -> "marked text"
      [] output[s] = "short" /\ intent[s] = "fault" -> "fixed sentence"
      [] OTHER -> output[s]

\* Mutant: the test of the first character is lost.
StorableRaw(s) == Summary(s) \in {"valid", "fixed sentence", "marked text"}

\* At least twenty characters, and no bracket in front: the fixed sentence too.
Storable(s) == Summary(s) \in {"valid", "fixed sentence"}

\* Steps 8 to 10; an answer that nothing is learned from goes out at once.
Conclude(s) ==
    /\ stage[s] = "validate"
    /\ \/ Storable(s) /\ Learn(s) /\ Enter(s, "learning") /\ UNCHANGED answer
       \/ /\ ~Storable(s)
          /\ Forget(s)
          /\ Answer(s, IF output[s] = "raw" THEN "raw text" ELSE "analysis")
    /\ UNCHANGED <<intent, talkVars>>

\* Mutants: the answer does not wait for the pruning; or it waits for an
\* explanation that a lost write never stored.
RespondEarly(s) ==
    /\ stage[s] = "learning" /\ step[s] # "store"
    /\ Answer(s, "analysis")
    /\ UNCHANGED <<learnVars, intent, talkVars>>
RespondLearned(s) ==
    /\ stage[s] = "learning" /\ step[s] = "done"
    /\ \E e \in stored : e.by = s
    /\ Answer(s, "analysis")
    /\ UNCHANGED <<learnVars, intent, talkVars>>

\* Step 11, once the memory is done, whatever it came to.
Respond(s) ==
    /\ stage[s] = "learning" /\ step[s] = "done"
    /\ Answer(s, "analysis")
    /\ UNCHANGED <<learnVars, intent, talkVars>>

KillAnalysis(s) ==
    /\ stage[s] \notin {"idle", "answered", "dead"}
    /\ KillSession(s)
    /\ Enter(s, "dead")
    /\ UNCHANGED <<intent, talkVars, answer>>

AnalysisStep(s) ==
    \/ Remember(s) \/ Retrieve(s) \/ Invoke(s) \/ Conclude(s) \/ Respond(s)

AnalysisNext ==
    \E s \in Sessions :
        \/ RefuseAnalysis(s) \/ AnalysisStep(s) \/ KillAnalysis(s)
        \/ \E f \in Fault : Begin(s, f)

AnalysisSpec == AnalysisInit /\ [][AnalysisNext]_analysisVars

\* The thread of an analysis runs on, and every call it makes returns or raises.
AnalysisFairness == \A s \in Sessions : WF_analysisVars(AnalysisStep(s))
FairAnalysisSpec == AnalysisSpec /\ AnalysisFairness

----------------------------------------------------------------------------
(* Properties                                                               *)

Said(s) == output[s] = "valid" \/ (output[s] = "short" /\ intent[s] = "fault")

\* What an analysis learned, an answer that parsed had said in full, or the
\* validator in place of an answer that parsed and said next to nothing of a
\* fault: never raw text, and never the text of another analysis.
LearnedIsParsed ==
    \A e \in stored : output[e.by] \in replies[e.by] /\ Said(e.by)

\* No analysis calls its provider more than four times; raw text goes out only
\* after each attempt was made and none parsed, and "not connected" only where
\* the provider said so and had not answered before.
CallsSpent ==
    \A s \in Sessions :
        /\ calls[s] =< 4
        /\ answer[s] = "raw text" => calls[s] >= 2 /\ replies[s] \cap Parsed = {}
        /\ answer[s] = "unavailable" =>
             "connection" \in replies[s] /\ replies[s] \cap Parsed = {}
        /\ answer[s] = "analysis" => replies[s] \cap Parsed = {output[s]}

\* Every analysis is answered, or its instance was killed.
AnalysisEnds ==
    \A s \in Sessions :
        stage[s] = "memory" ~> stage[s] \in {"answered", "dead"}

\* "No Silent Fallback: Explicit error if LLM/RAG unreachable" (README.md:34):
\* an answer is an analysis or an error, and one whose model or documents could
\* not be reached is an error.
NoSilentFallback ==
    \A s \in Sessions :
        answer[s] \in {"analysis", "raw text"} =>
            /\ documents[s] # "unreachable"
            /\ replies[s] \cap (Parsed \cup {"empty", "malformed"}) # {}

----------------------------------------------------------------------------
(* The inductive strengthening of LearnedIsParsed and CallsSpent.           *)

\* How many calls an analysis has made, and what they have brought, follows
\* from where it stands in its attempts.
Talk(s) ==
    /\ calls[s] =< 4
    /\ stage[s] \in {"idle", "memory"} =>
         attempt[s] = 1 /\ try[s] = 1 /\ calls[s] = 0 /\ replies[s] = {}
    /\ stage[s] = "model" =>
         /\ calls[s] =< 2 * attempt[s] + try[s] - 3
         /\ calls[s] >= attempt[s] + try[s] - 2
         /\ replies[s] \cap Parsed = {}
    /\ stage[s] \in {"validate", "learning"} =>
         \/ output[s] \in Parsed /\ replies[s] \cap Parsed = {output[s]}
         \/ output[s] = "raw" /\ calls[s] >= 2 /\ replies[s] \cap Parsed = {}
    /\ stage[s] = "learning" => Said(s)

\* Nothing of an analysis is stored before it learns.
Unlearned ==
    \A e \in stored : stage[e.by] \in {"learning", "answered", "dead"}

AnalysisInv ==
    /\ LearnInv /\ AnalysisTypeOK
    /\ \A s \in Sessions : Talk(s)
    /\ Unlearned /\ LearnedIsParsed /\ CallsSpent
=============================================================================

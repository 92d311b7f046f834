---------------------------- MODULE AnalysisProofs ----------------------------
(* Every analysis, however its model, its retrieval and its instance fail,  *)
(* does to the memory what FaultLearning describes: the theorems about that *)
(* module hold of it, for every set of replies and retrievals.              *)
EXTENDS FaultAnalysis, LearningProofs

LEMMA StepImplements ==
    ASSUME [AnalysisNext]_analysisVars
    PROVE  [LearnNext]_learnVars
<1>1. ASSUME NEW s \in Sessions, RefuseAnalysis(s) PROVE UNCHANGED learnVars
  BY <1>1 DEF RefuseAnalysis
<1>2. ASSUME NEW s \in Sessions, NEW f \in Fault, Begin(s, f) PROVE Meet(s, f)
  BY <1>2 DEF Begin
<1>3. ASSUME NEW s \in Sessions, Remember(s) PROVE LearnStep(s)
  BY <1>3 DEF Remember
<1>4. ASSUME NEW s \in Sessions, Retrieve(s) PROVE UNCHANGED learnVars
  BY <1>4 DEF Retrieve
<1>5. ASSUME NEW s \in Sessions, Invoke(s) PROVE UNCHANGED learnVars \/ Forget(s)
  BY <1>5 DEF Invoke
<1>6. ASSUME NEW s \in Sessions, Conclude(s) PROVE Learn(s) \/ Forget(s)
  BY <1>6 DEF Conclude
<1>7. ASSUME NEW s \in Sessions, Respond(s) PROVE UNCHANGED learnVars
  BY <1>7 DEF Respond
<1>8. ASSUME NEW s \in Sessions, KillAnalysis(s) PROVE KillSession(s)
  BY <1>8 DEF KillAnalysis
<1>9. CASE UNCHANGED analysisVars
  BY <1>9 DEF analysisVars
<1> QED
  BY <1>1, <1>2, <1>3, <1>4, <1>5, <1>6, <1>7, <1>8, <1>9
     DEF AnalysisNext, AnalysisStep, LearnNext

\* The analysis of analyze_fault implements the life of the shared memory.
THEOREM AnalysisImplementsLearning == AnalysisSpec => LearnSpec
<1>1. AnalysisInit => LearnInit
  BY DEF AnalysisInit
<1>2. [AnalysisNext]_analysisVars => [LearnNext]_learnVars
  BY StepImplements
<1> QED BY <1>1, <1>2, PTL DEF AnalysisSpec, LearnSpec

----------------------------------------------------------------------------
(* What an analysis asks and learns                                         *)

LEMMA AnalysisInitial == AnalysisInit => AnalysisInv
<1> SUFFICES ASSUME AnalysisInit PROVE AnalysisInv
  OBVIOUS
<1>1. LearnInit /\ LearnInv
  BY LearnTypeInit, KeptInit, CountsInit, DocumentsAddInit, OneEachInit
     DEF LearnInv, AnalysisInit
<1>2. AnalysisTypeOK
  BY <1>1 DEF AnalysisInit, LearnInit, LearnInv, AnalysisTypeOK, Stages, Answers,
     Retrieval
<1>3. \A s \in Sessions : Talk(s)
  BY DEF AnalysisInit, Talk, Said
<1>4. stored = {}
  BY <1>1 DEF LearnInit
<1>5. CallsSpent
  BY DEF AnalysisInit, CallsSpent
<1> QED
  BY <1>1, <1>2, <1>3, <1>4, <1>5 DEF AnalysisInv, Unlearned, LearnedIsParsed, Said

\* A step of one analysis leaves the talk of the others alone.
LEMMA OthersTalk ==
    ASSUME NEW s \in Sessions,
           \A t \in Sessions \ {s} : Talk(t),
           \A t \in Sessions \ {s} :
              /\ stage'[t] = stage[t] /\ attempt'[t] = attempt[t]
              /\ try'[t] = try[t] /\ output'[t] = output[t]
              /\ calls'[t] = calls[t] /\ replies'[t] = replies[t]
              /\ intent'[t] = intent[t],
           Talk(s)'
    PROVE  \A t \in Sessions : Talk(t)'
  BY DEF Talk, Said

LEMMA LearnStepFrame ==
    ASSUME LearnTypeOK, NEW s \in Sessions, LearnStep(s)
    PROVE  /\ \A t \in Sessions \ {s} : step'[t] = step[t]
           /\ step[s] \in {"read", "write", "recall"} =>
                /\ step'[s] \in {"read", "write", "recall", "thinking"}
                /\ stored' = stored
           /\ step[s] \in {"store", "list", "prune"} =>
                step'[s] \in {"store", "list", "prune", "done"}
           /\ step[s] \in {"read", "write", "recall", "store", "list", "prune"}
           /\ \A e \in stored' : e \in stored \/ (e.by = s /\ step[s] = "store")
<1>1. CASE ReadHistory(s) \/ WriteHistory(s) \/ Recall(s)
  BY <1>1 DEF ReadHistory, WriteHistory, Recall, Move, LearnTypeOK
<1>2. CASE StoreExperience(s)
  <2>1. /\ step[s] = "store" /\ step'[s] \in {"list", "done"}
        /\ \A t \in Sessions \ {s} : step'[t] = step[t]
    BY <1>2 DEF StoreExperience, Move, LearnTypeOK
  <2>2. \A e \in stored' : e \in stored \/ e.by = s
    BY <1>2 DEF StoreExperience, Applied
  <2> QED BY <2>1, <2>2
<1>3. CASE ListExperiences(s)
  <2>1. \/ Move(s, "done") \/ Move(s, "prune")
    BY <1>3 DEF ListExperiences
  <2> QED BY <1>3, <2>1 DEF ListExperiences, Move, LearnTypeOK
<1>4. CASE Prune(s)
  BY <1>4 DEF Prune, Move, LearnTypeOK
<1> QED BY <1>1, <1>2, <1>3, <1>4 DEF LearnStep

LEMMA AnalysisStepKeeps ==
    ASSUME AnalysisInv, LearnInv', [AnalysisNext]_analysisVars
    PROVE  AnalysisInv'
<1> DEFINE Rest == /\ AnalysisTypeOK' /\ (\A t \in Sessions : Talk(t)')
                  /\ Unlearned' /\ LearnedIsParsed' /\ CallsSpent'
<1> USE DEF AnalysisInv
<1>0. LearnTypeOK /\ LearnTypeOK'
  BY DEF LearnInv
<1>1. ASSUME NEW s \in Sessions, RefuseAnalysis(s) PROVE Rest
  <2>1. /\ stage' = [stage EXCEPT ![s] = "answered"] /\ stage[s] = "idle"
        /\ answer' = [answer EXCEPT ![s] = "refused"]
        /\ UNCHANGED <<learnVars, intent, talkVars>>
    BY <1>1 DEF RefuseAnalysis, Answer, Enter
  <2>2. AnalysisTypeOK'
    BY <1>0, <2>1 DEF AnalysisTypeOK, Stages, Answers, learnVars, talkVars
  <2>3. \A t \in Sessions : Talk(t)'
    BY <2>1 DEF Talk, Said, talkVars, AnalysisTypeOK
  <2>4. Unlearned' /\ LearnedIsParsed'
    BY <1>0, <2>1 DEF Unlearned, LearnedIsParsed, Said, learnVars, talkVars, AnalysisTypeOK,
       LearnTypeOK, Experience
  <2>5. CallsSpent'
    BY ZenonT(60), <2>1 DEF CallsSpent, Talk, Said, talkVars, AnalysisTypeOK
  <2> QED BY <2>2, <2>3, <2>4, <2>5
<1>2. ASSUME NEW s \in Sessions, NEW f \in Fault, Begin(s, f) PROVE Rest
  <2>1. /\ stage' = [stage EXCEPT ![s] = "memory"] /\ stage[s] = "idle"
        /\ step' = [step EXCEPT ![s] = "read"] /\ stored' = stored
        /\ \E i \in {"fault", "question"} : intent' = [intent EXCEPT ![s] = i]
        /\ UNCHANGED <<talkVars, answer>>
    BY <1>2 DEF Begin, Meet, Move, Enter
  <2>2. AnalysisTypeOK'
    BY <1>0, <2>1 DEF AnalysisTypeOK, LearnTypeOK, Stages, talkVars
  <2>3. \A t \in Sessions : Talk(t)'
    BY <2>1 DEF Talk, Said, talkVars, AnalysisTypeOK
  <2>4. Unlearned' /\ LearnedIsParsed'
    BY <1>0, <2>1 DEF Unlearned, LearnedIsParsed, Said, talkVars, AnalysisTypeOK,
       LearnTypeOK, Experience
  <2>5. CallsSpent'
    BY <2>1 DEF CallsSpent, talkVars
  <2> QED BY <2>2, <2>3, <2>4, <2>5
<1>3. ASSUME NEW s \in Sessions, Remember(s) PROVE Rest
  <2>1. /\ stage[s] \in {"memory", "learning"} /\ LearnStep(s)
        /\ UNCHANGED <<stage, intent, talkVars, answer>>
    BY <1>3 DEF Remember
  <2>2. AnalysisTypeOK'
    BY <1>0, <2>1, LearnStepFrame DEF AnalysisTypeOK, talkVars
  <2>3. \A t \in Sessions : Talk(t)'
    BY <2>1 DEF Talk, Said, talkVars
  <2>4. \A e \in stored' : e \in stored \/ (e.by = s /\ stage[s] = "learning")
    BY <1>0, <2>1, LearnStepFrame DEF AnalysisTypeOK
  <2>5. stage[s] = "learning" => Said(s) /\ output[s] \in replies[s]
    BY DEF Talk, Said, Parsed
  <2>6. Unlearned' /\ LearnedIsParsed'
    BY <2>1, <2>4, <2>5 DEF Unlearned, LearnedIsParsed, Said, talkVars
  <2>7. CallsSpent'
    BY <2>1 DEF CallsSpent, talkVars
  <2> QED BY <2>2, <2>3, <2>6, <2>7
<1>4. ASSUME NEW s \in Sessions, Retrieve(s) PROVE Rest
  <2>1. /\ stage[s] = "memory" /\ step[s] = "thinking"
        /\ stage' = [stage EXCEPT ![s] = "model"]
        /\ \E r \in Retrievals : documents' = [documents EXCEPT ![s] = r]
        /\ UNCHANGED <<learnVars, intent, attempt, try, output, answer, calls,
                       replies>>
    BY <1>4 DEF Retrieve, Enter
  <2>2. AnalysisTypeOK'
    BY <1>0, <2>1, RetrievalsAssumption DEF AnalysisTypeOK, Stages, learnVars
  <2>3. \A t \in Sessions : Talk(t)'
    BY <2>1 DEF Talk, Said, AnalysisTypeOK
  <2>4. Unlearned' /\ LearnedIsParsed'
    BY <1>0, <2>1 DEF Unlearned, LearnedIsParsed, Said, learnVars, AnalysisTypeOK,
       LearnTypeOK, Experience
  <2>5. CallsSpent'
    BY <2>1 DEF CallsSpent
  <2> QED BY <2>2, <2>3, <2>4, <2>5
<1>5. ASSUME NEW s \in Sessions, Invoke(s) PROVE Rest
  <2>1. PICK r \in Replies :
          /\ replies' = [replies EXCEPT ![s] = @ \cup {r}]
          /\ calls' = [calls EXCEPT ![s] = @ + 1]
          /\ \/ /\ Usable(r)
                /\ output' = [output EXCEPT ![s] = r]
                /\ Enter(s, "validate")
                /\ UNCHANGED <<learnVars, attempt, try, answer>>
             \/ /\ TriesAgain(s, r)
                /\ try' = [try EXCEPT ![s] = 2]
                /\ UNCHANGED <<learnVars, stage, attempt, output, answer>>
             \/ /\ ~Usable(r) /\ ~TriesAgain(s, r) /\ r = "connection"
                /\ Forget(s)
                /\ Answer(s, "unavailable")
                /\ UNCHANGED <<attempt, try, output>>
             \/ /\ ~Usable(r) /\ ~TriesAgain(s, r) /\ r # "connection"
                /\ attempt[s] = 1
                /\ attempt' = [attempt EXCEPT ![s] = 2]
                /\ try' = [try EXCEPT ![s] = 1]
                /\ UNCHANGED <<learnVars, stage, output, answer>>
             \/ /\ ~Usable(r) /\ ~TriesAgain(s, r) /\ r # "connection"
                /\ attempt[s] = 2
                /\ output' = [output EXCEPT ![s] = "raw"]
                /\ Enter(s, "validate")
                /\ UNCHANGED <<learnVars, attempt, try, answer>>
    BY <1>5 DEF Invoke
  <2>2. stage[s] = "model" /\ step[s] = "thinking" /\ UNCHANGED <<intent, documents>>
    BY <1>5 DEF Invoke, AnalysisTypeOK
  <2> DEFINE Frame ==
        /\ stored' = stored
        /\ \A t \in Sessions \ {s} :
            /\ stage'[t] = stage[t] /\ attempt'[t] = attempt[t]
            /\ try'[t] = try[t] /\ output'[t] = output[t]
            /\ calls'[t] = calls[t] /\ replies'[t] = replies[t]
            /\ answer'[t] = answer[t] /\ intent'[t] = intent[t]
        /\ calls'[s] = calls[s] + 1 /\ replies'[s] = replies[s] \cup {r}
  <2>3. ASSUME AnalysisTypeOK', Frame, Talk(s)', answer'[s] = "none" \/
               (/\ answer'[s] = "unavailable" /\ r = "connection"
                /\ replies'[s] \cap Parsed = {} /\ calls'[s] =< 4)
        PROVE  Rest
    <3>1. \A t \in Sessions : Talk(t)'
      BY <2>3, OthersTalk
    <3>2. \A e \in stored : e.by \in Sessions \ {s}
      BY <1>0, <2>2 DEF Unlearned, LearnTypeOK, Experience
    <3>3. Unlearned' /\ LearnedIsParsed'
      BY <2>3, <3>2 DEF Unlearned, LearnedIsParsed, Said
    <3>4. CallsSpent'
      <4>1. ASSUME NEW t \in Sessions, t # s
            PROVE  /\ calls'[t] = calls[t] /\ replies'[t] = replies[t]
                   /\ answer'[t] = answer[t] /\ output'[t] = output[t]
        BY <2>3, <4>1
      <4>2. calls'[s] =< 4
        BY <2>3 DEF Talk, Said
      <4>3. "connection" \in replies'[s] \/ r # "connection"
        BY <2>3
      <4> QED BY ZenonT(60), <2>3, <4>1, <4>2, <4>3 DEF CallsSpent
    <3> QED BY <2>3, <3>1, <3>3, <3>4
  <2>4. /\ calls' \in [Sessions -> Nat] /\ replies' \in [Sessions -> SUBSET Replies]
        /\ calls'[s] = calls[s] + 1 /\ replies'[s] = replies[s] \cup {r}
        /\ \A t \in Sessions \ {s} : calls'[t] = calls[t] /\ replies'[t] = replies[t]
    BY <2>1 DEF AnalysisTypeOK
  <2>5. /\ calls[s] \in Nat /\ attempt[s] \in 1..2 /\ try[s] \in 1..2
        /\ calls[s] =< 2 * attempt[s] + try[s] - 3
        /\ calls[s] >= attempt[s] + try[s] - 2
        /\ replies[s] \cap Parsed = {} /\ answer[s] = "none"
    BY <2>2 DEF Talk, Said, AnalysisTypeOK
  <2>6. CASE Usable(r) /\ output' = [output EXCEPT ![s] = r]
             /\ Enter(s, "validate") /\ UNCHANGED <<learnVars, attempt, try, answer>>
    <3>1. AnalysisTypeOK'
      BY <1>0, <2>2, <2>4, <2>6
         DEF AnalysisTypeOK, Enter, Stages, learnVars, Usable
    <3>2. /\ stage'[s] = "validate" /\ output'[s] = r /\ r \in Parsed
          /\ replies'[s] \cap Parsed = {r} /\ calls'[s] =< 4
      BY <2>4, <2>5, <2>6 DEF Enter, Usable, AnalysisTypeOK
    <3>3. Talk(s)'
      BY <3>2 DEF Talk, Said
    <3> QED
      BY <2>2, <2>3, <2>4, <2>5, <2>6, <3>1, <3>3 DEF Enter, AnalysisTypeOK, learnVars
  <2>7. CASE TriesAgain(s, r) /\ try' = [try EXCEPT ![s] = 2]
             /\ UNCHANGED <<learnVars, stage, attempt, output, answer>>
    <3>1. AnalysisTypeOK'
      BY <1>0, <2>2, <2>4, <2>7 DEF AnalysisTypeOK, learnVars
    <3>2. /\ stage'[s] = "model" /\ r \in Failures /\ try[s] = 1 /\ try'[s] = 2
          /\ attempt'[s] = attempt[s]
      BY <2>2, <2>7 DEF TriesAgain, AnalysisTypeOK
    <3>3. replies'[s] \cap Parsed = {}
      BY <2>4, <2>5, <3>2 DEF Failures, Parsed
    <3>4. Talk(s)'
      BY <2>4, <2>5, <3>2, <3>3 DEF Talk, Said
    <3> QED BY <2>2, <2>3, <2>4, <2>5, <2>7, <3>1, <3>4 DEF AnalysisTypeOK, learnVars
  <2>8. CASE ~Usable(r) /\ ~TriesAgain(s, r) /\ r = "connection" /\ Forget(s)
             /\ Answer(s, "unavailable") /\ UNCHANGED <<attempt, try, output>>
    <3>1. /\ stage' = [stage EXCEPT ![s] = "answered"]
          /\ answer' = [answer EXCEPT ![s] = "unavailable"]
          /\ step' = [step EXCEPT ![s] = "done"] /\ stored' = stored
      BY <2>8 DEF Answer, Enter, Forget, Move
    <3>2. AnalysisTypeOK'
      <4>1. LearnTypeOK'
        BY <1>0
      <4>2. /\ stage' \in [Sessions -> Stages] /\ answer' \in [Sessions -> Answers]
            /\ stage'[s] = "answered" /\ answer'[s] = "unavailable"
            /\ step'[s] = "done"
            /\ \A t \in Sessions \ {s} : /\ stage'[t] = stage[t]
                                        /\ answer'[t] = answer[t]
                                        /\ step'[t] = step[t]
        <5>1. /\ stage' \in [Sessions -> Stages] /\ stage'[s] = "answered"
              /\ \A t \in Sessions \ {s} : stage'[t] = stage[t]
          BY <3>1 DEF AnalysisTypeOK, Stages
        <5>2. /\ answer' \in [Sessions -> Answers] /\ answer'[s] = "unavailable"
              /\ \A t \in Sessions \ {s} : answer'[t] = answer[t]
          BY <3>1 DEF AnalysisTypeOK, Answers
        <5>3. /\ step'[s] = "done"
              /\ \A t \in Sessions \ {s} : step'[t] = step[t]
          BY <1>0, <3>1 DEF LearnTypeOK
        <5> QED BY <5>1, <5>2, <5>3
      <4>3. UNCHANGED <<intent, documents, attempt, try, output>>
        BY <2>2, <2>8
      <4>4. \A t \in Sessions :
              /\ stage'[t] = "idle" => step'[t] = "idle"
              /\ stage'[t] = "memory" =>
                   step'[t] \in {"read", "write", "recall", "thinking"}
              /\ stage'[t] \in {"model", "validate"} => step'[t] = "thinking"
              /\ stage'[t] = "learning" =>
                   step'[t] \in {"store", "list", "prune", "done"}
              /\ stage'[t] \in {"answered", "dead"} =>
                   step'[t] \in {"idle", "done"}
              /\ (answer'[t] # "none") <=> (stage'[t] = "answered")
        BY <4>2 DEF AnalysisTypeOK
      <4> QED BY <2>4, <4>1, <4>2, <4>3, <4>4 DEF AnalysisTypeOK
    <3>3. replies'[s] \cap Parsed = {} /\ calls'[s] =< 4
      BY <2>4, <2>5, <2>8 DEF Parsed
    <3>4. Talk(s)' /\ answer'[s] = "unavailable"
      BY <3>1, <3>3 DEF Talk, Said, AnalysisTypeOK
    <3> QED BY <2>2, <2>3, <2>4, <2>8, <3>1, <3>2, <3>3, <3>4 DEF AnalysisTypeOK
  <2>9. CASE ~Usable(r) /\ attempt[s] = 1
             /\ attempt' = [attempt EXCEPT ![s] = 2] /\ try' = [try EXCEPT ![s] = 1]
             /\ UNCHANGED <<learnVars, stage, output, answer>>
    <3>1. AnalysisTypeOK'
      BY <1>0, <2>2, <2>4, <2>9 DEF AnalysisTypeOK, learnVars
    <3>2. /\ stage'[s] = "model" /\ attempt'[s] = 2 /\ try'[s] = 1
          /\ replies'[s] \cap Parsed = {}
      BY <2>2, <2>4, <2>5, <2>9 DEF Usable, AnalysisTypeOK
    <3>3. Talk(s)'
      BY <2>4, <2>5, <2>9, <3>2 DEF Talk, Said
    <3> QED BY <2>2, <2>3, <2>4, <2>5, <2>9, <3>1, <3>3 DEF AnalysisTypeOK, learnVars
  <2>10. CASE ~Usable(r) /\ attempt[s] = 2 /\ output' = [output EXCEPT ![s] = "raw"]
              /\ Enter(s, "validate") /\ UNCHANGED <<learnVars, attempt, try, answer>>
    <3>1. AnalysisTypeOK'
      BY <1>0, <2>2, <2>4, <2>10 DEF AnalysisTypeOK, Enter, Stages, learnVars
    <3>2. /\ stage'[s] = "validate" /\ output'[s] = "raw"
          /\ replies'[s] \cap Parsed = {}
      BY <2>4, <2>5, <2>10 DEF Enter, Usable, AnalysisTypeOK
    <3>3. calls'[s] =< 4 /\ calls'[s] >= 2
      BY <2>4, <2>5, <2>10
    <3>4. Talk(s)'
      BY <3>2, <3>3 DEF Talk, Said
    <3> QED
      BY <2>2, <2>3, <2>4, <2>5, <2>10, <3>1, <3>4 DEF Enter, AnalysisTypeOK, learnVars
  <2> QED BY <2>1, <2>6, <2>7, <2>8, <2>9, <2>10
<1>6. ASSUME NEW s \in Sessions, Conclude(s) PROVE Rest
  <2>1. stage[s] = "validate" /\ step[s] = "thinking" /\ answer[s] = "none"
    BY <1>6 DEF Conclude, AnalysisTypeOK
  <2>2. /\ calls[s] =< 4
        /\ \/ output[s] \in Parsed /\ replies[s] \cap Parsed = {output[s]}
           \/ output[s] = "raw" /\ calls[s] >= 2 /\ replies[s] \cap Parsed = {}
    BY <2>1 DEF Talk, Said
  <2>3. UNCHANGED <<intent, talkVars>>
    BY <1>6 DEF Conclude
  <2>4. CASE Storable(s) /\ Learn(s) /\ Enter(s, "learning") /\ UNCHANGED answer
    <3>1. /\ Said(s) /\ answer' = answer /\ stored' = stored
          /\ stage' = [stage EXCEPT ![s] = "learning"]
          /\ step' = [step EXCEPT ![s] = "store"]
      BY <2>2, <2>4 DEF Said, Storable, Summary, Parsed, Learn, Move, Enter
    <3>2. AnalysisTypeOK'
      BY <1>0, <2>1, <2>3, <3>1 DEF AnalysisTypeOK, LearnTypeOK, Stages, talkVars
    <3>3. Talk(s)'
      BY <2>1, <2>2, <2>3, <3>1 DEF Talk, Said, talkVars, AnalysisTypeOK
    <3>4. \A t \in Sessions : Talk(t)'
      BY <2>3, <3>1, <3>3, OthersTalk DEF talkVars, AnalysisTypeOK
    <3>5. Unlearned' /\ LearnedIsParsed'
      BY <1>0, <2>1, <2>3, <3>1 DEF Unlearned, LearnedIsParsed, Said, talkVars,
         AnalysisTypeOK, LearnTypeOK, Experience
    <3>6. CallsSpent'
      BY <2>3, <3>1 DEF CallsSpent, talkVars
    <3> QED BY <3>2, <3>4, <3>5, <3>6
  <2>5. CASE /\ ~Storable(s) /\ Forget(s)
             /\ Answer(s, IF output[s] = "raw" THEN "raw text" ELSE "analysis")
    <3> DEFINE out == IF output[s] = "raw" THEN "raw text" ELSE "analysis"
    <3>1. /\ answer' = [answer EXCEPT ![s] = out] /\ stored' = stored
          /\ stage' = [stage EXCEPT ![s] = "answered"]
          /\ step' = [step EXCEPT ![s] = "done"]
      BY <2>5 DEF Forget, Move, Enter, Answer
    <3>2. out \in {"raw text", "analysis"}
      OBVIOUS
    <3>3. AnalysisTypeOK'
      <4> HIDE DEF out
      <4> QED
        BY ZenonT(60), <1>0, <2>1, <2>3, <3>1, <3>2
           DEF AnalysisTypeOK, LearnTypeOK, Stages, Answers, talkVars
    <3>4. Talk(s)'
      BY <2>1, <2>2, <2>3, <3>1 DEF Talk, Said, talkVars, AnalysisTypeOK
    <3>5. \A t \in Sessions : Talk(t)'
      BY <2>3, <3>1, <3>4, OthersTalk DEF talkVars, AnalysisTypeOK
    <3>6. Unlearned' /\ LearnedIsParsed'
      <4>1. \A e \in stored : stage'[e.by] = stage[e.by] \/ stage'[e.by] = "answered"
        BY <1>0, <3>1 DEF AnalysisTypeOK, LearnTypeOK, Experience
      <4> QED BY <2>3, <3>1, <4>1 DEF Unlearned, LearnedIsParsed, Said, talkVars
    <3>7. CallsSpent'
      <4>1. /\ answer'[s] = out
            /\ \A t \in Sessions \ {s} : answer'[t] = answer[t]
        BY <3>1 DEF AnalysisTypeOK
      <4>2. UNCHANGED <<calls, replies, output>>
        BY <2>3 DEF talkVars
      <4>3. /\ out = "raw text" => calls[s] >= 2 /\ replies[s] \cap Parsed = {}
            /\ out = "analysis" => replies[s] \cap Parsed = {output[s]}
        BY <2>2 DEF Parsed
      <4> QED BY <2>2, <3>2, <4>1, <4>2, <4>3 DEF CallsSpent
    <3> QED BY <3>3, <3>5, <3>6, <3>7
  <2> QED BY <1>6, <2>4, <2>5 DEF Conclude
<1>7. ASSUME NEW s \in Sessions, Respond(s) PROVE Rest
  <2>1. /\ stage[s] = "learning" /\ step[s] = "done"
        /\ stage' = [stage EXCEPT ![s] = "answered"]
        /\ answer' = [answer EXCEPT ![s] = "analysis"]
        /\ UNCHANGED <<learnVars, intent, talkVars>>
    BY <1>7 DEF Respond, Answer, Enter
  <2>2. AnalysisTypeOK'
    BY <1>0, <2>1 DEF AnalysisTypeOK, Stages, Answers, learnVars, talkVars
  <2>3. calls[s] =< 4 /\ replies[s] \cap Parsed = {output[s]}
    BY <2>1 DEF Talk, Said, Parsed
  <2>4. \A t \in Sessions : Talk(t)'
    <3>1. Talk(s)'
      BY <2>1, <2>3 DEF Talk, Said, talkVars, AnalysisTypeOK
    <3> QED BY <2>1, <3>1, OthersTalk DEF talkVars, AnalysisTypeOK
  <2>5. Unlearned' /\ LearnedIsParsed'
    BY <1>0, <2>1 DEF Unlearned, LearnedIsParsed, Said, learnVars, talkVars, AnalysisTypeOK,
       LearnTypeOK, Experience
  <2>6. CallsSpent'
    BY <2>1, <2>3 DEF CallsSpent, talkVars, AnalysisTypeOK
  <2> QED BY <2>2, <2>4, <2>5, <2>6
<1>8. ASSUME NEW s \in Sessions, KillAnalysis(s) PROVE Rest
  <2>1. /\ stage[s] \notin {"idle", "answered", "dead"}
        /\ stage' = [stage EXCEPT ![s] = "dead"]
        /\ step' = [step EXCEPT ![s] = "done"] /\ stored' = stored
        /\ UNCHANGED <<intent, talkVars, answer>>
    BY <1>8 DEF KillAnalysis, KillSession, Move, Enter
  <2>2. AnalysisTypeOK'
    BY <1>0, <2>1 DEF AnalysisTypeOK, LearnTypeOK, Stages, talkVars
  <2>3. \A t \in Sessions : Talk(t)'
    <3>1. Talk(s)'
      BY <2>1 DEF Talk, Said, talkVars, AnalysisTypeOK
    <3> QED BY <2>1, <3>1, OthersTalk DEF talkVars, AnalysisTypeOK
  <2>4. Unlearned' /\ LearnedIsParsed'
    BY <1>0, <2>1 DEF Unlearned, LearnedIsParsed, Said, talkVars, AnalysisTypeOK,
       LearnTypeOK, Experience
  <2>5. CallsSpent'
    BY <2>1 DEF CallsSpent, talkVars
  <2> QED BY <2>2, <2>3, <2>4, <2>5
<1>9. CASE UNCHANGED analysisVars
  <2>1. AnalysisTypeOK' /\ \A t \in Sessions : Talk(t)'
    BY <1>0, <1>9 DEF analysisVars, learnVars, talkVars, AnalysisTypeOK, Talk, Said
  <2>2. Unlearned' /\ LearnedIsParsed' /\ CallsSpent'
    BY <1>9 DEF analysisVars, learnVars, talkVars, Unlearned, LearnedIsParsed, Said,
       CallsSpent
  <2> QED BY <2>1, <2>2
<1>10. Rest
  BY <1>1, <1>2, <1>3, <1>4, <1>5, <1>6, <1>7, <1>8, <1>9
     DEF AnalysisNext, AnalysisStep
<1> QED BY <1>10

\* The inductive invariant holds in every reachable state.
THEOREM AnalysisInvariance == AnalysisSpec => []AnalysisInv
<1>1. AnalysisInv /\ [AnalysisNext]_analysisVars => AnalysisInv'
  <2> SUFFICES ASSUME AnalysisInv, [AnalysisNext]_analysisVars PROVE AnalysisInv'
    OBVIOUS
  <2>1. LearnInv'
    BY StepImplements, LearnStepKeeps DEF AnalysisInv
  <2> QED BY <2>1, AnalysisStepKeeps
<1> QED BY <1>1, AnalysisInitial, PTL DEF AnalysisSpec

\* Type correctness, and that an analysis stands in the memory where its stage
\* of analyze_fault says.
THEOREM AnalysisTypeCorrect == AnalysisSpec => []AnalysisTypeOK
<1>1. AnalysisInv => AnalysisTypeOK
  BY DEF AnalysisInv
<1> QED BY <1>1, AnalysisInvariance, PTL

\* Step 10 of analyze_fault never stores what could not be parsed.
THEOREM LearnedWasParsed == AnalysisSpec => []LearnedIsParsed
<1>1. AnalysisInv => LearnedIsParsed
  BY DEF AnalysisInv
<1> QED BY <1>1, AnalysisInvariance, PTL

\* The retries of gateway and orchestrator multiply to four calls, and the
\* answer goes by what those calls have brought.
THEOREM CallsAreSpent == AnalysisSpec => []CallsSpent
<1>1. AnalysisInv => CallsSpent
  BY DEF AnalysisInv
<1> QED BY <1>1, AnalysisInvariance, PTL

\* What FaultLearning promises of the best explanations holds of whole analyses.
THEOREM AnalysesKeepTheBest == AnalysisSpec => []TopKept
<1> QED BY AnalysisImplementsLearning, BestAreKept, PTL

\* So does what it promises of the history and of the pruning.
THEOREM AnalysesCountAndPrune ==
    AnalysisSpec => [](HistoryCounts /\ HistoryAdds /\ PrunedAtRest)
<1> QED
  BY AnalysisImplementsLearning, HistoryIsBounded, HistoryAddsUp, PruningSuffices, PTL

----------------------------------------------------------------------------
(* An analysis ends: what AnalysisEnds and a fair schedule rest on          *)

\* Steps that are left to an analysis, by where it stands in the memory,
Behind(label) ==
    CASE label = "read"     -> 13
      [] label = "write"    -> 12
      [] label = "recall"   -> 11
      [] label = "thinking" -> 10
      [] label = "store"    -> 4
      [] label = "list"     -> 3
      [] label = "prune"    -> 2
      [] OTHER              -> 1

\* or at the model, where each attempt has two tries.
StepsLeft(s) ==
    CASE stage[s] \in {"memory", "learning"} -> Behind(step[s])
      [] stage[s] = "model"                  -> 12 - 2 * attempt[s] - try[s]
      [] stage[s] = "validate"               -> 5
      [] OTHER                               -> 0

LEMMA StepsLeftType ==
    ASSUME AnalysisTypeOK, NEW s \in Sessions
    PROVE  StepsLeft(s) \in 0..13 /\ (stage[s] = "model" => StepsLeft(s) \in 6..9)
<1>1. attempt[s] \in 1..2 /\ try[s] \in 1..2
  BY DEF AnalysisTypeOK
<1>2. Behind(step[s]) \in 0..13
  BY DEF Behind
<1> QED BY <1>1, <1>2 DEF StepsLeft

LEMMA StepGoesOn ==
    ASSUME AnalysisTypeOK, AnalysisTypeOK', NEW s \in Sessions, AnalysisStep(s)
    PROVE  StepsLeft(s)' < StepsLeft(s)
<1>0. /\ stage \in [Sessions -> Stages] /\ step \in [Sessions -> Steps]
      /\ attempt \in [Sessions -> 1..2] /\ try \in [Sessions -> 1..2]
  BY DEF AnalysisTypeOK, LearnTypeOK
<1>1. CASE Remember(s)
  <2>1. stage[s] \in {"memory", "learning"} /\ stage' = stage
    BY <1>1 DEF Remember
  <2>2. Behind(step'[s]) < Behind(step[s])
    <3>1. CASE ReadHistory(s)
      <4>1. step[s] = "read" /\ step'[s] \in {"write", "thinking"}
        BY <1>0, <3>1 DEF ReadHistory, Move
      <4> QED BY <4>1 DEF Behind
    <3>2. CASE WriteHistory(s)
      <4>1. step[s] = "write" /\ step'[s] \in {"recall", "thinking"}
        BY <1>0, <3>2 DEF WriteHistory, Move
      <4> QED BY <4>1 DEF Behind
    <3>3. CASE Recall(s)
      <4>1. step[s] = "recall" /\ step'[s] = "thinking"
        BY <1>0, <3>3 DEF Recall, Move
      <4> QED BY <4>1 DEF Behind
    <3>4. CASE StoreExperience(s)
      <4>1. step[s] = "store" /\ step'[s] \in {"list", "done"}
        BY <1>0, <3>4 DEF StoreExperience, Move
      <4> QED BY <4>1 DEF Behind
    <3>5. CASE ListExperiences(s)
      <4>1. step[s] = "list" /\ step'[s] \in {"prune", "done"}
        <5>1. Move(s, "done") \/ Move(s, "prune")
          BY <3>5 DEF ListExperiences
        <5> QED BY <1>0, <3>5, <5>1 DEF ListExperiences, Move
      <4> QED BY <4>1 DEF Behind
    <3>6. CASE Prune(s)
      <4>1. step[s] = "prune" /\ step'[s] = "done"
        BY <1>0, <3>6 DEF Prune, Move
      <4> QED BY <4>1 DEF Behind
    <3> QED BY <1>1, <3>1, <3>2, <3>3, <3>4, <3>5, <3>6 DEF Remember, LearnStep
  <2> QED BY <2>1, <2>2 DEF StepsLeft
<1>2. CASE Retrieve(s)
  <2>1. stage[s] = "memory" /\ step[s] = "thinking" /\ stage'[s] = "model"
    BY <1>0, <1>2 DEF Retrieve, Enter
  <2>2. StepsLeft(s)' \in 6..9
    <3>1. attempt'[s] \in 1..2 /\ try'[s] \in 1..2
      BY DEF AnalysisTypeOK
    <3> QED BY <2>1, <3>1 DEF StepsLeft
  <2>3. StepsLeft(s) = 10
    BY <2>1 DEF StepsLeft, Behind
  <2> QED BY <2>2, <2>3
<1>3. CASE Invoke(s)
  <2>1. stage[s] = "model" /\ StepsLeft(s) = 12 - 2 * attempt[s] - try[s]
    BY <1>3 DEF Invoke, StepsLeft
  <2>2. \/ stage'[s] = "validate"
        \/ stage'[s] = "answered"
        \/ stage'[s] = "model" /\ attempt'[s] = attempt[s] /\ try[s] = 1 /\ try'[s] = 2
        \/ stage'[s] = "model" /\ attempt[s] = 1 /\ attempt'[s] = 2 /\ try'[s] = 1
    BY <1>0, <1>3 DEF Invoke, Enter, Answer, TriesAgain
  <2>3. attempt[s] \in 1..2 /\ try[s] \in 1..2
    BY <1>0
  <2>4. CASE stage'[s] = "model"
    <3>1. StepsLeft(s)' = 12 - 2 * attempt'[s] - try'[s]
      BY <2>4 DEF StepsLeft
    <3> QED BY <2>1, <2>2, <2>3, <2>4, <3>1
  <2>5. CASE stage'[s] # "model"
    <3>1. StepsLeft(s)' =< 5 /\ StepsLeft(s)' \in Nat
      BY <2>2, <2>5 DEF StepsLeft
    <3> QED BY <2>1, <2>3, <3>1
  <2> QED BY <2>4, <2>5
<1>4. CASE Conclude(s)
  <2>1. stage[s] = "validate"
    BY <1>4 DEF Conclude
  <2>2. \/ stage'[s] = "learning" /\ step'[s] = "store"
        \/ stage'[s] = "answered"
    BY <1>0, <1>4 DEF Conclude, Enter, Answer, Learn, Move
  <2> QED BY <2>1, <2>2 DEF StepsLeft, Behind
<1>5. CASE Respond(s)
  <2>1. stage[s] = "learning" /\ stage'[s] = "answered"
    BY <1>0, <1>5 DEF Respond, Enter, Answer
  <2>2. step[s] = "done"
    BY <1>5 DEF Respond
  <2> QED BY <2>1, <2>2 DEF StepsLeft, Behind
<1> QED BY <1>1, <1>2, <1>3, <1>4, <1>5 DEF AnalysisStep

LEMMA OthersStand ==
    ASSUME AnalysisTypeOK, NEW t \in Sessions, NEW s \in Sessions, s # t,
           \/ RefuseAnalysis(t) \/ AnalysisStep(t) \/ KillAnalysis(t)
           \/ \E f \in Fault : Begin(t, f)
    PROVE  /\ stage'[s] = stage[s] /\ step'[s] = step[s]
           /\ attempt'[s] = attempt[s] /\ try'[s] = try[s]
<1>0. /\ stage \in [Sessions -> Stages] /\ step \in [Sessions -> Steps]
      /\ attempt \in [Sessions -> 1..2] /\ try \in [Sessions -> 1..2] /\ LearnTypeOK
  BY DEF AnalysisTypeOK, LearnTypeOK
<1>1. CASE RefuseAnalysis(t)
  BY <1>0, <1>1 DEF RefuseAnalysis, Answer, Enter, learnVars, talkVars
<1>2. CASE Remember(t)
  BY <1>0, <1>2, LearnStepFrame DEF Remember, talkVars
<1>3. CASE Retrieve(t)
  BY <1>0, <1>3 DEF Retrieve, Enter, learnVars
<1>4. CASE Invoke(t)
  BY <1>0, <1>4 DEF Invoke, Enter, Answer, Forget, Move, learnVars
<1>5. CASE Conclude(t)
  BY <1>0, <1>5 DEF Conclude, Enter, Answer, Learn, Forget, Move, talkVars
<1>6. CASE Respond(t)
  BY <1>0, <1>6 DEF Respond, Enter, Answer, learnVars, talkVars
<1>7. CASE KillAnalysis(t)
  BY <1>0, <1>7 DEF KillAnalysis, KillSession, Move, Enter, talkVars
<1>8. CASE \E f \in Fault : Begin(t, f)
  BY <1>0, <1>8 DEF Begin, Meet, Move, Enter, talkVars
<1> QED BY <1>1, <1>2, <1>3, <1>4, <1>5, <1>6, <1>7, <1>8 DEF AnalysisStep

\* No other analysis, no kill and no refusal adds to them.
LEMMA NoneAdds ==
    ASSUME AnalysisTypeOK, AnalysisTypeOK', NEW t \in Sessions, NEW s \in Sessions,
           stage[s] # "idle",
           \/ RefuseAnalysis(t) \/ AnalysisStep(t) \/ KillAnalysis(t)
           \/ \E f \in Fault : Begin(t, f)
    PROVE  StepsLeft(s)' =< StepsLeft(s) /\ stage'[s] # "idle"
<1>1. StepsLeft(s) \in 0..13 /\ StepsLeft(s)' \in 0..13
  <2>1. StepsLeft(s) \in 0..13
    BY StepsLeftType
  <2>2. /\ attempt'[s] \in 1..2 /\ try'[s] \in 1..2
        /\ Behind(step'[s]) \in 0..13
    BY DEF AnalysisTypeOK, Behind
  <2> QED BY <2>1, <2>2 DEF StepsLeft
<1>2. ASSUME s # t PROVE StepsLeft(s)' =< StepsLeft(s)
  <2>1. StepsLeft(s)' = StepsLeft(s)
    BY <1>2, OthersStand DEF StepsLeft
  <2> QED BY <1>1, <2>1
<1>3. ASSUME s = t PROVE StepsLeft(s)' =< StepsLeft(s)
  <2>1. ~RefuseAnalysis(s) /\ \A f \in Fault : ~Begin(s, f)
    BY DEF RefuseAnalysis, Begin
  <2>2. CASE AnalysisStep(s)
    <3>1. StepsLeft(s)' < StepsLeft(s)
      BY <2>2, StepGoesOn
    <3> QED BY <1>1, <3>1
  <2>3. CASE KillAnalysis(s)
    <3>1. stage'[s] = "dead"
      BY <2>3 DEF KillAnalysis, Enter, AnalysisTypeOK
    <3>2. StepsLeft(s)' = 0
      BY <3>1 DEF StepsLeft
    <3> QED BY <1>1, <3>2
  <2> QED BY <1>3, <2>1, <2>2, <2>3
<1>4. stage'[s] # "idle"
  <2>1. stage \in [Sessions -> Stages]
    BY DEF AnalysisTypeOK
  <2>2. CASE s # t
    BY <2>2, OthersStand
  <2>3. CASE s = t
    BY <2>1, <2>3 DEF RefuseAnalysis, AnalysisStep, Remember, Retrieve, Invoke, Conclude,
       Respond, KillAnalysis, Begin, Answer, Enter
  <2> QED BY <2>2, <2>3
<1> QED BY <1>2, <1>3, <1>4

\* Each step of an analysis, a raising call and a retry as well, leaves it fewer,
\* and no step of another one more.
AnalysesGoOn ==
    [][\A s \in Sessions :
        /\ AnalysisStep(s) => StepsLeft(s)' < StepsLeft(s)
        /\ stage[s] # "idle" => StepsLeft(s)' =< StepsLeft(s)]_analysisVars

\* There are thirteen of them at the most, the retries included.
StepsBounded == \A s \in Sessions : StepsLeft(s) \in 0..13

\* No analysis of the orchestrator goes round in circles: it has answered after
\* thirteen steps of its own at the most, whatever its model and its retrieval do
\* and whoever analyses the same machine meanwhile.
THEOREM AnalysesAdvance == AnalysisSpec => []StepsBounded /\ AnalysesGoOn
<1>1. AnalysisTypeOK => StepsBounded
  BY StepsLeftType DEF StepsBounded
<1>2. AnalysisTypeOK /\ AnalysisTypeOK' /\ [AnalysisNext]_analysisVars =>
        [\A s \in Sessions :
            /\ AnalysisStep(s) => StepsLeft(s)' < StepsLeft(s)
            /\ stage[s] # "idle" => StepsLeft(s)' =< StepsLeft(s)]_analysisVars
  BY NoneAdds, StepGoesOn DEF AnalysisNext
<1> QED BY <1>1, <1>2, AnalysisTypeCorrect, PTL DEF AnalysisSpec, AnalysesGoOn

Over(s) == stage[s] \in {"answered", "dead"}
Running(s) == stage[s] # "idle" /\ ~Over(s)

\* What AnalysisFairness is of one thread, without ENABLED: it takes another step
\* for ever, unless its analysis is over or killed for ever or time and again.
ThreadRuns(s) == []<>~Running(s) \/ []<><<AnalysisStep(s)>>_analysisVars

\* An analysis that was begun and has so many steps left at the most.
Near(s, n) == stage[s] # "idle" /\ StepsLeft(s) =< n

\* A thread that runs on leaves an analysis fewer steps, or has answered.
Nearer(s, n, m) == AnalysisSpec /\ ThreadRuns(s) => (Near(s, n) ~> (Near(s, m) \/ Over(s)))

LEMMA OneStepNearer ==
    ASSUME NEW s \in Sessions, NEW n \in 0..13, NEW m \in 0..13, n = m + 1
    PROVE  Nearer(s, n, m)
<1>1. AnalysisTypeOK /\ AnalysisTypeOK' /\ Near(s, n) /\ [AnalysisNext]_analysisVars => Near(s, n)'
  <2> SUFFICES ASSUME AnalysisTypeOK, AnalysisTypeOK', Near(s, n), [AnalysisNext]_analysisVars
               PROVE  Near(s, n)'
    OBVIOUS
  <2>0. StepsLeft(s) \in Int /\ StepsLeft(s)' \in Int
    <3>1. StepsLeft(s) \in 0..13
      BY StepsLeftType
    <3>2. attempt'[s] \in 1..2 /\ try'[s] \in 1..2 /\ Behind(step'[s]) \in 0..13
      BY DEF AnalysisTypeOK, Behind
    <3> QED BY <3>1, <3>2 DEF StepsLeft
  <2>1. CASE AnalysisNext
    BY <2>0, <2>1, NoneAdds DEF AnalysisNext, Near
  <2>2. CASE UNCHANGED analysisVars
    BY <2>2 DEF Near, StepsLeft, analysisVars, talkVars, learnVars
  <2> QED BY <2>1, <2>2
<1>2. AnalysisTypeOK /\ AnalysisTypeOK' /\ Near(s, n) /\ Near(s, n)' /\ <<AnalysisStep(s)>>_analysisVars
        => Near(s, m)'
  <2> SUFFICES ASSUME AnalysisTypeOK, AnalysisTypeOK', Near(s, n), Near(s, n)', AnalysisStep(s)
               PROVE  Near(s, m)'
    OBVIOUS
  <2>1. StepsLeft(s) \in Int /\ StepsLeft(s)' \in Int
    <3>1. StepsLeft(s) \in 0..13
      BY StepsLeftType
    <3>2. attempt'[s] \in 1..2 /\ try'[s] \in 1..2 /\ Behind(step'[s]) \in 0..13
      BY DEF AnalysisTypeOK, Behind
    <3> QED BY <3>1, <3>2 DEF StepsLeft
  <2>2. StepsLeft(s)' < StepsLeft(s)
    BY StepGoesOn
  <2> QED BY <2>1, <2>2 DEF Near
<1>3. Near(s, n) /\ ~Running(s) => Over(s)
  BY DEF Near, Running
<1> QED BY <1>1, <1>2, <1>3, AnalysisTypeCorrect, PTL
   DEF Nearer, AnalysisSpec, ThreadRuns

\* Every analysis that was begun is answered, unless its instance is killed, if its
\* thread runs on: thirteen times a step nearer.
THEOREM AnalysesEnd ==
    AnalysisSpec /\ (\A s \in Sessions : ThreadRuns(s)) => AnalysisEnds
<1> SUFFICES ASSUME NEW s \in Sessions
             PROVE  AnalysisSpec /\ ThreadRuns(s) =>
                      (stage[s] = "memory" ~> stage[s] \in {"answered", "dead"})
  BY DEF AnalysisEnds
<1>1. /\ Nearer(s, 13, 12) /\ Nearer(s, 12, 11) /\ Nearer(s, 11, 10) /\ Nearer(s, 10, 9) /\ Nearer(s, 9, 8)
      /\ Nearer(s, 8, 7) /\ Nearer(s, 7, 6) /\ Nearer(s, 6, 5) /\ Nearer(s, 5, 4) /\ Nearer(s, 4, 3)
      /\ Nearer(s, 3, 2) /\ Nearer(s, 2, 1) /\ Nearer(s, 1, 0)
  BY OneStepNearer
<1>2. AnalysisTypeOK /\ stage[s] = "memory" => Near(s, 13)
  BY StepsLeftType DEF Near
<1>3. AnalysisTypeOK /\ Near(s, 0) => Over(s)
  BY DEF Near, Over, StepsLeft, Behind, AnalysisTypeOK, Stages
<1>4. Over(s) => stage[s] \in {"answered", "dead"}
  BY DEF Over
<1> QED BY <1>1, <1>2, <1>3, <1>4, AnalysisTypeCorrect, PTL DEF Nearer
=============================================================================

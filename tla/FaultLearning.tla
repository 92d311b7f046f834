---------------------------- MODULE FaultLearning ----------------------------
(***************************************************************************)
(* What the analyses of one user's faults leave behind in Firestore, and   *)
(* what later analyses get to read of it: the history of each machine and  *)
(* fault code (FaultMemoryService) and the best explanations of each fault *)
(* code (FaultExperienceIndex).                                            *)
(*                                                                         *)
(* Analyses run in the thread pools of several instances.  Each updates    *)
(* the history by reading a document and writing it back whole, and prunes *)
(* the explanations by listing them and deleting a batch, so every read    *)
(* and every write is a step of its own.  A write may raise, applied       *)
(* ("late") or not ("lost"); a read may raise; an instance may be killed.  *)
(* The analysis swallows what the two services raise, and goes on.         *)
(***************************************************************************)
EXTENDS Naturals, FiniteSets, Functions

CONSTANTS
    Sessions,       \* the analyses; numbers, which stand for the uuid order
    Machines, Codes, Hours,
    NoMachine,      \* the device id of a row whose cell is blank
    Scores,         \* confidences an explanation can have
    NoCode,         \* no co-occurring fault
    MaxExperiences, \* MAX_EXPERIENCES_PER_FAULT
    MaxMishaps      \* bound on calls that raise and analyses that are killed

ASSUME NumbersAssumption == Sessions \subseteq Nat /\ Scores \subseteq Nat
ASSUME NoCodeAssumption == NoCode \notin Codes
ASSUME FaultsAssumption == Machines # {} /\ Codes # {} /\ Hours # {}
\* The hours of a day, the codes of the logs that were ever uploaded.
ASSUME FinitenessAssumption == IsFiniteSet(Hours) /\ IsFiniteSet(Codes)
ASSUME LimitsAssumption == MaxExperiences \in Nat \ {0} /\ MaxMishaps \in Nat

VARIABLES
    history,     \* fault_history: [machine, code] -> counts, Blank if absent
    experiences, \* fault_experiences
    step,        \* where an analysis stands in its calls to the two services
    fault,       \* the fault it analyses
    read,        \* the history document it has read
    prior,       \* the explanations it was given: at most one
    doomed,      \* the explanations its pruning has found to be too many
    \* history of the model
    mishaps,
    wrote,       \* analyses whose history write was applied
    stored,      \* every explanation that was ever stored
    unpruned     \* codes whose pruning a mishap has cut short

learnVars == <<history, experiences, step, fault, read, prior, doomed, mishaps,
               wrote, stored, unpruned>>

----------------------------------------------------------------------------
Fault == [machine : Machines, code : Codes, hour : Hours, co : Codes \cup {NoCode}]
AnyFault == CHOOSE f \in Fault : TRUE
Count == [total : Nat, hours : [Hours -> Nat], co : [Codes -> Nat]]
Experience == [by : Sessions, machine : Machines, code : Codes, score : Scores]
Steps == {"idle", "read", "write", "recall", "thinking", "store", "list",
          "prune", "done"}

\* What record_fault starts from where there is no document.
Blank == [total |-> 0, hours |-> [h \in Hours |-> 0], co |-> [c \in Codes |-> 0]]

Key(s) == <<fault[s].machine, fault[s].code>>

\* Mutant: the histogram is updated under the test for a co-occurring fault.
CountedWithin(doc, f) ==
    [total |-> doc.total + 1,
     hours |-> IF f.co = NoCode THEN doc.hours
                                ELSE [doc.hours EXCEPT ![f.hour] = @ + 1],
     co    |-> [c \in Codes |-> doc.co[c] + IF c = f.co THEN 1 ELSE 0]]

\* The document record_fault makes of the one it has read.
Counted(doc, f) ==
    [total |-> doc.total + 1,
     hours |-> [doc.hours EXCEPT ![f.hour] = @ + 1],
     co    |-> [c \in Codes |-> doc.co[c] + IF c = f.co THEN 1 ELSE 0]]

\* order_by(confidence, DESCENDING); Firestore breaks ties by document name.
Better(e, f) == e.score > f.score \/ (e.score = f.score /\ e.by > f.by)
Above(e, S) == {f \in S : f.code = e.code /\ Better(f, e)}

\* Mutants: an off-by-one in the slice, either way.
OverflowEarly(S, c) ==
    {e \in S : e.code = c /\ Cardinality(Above(e, S)) >= MaxExperiences - 1}
OverflowLate(S, c) ==
    {e \in S : e.code = c /\ Cardinality(Above(e, S)) > MaxExperiences}

\* all_for_fault[MAX_EXPERIENCES_PER_FAULT:]
Overflow(S, c) ==
    {e \in S : e.code = c /\ Cardinality(Above(e, S)) >= MaxExperiences}

\* The query filters by machine only if the fault names one.
OfMachine(S, f) ==
    {e \in S : e.code = f.code /\ f.machine \in {NoMachine, e.machine}}

\* Mutant: the filter on the machine is lost.
BestOfCode(S, f) == {e \in S : e.code = f.code /\ Above(e, S) = {}}

\* get_best_experience: the first of those, if there is one.
Best(S, f) ==
    LET mine == OfMachine(S, f) IN {e \in mine : Above(e, mine) = {}}

LearnTypeOK ==
    /\ history \in [Machines \X Codes -> Count]
    /\ experiences \subseteq Experience
    /\ step \in [Sessions -> Steps]
    /\ fault \in [Sessions -> Fault]
    /\ read \in [Sessions -> Count]
    /\ prior \in [Sessions -> SUBSET Experience]
    /\ \A s \in Sessions : prior[s] = OfMachine(prior[s], fault[s])
    /\ doomed \in [Sessions -> SUBSET Experience]
    /\ mishaps \in 0..MaxMishaps
    /\ wrote \subseteq Sessions
    /\ stored \subseteq Experience
    /\ unpruned \subseteq Codes

LearnInit ==
    /\ history = [k \in Machines \X Codes |-> Blank]
    /\ experiences = {}
    /\ step = [s \in Sessions |-> "idle"]
    /\ fault = [s \in Sessions |-> AnyFault]
    /\ read = [s \in Sessions |-> Blank]
    /\ prior = [s \in Sessions |-> {}]
    /\ doomed = [s \in Sessions |-> {}]
    /\ mishaps = 0
    /\ wrote = {} /\ stored = {} /\ unpruned = {}

----------------------------------------------------------------------------
Move(s, label) == step' = [step EXCEPT ![s] = label]

\* A call of session s raises, or s is killed.
Mishap == mishaps < MaxMishaps /\ mishaps' = mishaps + 1

\* What a write does to its caller: see Ingestion.
WriteOutcomes == {"ok"} \cup (IF mishaps < MaxMishaps THEN {"lost", "late"} ELSE {})
Noted(o) == mishaps' = IF o = "ok" THEN mishaps ELSE mishaps + 1
Applied(o, old, new) == IF o = "lost" THEN old ELSE new

\* An analysis has found its row, and turns to the memory.
Meet(s, f) ==
    /\ step[s] = "idle"
    /\ fault' = [fault EXCEPT ![s] = f]
    /\ Move(s, "read")
    /\ UNCHANGED <<history, experiences, read, prior, doomed, mishaps, wrote,
                   stored, unpruned>>

\* record_fault, get_doc
ReadHistory(s) ==
    /\ step[s] = "read"
    /\ \/ /\ read' = [read EXCEPT ![s] = history[Key(s)]]
          /\ Move(s, "write")
          /\ UNCHANGED mishaps
       \/ Mishap /\ Move(s, "thinking") /\ UNCHANGED read
    /\ UNCHANGED <<history, experiences, fault, prior, doomed, wrote, stored,
                   unpruned>>

\* Mutant: a write that raised is tried again, from the read.
WriteHistoryRetries(s) ==
    /\ step[s] = "write"
    /\ \E o \in WriteOutcomes :
        /\ history' = [history EXCEPT ![Key(s)] =
                         Applied(o, @, Counted(read[s], fault[s]))]
        /\ wrote' = Applied(o, wrote, wrote \cup {s})
        /\ Move(s, IF o = "ok" THEN "recall" ELSE "read")
        /\ Noted(o)
    /\ read' = [read EXCEPT ![s] = Blank]
    /\ UNCHANGED <<experiences, fault, prior, doomed, stored, unpruned>>

\* record_fault, set_doc with merge = False
WriteHistory(s) ==
    /\ step[s] = "write"
    /\ \E o \in WriteOutcomes :
        /\ history' = [history EXCEPT ![Key(s)] =
                         Applied(o, @, Counted(read[s], fault[s]))]
        /\ wrote' = Applied(o, wrote, wrote \cup {s})
        /\ Move(s, IF o = "ok" THEN "recall" ELSE "thinking")
        /\ Noted(o)
    /\ read' = [read EXCEPT ![s] = Blank]
    /\ UNCHANGED <<experiences, fault, prior, doomed, stored, unpruned>>

\* get_pattern_summary, which only reads, then get_best_experience
Recall(s) ==
    /\ step[s] = "recall"
    /\ \/ /\ prior' = [prior EXCEPT ![s] = Best(experiences, fault[s])]
          /\ UNCHANGED mishaps
       \/ Mishap /\ UNCHANGED prior
    /\ Move(s, "thinking")
    /\ UNCHANGED <<history, experiences, fault, read, doomed, wrote, stored,
                   unpruned>>

\* The analysis has an answer to learn from (of confidence c), or it has none.
Learn(s) ==
    /\ step[s] = "thinking"
    /\ Move(s, "store")
    /\ prior' = [prior EXCEPT ![s] = {}]
    /\ UNCHANGED <<history, experiences, fault, read, doomed, mishaps, wrote,
                   stored, unpruned>>

Forget(s) ==
    /\ step[s] = "thinking"
    /\ Move(s, "done")
    /\ prior' = [prior EXCEPT ![s] = {}]
    /\ UNCHANGED <<history, experiences, fault, read, doomed, mishaps, wrote,
                   stored, unpruned>>

\* store_experience, set_doc under a new uuid
StoreExperience(s) ==
    /\ step[s] = "store"
    /\ \E o \in WriteOutcomes, c \in Scores :
        LET e == [by |-> s, machine |-> fault[s].machine, code |-> fault[s].code,
                  score |-> c]
        IN  /\ experiences' = Applied(o, experiences, experiences \cup {e})
            /\ stored' = Applied(o, stored, stored \cup {e})
            /\ unpruned' = IF o = "late" THEN unpruned \cup {fault[s].code}
                                         ELSE unpruned
            /\ Move(s, IF o = "ok" THEN "list" ELSE "done")
            /\ Noted(o)
    /\ UNCHANGED <<history, fault, read, prior, doomed, wrote>>

\* store_experience, the query: nothing more to do unless it finds too many.
ListExperiences(s) ==
    /\ step[s] = "list"
    /\ \/ /\ doomed' = [doomed EXCEPT ![s] = Overflow(experiences, fault[s].code)]
          /\ Move(s, IF doomed'[s] = {} THEN "done" ELSE "prune")
          /\ UNCHANGED <<mishaps, unpruned>>
       \/ /\ Mishap
          /\ unpruned' = unpruned \cup {fault[s].code}
          /\ Move(s, "done")
          /\ UNCHANGED doomed
    /\ UNCHANGED <<history, experiences, fault, read, prior, wrote, stored>>

\* store_experience, the batch
Prune(s) ==
    /\ step[s] = "prune"
    /\ \E o \in WriteOutcomes :
        /\ experiences' = Applied(o, experiences, experiences \ doomed[s])
        /\ unpruned' = IF o = "lost" THEN unpruned \cup {fault[s].code}
                                     ELSE unpruned
        /\ Noted(o)
    /\ doomed' = [doomed EXCEPT ![s] = {}]
    /\ Move(s, "done")
    /\ UNCHANGED <<history, fault, read, prior, wrote, stored>>

\* The instance of an analysis is killed.
KillSession(s) ==
    /\ step[s] \notin {"idle", "done"}
    /\ Mishap
    /\ unpruned' = IF step[s] \in {"list", "prune"}
                     THEN unpruned \cup {fault[s].code} ELSE unpruned
    /\ Move(s, "done")
    /\ read' = [read EXCEPT ![s] = Blank]
    /\ prior' = [prior EXCEPT ![s] = {}]
    /\ doomed' = [doomed EXCEPT ![s] = {}]
    /\ UNCHANGED <<history, experiences, fault, wrote, stored>>

\* The calls to the two services, once an analysis has begun them.
LearnStep(s) ==
    \/ ReadHistory(s) \/ WriteHistory(s) \/ Recall(s)
    \/ StoreExperience(s) \/ ListExperiences(s) \/ Prune(s)

LearnNext ==
    \E s \in Sessions :
        \/ LearnStep(s) \/ Learn(s) \/ Forget(s) \/ KillSession(s)
        \/ \E f \in Fault : Meet(s, f)

LearnSpec == LearnInit /\ [][LearnNext]_learnVars

----------------------------------------------------------------------------
(* Properties                                                               *)

\* The best explanations a code ever had are never pruned, whatever prunings
\* of several instances overlap, raise, or act on what they listed long ago.
TopKept ==
    \A e \in stored :
        Cardinality(Above(e, stored)) < MaxExperiences => e \in experiences

\* At rest a code has no more explanations than it may, unless a mishap came
\* between storing one and pruning for it.
PrunedAtRest ==
    \A c \in Codes :
        \/ Cardinality({e \in experiences : e.code = c}) =< MaxExperiences
        \/ c \in unpruned
        \/ \E s \in Sessions : step[s] \in {"list", "prune"} /\ fault[s].code = c

Adds(doc) ==
    /\ SumFunction(doc.hours) = doc.total
    /\ SumFunction(doc.co) =< doc.total

\* The percentages get_pattern_summary computes are percentages: updates may
\* be lost to each other, but a document always agrees with itself.
HistoryAdds == \A k \in Machines \X Codes : Adds(history[k])

Writers(k) == {s \in wrote : Key(s) = k}

\* The history of a machine and code never counts more faults than analyses
\* have written to it, and is not empty once one has.
HistoryCounts ==
    \A k \in Machines \X Codes :
        /\ history[k].total =< Cardinality(Writers(k))
        /\ Writers(k) # {} => history[k].total > 0

----------------------------------------------------------------------------
(* The inductive strengthening of the type invariant and of the properties. *)

\* An explanation is held only while its analysis thinks.
Handed == \A s \in Sessions : prior[s] # {} => step[s] = "thinking"

\* It can only be pushed out further: explanations are added, never changed.
PushedOut(e) == Cardinality(Above(e, stored)) >= MaxExperiences

Kept ==
    /\ IsFiniteSet(stored) /\ experiences \subseteq stored
    /\ \A e \in stored \ experiences : PushedOut(e)
    /\ \A s \in Sessions : \A e \in doomed[s] : e \in stored /\ PushedOut(e)

\* What an analysis is about to write counts it once more than the writers
\* there were when it read, and it is not one of them.
Counts ==
    /\ IsFiniteSet(wrote)
    /\ HistoryCounts
    /\ \A s \in Sessions : step[s] \in {"idle", "read", "write"} => s \notin wrote
    /\ \A s \in Sessions :
        step[s] = "write" => read[s].total =< Cardinality(Writers(Key(s)))

\* What an analysis has read is what someone once wrote.
DocumentsAdd == HistoryAdds /\ \A s \in Sessions : Adds(read[s])

\* An analysis stores one explanation, and is then past storing.
OneEach ==
    /\ \A e, f \in stored : e.by = f.by => e = f
    /\ \A e \in stored : step[e.by] \in {"list", "prune", "done"}

\* What a code has too much of is doomed, or whoever has stored last has yet to
\* list: an analysis that lists sees all that is there.
CodeDoomed(c) ==
    \/ \E s \in Sessions : step[s] = "list" /\ fault[s].code = c
    \/ \A e \in Overflow(experiences, c) : \E s \in Sessions :
            step[s] = "prune" /\ fault[s].code = c /\ e \in doomed[s]

AllDoomed == \A c \in Codes \ unpruned : CodeDoomed(c)

LearnInv ==
    LearnTypeOK /\ Handed /\ Kept /\ Counts /\ DocumentsAdd /\ OneEach /\ AllDoomed
=============================================================================

---------------------------- MODULE LearningProofs ----------------------------
(* Theorems about FaultLearning, for any analyses, machines, fault codes,   *)
(* hours and scores, any limit on the explanations and any number of        *)
(* mishaps: types, TopKept, HistoryCounts, HistoryAdds and PrunedAtRest.    *)
EXTENDS FaultLearning, SetInduction

----------------------------------------------------------------------------
(* The helpers                                                              *)

LEMMA KeyType ==
    ASSUME LearnTypeOK, NEW s \in Sessions
    PROVE  /\ Key(s) \in Machines \X Codes
           /\ fault[s].machine \in Machines /\ fault[s].code \in Codes
  BY DEF LearnTypeOK, Fault, Key

LEMMA BlankType == Blank \in Count
  BY DEF Blank, Count

LEMMA CountedType ==
    ASSUME NEW doc \in Count, NEW f \in Fault
    PROVE  /\ Counted(doc, f) \in Count
           /\ Counted(doc, f).total = doc.total + 1
  BY DEF Count, Counted, Fault

LEMMA BestType ==
    ASSUME NEW S \in SUBSET Experience, NEW f \in Fault
    PROVE  /\ Best(S, f) \in SUBSET Experience
           /\ Best(S, f) = OfMachine(Best(S, f), f)
  BY DEF Best, OfMachine

\* An explanation never has fewer above it in a larger set.
LEMMA AboveGrows ==
    ASSUME NEW T, IsFiniteSet(T), NEW S \in SUBSET T, NEW e
    PROVE  /\ Cardinality(Above(e, S)) \in Nat
           /\ Cardinality(Above(e, T)) \in Nat
           /\ Cardinality(Above(e, S)) =< Cardinality(Above(e, T))
<1>1. Above(e, T) \subseteq T /\ Above(e, S) \subseteq Above(e, T)
  BY DEF Above
<1>2. IsFiniteSet(Above(e, T))
  BY <1>1, FS_Subset
<1>3. IsFiniteSet(Above(e, S)) /\ Cardinality(Above(e, S)) =< Cardinality(Above(e, T))
  BY <1>1, <1>2, FS_Subset
<1> QED BY <1>2, <1>3, FS_CardinalityType

----------------------------------------------------------------------------
(* Types                                                                    *)

LEMMA LearnTypeInit == LearnInit => LearnTypeOK /\ Handed
<1>1. AnyFault \in Fault
  <2>1. PICK m \in Machines, c \in Codes, h \in Hours : TRUE
    BY FaultsAssumption
  <2>2. [machine |-> m, code |-> c, hour |-> h, co |-> NoCode] \in Fault
    BY <2>1 DEF Fault
  <2> QED BY <2>2 DEF AnyFault
<1> QED
  BY <1>1, BlankType, LimitsAssumption
     DEF LearnInit, LearnTypeOK, Handed, Steps, OfMachine

\* The document a write leaves is a document, whatever becomes of the write.
LEMMA HistoryType ==
    ASSUME LearnTypeOK, NEW s \in Sessions, NEW o,
           history' = [history EXCEPT ![Key(s)] =
                         Applied(o, @, Counted(read[s], fault[s]))]
    PROVE  history' \in [Machines \X Codes -> Count]
<1>1. Counted(read[s], fault[s]) \in Count
  BY CountedType DEF LearnTypeOK
<1> QED BY <1>1, KeyType DEF LearnTypeOK, Applied

LEMMA LearnTypeStep ==
    ASSUME LearnTypeOK, Handed, [LearnNext]_learnVars
    PROVE  LearnTypeOK' /\ Handed'
<1> USE LimitsAssumption
<1>1. ASSUME NEW s \in Sessions, NEW f \in Fault, Meet(s, f)
      PROVE  LearnTypeOK' /\ Handed'
  <2>1. prior[s] = {}
    BY <1>1 DEF Meet, Handed
  <2>2. \A t \in Sessions : prior'[t] = OfMachine(prior'[t], fault'[t])
    BY <1>1, <2>1 DEF Meet, LearnTypeOK, OfMachine
  <2> QED BY <1>1, <2>2 DEF Meet, Move, LearnTypeOK, Handed, Steps
<1>2. ASSUME NEW s \in Sessions, ReadHistory(s) PROVE LearnTypeOK' /\ Handed'
  <2>1. history[Key(s)] \in Count
    BY KeyType DEF LearnTypeOK
  <2> QED
    BY <1>2, <2>1 DEF ReadHistory, Mishap, Move, LearnTypeOK, Handed, Steps
<1>3. ASSUME NEW s \in Sessions, WriteHistory(s) PROVE LearnTypeOK' /\ Handed'
  <2>1. history' \in [Machines \X Codes -> Count]
    BY <1>3, HistoryType DEF WriteHistory
  <2>2. step' \in [Sessions -> Steps] /\ mishaps' \in 0..MaxMishaps
    BY <1>3 DEF WriteHistory, WriteOutcomes, Noted, Move, LearnTypeOK, Steps
  <2>3. wrote' \subseteq Sessions
    BY <1>3 DEF WriteHistory, Applied, LearnTypeOK
  <2>4. read' \in [Sessions -> Count]
    BY <1>3, BlankType DEF WriteHistory, LearnTypeOK
  <2> QED
    BY <1>3, <2>1, <2>2, <2>3, <2>4
       DEF WriteHistory, Move, LearnTypeOK, Handed, OfMachine
<1>4. ASSUME NEW s \in Sessions, Recall(s) PROVE LearnTypeOK' /\ Handed'
  <2>1. /\ Best(experiences, fault[s]) \in SUBSET Experience
        /\ Best(experiences, fault[s]) = OfMachine(Best(experiences, fault[s]), fault[s])
    BY BestType DEF LearnTypeOK
  <2>2. prior' \in [Sessions -> SUBSET Experience]
    BY <1>4, <2>1 DEF Recall, LearnTypeOK
  <2>3. \A t \in Sessions : prior'[t] = OfMachine(prior'[t], fault'[t])
    BY <1>4, <2>1 DEF Recall, LearnTypeOK, OfMachine
  <2>4. /\ step' \in [Sessions -> Steps] /\ step'[s] = "thinking"
        /\ \A t \in Sessions \ {s} : step'[t] = step[t] /\ prior'[t] = prior[t]
    BY <1>4 DEF Recall, Move, LearnTypeOK, Steps
  <2>5. mishaps' \in 0..MaxMishaps
    BY <1>4 DEF Recall, Mishap, LearnTypeOK
  <2>6. Handed'
    BY <2>4 DEF Handed
  <2> QED BY <1>4, <2>2, <2>3, <2>4, <2>5, <2>6 DEF Recall, LearnTypeOK
<1>5. ASSUME NEW s \in Sessions, Learn(s) \/ Forget(s)
      PROVE  LearnTypeOK' /\ Handed'
  <2>1. \A t \in Sessions : prior'[t] = OfMachine(prior'[t], fault'[t])
    BY <1>5 DEF Learn, Forget, LearnTypeOK, OfMachine
  <2> QED
    BY <1>5, <2>1 DEF Learn, Forget, Move, LearnTypeOK, Handed, Steps
<1>6. ASSUME NEW s \in Sessions, StoreExperience(s)
      PROVE  LearnTypeOK' /\ Handed'
  <2>1. PICK o \in WriteOutcomes, c \in Scores :
          LET e == [by |-> s, machine |-> fault[s].machine,
                    code |-> fault[s].code, score |-> c]
          IN  /\ experiences' = Applied(o, experiences, experiences \cup {e})
              /\ stored' = Applied(o, stored, stored \cup {e})
              /\ unpruned' = IF o = "late" THEN unpruned \cup {fault[s].code}
                                           ELSE unpruned
              /\ Move(s, IF o = "ok" THEN "list" ELSE "done")
              /\ Noted(o)
    BY <1>6 DEF StoreExperience
  <2>2. [by |-> s, machine |-> fault[s].machine, code |-> fault[s].code,
         score |-> c] \in Experience
    BY KeyType DEF Experience
  <2>3. experiences' \subseteq Experience /\ stored' \subseteq Experience
    BY <2>1, <2>2 DEF Applied, LearnTypeOK
  <2>4. /\ step' \in [Sessions -> Steps] /\ mishaps' \in 0..MaxMishaps
        /\ unpruned' \subseteq Codes
    BY <2>1, KeyType DEF WriteOutcomes, Noted, Move, LearnTypeOK, Steps
  <2> QED
    BY <1>6, <2>1, <2>3, <2>4 DEF StoreExperience, Move, LearnTypeOK, Handed,
       OfMachine
<1>7. ASSUME NEW s \in Sessions, ListExperiences(s)
      PROVE  LearnTypeOK' /\ Handed'
  <2>1. Overflow(experiences, fault[s].code) \in SUBSET Experience
    BY DEF Overflow, LearnTypeOK
  <2>2. doomed' \in [Sessions -> SUBSET Experience]
    BY <1>7, <2>1 DEF ListExperiences, LearnTypeOK
  <2>3. step' \in [Sessions -> Steps]
    BY <1>7 DEF ListExperiences, Move, LearnTypeOK, Steps
  <2> QED
    BY <1>7, <2>2, <2>3, KeyType
       DEF ListExperiences, Mishap, Move, LearnTypeOK, Handed, OfMachine
<1>8. ASSUME NEW s \in Sessions, Prune(s) PROVE LearnTypeOK' /\ Handed'
  <2>1. experiences' \subseteq Experience /\ doomed' \in [Sessions -> SUBSET Experience]
    BY <1>8 DEF Prune, Applied, LearnTypeOK
  <2>2. /\ step' \in [Sessions -> Steps] /\ mishaps' \in 0..MaxMishaps
        /\ unpruned' \subseteq Codes
    BY <1>8, KeyType DEF Prune, WriteOutcomes, Noted, Move, LearnTypeOK, Steps
  <2> QED
    BY <1>8, <2>1, <2>2 DEF Prune, Move, LearnTypeOK, Handed, OfMachine
<1>9. ASSUME NEW s \in Sessions, KillSession(s) PROVE LearnTypeOK' /\ Handed'
  BY <1>9, BlankType, KeyType
     DEF KillSession, Mishap, Move, LearnTypeOK, Handed, Steps, OfMachine
<1>10. CASE UNCHANGED learnVars
  BY <1>10 DEF learnVars, LearnTypeOK, Handed, OfMachine
<1> QED
  BY <1>1, <1>2, <1>3, <1>4, <1>5, <1>6, <1>7, <1>8, <1>9, <1>10
     DEF LearnNext, LearnStep

----------------------------------------------------------------------------
(* The best explanations                                                    *)

LEMMA KeptInit == LearnInit => Kept
  BY FS_EmptySet DEF LearnInit, Kept

\* What was pushed out stays so while explanations are only added.
LEMMA PushedStays ==
    ASSUME IsFiniteSet(stored'), stored \subseteq stored', NEW e, PushedOut(e)
    PROVE  PushedOut(e)'
<1>1. /\ Cardinality(Above(e, stored)) \in Nat
      /\ Cardinality(Above(e, stored')) \in Nat
      /\ Cardinality(Above(e, stored)) =< Cardinality(Above(e, stored'))
  BY AboveGrows
<1>2. Above(e, stored)' = Above(e, stored')
  BY DEF Above, Better
<1> QED BY <1>1, <1>2, LimitsAssumption DEF PushedOut

LEMMA KeptStep ==
    ASSUME LearnTypeOK, Kept, [LearnNext]_learnVars
    PROVE  Kept'
<1>1. ASSUME UNCHANGED <<experiences, stored>>,
             \A s \in Sessions : doomed'[s] = doomed[s] \/ doomed'[s] = {}
      PROVE  Kept'
  BY <1>1 DEF Kept, PushedOut, Above, Better
<1>2. ASSUME NEW s \in Sessions, NEW f \in Fault, Meet(s, f) PROVE Kept'
  BY <1>1, <1>2 DEF Meet
<1>3. ASSUME NEW s \in Sessions,
             ReadHistory(s) \/ WriteHistory(s) \/ Recall(s) \/ Learn(s) \/ Forget(s)
      PROVE  Kept'
  BY <1>1, <1>3 DEF ReadHistory, WriteHistory, Recall, Learn, Forget
<1>4. ASSUME NEW s \in Sessions, StoreExperience(s) PROVE Kept'
  <2>1. PICK o \in WriteOutcomes, e \in Experience :
          /\ experiences' = Applied(o, experiences, experiences \cup {e})
          /\ stored' = Applied(o, stored, stored \cup {e})
    <3>1. \A c \in Scores : [by |-> s, machine |-> fault[s].machine,
                            code |-> fault[s].code, score |-> c] \in Experience
      BY KeyType DEF Experience
    <3> QED BY <1>4, <3>1 DEF StoreExperience
  <2>2. IsFiniteSet(stored') /\ stored \subseteq stored'
    BY <2>1, FS_AddElement DEF Applied, Kept
  <2>3. /\ experiences' \subseteq stored'
        /\ stored' \ experiences' \subseteq stored \ experiences
    BY <2>1 DEF Applied, Kept
  <2>4. \A x \in stored : PushedOut(x) => PushedOut(x)'
    BY <2>2, PushedStays
  <2>5. UNCHANGED doomed
    BY <1>4 DEF StoreExperience
  <2> QED BY <2>2, <2>3, <2>4, <2>5 DEF Kept
<1>5. ASSUME NEW s \in Sessions, ListExperiences(s) PROVE Kept'
  <2>1. UNCHANGED <<experiences, stored>>
    BY <1>5 DEF ListExperiences
  <2>2. ASSUME NEW e \in Overflow(experiences, fault[s].code)
        PROVE  e \in stored /\ PushedOut(e)
    <3>1. e \in experiences /\ Cardinality(Above(e, experiences)) >= MaxExperiences
      BY DEF Overflow
    <3>2. /\ Cardinality(Above(e, experiences)) \in Nat
          /\ Cardinality(Above(e, stored)) \in Nat
          /\ Cardinality(Above(e, experiences)) =< Cardinality(Above(e, stored))
      BY AboveGrows DEF Kept
    <3> QED BY <3>1, <3>2, LimitsAssumption DEF Kept, PushedOut
  <2>3. \A t \in Sessions : \/ doomed'[t] = doomed[t]
                            \/ doomed'[t] = Overflow(experiences, fault[s].code)
    BY <1>5 DEF ListExperiences, LearnTypeOK
  <2>4. \A x : PushedOut(x)' <=> PushedOut(x)
    BY <2>1 DEF PushedOut, Above, Better
  <2> QED BY <2>1, <2>2, <2>3, <2>4 DEF Kept
<1>6. ASSUME NEW s \in Sessions, Prune(s) PROVE Kept'
  <2>1. /\ stored' = stored /\ experiences' \subseteq experiences
        /\ experiences \ experiences' \subseteq doomed[s]
    BY <1>6 DEF Prune, Applied
  <2>2. \A t \in Sessions : doomed'[t] = doomed[t] \/ doomed'[t] = {}
    BY <1>6 DEF Prune, LearnTypeOK
  <2>3. \A x : PushedOut(x)' <=> PushedOut(x)
    BY <2>1 DEF PushedOut, Above, Better
  <2> QED BY <2>1, <2>2, <2>3 DEF Kept
<1>7. ASSUME NEW s \in Sessions, KillSession(s) PROVE Kept'
  <2>1. \A t \in Sessions : doomed'[t] = doomed[t] \/ doomed'[t] = {}
    BY <1>7 DEF KillSession, LearnTypeOK
  <2> QED BY <1>1, <1>7, <2>1 DEF KillSession
<1>8. CASE UNCHANGED learnVars
  BY <1>1, <1>8 DEF learnVars
<1> QED
  BY <1>2, <1>3, <1>4, <1>5, <1>6, <1>7, <1>8 DEF LearnNext, LearnStep

LEMMA KeptImpliesTopKept ==
    ASSUME Kept PROVE TopKept
<1>1. ASSUME NEW e \in stored, e \notin experiences
      PROVE  ~(Cardinality(Above(e, stored)) < MaxExperiences)
  <2>1. Cardinality(Above(e, stored)) \in Nat
    BY AboveGrows DEF Kept
  <2> QED BY <1>1, <2>1, LimitsAssumption DEF Kept, PushedOut
<1> QED BY <1>1 DEF TopKept

----------------------------------------------------------------------------
(* The counts of the history                                                *)

LEMMA CountsInit == LearnInit => Counts
<1> SUFFICES ASSUME LearnInit PROVE Counts
  OBVIOUS
<1>1. IsFiniteSet(wrote)
  BY FS_EmptySet DEF LearnInit
<1>2. \A k : Writers(k) = {}
  BY DEF LearnInit, Writers
<1>3. HistoryCounts
  <2>1. \A k \in Machines \X Codes : history[k].total = 0
    BY DEF LearnInit, Blank
  <2>2. Cardinality({}) = 0
    BY FS_EmptySet
  <2> QED BY <1>2, <2>1, <2>2 DEF HistoryCounts
<1>4. wrote = {} /\ \A s \in Sessions : step[s] = "idle"
  BY DEF LearnInit
<1> QED BY <1>1, <1>3, <1>4 DEF Counts

\* The writers of a key are finitely many, and only ever more.
LEMMA WritersGrow ==
    ASSUME IsFiniteSet(wrote'), wrote \subseteq wrote',
           \A s \in wrote : fault'[s] = fault[s], NEW k
    PROVE  /\ Writers(k) \subseteq Writers(k)'
           /\ Cardinality(Writers(k)) \in Nat
           /\ Cardinality(Writers(k)') \in Nat
           /\ Cardinality(Writers(k)) =< Cardinality(Writers(k)')
<1>1. Writers(k) \subseteq Writers(k)' /\ Writers(k)' \subseteq wrote'
  BY DEF Writers, Key
<1>2. IsFiniteSet(Writers(k)')
  BY <1>1, FS_Subset
<1>3. /\ IsFiniteSet(Writers(k))
      /\ Cardinality(Writers(k)) =< Cardinality(Writers(k)')
  BY <1>1, <1>2, FS_Subset
<1> QED BY <1>1, <1>2, <1>3, FS_CardinalityType

LEMMA CountsStep ==
    ASSUME LearnTypeOK, Counts, [LearnNext]_learnVars
    PROVE  Counts'
<1>1. ASSUME UNCHANGED <<history, wrote>>,
             \A s \in wrote : fault'[s] = fault[s],
             \A s \in Sessions :
                step'[s] \in {"idle", "read", "write"} =>
                    step[s] \in {"idle", "read", "write"},
             \A s \in Sessions : step'[s] = "write" =>
                read'[s].total =< Cardinality(Writers(Key(s)'))
      PROVE  Counts'
  <2>1. \A k : Writers(k)' = Writers(k)
    BY <1>1 DEF Writers, Key
  <2>2. HistoryCounts'
    BY <1>1, <2>1 DEF Counts, HistoryCounts
  <2>3. \A s \in Sessions : Writers(Key(s))' = Writers(Key(s)')
    BY <2>1, <1>1 DEF Writers, Key
  <2> QED BY <1>1, <2>2, <2>3 DEF Counts
<1>2. ASSUME NEW s \in Sessions, NEW f \in Fault, Meet(s, f) PROVE Counts'
  <2>1. s \notin wrote
    BY <1>2 DEF Meet, Counts
  <2>2. \A t \in Sessions \ {s} : fault'[t] = fault[t] /\ step'[t] = step[t]
    BY <1>2 DEF Meet, Move, LearnTypeOK
  <2>3. step'[s] = "read" /\ UNCHANGED <<history, wrote, read>>
    BY <1>2 DEF Meet, Move, LearnTypeOK
  <2>4. \A t \in Sessions \ {s} : Key(t)' = Key(t)
    BY <2>2 DEF Key
  <2> QED
    BY <1>1, <1>2, <2>1, <2>2, <2>3, <2>4 DEF Meet, Counts, LearnTypeOK
<1>3. ASSUME NEW s \in Sessions, ReadHistory(s) PROVE Counts'
  <2>1. UNCHANGED <<history, wrote, fault>>
    BY <1>3 DEF ReadHistory
  <2>2. /\ \A t \in Sessions \ {s} : step'[t] = step[t] /\ read'[t] = read[t]
        /\ step'[s] \in {"write", "thinking"} /\ step[s] = "read"
        /\ step'[s] = "write" => read'[s] = history[Key(s)]
    BY <1>3 DEF ReadHistory, Move, LearnTypeOK
  <2>3. \A t \in Sessions : Key(t)' = Key(t)
    BY <2>1 DEF Key
  <2>4. history[Key(s)].total =< Cardinality(Writers(Key(s)))
    BY KeyType DEF Counts, HistoryCounts
  <2> QED BY <1>1, <2>1, <2>2, <2>3, <2>4 DEF Counts
<1>4. ASSUME NEW s \in Sessions, WriteHistory(s) PROVE Counts'
  <2> DEFINE new == Counted(read[s], fault[s])
  <2>1. PICK o \in WriteOutcomes :
          /\ history' = [history EXCEPT ![Key(s)] = Applied(o, @, new)]
          /\ wrote' = Applied(o, wrote, wrote \cup {s})
          /\ Move(s, IF o = "ok" THEN "recall" ELSE "thinking")
    BY <1>4 DEF WriteHistory
  <2>2. /\ step[s] = "write" /\ fault' = fault
        /\ \A t \in Sessions \ {s} : step'[t] = step[t] /\ read'[t] = read[t]
        /\ step'[s] \in {"recall", "thinking"}
    BY <1>4, <2>1 DEF WriteHistory, Move, LearnTypeOK
  <2>3. /\ s \notin wrote /\ read[s].total =< Cardinality(Writers(Key(s)))
        /\ IsFiniteSet(wrote)
    BY <2>2 DEF Counts
  <2>4. IsFiniteSet(wrote') /\ wrote \subseteq wrote'
    BY <2>1, <2>3, FS_AddElement DEF Applied
  <2>5. \A k : /\ Writers(k) \subseteq Writers(k)'
               /\ Cardinality(Writers(k)) \in Nat
               /\ Cardinality(Writers(k)') \in Nat
               /\ Cardinality(Writers(k)) =< Cardinality(Writers(k)')
    BY <2>2, <2>4, WritersGrow
  <2>6. \A t \in Sessions : Key(t)' = Key(t)
    BY <2>2 DEF Key
  <2>7. HistoryCounts'
    <3>1. CASE o = "lost"
      <4>1. wrote' = wrote /\ history' = history
        BY <2>1, <3>1, KeyType DEF Applied, LearnTypeOK
      <4>2. \A k : Writers(k)' = Writers(k)
        BY <4>1, <2>2 DEF Writers, Key
      <4> QED BY <4>1, <4>2 DEF Counts, HistoryCounts
    <3>2. CASE o # "lost"
      <4>1. /\ wrote' = wrote \cup {s} /\ history'[Key(s)] = new
            /\ \A k \in (Machines \X Codes) \ {Key(s)} : history'[k] = history[k]
        BY <2>1, <3>2, KeyType DEF Applied, LearnTypeOK
      <4>2. \A k : k # Key(s) => Writers(k)' = Writers(k)
        BY <4>1, <2>2 DEF Writers, Key
      <4>3. Writers(Key(s))' = Writers(Key(s)) \cup {s}
        BY <4>1, <2>2 DEF Writers, Key
      <4>4. s \notin Writers(Key(s)) /\ IsFiniteSet(Writers(Key(s)))
        BY <2>3, FS_Subset DEF Writers
      <4>5. Cardinality(Writers(Key(s))') = Cardinality(Writers(Key(s))) + 1
        BY <4>3, <4>4, FS_AddElement
      <4>6. new.total = read[s].total + 1 /\ read[s].total \in Nat
        BY CountedType DEF LearnTypeOK, Count
      <4>7. /\ history'[Key(s)].total =< Cardinality(Writers(Key(s))')
            /\ history'[Key(s)].total > 0
        BY <4>1, <4>5, <4>6, <2>3, <2>5
      <4>8. ASSUME NEW k \in Machines \X Codes
            PROVE  /\ history'[k].total =< Cardinality(Writers(k)')
                   /\ Writers(k)' # {} => history'[k].total > 0
        <5>1. CASE k = Key(s)
          <6>1. Writers(k)' = Writers(Key(s))'
            BY <5>1, <2>6, <2>2, <4>1 DEF Writers, Key
          <6> QED BY <5>1, <6>1, <4>7
        <5>2. CASE k # Key(s)
          BY <5>2, <4>1, <4>2 DEF Counts, HistoryCounts
        <5> QED BY <5>1, <5>2
      <4> QED BY <4>8 DEF HistoryCounts
    <3> QED BY <3>1, <3>2
  <2>8. \A t \in Sessions : step'[t] = "write" =>
            read'[t].total =< Cardinality(Writers(Key(t))')
    <3>1. ASSUME NEW t \in Sessions, step'[t] = "write"
          PROVE  read'[t].total =< Cardinality(Writers(Key(t))')
      <4>1. t # s /\ step[t] = "write" /\ read'[t] = read[t]
        BY <2>2, <3>1
      <4>2. Writers(Key(t)) \subseteq wrote' /\ Writers(Key(t)) \subseteq Writers(Key(t))'
        BY <2>2, <2>4 DEF Writers, Key
      <4>3. IsFiniteSet(Writers(Key(t))')
        BY <2>4, FS_Subset DEF Writers
      <4>4. /\ Cardinality(Writers(Key(t))) =< Cardinality(Writers(Key(t))')
            /\ Cardinality(Writers(Key(t))) \in Nat
            /\ Cardinality(Writers(Key(t))') \in Nat
        BY <4>2, <4>3, FS_Subset, FS_CardinalityType
      <4>5. read[t].total \in Nat
        BY DEF LearnTypeOK, Count
      <4> QED BY <4>1, <4>4, <4>5 DEF Counts
    <3> QED BY <3>1
  <2>9. \A t \in Sessions : step'[t] \in {"idle", "read", "write"} => t \notin wrote'
    BY <2>1, <2>2 DEF Counts, Applied
  <2> QED BY <2>4, <2>7, <2>8, <2>9 DEF Counts
<1>5. ASSUME NEW s \in Sessions,
             Recall(s) \/ Learn(s) \/ Forget(s) \/ StoreExperience(s)
             \/ ListExperiences(s) \/ Prune(s) \/ KillSession(s)
      PROVE  Counts'
  <2>1. UNCHANGED <<history, wrote, fault>>
    BY <1>5 DEF Recall, Learn, Forget, StoreExperience, ListExperiences, Prune,
       KillSession
  <2>2. /\ \A t \in Sessions \ {s} : step'[t] = step[t] /\ read'[t] = read[t]
        /\ step'[s] \notin {"idle", "read", "write"}
    BY <1>5 DEF Recall, Learn, Forget, StoreExperience, ListExperiences, Prune,
       KillSession, Move, LearnTypeOK
  <2>3. \A t \in Sessions : Key(t)' = Key(t)
    BY <2>1 DEF Key
  <2> QED BY <1>1, <2>1, <2>2, <2>3 DEF Counts
<1>6. CASE UNCHANGED learnVars
  <2>1. \A t \in Sessions : Key(t)' = Key(t)
    BY <1>6 DEF learnVars, Key
  <2> QED BY <1>1, <1>6, <2>1 DEF learnVars, Counts
<1> QED
  BY <1>2, <1>3, <1>4, <1>5, <1>6 DEF LearnNext, LearnStep

----------------------------------------------------------------------------
(* The documents of the history add up                                      *)

LEMMA BlankAdds == Adds(Blank)
<1>1. Blank.hours \in [Hours -> Nat] /\ Blank.co \in [Codes -> Nat] /\ Blank.total = 0
  BY DEF Blank
<1>2. (\A h \in Hours : Blank.hours[h] = 0) /\ (\A c \in Codes : Blank.co[c] = 0)
  BY DEF Blank
<1>3. SumFunction(Blank.hours) = 0
  BY <1>1, <1>2, SumType, FinitenessAssumption
<1>4. SumFunction(Blank.co) = 0
  BY <1>1, <1>2, SumType, FinitenessAssumption
<1> QED
  BY <1>1, <1>3, <1>4 DEF Adds

\* One more fault is one more in its hour, and at most one more beside it.
LEMMA CountedAdds ==
    ASSUME NEW doc \in Count, NEW f \in Fault, Adds(doc)
    PROVE  Adds(Counted(doc, f))
<1> DEFINE new == Counted(doc, f)
<1>1. /\ doc.hours \in [Hours -> Nat] /\ doc.co \in [Codes -> Nat] /\ doc.total \in Nat
      /\ f.hour \in Hours
  BY DEF Count, Fault
<1>2. /\ new.total = doc.total + 1
      /\ new.hours \in [Hours -> Nat] /\ new.co \in [Codes -> Nat]
      /\ \A h \in Hours : h # f.hour => new.hours[h] = doc.hours[h]
      /\ new.hours[f.hour] = doc.hours[f.hour] + 1
      /\ \A c \in Codes : c # f.co => new.co[c] = doc.co[c]
      /\ f.co \in Codes => new.co[f.co] = doc.co[f.co] + 1
  BY <1>1 DEF Counted
<1> HIDE DEF new
<1>3. SumFunction(new.hours) = SumFunction(doc.hours) + 1
  BY <1>1, <1>2, SumBump, FinitenessAssumption
<1>4. SumFunction(new.co) \in {SumFunction(doc.co), SumFunction(doc.co) + 1}
  BY <1>1, <1>2, SumBump, FinitenessAssumption
<1>5. SumFunction(doc.co) \in Nat
  BY <1>1, SumType, FinitenessAssumption
<1>6. SumFunction(new.co) =< new.total
  BY <1>1, <1>2, <1>4, <1>5 DEF Adds
<1> QED
  BY <1>2, <1>3, <1>6 DEF Adds, new

LEMMA DocumentsAddInit == LearnInit => DocumentsAdd
  BY BlankAdds DEF LearnInit, DocumentsAdd, HistoryAdds

LEMMA DocumentsAddStep ==
    ASSUME LearnTypeOK, DocumentsAdd, [LearnNext]_learnVars
    PROVE  DocumentsAdd'
<1>1. ASSUME UNCHANGED history, NEW s \in Sessions,
             \A t \in Sessions \ {s} : read'[t] = read[t],
             read'[s] \in {read[s], Blank, history[Key(s)]}
      PROVE  DocumentsAdd'
  <2>1. Adds(read'[s])
    BY <1>1, BlankAdds, KeyType DEF DocumentsAdd, HistoryAdds
  <2> QED
    BY <1>1, <2>1 DEF DocumentsAdd, HistoryAdds, Adds
<1>2. ASSUME NEW s \in Sessions, WriteHistory(s) PROVE DocumentsAdd'
  <2> DEFINE new == Counted(read[s], fault[s])
  <2>1. PICK o \in WriteOutcomes :
          history' = [history EXCEPT ![Key(s)] = Applied(o, @, new)]
    BY <1>2 DEF WriteHistory
  <2>2. Adds(new)
    BY CountedAdds DEF LearnTypeOK, DocumentsAdd
  <2>3. \A k \in Machines \X Codes : history'[k] \in {history[k], new}
    BY <2>1, KeyType DEF Applied, LearnTypeOK
  <2>4. \A t \in Sessions : read'[t] \in {read[t], Blank}
    BY <1>2 DEF WriteHistory, LearnTypeOK
  <2> HIDE DEF new
  <2>5. \A k \in Machines \X Codes : Adds(history'[k])
    BY <2>2, <2>3 DEF DocumentsAdd, HistoryAdds
  <2>6. \A t \in Sessions : Adds(read'[t])
    BY <2>4, BlankAdds DEF DocumentsAdd
  <2> QED
    BY <2>5, <2>6 DEF DocumentsAdd, HistoryAdds, Adds
<1>3. ASSUME NEW s \in Sessions, ReadHistory(s) PROVE DocumentsAdd'
  BY <1>1, <1>3 DEF ReadHistory, LearnTypeOK
<1>4. ASSUME NEW s \in Sessions, KillSession(s) PROVE DocumentsAdd'
  BY <1>1, <1>4 DEF KillSession, LearnTypeOK
<1>5. ASSUME UNCHANGED <<history, read>> PROVE DocumentsAdd'
  BY <1>5 DEF DocumentsAdd, HistoryAdds, Adds
<1>6. ASSUME NEW s \in Sessions,
             Recall(s) \/ Learn(s) \/ Forget(s) \/ StoreExperience(s)
             \/ ListExperiences(s) \/ Prune(s) \/ \E f \in Fault : Meet(s, f)
      PROVE  DocumentsAdd'
  BY <1>5, <1>6 DEF Recall, Learn, Forget, StoreExperience, ListExperiences,
     Prune, Meet
<1>7. CASE UNCHANGED learnVars
  BY <1>5, <1>7 DEF learnVars
<1> QED
  BY <1>2, <1>3, <1>4, <1>6, <1>7 DEF LearnNext, LearnStep

----------------------------------------------------------------------------
(* What is too much is pruned                                               *)

LEMMA OneEachInit == LearnInit => OneEach /\ AllDoomed
  BY DEF LearnInit, OneEach, AllDoomed, CodeDoomed, Overflow

LEMMA OneEachStep ==
    ASSUME LearnTypeOK, OneEach, [LearnNext]_learnVars
    PROVE  OneEach'
<1>1. ASSUME UNCHANGED stored,
             \A t \in Sessions : step[t] \in {"list", "prune", "done"} =>
                                 step'[t] \in {"list", "prune", "done"}
      PROVE  OneEach'
  BY <1>1 DEF OneEach, LearnTypeOK, Experience
<1>2. ASSUME NEW s \in Sessions, StoreExperience(s) PROVE OneEach'
  <2>1. PICK o \in WriteOutcomes, c \in Scores :
          /\ stored' = Applied(o, stored, stored \cup
                {[by |-> s, machine |-> fault[s].machine,
                  code |-> fault[s].code, score |-> c]})
          /\ Move(s, IF o = "ok" THEN "list" ELSE "done")
    BY <1>2 DEF StoreExperience
  <2> DEFINE e == [by |-> s, machine |-> fault[s].machine,
                   code |-> fault[s].code, score |-> c]
  <2>2. e.by = s /\ stored' \subseteq stored \cup {e}
    BY <2>1 DEF Applied
  <2>3. /\ step[s] = "store" /\ step'[s] \in {"list", "done"}
        /\ \A t \in Sessions \ {s} : step'[t] = step[t]
    BY <1>2, <2>1 DEF StoreExperience, Move, LearnTypeOK
  <2>4. \A f \in stored : f.by \in Sessions /\ f.by # s
    BY <2>3 DEF OneEach, LearnTypeOK, Experience
  <2> HIDE DEF e
  <2> QED
    BY <2>2, <2>3, <2>4 DEF OneEach
<1>3. ASSUME NEW s \in Sessions,
             \/ ReadHistory(s) \/ WriteHistory(s) \/ Recall(s) \/ Learn(s)
             \/ Forget(s) \/ ListExperiences(s) \/ Prune(s) \/ KillSession(s)
             \/ \E f \in Fault : Meet(s, f)
      PROVE  OneEach'
  <2>1. /\ UNCHANGED stored
        /\ \A t \in Sessions \ {s} : step'[t] = step[t]
        /\ step[s] \in {"list", "prune", "done"} => step'[s] \in {"prune", "done"}
    BY <1>3 DEF ReadHistory, WriteHistory, Recall, Learn, Forget,
       ListExperiences, Prune, KillSession, Meet, Move, LearnTypeOK
  <2> QED
    BY <1>1, <2>1
<1>4. CASE UNCHANGED learnVars
  BY <1>1, <1>4 DEF learnVars
<1> QED
  BY <1>2, <1>3, <1>4 DEF LearnNext, LearnStep

\* Fewer explanations of a code are not more too many.
LEMMA OverflowShrinks ==
    ASSUME NEW T, IsFiniteSet(T), NEW S, NEW c,
           \A e \in S : e.code = c => e \in T
    PROVE  Overflow(S, c) \subseteq Overflow(T, c)
<1>1. ASSUME NEW e \in Overflow(S, c) PROVE e \in Overflow(T, c)
  <2>1. e \in T /\ e.code = c /\ Cardinality(Above(e, S)) >= MaxExperiences
    BY <1>1 DEF Overflow
  <2>2. Above(e, S) \subseteq Above(e, T) /\ Above(e, T) \subseteq T
    BY <2>1 DEF Above
  <2>3. /\ Cardinality(Above(e, S)) =< Cardinality(Above(e, T))
        /\ Cardinality(Above(e, S)) \in Nat /\ Cardinality(Above(e, T)) \in Nat
    BY <2>2, FS_Subset, FS_CardinalityType
  <2> QED
    BY <2>1, <2>3, LimitsAssumption DEF Overflow
<1> QED
  BY <1>1

\* What others do leaves the explanations of a code doomed.
LEMMA CodeStaysDoomed ==
    ASSUME IsFiniteSet(experiences), NEW c, CodeDoomed(c),
           \A e \in experiences' : e.code = c => e \in experiences,
           \A s \in Sessions :
                fault[s].code = c /\ step[s] \in {"list", "prune"} =>
                    step'[s] = step[s] /\ fault'[s] = fault[s] /\ doomed'[s] = doomed[s]
    PROVE  CodeDoomed(c)'
<1>1. Overflow(experiences, c)' \subseteq Overflow(experiences, c)
  <2>1. Overflow(experiences', c) \subseteq Overflow(experiences, c)
    BY OverflowShrinks
  <2> QED
    BY <2>1 DEF Overflow, Above, Better
<1> QED
  BY <1>1 DEF CodeDoomed

LEMMA AllDoomedStep ==
    ASSUME LearnTypeOK, Kept, AllDoomed, [LearnNext]_learnVars
    PROVE  AllDoomed'
<1>1. IsFiniteSet(experiences)
  BY FS_Subset DEF Kept
<1>2. SUFFICES ASSUME NEW c \in Codes, c \notin unpruned' PROVE CodeDoomed(c)'
  BY DEF AllDoomed
<1>3. c \notin unpruned /\ CodeDoomed(c)
  BY <1>2 DEF AllDoomed, LearnNext, LearnStep, learnVars, ReadHistory, WriteHistory,
     Recall, Learn, Forget, StoreExperience, ListExperiences, Prune, KillSession, Meet
<1>4. ASSUME NEW s \in Sessions,
             fault[s].code # c \/ step[s] \notin {"list", "prune"},
             \A t \in Sessions \ {s} : /\ step'[t] = step[t] /\ fault'[t] = fault[t]
                                       /\ doomed'[t] = doomed[t],
             \A e \in experiences' : e.code = c => e \in experiences
      PROVE  CodeDoomed(c)'
  BY <1>1, <1>3, <1>4, CodeStaysDoomed
<1>5. ASSUME NEW s \in Sessions,
             \/ ReadHistory(s) \/ WriteHistory(s) \/ Recall(s) \/ Learn(s)
             \/ Forget(s) \/ \E f \in Fault : Meet(s, f)
      PROVE  CodeDoomed(c)'
  <2>1. /\ UNCHANGED <<experiences, doomed>>
        /\ step[s] \notin {"list", "prune"}
        /\ \A t \in Sessions \ {s} : step'[t] = step[t] /\ fault'[t] = fault[t]
    BY <1>5 DEF ReadHistory, WriteHistory, Recall, Learn, Forget, Meet, Move,
       LearnTypeOK
  <2> QED
    BY <1>4, <2>1
<1>6. ASSUME NEW s \in Sessions, StoreExperience(s) PROVE CodeDoomed(c)'
  <2>1. PICK o \in WriteOutcomes, x \in Scores :
          /\ experiences' = Applied(o, experiences, experiences \cup
                {[by |-> s, machine |-> fault[s].machine,
                  code |-> fault[s].code, score |-> x]})
          /\ unpruned' = IF o = "late" THEN unpruned \cup {fault[s].code}
                                       ELSE unpruned
          /\ Move(s, IF o = "ok" THEN "list" ELSE "done")
    BY <1>6 DEF StoreExperience
  <2>2. PICK e : /\ e.code = fault[s].code
                 /\ experiences' = IF o = "lost" THEN experiences
                                                 ELSE experiences \cup {e}
    BY <2>1 DEF Applied
  <2>3. /\ UNCHANGED <<doomed, fault>> /\ step[s] = "store"
        /\ \A t \in Sessions \ {s} : step'[t] = step[t]
        /\ o = "ok" => step'[s] = "list"
    BY <1>6, <2>1 DEF StoreExperience, Move, LearnTypeOK
  <2>4. CASE o = "ok" /\ fault[s].code = c
    BY <2>3, <2>4 DEF CodeDoomed
  <2>5. CASE o = "lost" \/ fault[s].code # c
    BY <1>4, <2>2, <2>3, <2>5
  <2> QED
    BY <1>2, <2>1, <2>4, <2>5 DEF WriteOutcomes
<1>7. ASSUME NEW s \in Sessions, ListExperiences(s) PROVE CodeDoomed(c)'
  <2>1. /\ UNCHANGED <<experiences, fault>>
        /\ \A t \in Sessions \ {s} : step'[t] = step[t] /\ doomed'[t] = doomed[t]
    BY <1>7 DEF ListExperiences, Move, LearnTypeOK
  <2>2. CASE fault[s].code # c
    BY <1>4, <2>1, <2>2
  <2>3. CASE fault[s].code = c
    <3>1. doomed'[s] = Overflow(experiences, c)
      BY <1>2, <1>7, <2>3 DEF ListExperiences, LearnTypeOK
    <3>2. doomed'[s] # {} => step'[s] = "prune"
      BY <1>2, <1>7, <2>3 DEF ListExperiences, Move, LearnTypeOK
    <3>3. Overflow(experiences, c)' = Overflow(experiences, c)
      BY <2>1 DEF Overflow, Above, Better
    <3> QED
      BY <2>1, <2>3, <3>1, <3>2, <3>3 DEF CodeDoomed
  <2> QED
    BY <2>2, <2>3
<1>8. ASSUME NEW s \in Sessions, Prune(s) PROVE CodeDoomed(c)'
  <2>1. PICK o \in WriteOutcomes :
          /\ experiences' = Applied(o, experiences, experiences \ doomed[s])
          /\ unpruned' = IF o = "lost" THEN unpruned \cup {fault[s].code}
                                       ELSE unpruned
    BY <1>8 DEF Prune
  <2>2. /\ UNCHANGED fault /\ experiences' \subseteq experiences /\ step[s] = "prune"
        /\ \A t \in Sessions \ {s} : step'[t] = step[t] /\ doomed'[t] = doomed[t]
    BY <1>8, <2>1 DEF Prune, Move, Applied, LearnTypeOK
  <2>3. CASE fault[s].code # c
    BY <1>4, <2>2, <2>3
  <2>4. CASE fault[s].code = c
    <3>1. experiences' = experiences \ doomed[s]
      BY <1>2, <2>1, <2>4 DEF Applied
    <3>2. Overflow(experiences, c)' \subseteq Overflow(experiences, c) \ doomed[s]
      <4>1. Overflow(experiences', c) \subseteq Overflow(experiences, c)
        BY <1>1, <2>2, OverflowShrinks
      <4>2. Overflow(experiences, c)' = Overflow(experiences', c)
        BY DEF Overflow, Above, Better
      <4>3. Overflow(experiences', c) \subseteq experiences'
        BY DEF Overflow
      <4> QED
        BY <3>1, <4>1, <4>2, <4>3
    <3>3. CASE \E t \in Sessions : step[t] = "list" /\ fault[t].code = c
      BY <2>2, <3>3 DEF CodeDoomed
    <3>4. CASE \A e \in Overflow(experiences, c) : \E t \in Sessions :
                    step[t] = "prune" /\ fault[t].code = c /\ e \in doomed[t]
      <4>1. ASSUME NEW e \in Overflow(experiences, c)'
            PROVE  \E t \in Sessions :
                        step'[t] = "prune" /\ fault'[t].code = c /\ e \in doomed'[t]
        <5>1. PICK t \in Sessions :
                step[t] = "prune" /\ fault[t].code = c /\ e \in doomed[t]
          BY <3>2, <3>4
        <5>2. t # s
          BY <3>2, <5>1
        <5> QED
          BY <2>2, <5>1, <5>2
      <4> QED
        BY <4>1 DEF CodeDoomed
    <3> QED
      BY <1>3, <3>3, <3>4 DEF CodeDoomed
  <2> QED
    BY <2>3, <2>4
<1>9. ASSUME NEW s \in Sessions, KillSession(s) PROVE CodeDoomed(c)'
  <2>1. /\ UNCHANGED <<experiences, fault>>
        /\ \A t \in Sessions \ {s} : step'[t] = step[t] /\ doomed'[t] = doomed[t]
    BY <1>9 DEF KillSession, Move, LearnTypeOK
  <2>2. fault[s].code # c \/ step[s] \notin {"list", "prune"}
    BY <1>2, <1>9 DEF KillSession
  <2> QED
    BY <1>4, <2>1, <2>2
<1>10. CASE UNCHANGED learnVars
  BY <1>1, <1>3, <1>10, CodeStaysDoomed DEF learnVars
<1> QED
  BY <1>5, <1>6, <1>7, <1>8, <1>9, <1>10 DEF LearnNext, LearnStep

\* Of finitely many explanations, each by an analysis of its own, one is the worst.
LEMMA WorstExists ==
    ASSUME NEW T \in SUBSET Experience, T # {},
           \A e, f \in T : e.by = f.by => e = f
    PROVE  \E w \in T : \A e \in T \ {w} : Better(e, w)
<1>1. \A e \in T : e.score \in Nat /\ e.by \in Nat
  BY NumbersAssumption DEF Experience
<1> DEFINE LowScores == {e.score : e \in T}
<1>2. PICK m \in LowScores : \A k \in LowScores : m =< k
  <2>1. LowScores \in SUBSET Nat /\ LowScores # {}
    BY <1>1
  <2> HIDE DEF LowScores
  <2> QED
    BY <2>1, SmallestNat
<1> DEFINE Tied == {e.by : e \in {f \in T : f.score = m}}
<1>3. PICK b \in Tied : \A k \in Tied : b =< k
  <2>1. Tied \in SUBSET Nat /\ Tied # {}
    BY <1>1, <1>2
  <2> HIDE DEF Tied
  <2> QED
    BY <2>1, SmallestNat
<1>4. PICK w \in T : w.score = m /\ w.by = b
  BY <1>3
<1>5. ASSUME NEW e \in T \ {w} PROVE Better(e, w)
  <2>1. e.score \in Nat /\ w.score \in Nat /\ w.score =< e.score
    BY <1>1, <1>2, <1>4
  <2>2. e.score = w.score => w.by =< e.by
    BY <1>3, <1>4
  <2>3. e.by # w.by /\ e.by \in Nat /\ w.by \in Nat
    BY <1>1
  <2> QED
    BY <2>1, <2>2, <2>3 DEF Better
<1> QED
  BY <1>4, <1>5

LEMMA DoomedImpliesPruned ==
    ASSUME LearnTypeOK, Kept, OneEach, AllDoomed PROVE PrunedAtRest
<1>1. SUFFICES ASSUME NEW c \in Codes, c \notin unpruned,
                      ~ \E s \in Sessions :
                            step[s] \in {"list", "prune"} /\ fault[s].code = c
               PROVE  Cardinality({e \in experiences : e.code = c}) =< MaxExperiences
  BY DEF PrunedAtRest
<1> DEFINE T == {e \in experiences : e.code = c}
<1>2. Overflow(experiences, c) = {}
  BY <1>1 DEF AllDoomed, CodeDoomed
<1>3. IsFiniteSet(T) /\ Cardinality(T) \in Nat
  BY FS_Subset, FS_CardinalityType DEF Kept
<1>4. SUFFICES ASSUME T # {} PROVE Cardinality(T) =< MaxExperiences
  BY FS_EmptySet, LimitsAssumption
<1>5. PICK w \in T : \A e \in T \ {w} : Better(e, w)
  <2>1. T \in SUBSET Experience /\ \A e, f \in T : e.by = f.by => e = f
    BY DEF LearnTypeOK, Kept, OneEach
  <2> HIDE DEF T
  <2> QED
    BY <1>4, <2>1, WorstExists
<1>6. T \ {w} \subseteq Above(w, experiences) /\ Above(w, experiences) \subseteq experiences
  BY <1>5 DEF Above
<1>7. /\ Cardinality(T \ {w}) =< Cardinality(Above(w, experiences))
      /\ Cardinality(Above(w, experiences)) \in Nat
  BY <1>6, FS_Subset, FS_CardinalityType DEF Kept
<1>8. Cardinality(T \ {w}) = Cardinality(T) - 1
  BY <1>3, FS_RemoveElement
<1>9. Cardinality(Above(w, experiences)) < MaxExperiences
  BY <1>2, <1>7, LimitsAssumption DEF Overflow
<1> QED
  BY <1>3, <1>7, <1>8, <1>9, LimitsAssumption

----------------------------------------------------------------------------
(* The theorems                                                             *)

LEMMA LearnStepKeeps ==
    ASSUME LearnInv, [LearnNext]_learnVars PROVE LearnInv'
  BY LearnTypeStep, KeptStep, CountsStep, DocumentsAddStep, OneEachStep, AllDoomedStep
     DEF LearnInv

\* The inductive invariant holds in every reachable state.
THEOREM LearnInvariance == LearnSpec => []LearnInv
<1>1. LearnInit => LearnInv
  BY LearnTypeInit, KeptInit, CountsInit, DocumentsAddInit, OneEachInit DEF LearnInv
<1>2. LearnInv /\ [LearnNext]_learnVars => LearnInv'
  BY LearnStepKeeps
<1> QED BY <1>1, <1>2, PTL DEF LearnSpec

\* Type correctness of what the analyses leave in Firestore and of where they
\* stand, of the explanations they hold among it.
THEOREM LearnTypeCorrect == LearnSpec => []LearnTypeOK
<1>1. LearnInv => LearnTypeOK
  BY DEF LearnInv
<1> QED BY <1>1, LearnInvariance, PTL

\* However prunings overlap, raise or act on old listings, store_experience
\* never deletes one of the best MAX_EXPERIENCES_PER_FAULT a code ever had.
THEOREM BestAreKept == LearnSpec => []TopKept
<1>1. LearnInv => TopKept
  BY KeptImpliesTopKept DEF LearnInv
<1> QED BY <1>1, LearnInvariance, PTL

\* Lost updates make the history of record_fault count too little, never too
\* much, and never forget that there was a fault.
THEOREM HistoryIsBounded == LearnSpec => []HistoryCounts
<1>1. LearnInv => HistoryCounts
  BY DEF LearnInv, Counts
<1> QED BY <1>1, LearnInvariance, PTL

\* Each document agrees with itself whatever updates are lost: its hours add up
\* to its total, and the co-occurring faults to no more.
THEOREM HistoryAddsUp == LearnSpec => []HistoryAdds
<1>1. LearnInv => HistoryAdds
  BY DEF LearnInv, DocumentsAdd
<1> QED BY <1>1, LearnInvariance, PTL

\* Once the analyses of a code are through with store_experience, and none of its
\* calls was cut short, the code has no more explanations than its limit: the
\* last to list has seen all that the others stored.
THEOREM PruningSuffices == LearnSpec => []PrunedAtRest
<1>1. LearnInv => PrunedAtRest
  BY DoomedImpliesPruned DEF LearnInv
<1> QED BY <1>1, LearnInvariance, PTL
=============================================================================

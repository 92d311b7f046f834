---------------------------- MODULE KnowledgeProofs ----------------------------
(***************************************************************************)
(* Questions, loads, resets and restarts, for every number of threads and  *)
(* every project: STRICT stays in its scope, the tag guard is fair to the  *)
(* names in force, a failure has its cause, and a question that finds the  *)
(* keyword index warm misses no chunk that can be loaded.  Before them the *)
(* structured index: its cache of the tag names shows nothing but the tag  *)
(* table, and the index implements a plain set of names, for every number  *)
(* of threads, names and files and every limit.                            *)
(***************************************************************************)
EXTENDS Knowledge, FiniteSetTheorems, TLAPS

----------------------------------------------------------------------------
(* The structured index                                                     *)

\* Whoever has written a table holds the lock until the cache is dropped.
WritersHold == \A t \in Threads : at[t] = "written" <=> lock = t

\* A cache that a write under way has yet to drop is one write behind.
OneBehind ==
    lock # Nobody =>
        \/ cache = NoAnswer
        \/ TagKeys = {}
        \/ \E k \in Keys : TagKeys = cache \cup {k}

IndexInv == IndexTypeOK /\ WritersHold /\ CacheAgrees /\ OneBehind

\* Replacing a record of a tag adds its name, and takes none away.
LEMMA PutTag ==
    ASSUME NEW r \in Record, r.kind = "tag", records' = Put(r)
    PROVE  TagKeys' = TagKeys \cup {r.key}
<1>1. TagKeys' \subseteq TagKeys \cup {r.key}
  BY DEF TagKeys, Of, Put
<1>2. r.key \in TagKeys'
  BY DEF TagKeys, Of, Put
<1>3. ASSUME NEW x \in records, x.kind = "tag" PROVE x.key \in TagKeys'
  <2>1. CASE x.key = r.key
    BY <1>2, <2>1
  <2>2. CASE x.key # r.key
    BY <1>3, <2>2 DEF TagKeys, Of, Put
  <2> QED BY <2>1, <2>2
<1> QED BY <1>1, <1>2, <1>3 DEF TagKeys, Of

\* A record of another kind changes no tag name.
LEMMA PutOther ==
    ASSUME NEW r \in Record, r.kind # "tag", records' = Put(r)
    PROVE  TagKeys' = TagKeys
BY DEF TagKeys, Of, Put

LEMMA PutType ==
    ASSUME NEW r \in Record, records \subseteq Record
    PROVE  Put(r) \subseteq Record
BY DEF Put

LEMMA TagKeysType == records \subseteq Record => TagKeys \in SUBSET Keys
BY DEF TagKeys, Of, Record

LEMMA IndexTypeStep ==
    ASSUME IndexTypeOK, [IndexNext]_indexVars
    PROVE  IndexTypeOK'
<1> USE DEF IndexTypeOK
<1>1. ASSUME NEW t \in Threads, NEW r \in Record, StoreTag(t, r) PROVE IndexTypeOK'
  BY <1>1, PutType DEF StoreTag
<1>2. ASSUME NEW t \in Threads, NEW r \in Record, AddRecord(t, r) PROVE IndexTypeOK'
  BY <1>2, PutType DEF AddRecord
<1>3. ASSUME NEW t \in Threads, NEW r \in Record, Skip(t, r) PROVE IndexTypeOK'
  BY <1>3 DEF Skip, indexVars
<1>4. ASSUME NEW t \in Threads, Clear(t) PROVE IndexTypeOK'
  BY <1>4 DEF Clear
<1>5. ASSUME NEW t \in Threads, Invalidate(t) PROVE IndexTypeOK'
  BY <1>5 DEF Invalidate
<1>6. ASSUME NEW t \in Threads, AskNames(t) PROVE IndexTypeOK'
  BY <1>6 DEF AskNames
<1>7. ASSUME NEW t \in Threads, Rebuild(t) PROVE IndexTypeOK'
  BY <1>7, TagKeysType DEF Rebuild
<1>8. ASSUME NEW t \in Threads, ReturnNames(t) PROVE IndexTypeOK'
  BY <1>8 DEF ReturnNames
<1>9. CASE IndexLost
  BY <1>9 DEF IndexLost
<1>10. CASE UNCHANGED indexVars
  BY <1>10 DEF indexVars
<1> QED
  BY <1>1, <1>2, <1>3, <1>4, <1>5, <1>6, <1>7, <1>8, <1>9, <1>10 DEF IndexNext, IndexStep

LEMMA IndexInvInit == IndexInit => IndexInv
<1> SUFFICES ASSUME IndexInit PROVE IndexInv
  OBVIOUS
<1>1. IndexTypeOK
  BY DEF IndexInit, IndexTypeOK
<1>2. WritersHold
  BY NobodyAssumption DEF IndexInit, WritersHold
<1>3. CacheAgrees /\ OneBehind
  BY DEF IndexInit, CacheAgrees, OneBehind
<1> QED BY <1>1, <1>2, <1>3 DEF IndexInv

LEMMA IndexInvStep ==
    ASSUME IndexInv, [IndexNext]_indexVars
    PROVE  IndexInv'
<1> USE NobodyAssumption
<1>0. IndexTypeOK /\ IndexTypeOK'
  BY IndexTypeStep DEF IndexInv
<1>1. ASSUME NEW t \in Threads, NEW r \in Record, StoreTag(t, r) PROVE IndexInv'
  <2>1. TagKeys' = TagKeys \cup {r.key} /\ r.key \in Keys
    BY <1>1, PutTag DEF StoreTag, Record
  <2>2. WritersHold'
    BY <1>0, <1>1 DEF StoreTag, IndexInv, WritersHold, IndexTypeOK
  <2>3. lock' # Nobody
    BY <1>1 DEF StoreTag
  <2>4. OneBehind'
    BY <1>1, <2>1 DEF StoreTag, IndexInv, CacheAgrees, OneBehind
  <2> QED BY <1>0, <2>2, <2>3, <2>4 DEF IndexInv, CacheAgrees
<1>2. ASSUME NEW t \in Threads, NEW r \in Record, AddRecord(t, r) PROVE IndexInv'
  <2>1. TagKeys' = TagKeys
    BY <1>2, PutOther DEF AddRecord
  <2> QED
    BY <1>0, <1>2, <2>1 DEF AddRecord, IndexInv, WritersHold, CacheAgrees, OneBehind
<1>3. ASSUME NEW t \in Threads, Clear(t) PROVE IndexInv'
  <2>1. TagKeys' = {}
    BY <1>3 DEF Clear, TagKeys, Of
  <2>2. WritersHold'
    BY <1>0, <1>3 DEF Clear, IndexInv, WritersHold, IndexTypeOK
  <2>3. lock' # Nobody
    BY <1>3 DEF Clear
  <2> QED BY <1>0, <2>1, <2>2, <2>3 DEF IndexInv, CacheAgrees, OneBehind
<1>4. ASSUME NEW t \in Threads, Invalidate(t) PROVE IndexInv'
  <2>1. WritersHold'
    BY <1>0, <1>4 DEF Invalidate, IndexInv, WritersHold, IndexTypeOK
  <2>2. cache' = NoAnswer
    BY <1>4 DEF Invalidate
  <2> QED BY <1>0, <2>1, <2>2 DEF IndexInv, CacheAgrees, OneBehind
<1>5. ASSUME NEW t \in Threads, AskNames(t) PROVE IndexInv'
  <2>1. TagKeys' = TagKeys
    BY <1>5 DEF AskNames, TagKeys, Of
  <2>2. WritersHold'
    BY <1>0, <1>5 DEF AskNames, IndexInv, WritersHold, IndexTypeOK
  <2> QED BY <1>0, <1>5, <2>1, <2>2 DEF AskNames, IndexInv, CacheAgrees, OneBehind
<1>6. ASSUME NEW t \in Threads, Rebuild(t) PROVE IndexInv'
  <2>1. TagKeys' = TagKeys
    BY <1>6 DEF Rebuild, TagKeys, Of
  <2>2. WritersHold'
    BY <1>0, <1>6 DEF Rebuild, IndexInv, WritersHold, IndexTypeOK
  <2> QED BY <1>0, <1>6, <2>1, <2>2 DEF Rebuild, IndexInv, CacheAgrees, OneBehind
<1>7. ASSUME NEW t \in Threads, ReturnNames(t) PROVE IndexInv'
  <2>1. TagKeys' = TagKeys
    BY <1>7 DEF ReturnNames, TagKeys, Of
  <2>2. WritersHold'
    BY <1>0, <1>7 DEF ReturnNames, IndexInv, WritersHold, IndexTypeOK
  <2> QED BY <1>0, <1>7, <2>1, <2>2 DEF ReturnNames, IndexInv, CacheAgrees, OneBehind
<1>8. CASE IndexLost
  BY <1>0, <1>8 DEF IndexLost, IndexInv, WritersHold, CacheAgrees, OneBehind
<1>9. CASE UNCHANGED indexVars
  BY <1>0, <1>9 DEF indexVars, IndexInv, WritersHold, CacheAgrees, OneBehind, TagKeys, Of
<1>10. ASSUME NEW t \in Threads, NEW r \in Record, Skip(t, r) PROVE IndexInv'
  BY <1>9, <1>10 DEF Skip
<1> QED
  BY <1>1, <1>2, <1>3, <1>4, <1>5, <1>6, <1>7, <1>8, <1>9, <1>10 DEF IndexNext, IndexStep

\* Type correctness of the index.
THEOREM IndexTyped == IndexSpec => []IndexTypeOK
<1>1. IndexInv => IndexTypeOK
  BY DEF IndexInv
<1> QED BY IndexInvInit, IndexInvStep, <1>1, PTL DEF IndexSpec

\* A cached set of tag names that no write is about to drop is the tag table's.
THEOREM CacheAlwaysAgrees == IndexSpec => []CacheAgrees
<1>1. IndexInv => CacheAgrees
  BY DEF IndexInv
<1> QED BY IndexInvInit, IndexInvStep, <1>1, PTL DEF IndexSpec

----------------------------------------------------------------------------
(* The refinement                                                           *)

LEMMA NamesInit == IndexInit => Names!Init
BY DEF IndexInit, Names!Init, Visible, TagKeys, Of

\* Every step of the index is a step of the set, or leaves it alone.
LEMMA NamesStep ==
    ASSUME IndexInv, [IndexNext]_indexVars
    PROVE  [Names!Next]_<<Visible, answer>>
<1> USE NobodyAssumption
<1>1. ASSUME NEW t \in Threads, NEW r \in Record, StoreTag(t, r)
      PROVE  (\E k \in Keys : Names!Learn(k)) \/ UNCHANGED <<Visible, answer>>
  <2>1. TagKeys' = TagKeys \cup {r.key} /\ r.key \in Keys
    BY <1>1, PutTag DEF StoreTag, Record
  <2>2. cache' = cache /\ answer' = answer
    BY <1>1 DEF StoreTag
  <2>3. CASE cache = NoAnswer
    BY <2>1, <2>2, <2>3 DEF Names!Learn, Visible
  <2>4. CASE cache # NoAnswer
    BY <2>2, <2>4 DEF Visible
  <2> QED BY <2>3, <2>4
<1>2. ASSUME NEW t \in Threads, NEW r \in Record, AddRecord(t, r)
      PROVE  UNCHANGED <<Visible, answer>>
  <2>1. TagKeys' = TagKeys
    BY <1>2, PutOther DEF AddRecord
  <2> QED BY <1>2, <2>1 DEF AddRecord, Visible
<1>3. ASSUME NEW t \in Threads, Clear(t)
      PROVE  Names!Forget \/ UNCHANGED <<Visible, answer>>
  <2>1. TagKeys' = {}
    BY <1>3 DEF Clear, TagKeys, Of
  <2> QED BY <1>3, <2>1 DEF Clear, Names!Forget, Visible
<1>4. ASSUME NEW t \in Threads, Invalidate(t)
      PROVE  \/ \E k \in Keys : Names!Learn(k)
             \/ Names!Forget
             \/ UNCHANGED <<Visible, answer>>
  <2>1. TagKeys' = TagKeys /\ cache' = NoAnswer /\ answer' = answer
    BY <1>4 DEF Invalidate, TagKeys, Of
  <2>2. Visible' = TagKeys
    BY <2>1 DEF Visible
  <2>3. lock # Nobody
    BY <1>4 DEF Invalidate, IndexInv, WritersHold
  <2>4. CASE cache = NoAnswer
    BY <2>1, <2>2, <2>4 DEF Visible
  <2>5. CASE TagKeys = {}
    BY <2>1, <2>2, <2>5 DEF Names!Forget
  <2>6. CASE cache # NoAnswer /\ \E k \in Keys : TagKeys = cache \cup {k}
    BY <2>1, <2>2, <2>6 DEF Names!Learn, Visible
  <2> QED BY <2>3, <2>4, <2>5, <2>6 DEF IndexInv, OneBehind
<1>5. ASSUME NEW t \in Threads, AskNames(t) PROVE UNCHANGED <<Visible, answer>>
  BY <1>5 DEF AskNames, Visible, TagKeys, Of
<1>6. ASSUME NEW t \in Threads, Rebuild(t) PROVE UNCHANGED <<Visible, answer>>
  <2>1. TagKeys' = TagKeys /\ cache' = TagKeys /\ answer' = answer
    BY <1>6 DEF Rebuild, TagKeys, Of
  <2>2. Visible = TagKeys
    BY <1>6 DEF Rebuild, IndexInv, CacheAgrees, Visible
  <2> QED BY <2>1, <2>2 DEF Visible
<1>7. ASSUME NEW t \in Threads, ReturnNames(t) PROVE Names!Read(t)
  <2>1. TagKeys' = TagKeys /\ cache' = cache
    BY <1>7 DEF ReturnNames, TagKeys, Of
  <2>2. cache \in {Visible, NoAnswer}
    BY DEF Visible
  <2> QED BY <1>7, <2>1, <2>2 DEF ReturnNames, Names!Read, Visible
<1>8. ASSUME IndexLost PROVE Names!Restart
  BY <1>8 DEF IndexLost, Names!Restart, Visible, TagKeys, Of
<1>9. ASSUME UNCHANGED indexVars PROVE UNCHANGED <<Visible, answer>>
  BY <1>9 DEF indexVars, Visible, TagKeys, Of
<1>10. ASSUME NEW t \in Threads, NEW r \in Record, Skip(t, r)
       PROVE  UNCHANGED <<Visible, answer>>
  BY <1>9, <1>10 DEF Skip
<1> QED
  BY <1>1, <1>2, <1>3, <1>4, <1>5, <1>6, <1>7, <1>8, <1>9, <1>10
     DEF IndexNext, IndexStep, Names!Next

\* The index of a project implements the set of names that TagNames describes.
THEOREM IndexImplementsNames == IndexSpec => TagNamesSpec
<1>1. IndexInv /\ [IndexNext]_indexVars => [Names!Next]_<<Visible, answer>>
  BY NamesStep
<1> QED
  BY NamesInit, IndexInvInit, IndexInvStep, <1>1, PTL DEF IndexSpec, TagNamesSpec, Names!Spec

----------------------------------------------------------------------------
(* Questions, loads and resets                                              *)

KnowInv == KnowTypeOK /\ IsFiniteSet(records)

\* A thread of the pool, an ingestion or a reset uses the index as one thread.
LEMMA UserThreads ==
    /\ Queries \subseteq Threads /\ Loaders \subseteq Threads /\ Resets \subseteq Threads
BY ThreadsAssumption

LEMMA StepOfIndex ==
    ASSUME KnowTypeOK, Step
    PROVE  [IndexNext]_indexVars
<1> USE UserThreads
<1>1. ASSUME NEW q \in Queries, GetNames(q) PROVE IndexNext
  BY <1>1 DEF GetNames, IndexNext, IndexStep
<1>2. ASSUME NEW q \in Queries, Receive(q) \/ QueryStep(q), ~GetNames(q) PROVE UNCHANGED indexVars
  BY <1>2 DEF Receive, QueryStep, Count, DetectTags, LegacyRag, ResolveScope, LookUp, ScanEnds,
     Retrieve, Scroll, Warm, Search, Ask, Judge
<1>3. ASSUME NEW l \in Loaders, Load(l) PROVE IndexNext
  <2>1. todo[l] \subseteq Record
    BY DEF KnowTypeOK
  <2> QED BY <1>3, <2>1 DEF Load, IndexNext, IndexStep
<1>4. ASSUME NEW x \in Resets, ResetStep(x) PROVE [IndexNext]_indexVars
  BY <1>4 DEF ResetStep, ResetIndex, DeletePoints, PopCaches, IndexNext, IndexStep
<1>5. Restart => IndexNext
  BY DEF Restart, IndexNext
<1> QED BY <1>1, <1>2, <1>3, <1>4, <1>5 DEF Step

LEMMA NextOfIndex ==
    ASSUME KnowTypeOK, [Next]_vars
    PROVE  [IndexNext]_indexVars
BY StepOfIndex DEF Next, Rest, vars

----------------------------------------------------------------------------
(* Types                                                                    *)

LEMMA ScannedFinite ==
    ASSUME IsFiniteSet(records), NEW r
    PROVE  Cardinality(Scanned(r)) \in Nat
<1>1. Scanned(r) \subseteq records
  BY DEF Scanned
<1> QED BY <1>1, FS_Subset, FS_CardinalityType

\* The index holds finitely many records, however large its tables may get.
LEMMA FiniteStep ==
    ASSUME IsFiniteSet(records), [IndexNext]_indexVars
    PROVE  IsFiniteSet(records')
<1>1. ASSUME NEW r, records' = Put(r) PROVE IsFiniteSet(records')
  <2>1. IsFiniteSet({x \in records : x.kind # r.kind \/ x.key # r.key})
    BY FS_Subset
  <2> QED BY <1>1, <2>1, FS_AddElement DEF Put
<1>2. IsFiniteSet({})
  BY FS_EmptySet
<1>3. records' = records \/ records' = {} \/ \E r \in Record : records' = Put(r)
  BY DEF IndexNext, IndexLost, IndexStep, StoreTag, AddRecord, Skip, Clear, Invalidate, AskNames,
     Rebuild, ReturnNames, indexVars
<1> QED BY <1>1, <1>2, <1>3

\* What a query has gathered, and the rest of the types.
QueryTypeOK ==
    /\ pc \in [Threads -> Points]
    /\ scope \in [Queries -> {NoScope} \cup SUBSET Files]
    /\ size \in [Queries -> Nat]
    /\ toWarm \in [Queries -> SUBSET Chunks]
    /\ sources \in [Queries -> SUBSET Files]
    /\ fast \in [Queries -> BOOLEAN]
    /\ reply \in [Queries -> [code : Codes, sources : SUBSET Files, flagged : SUBSET Tags]]
HeldTypeOK ==
    /\ points \subseteq Chunks /\ store \subseteq Chunks
    /\ req \in [Queries -> Requests]
    /\ todo \in [Loaders -> SUBSET Record]
    /\ restarts \in 0..MaxRestarts

LEMMA RespondType ==
    ASSUME QueryTypeOK, NEW q \in Queries, NEW c \in Codes, NEW S \in SUBSET Files,
           NEW F \in SUBSET Tags, Respond(q, c, S, F)
    PROVE  QueryTypeOK'
BY UserThreads DEF Respond, QueryTypeOK, Points

LEMMA RefuseType ==
    ASSUME QueryTypeOK, NEW q \in Queries, NEW c \in Codes, Refuse(q, c)
    PROVE  QueryTypeOK'
BY RespondType DEF Refuse

LEMMA GotoType ==
    ASSUME QueryTypeOK, NEW t \in Threads, NEW p \in Points, Goto(t, p),
           UNCHANGED <<Gathered, reply>>
    PROVE  QueryTypeOK'
BY DEF Goto, QueryTypeOK, Gathered

LEMMA FlagsType ==
    ASSUME NEW q \in Queries, NEW raw \in Replies, NEW known
    PROVE  Hallucinated(GuardText(q, ParseOutput(raw)), known) \in SUBSET Tags
<1>1. raw \in [json : BOOLEAN, summary : SUBSET Tags, evidence : SUBSET Tags]
  BY RepliesAssumption DEF ReplyOK
<1>2. ParseOutput(raw).summary \subseteq Tags /\ ParseOutput(raw).evidence \subseteq Tags
  BY <1>1 DEF ParseOutput
<1>3. GuardText(q, ParseOutput(raw)) \subseteq Tags
  BY <1>2 DEF GuardText
<1> QED BY <1>3 DEF Hallucinated

\* What a warming copies, the collection holds.
LEMMA LoadableInPoints == Loadable \subseteq points
BY DEF Loadable, FirstPage

LEMMA QueryTypeStep ==
    ASSUME KnowInv, Step
    PROVE  QueryTypeOK'
<1> USE UserThreads
<1>0. QueryTypeOK /\ HeldTypeOK /\ IndexTypeOK
  BY DEF KnowInv, KnowTypeOK, QueryTypeOK, HeldTypeOK
<1>1. ASSUME NEW q \in Queries, Receive(q) PROVE QueryTypeOK'
  BY <1>0, <1>1, GotoType DEF Receive, Points
<1>2. ASSUME NEW q \in Queries, Count(q) PROVE QueryTypeOK'
  BY <1>0, <1>2, GotoType, RefuseType DEF Count, Points, Codes
<1>3. ASSUME NEW q \in Queries, GetNames(q) PROVE QueryTypeOK'
  <2>1. Goto(q, "judge") \/ UNCHANGED pc
    BY <1>3 DEF GetNames
  <2> QED BY <1>0, <1>3, <2>1 DEF GetNames, Goto, Points, QueryTypeOK, Gathered
<1>4. ASSUME NEW q \in Queries, DetectTags(q) PROVE QueryTypeOK'
  BY <1>0, <1>4, GotoType, RefuseType DEF DetectTags, Points, Codes
<1>5. ASSUME NEW q \in Queries, LegacyRag(q) PROVE QueryTypeOK'
  BY <1>0, <1>5, RefuseType DEF LegacyRag, Codes
<1>6. ASSUME NEW q \in Queries, ResolveScope(q) PROVE QueryTypeOK'
  <2>1. RequestOK(req[q])
    BY <1>0, RequestsAssumption DEF HeldTypeOK
  <2>2. ASSUME NEW known PROVE req[q].files \cup (req[q].folders \cap known) \in SUBSET Files
    BY <2>1 DEF RequestOK
  <2>3. CASE UNCHANGED <<Gathered, reply>> /\ Goto(q, "lookup")
    BY <1>0, <2>3, GotoType DEF Points
  <2>4. CASE Refuse(q, "NO_RESULTS")
    BY <1>0, <2>4, RefuseType DEF Codes
  <2>5. ASSUME NEW known, NEW resolved, resolved = req[q].files \cup (req[q].folders \cap known),
               scope' = [scope EXCEPT ![q] = resolved], Goto(q, "lookup"),
               UNCHANGED <<size, toWarm, sources, fast, reply>>
        PROVE  QueryTypeOK'
    <3>1. resolved \in SUBSET Files
      BY <2>2, <2>5
    <3> QED BY <1>0, <2>5, <3>1 DEF QueryTypeOK, Goto, Points
  <2>6. ASSUME NEW known, NEW resolved, resolved = req[q].files \cup (req[q].folders \cap known),
               scope' = [scope EXCEPT ![q] = resolved], sources' = [sources EXCEPT ![q] = resolved],
               fast' = [fast EXCEPT ![q] = TRUE], Goto(q, "ask"), UNCHANGED <<size, toWarm, reply>>
        PROVE  QueryTypeOK'
    <3>1. resolved \in SUBSET Files
      BY <2>2, <2>6
    <3> QED BY <1>0, <2>6, <3>1 DEF QueryTypeOK, Goto, Points
  <2> QED BY <1>6, <2>3, <2>4, <2>5, <2>6 DEF ResolveScope
<1>7. ASSUME NEW q \in Queries, LookUp(q) PROVE QueryTypeOK'
  <2>1. Cardinality(Scanned(req[q])) \in Nat
    BY ScannedFinite DEF KnowInv
  <2> QED BY <1>0, <1>7, <2>1 DEF LookUp, QueryTypeOK, Goto, Points
<1>8. ASSUME NEW q \in Queries, ScanEnds(q) PROVE QueryTypeOK'
  <2>1. CASE Refuse(q, "QUERY_FAILED")
    BY <1>0, <2>1, RefuseType DEF Codes
  <2>2. ASSUME NEW F, F = {x.file : x \in Hits(req[q])} PROVE Within(q, F) \in SUBSET Files
    BY <1>0, <2>2 DEF Within, Hits, IndexTypeOK, Record
  <2>3. ASSUME NEW F, F \in SUBSET Files, sources' = [sources EXCEPT ![q] = F],
               NEW p \in {"retrieve", "ask"}, Goto(q, p), size' = [size EXCEPT ![q] = 0],
               UNCHANGED <<scope, toWarm, fast, reply>>
        PROVE  QueryTypeOK'
    BY <1>0, <2>3 DEF QueryTypeOK, Goto, Points
  <2>4. CASE SemanticRequired(req[q]) /\ ~Refuse(q, "QUERY_FAILED")
    BY <1>8, <2>2, <2>3, <2>4 DEF ScanEnds
  <2>5. CASE ~SemanticRequired(req[q]) /\ ~Refuse(q, "QUERY_FAILED")
    BY <1>8, <2>2, <2>3, <2>5 DEF ScanEnds
  <2> QED BY <2>1, <2>4, <2>5
<1>9. ASSUME NEW q \in Queries, Retrieve(q) PROVE QueryTypeOK'
  BY <1>0, <1>9, GotoType DEF Retrieve, Points
<1>10. ASSUME NEW q \in Queries, Scroll(q) PROVE QueryTypeOK'
  BY <1>0, <1>10, LoadableInPoints DEF Scroll, QueryTypeOK, HeldTypeOK, Goto, Points
<1>11. ASSUME NEW q \in Queries, Warm(q) PROVE QueryTypeOK'
  BY <1>0, <1>11 DEF Warm, QueryTypeOK, Goto, Points
<1>12. ASSUME NEW q \in Queries, Search(q) PROVE QueryTypeOK'
  <2>1. ASSUME NEW S \in SUBSET Chunks PROVE {FileOf[c] : c \in S} \in SUBSET Files
    BY ChunksAssumption
  <2>2. sources' \in [Queries -> SUBSET Files]
    <3>1. CASE UNCHANGED sources
      BY <1>0, <3>1 DEF QueryTypeOK
    <3>2. ASSUME NEW found, found = {c \in points \cup store : FileOf[c] \in Within(q, Files)},
                 NEW best \in Best(Wanted(q), found),
                 sources' = [sources EXCEPT ![q] = @ \cup {FileOf[c] : c \in best}]
          PROVE  sources' \in [Queries -> SUBSET Files]
      <4>1. best \in SUBSET Chunks
        BY <1>0, <3>2 DEF Best, HeldTypeOK
      <4>2. {FileOf[c] : c \in best} \in SUBSET Files
        BY <2>1, <4>1
      <4> QED BY <1>0, <3>2, <4>2 DEF QueryTypeOK
    <3> QED BY <1>12, <3>1, <3>2 DEF Search
  <2> QED BY <1>0, <1>12, <2>2 DEF Search, QueryTypeOK, Goto, Points
<1>13. ASSUME NEW q \in Queries, Ask(q) PROVE QueryTypeOK'
  BY <1>0, <1>13, GotoType, RefuseType DEF Ask, Points, Codes
<1>14. ASSUME NEW q \in Queries, Judge(q) PROVE QueryTypeOK'
  <2>1. CASE Refuse(q, "QUERY_FAILED")
    BY <1>0, <2>1, RefuseType DEF Codes
  <2>2. ASSUME NEW raw \in Replies,
               Respond(q, "ANSWER", sources[q],
                        Hallucinated(GuardText(q, ParseOutput(raw)), answer[q]))
        PROVE  QueryTypeOK'
    <3>1. sources[q] \in SUBSET Files
      BY <1>0 DEF QueryTypeOK
    <3>2. "ANSWER" \in Codes
      BY DEF Codes
    <3> QED BY <1>0, <2>2, <3>1, <3>2, FlagsType, RespondType
  <2> QED BY <1>14, <2>1, <2>2 DEF Judge
<1>15. ASSUME NEW l \in Loaders, Load(l) PROVE QueryTypeOK'
  BY <1>0, <1>15 DEF Load, QueryTypeOK, Gathered
<1>16. ASSUME NEW x \in Resets, ResetIndex(x) PROVE QueryTypeOK'
  BY <1>0, <1>16, GotoType DEF ResetIndex, Points
<1>17. ASSUME NEW x \in Resets, DeletePoints(x) PROVE QueryTypeOK'
  BY <1>0, <1>17, GotoType DEF DeletePoints, Points
<1>18. ASSUME NEW x \in Resets, PopCaches(x) PROVE QueryTypeOK'
  BY <1>0, <1>18, GotoType DEF PopCaches, Points
<1>19. ASSUME Restart PROVE QueryTypeOK'
  <2>1. reply' \in [Queries -> [code : Codes, sources : SUBSET Files, flagged : SUBSET Tags]]
    BY <1>0, <1>19 DEF Restart, QueryTypeOK, NoReply, Codes
  <2> QED BY <1>0, <1>19, <2>1 DEF Restart, QueryTypeOK, Points
<1> QED
  BY <1>1, <1>2, <1>3, <1>4, <1>5, <1>6, <1>7, <1>8, <1>9, <1>10, <1>11, <1>12, <1>13, <1>14,
     <1>15, <1>16, <1>17, <1>18, <1>19 DEF Step, QueryStep, ResetStep

LEMMA HeldTypeStep ==
    ASSUME KnowInv, Step
    PROVE  HeldTypeOK'
<1>0. HeldTypeOK
  BY DEF KnowInv, KnowTypeOK, HeldTypeOK
<1>1. ASSUME NEW q \in Queries, Receive(q) PROVE HeldTypeOK'
  BY <1>0, <1>1 DEF Receive, HeldTypeOK
<1>2. ASSUME NEW q \in Queries, Warm(q) PROVE HeldTypeOK'
  <2>1. toWarm[q] \subseteq Chunks
    BY DEF KnowInv, KnowTypeOK
  <2> QED BY <1>0, <1>2, <2>1 DEF Warm, HeldTypeOK
<1>3. ASSUME NEW q \in Queries, QueryStep(q), ~Warm(q) PROVE HeldTypeOK'
  <2>1. UNCHANGED Held
    BY <1>3 DEF QueryStep, Count, GetNames, DetectTags, LegacyRag, ResolveScope, LookUp, ScanEnds,
       Retrieve, Scroll, Search, Ask, Judge
  <2> QED BY <1>0, <2>1 DEF HeldTypeOK, Held
<1>4. ASSUME NEW l \in Loaders, Load(l) PROVE HeldTypeOK'
  <2>1. CASE UNCHANGED todo
    BY <1>0, <1>4, <2>1 DEF Load, HeldTypeOK
  <2>2. ASSUME NEW r, todo' = [todo EXCEPT ![l] = @ \ {r}] PROVE HeldTypeOK'
    BY <1>0, <1>4, <2>2 DEF Load, HeldTypeOK
  <2> QED BY <1>4, <2>1, <2>2 DEF Load
<1>5. ASSUME NEW x \in Resets, ResetStep(x) PROVE HeldTypeOK'
  BY <1>0, <1>5 DEF ResetStep, ResetIndex, DeletePoints, PopCaches, HeldTypeOK, Held
<1>6. ASSUME Restart PROVE HeldTypeOK'
  BY <1>0, <1>6, BoundAssumption DEF Restart, HeldTypeOK
<1> QED BY <1>1, <1>2, <1>3, <1>4, <1>5, <1>6 DEF Step

LEMMA KnowInvInit == Init => KnowInv
<1> SUFFICES ASSUME Init PROVE KnowInv
  OBVIOUS
<1>1. IndexTypeOK
  BY IndexInvInit DEF Init, IndexInv
<1>2. AnyRequest \in Requests
  BY RequestsAssumption DEF AnyRequest
<1>3. QueryTypeOK
  BY UserThreads DEF Init, QueryTypeOK, Points, NoReply, Codes
<1>4. HeldTypeOK
  BY <1>2, ParsedAssumption, BoundAssumption DEF Init, HeldTypeOK
<1>5. steady \in [Queries -> SUBSET Keys] /\ touched \in [Queries -> BOOLEAN]
  BY DEF Init
<1>6. IsFiniteSet(records)
  BY FS_EmptySet DEF Init, IndexInit
<1> QED BY <1>1, <1>3, <1>4, <1>5, <1>6 DEF KnowInv, KnowTypeOK, QueryTypeOK, HeldTypeOK

LEMMA KnowInvStep ==
    ASSUME KnowInv, [Next]_vars
    PROVE  KnowInv'
<1>1. ASSUME Step, Observe PROVE KnowInv'
  <2>1. IndexTypeOK'
    BY <1>1, StepOfIndex, IndexTypeStep DEF KnowInv, KnowTypeOK
  <2>2. IsFiniteSet(records')
    BY <1>1, StepOfIndex, FiniteStep DEF KnowInv
  <2>3. InForce' \subseteq Keys
    BY <2>1, TagKeysType DEF InForce, IndexTypeOK, TagKeys, Of, Record
  <2>4. steady' \in [Queries -> SUBSET Keys]
    BY <1>1, <2>3 DEF Observe, KnowInv, KnowTypeOK
  <2>5. touched' \in [Queries -> BOOLEAN]
    BY <1>1 DEF Observe, KnowInv, KnowTypeOK
  <2>6. QueryTypeOK' /\ HeldTypeOK'
    BY <1>1, QueryTypeStep, HeldTypeStep
  <2> QED BY <2>1, <2>2, <2>4, <2>5, <2>6 DEF KnowInv, KnowTypeOK, QueryTypeOK, HeldTypeOK
<1>2. ASSUME UNCHANGED vars PROVE KnowInv'
  BY <1>2 DEF vars, queryVars, indexVars, KnowInv, KnowTypeOK, IndexTypeOK, Held, Gathered
<1> QED BY <1>1, <1>2 DEF Next, Rest

\* Type correctness of the queries, ingestions and resets of a project.
THEOREM KnowledgeTyped == Spec => []KnowTypeOK
<1>1. KnowInv => KnowTypeOK
  BY DEF KnowInv
<1> QED BY KnowInvInit, KnowInvStep, <1>1, PTL DEF Spec

\* Whatever queries, ingestions, resets and restarts do, the index they share is
\* the one that StructuredIndex describes ...
THEOREM KnowledgeUsesIndex == Spec => IndexSpec
<1>1. Init => IndexInit
  BY DEF Init
<1>2. KnowInv => KnowTypeOK
  BY DEF KnowInv
<1> QED BY <1>1, <1>2, NextOfIndex, KnowInvInit, KnowInvStep, PTL DEF Spec, IndexSpec

\* ... so its cache agrees with its table,
THEOREM KnowledgeCacheAgrees == Spec => []CacheAgrees
BY KnowledgeUsesIndex, CacheAlwaysAgrees

\* and what all_tag_names gives to a detection of tags or to the guard is what a
\* plain set of names would give.
THEOREM KnowledgeImplementsNames == Spec => TagNamesSpec
BY KnowledgeUsesIndex, IndexImplementsNames

----------------------------------------------------------------------------
(* STRICT                                                                   *)

\* What the user has selected, and the points at which a scope is resolved.
Selected(q) == req[q].files \cup req[q].folders
Strict(q) == req[q].mode = "STRICT" /\ req[q].picked
Scoped == {"lookup", "scan", "retrieve", "scroll", "warm", "search"}

ScopeOf(q) ==
    /\ pc[q] = "idle" => scope[q] = NoScope /\ sources[q] = {}
    /\ pc[q] # "done" => reply[q] = NoReply
    /\ Strict(q) =>
          /\ sources[q] \subseteq Selected(q)
          /\ scope[q] # NoScope => scope[q] \subseteq Selected(q)
          /\ pc[q] \in Scoped => scope[q] # NoScope
          /\ reply[q].sources \subseteq Selected(q)
ScopeInv == \A q \in Queries : ScopeOf(q)

LEMMA ScopeInvInit == Init => ScopeInv
BY UserThreads DEF Init, ScopeInv, ScopeOf, NoReply, Scoped

\* A step that leaves alone what a query has gathered leaves its scope alone.
LEMMA ScopeKept ==
    ASSUME ScopeInv, NEW q \in Queries,
           pc'[q] = pc[q], req'[q] = req[q], scope'[q] = scope[q], sources'[q] = sources[q],
           reply'[q] = reply[q]
    PROVE  ScopeOf(q)'
BY DEF ScopeInv, ScopeOf, Strict, Selected

LEMMA ScopeRespond ==
    ASSUME KnowTypeOK, ScopeInv, NEW q \in Queries, NEW c, NEW F, UNCHANGED req,
           Respond(q, c, sources[q], F) \/ Refuse(q, c)
    PROVE  ScopeInv'
<1>1. ASSUME NEW p \in Queries, p # q PROVE ScopeOf(p)'
  <2> QED BY <1>1, ScopeKept, UserThreads DEF Respond, Refuse, KnowTypeOK
<1>2. ScopeOf(q)'
  BY UserThreads DEF ScopeInv, ScopeOf, Strict, Selected, Respond, Refuse, KnowTypeOK, Scoped
<1> QED BY <1>1, <1>2 DEF ScopeInv

LEMMA ScopeGoto ==
    ASSUME KnowTypeOK, ScopeInv, NEW q \in Queries, NEW p, Goto(q, p),
           UNCHANGED <<req, scope, sources, reply>>,
           p \in Points \ {"idle", "done"}, p \in Scoped => ~Strict(q) \/ pc[q] \in Scoped,
           pc[q] # "done"
    PROVE  ScopeInv'
<1>1. ASSUME NEW x \in Queries, x # q PROVE ScopeOf(x)'
  BY <1>1, ScopeKept, UserThreads DEF Goto, KnowTypeOK
<1>2. ScopeOf(q)'
  BY UserThreads DEF ScopeInv, ScopeOf, Strict, Selected, Goto, KnowTypeOK
<1> QED BY <1>1, <1>2 DEF ScopeInv

LEMMA ScopeOthers ==
    ASSUME KnowTypeOK, ScopeInv, NEW t \in Loaders \cup Resets, NEW p,
           pc' = pc \/ Goto(t, p), UNCHANGED <<req, scope, sources, reply>>
    PROVE  ScopeInv'
<1>1. ASSUME NEW q \in Queries PROVE ScopeOf(q)'
  BY <1>1, ScopeKept, UserThreads, ThreadsAssumption DEF Goto, KnowTypeOK
<1> QED BY <1>1 DEF ScopeInv

LEMMA ScopeInvStep ==
    ASSUME KnowInv, ScopeInv, Step
    PROVE  ScopeInv'
<1> USE UserThreads
<1>0. KnowTypeOK
  BY DEF KnowInv
<1>1. ASSUME NEW q \in Queries, Receive(q) PROVE ScopeInv'
  <2>1. ASSUME NEW x \in Queries, x # q PROVE ScopeOf(x)'
    BY <1>0, <1>1, <2>1, ScopeKept DEF Receive, Goto, Gathered, KnowTypeOK
  <2>2. ScopeOf(q)'
    <3>1. scope[q] = NoScope /\ sources[q] = {} /\ reply[q] = NoReply
      BY <1>1 DEF Receive, ScopeInv, ScopeOf
    <3>2. pc'[q] = "count" /\ UNCHANGED <<scope, sources, reply>>
      BY <1>0, <1>1 DEF Receive, Goto, Gathered, KnowTypeOK
    <3> QED BY <3>1, <3>2 DEF ScopeOf, Scoped, NoReply
  <2> QED BY <2>1, <2>2 DEF ScopeInv
<1>2. ASSUME NEW q \in Queries, Count(q) PROVE ScopeInv'
  BY <1>0, <1>2, ScopeRespond, ScopeGoto DEF Count, Gathered, Held, Points, Scoped
<1>3. ASSUME NEW q \in Queries, GetNames(q) PROVE ScopeInv'
  <2>1. CASE Goto(q, "judge")
    BY <1>0, <1>3, <2>1, ScopeGoto DEF GetNames, Gathered, Held, Points, Scoped
  <2>2. CASE UNCHANGED pc
    BY <1>3, <2>2, ScopeKept DEF GetNames, Gathered, Held, ScopeInv
  <2> QED BY <1>3, <2>1, <2>2 DEF GetNames
<1>4. ASSUME NEW q \in Queries, DetectTags(q) PROVE ScopeInv'
  BY <1>0, <1>4, ScopeRespond, ScopeGoto DEF DetectTags, Gathered, Held, Points, Scoped
<1>5. ASSUME NEW q \in Queries, LegacyRag(q) PROVE ScopeInv'
  BY <1>0, <1>5, ScopeRespond DEF LegacyRag, Held
<1>6. ASSUME NEW q \in Queries, ResolveScope(q) PROVE ScopeInv'
  <2>1. pc[q] = "scope" /\ UNCHANGED req
    BY <1>6 DEF ResolveScope, Held
  <2>2. CASE ~Selective(req[q]) /\ Goto(q, "lookup") /\ UNCHANGED <<Gathered, reply>>
    BY <1>0, <2>1, <2>2, ScopeGoto DEF Gathered, Points, Scoped, Selective, Strict
  <2>3. CASE Refuse(q, "NO_RESULTS")
    BY <1>0, <2>1, <2>3, ScopeRespond
  <2>4. ASSUME NEW known, NEW resolved, resolved = req[q].files \cup (req[q].folders \cap known),
               scope' = [scope EXCEPT ![q] = resolved], UNCHANGED reply,
               \/ Goto(q, "lookup") /\ UNCHANGED sources
               \/ Goto(q, "ask") /\ sources' = [sources EXCEPT ![q] = resolved]
        PROVE  ScopeInv'
    <3>1. RequestOK(req[q])
      BY <1>0, RequestsAssumption DEF KnowTypeOK
    <3>2. resolved \subseteq Selected(q) /\ resolved \in SUBSET Files
      BY <2>4, <3>1 DEF RequestOK, Selected
    <3>3. resolved # NoScope
      BY <3>2, NoScopeAssumption
    <3>4. ASSUME NEW x \in Queries, x # q PROVE ScopeOf(x)'
      BY <1>0, <2>1, <2>4, <3>4, ScopeKept DEF Goto, KnowTypeOK
    <3>5. scope'[q] = resolved /\ pc'[q] \in {"lookup", "ask"} /\ reply'[q] = reply[q]
      BY <1>0, <2>4 DEF Goto, KnowTypeOK
    <3>6. sources'[q] \in {sources[q], resolved}
      BY <1>0, <2>4 DEF KnowTypeOK
    <3>7. ScopeOf(q)'
      BY <2>1, <3>2, <3>3, <3>5, <3>6 DEF ScopeInv, ScopeOf, Strict, Selected
    <3> QED BY <3>4, <3>7 DEF ScopeInv
  <2> QED BY <1>6, <2>2, <2>3, <2>4 DEF ResolveScope
<1>7. ASSUME NEW q \in Queries, LookUp(q) PROVE ScopeInv'
  BY <1>0, <1>7, ScopeGoto DEF LookUp, Held, Points, Scoped
<1>8. ASSUME NEW q \in Queries, ScanEnds(q) PROVE ScopeInv'
  <2>1. CASE Refuse(q, "QUERY_FAILED")
    BY <1>0, <1>8, <2>1, ScopeRespond DEF ScanEnds, Held
  <2>2. CASE ~Refuse(q, "QUERY_FAILED")
    <3>1. PICK p \in {"retrieve", "ask"} : Goto(q, p)
      BY <1>8, <2>2 DEF ScanEnds
    <3>2. PICK F : sources' = [sources EXCEPT ![q] = Within(q, F)]
      BY <1>8, <2>2 DEF ScanEnds
    <3>3. UNCHANGED <<req, scope, reply>> /\ pc[q] = "scan"
      BY <1>8, <2>2 DEF ScanEnds, Held
    <3>4. ASSUME NEW x \in Queries, x # q PROVE ScopeOf(x)'
      BY <1>0, <3>1, <3>2, <3>3, <3>4, ScopeKept DEF Goto, KnowTypeOK
    <3>5. Strict(q) => Within(q, F) \subseteq Selected(q)
      BY <3>3 DEF Within, ScopeInv, ScopeOf, Strict, Scoped
    <3>6. sources'[q] = Within(q, F) /\ pc'[q] = p
      BY <1>0, <3>1, <3>2 DEF Goto, KnowTypeOK
    <3>7. ScopeOf(q)'
      BY <3>3, <3>5, <3>6 DEF ScopeInv, ScopeOf, Strict, Selected, Scoped
    <3> QED BY <3>4, <3>7 DEF ScopeInv
  <2> QED BY <2>1, <2>2
<1>9. ASSUME NEW q \in Queries, Retrieve(q) PROVE ScopeInv'
  BY <1>0, <1>9, ScopeGoto DEF Retrieve, Gathered, Held, Points, Scoped
<1>10. ASSUME NEW q \in Queries, Scroll(q) PROVE ScopeInv'
  BY <1>0, <1>10, ScopeGoto DEF Scroll, Held, Points, Scoped
<1>11. ASSUME NEW q \in Queries, Warm(q) PROVE ScopeInv'
  BY <1>0, <1>11, ScopeGoto DEF Warm, Points, Scoped
<1>12. ASSUME NEW q \in Queries, Search(q) PROVE ScopeInv'
  <2>1. PICK S : /\ S \subseteq Within(q, Files)
                 /\ sources' = [sources EXCEPT ![q] = @ \cup S]
    <3>1. CASE UNCHANGED sources
      <4>1. sources' = [sources EXCEPT ![q] = @ \cup {}]
        BY <1>0, <3>1 DEF KnowTypeOK
      <4> QED BY <4>1
    <3>2. ASSUME NEW found, found = {c \in points \cup store : FileOf[c] \in Within(q, Files)},
                 NEW best \in Best(Wanted(q), found),
                 sources' = [sources EXCEPT ![q] = @ \cup {FileOf[c] : c \in best}]
          PROVE  \E S : S \subseteq Within(q, Files) /\ sources' = [sources EXCEPT ![q] = @ \cup S]
      <4>1. {FileOf[c] : c \in best} \subseteq Within(q, Files)
        BY <3>2 DEF Best
      <4> QED BY <3>2, <4>1
    <3> QED BY <1>12, <3>1, <3>2 DEF Search
  <2>2. UNCHANGED <<req, scope, reply>> /\ pc[q] = "search" /\ Goto(q, "ask")
    BY <1>12 DEF Search, Held
  <2>3. ASSUME NEW x \in Queries, x # q PROVE ScopeOf(x)'
    BY <1>0, <2>1, <2>2, <2>3, ScopeKept DEF Goto, KnowTypeOK
  <2>4. Strict(q) => Within(q, Files) \subseteq Selected(q)
    BY <2>2 DEF Within, ScopeInv, ScopeOf, Strict, Scoped
  <2>5. sources'[q] = sources[q] \cup S /\ pc'[q] = "ask"
    BY <1>0, <2>1, <2>2 DEF Goto, KnowTypeOK
  <2>6. ScopeOf(q)'
    BY <2>1, <2>2, <2>4, <2>5 DEF ScopeInv, ScopeOf, Strict, Selected, Scoped
  <2> QED BY <2>3, <2>6 DEF ScopeInv
<1>13. ASSUME NEW q \in Queries, Ask(q) PROVE ScopeInv'
  BY <1>0, <1>13, ScopeRespond, ScopeGoto DEF Ask, Gathered, Held, Points, Scoped
<1>14. ASSUME NEW q \in Queries, Judge(q) PROVE ScopeInv'
  BY <1>0, <1>14, ScopeRespond DEF Judge, Held
<1>15. ASSUME NEW l \in Loaders, Load(l) PROVE ScopeInv'
  BY <1>0, <1>15, ScopeOthers DEF Load, Gathered
<1>16. ASSUME NEW x \in Resets, ResetStep(x) PROVE ScopeInv'
  BY <1>0, <1>16, ScopeOthers DEF ResetStep, ResetIndex, DeletePoints, PopCaches, Gathered, Held
<1>17. ASSUME Restart PROVE ScopeInv'
  BY <1>0, <1>17 DEF Restart, ScopeInv, ScopeOf, Strict, Selected, Scoped, NoReply, InFlight,
     KnowTypeOK
<1> QED
  BY <1>1, <1>2, <1>3, <1>4, <1>5, <1>6, <1>7, <1>8, <1>9, <1>10, <1>11, <1>12, <1>13, <1>14,
     <1>15, <1>16, <1>17 DEF Step, QueryStep

LEMMA ScopeInvNext ==
    ASSUME KnowInv, ScopeInv, [Next]_vars
    PROVE  ScopeInv'
<1>1. CASE UNCHANGED vars
  BY <1>1 DEF vars, queryVars, ScopeInv, ScopeOf, Strict, Selected
<1> QED BY <1>1, ScopeInvStep DEF Next, Rest

\* Under STRICT no answer cites a file outside the selection.
THEOREM StrictHolds == Spec => []StrictInScope
<1>1. ScopeInv => StrictInScope
  BY DEF ScopeInv, ScopeOf, StrictInScope, Strict, Selected
<1> QED BY KnowInvInit, KnowInvStep, ScopeInvInit, ScopeInvNext, <1>1, PTL DEF Spec

----------------------------------------------------------------------------
(* The guard and the failures                                               *)

\* A query calls the index at one point only.  What its guard was given holds
\* the names that have been in force since the query came; what it missed, it
\* missed because the index was written.
GuardOf(q) ==
    /\ at[q] # "written"
    /\ pc[q] # "names" => at[q] = "out"
    /\ InFlight(q) => steady[q] \subseteq InForce
    /\ InFlight(q) /\ lock # Nobody => touched[q]
    /\ pc[q] = "names" /\ at[q] = "return" /\ cache = NoAnswer => touched[q]
    /\ pc[q] = "judge" /\ answer[q] = NoAnswer => touched[q]
    /\ pc[q] = "judge" /\ answer[q] # NoAnswer => steady[q] \subseteq answer[q]
    /\ pc[q] = "scan" /\ ~touched[q] => size[q] = Cardinality(Scanned(req[q]))
GuardInv == \A q \in Queries : GuardOf(q)

LEMMA GuardInvInit == Init => GuardInv
BY UserThreads DEF Init, IndexInit, GuardInv, GuardOf, InFlight

\* What is observed of a query that goes on.
LEMMA Observed ==
    ASSUME KnowTypeOK, GuardInv, Observe, NEW q \in Queries, pc'[q] \notin {"idle", "done"}
    PROVE  /\ steady'[q] \subseteq InForce'
           /\ pc[q] # "idle" \/ pc'[q] # "count" => steady'[q] \subseteq steady[q]
           /\ touched[q] => touched'[q]
           /\ lock # Nobody \/ lock' # Nobody \/ records' # records => touched'[q]
<1>1. steady'[q] = CASE pc'[q] \in {"idle", "done"} -> {}
                     [] pc[q] = "idle" /\ pc'[q] = "count" -> InForce'
                     [] OTHER -> steady[q] \cap InForce'
  BY DEF Observe
<1>2. touched'[q] = (touched[q] \/ Written)
  BY DEF Observe, KnowTypeOK
<1> QED BY <1>1, <1>2 DEF Written, InFlight

\* A query that stays where it is while others use the index.
LEMMA GuardKept ==
    ASSUME KnowTypeOK, GuardInv, Observe, NEW q \in Queries,
           pc'[q] = pc[q], at'[q] = at[q], answer'[q] = answer[q], size'[q] = size[q],
           req'[q] = req[q], cache' = cache \/ cache' # NoAnswer \/ lock # Nobody
    PROVE  GuardOf(q)'
<1>1. GuardOf(q)
  BY DEF GuardInv
<1>2. CASE pc[q] \in {"idle", "done"}
  BY <1>1, <1>2 DEF GuardOf, InFlight
<1>3. CASE pc[q] \notin {"idle", "done"}
  <2>1. /\ steady'[q] \subseteq InForce' /\ steady'[q] \subseteq steady[q]
        /\ touched[q] => touched'[q]
        /\ lock # Nobody \/ lock' # Nobody \/ records' # records => touched'[q]
    BY <1>3, Observed
  <2>2. pc'[q] = "scan" /\ ~touched'[q] => size'[q] = Cardinality(Scanned(req[q]))'
    BY <1>1, <2>1 DEF GuardOf, Scanned
  <2> QED BY <1>1, <2>1, <2>2 DEF GuardOf
<1> QED BY <1>2, <1>3

\* A query that goes on to a point where nothing is remembered of the index.
LEMMA GuardMoved ==
    ASSUME KnowTypeOK, GuardInv, Observe, NEW q \in Queries,
           at'[q] = "out", pc'[q] \notin {"judge", "scan"}
    PROVE  GuardOf(q)'
<1>1. CASE pc'[q] \in {"idle", "done"}
  BY <1>1 DEF GuardOf, InFlight
<1>2. CASE pc'[q] \notin {"idle", "done"}
  BY <1>2, Observed DEF GuardOf
<1> QED BY <1>1, <1>2

\* A step of one query that does not call the index.
LEMMA GuardQuery ==
    ASSUME KnowTypeOK, GuardInv, Observe, NEW q \in Queries, UNCHANGED indexVars,
           NEW p \in Points \ {"judge", "scan"}, Goto(q, p), pc[q] # "names",
           \A x \in Queries \ {q} : size'[x] = size[x] /\ req'[x] = req[x]
    PROVE  GuardInv'
<1>1. ASSUME NEW x \in Queries, x # q PROVE GuardOf(x)'
  <2>1. pc'[x] = pc[x]
    BY <1>1, UserThreads DEF Goto, KnowTypeOK
  <2> QED BY <1>1, <2>1, GuardKept DEF indexVars
<1>2. GuardOf(q)'
  <2>1. pc'[q] = p
    BY UserThreads DEF Goto, KnowTypeOK
  <2>2. at'[q] = "out"
    BY DEF indexVars, GuardInv, GuardOf
  <2> QED BY <2>1, <2>2, GuardMoved
<1> QED BY <1>1, <1>2 DEF GuardInv

LEMMA GuardRespond ==
    ASSUME KnowTypeOK, GuardInv, Observe, NEW q \in Queries, UNCHANGED <<indexVars, req>>,
           NEW c, NEW S, NEW F, Respond(q, c, S, F), pc[q] # "names"
    PROVE  GuardInv'
<1>1. \A x \in Queries \ {q} : size'[x] = size[x] /\ req'[x] = req[x]
  BY DEF Respond, KnowTypeOK
<1>2. Goto(q, "done") /\ "done" \in Points \ {"judge", "scan"}
  BY DEF Respond, Goto, Points
<1>3. UNCHANGED indexVars
  OBVIOUS
<1> QED BY <1>1, <1>2, <1>3, GuardQuery

LEMMA GuardGoto ==
    ASSUME KnowTypeOK, GuardInv, Observe, NEW q \in Queries, UNCHANGED <<indexVars, req, size>>,
           NEW p \in Points \ {"judge", "scan"}, Goto(q, p), pc[q] # "names"
    PROVE  GuardInv'
<1>1. \A x \in Queries \ {q} : size'[x] = size[x] /\ req'[x] = req[x]
  OBVIOUS
<1>2. UNCHANGED indexVars
  OBVIOUS
<1> QED BY <1>1, <1>2, GuardQuery

\* A step of an ingestion or a reset.
LEMMA GuardOthers ==
    ASSUME KnowTypeOK, GuardInv, Observe, NEW t \in Loaders \cup Resets,
           pc' = pc \/ \E p \in Points : Goto(t, p), UNCHANGED <<req, size, answer>>,
           at' = at \/ \E a : at' = [at EXCEPT ![t] = a],
           cache' = cache \/ lock # Nobody
    PROVE  GuardInv'
<1>1. ASSUME NEW q \in Queries PROVE GuardOf(q)'
  <2>1. q # t
    BY ThreadsAssumption
  <2>2. pc'[q] = pc[q]
    BY <2>1, UserThreads DEF Goto, KnowTypeOK
  <2>3. at'[q] = at[q]
    BY <2>1, UserThreads DEF KnowTypeOK, IndexTypeOK
  <2> QED BY <2>2, <2>3, GuardKept
<1> QED BY <1>1 DEF GuardInv

\* What a query is given by its call of all_tag_names.
LEMMA GuardNames ==
    ASSUME KnowTypeOK, IndexInv, GuardInv, Observe, NEW q \in Queries, GetNames(q)
    PROVE  GuardInv'
<1> USE UserThreads
<1>0. /\ pc[q] = "names" /\ UNCHANGED <<req, size>>
      /\ cache' = cache \/ cache' # NoAnswer
      /\ UNCHANGED <<records, lock>>
  <2>1. TagKeys # NoAnswer
    BY TagKeysType, NoAnswerAssumption DEF KnowTypeOK, IndexTypeOK
  <2> QED BY <2>1 DEF GetNames, Held, Gathered, AskNames, Rebuild, ReturnNames
<1>1. ASSUME NEW x \in Queries, x # q PROVE GuardOf(x)'
  <2>1. pc'[x] = pc[x]
    BY <1>1 DEF GetNames, Goto, KnowTypeOK
  <2>2. at'[x] = at[x] /\ answer'[x] = answer[x]
    BY <1>1 DEF GetNames, AskNames, Rebuild, ReturnNames, KnowTypeOK, IndexTypeOK
  <2> QED BY <1>0, <2>1, <2>2, GuardKept
<1>2. GuardOf(q)
  BY DEF GuardInv
<1>3. CASE at[q] \in {"out", "rebuild"}
  <2>1. pc'[q] = "names"
    BY <1>0, <1>3 DEF GetNames, KnowTypeOK
  <2>2. at'[q] \in {"rebuild", "return"}
    BY <1>3 DEF GetNames, AskNames, Rebuild, ReturnNames, KnowTypeOK, IndexTypeOK
  <2>3. at'[q] = "return" => cache' # NoAnswer
    <3>1. TagKeys # NoAnswer
      BY TagKeysType, NoAnswerAssumption DEF KnowTypeOK, IndexTypeOK
    <3> QED BY <1>3, <3>1 DEF GetNames, AskNames, Rebuild, ReturnNames, KnowTypeOK, IndexTypeOK
  <2>4. GuardOf(q)'
    BY <2>1, <2>2, <2>3, Observed DEF GuardOf
  <2> QED BY <1>1, <2>4 DEF GuardInv
<1>4. CASE at[q] = "return"
  <2>1. ReturnNames(q)
    BY <1>4 DEF GetNames, AskNames, Rebuild
  <2>2. pc'[q] = "judge"
    BY <1>4 DEF GetNames, Goto, KnowTypeOK
  <2>3. at'[q] = "out" /\ answer'[q] = cache
    BY <2>1 DEF ReturnNames, KnowTypeOK, IndexTypeOK
  <2>4. cache = NoAnswer => touched[q]
    BY <1>0, <1>2, <1>4 DEF GuardOf
  <2>5. cache # NoAnswer => steady[q] \subseteq cache
    <3>1. steady[q] \subseteq InForce
      BY <1>0, <1>2 DEF GuardOf, InFlight
    <3>2. cache # NoAnswer => InForce \subseteq cache
      BY DEF InForce, Visible, IndexInv, CacheAgrees
    <3> QED BY <3>1, <3>2
  <2>6. GuardOf(q)'
    BY <1>0, <2>2, <2>3, <2>4, <2>5, Observed DEF GuardOf
  <2> QED BY <1>1, <2>6 DEF GuardInv
<1>5. at[q] \in {"out", "rebuild", "return"}
  BY <1>2 DEF GuardOf, KnowTypeOK, IndexTypeOK
<1> QED BY <1>3, <1>4, <1>5

LEMMA GuardInvStep ==
    ASSUME KnowInv, IndexInv, GuardInv, Step, Observe
    PROVE  GuardInv'
<1> USE UserThreads
<1>0. KnowTypeOK
  BY DEF KnowInv
<1>1. ASSUME NEW q \in Queries, Receive(q) PROVE GuardInv'
  <2>1. \A x \in Queries \ {q} : size'[x] = size[x] /\ req'[x] = req[x]
    BY <1>0, <1>1 DEF Receive, Gathered, KnowTypeOK
  <2>2. UNCHANGED indexVars /\ Goto(q, "count") /\ pc[q] = "idle"
    BY <1>1 DEF Receive
  <2>3. "count" \in Points \ {"judge", "scan"}
    BY DEF Points
  <2> QED BY <1>0, <2>1, <2>2, <2>3, GuardQuery
<1>2. ASSUME NEW q \in Queries, Count(q) PROVE GuardInv'
  BY <1>0, <1>2, GuardRespond, GuardGoto DEF Count, Refuse, Gathered, Held, Points
<1>3. ASSUME NEW q \in Queries, GetNames(q) PROVE GuardInv'
  BY <1>0, <1>3, GuardNames
<1>4. ASSUME NEW q \in Queries, DetectTags(q) PROVE GuardInv'
  BY <1>0, <1>4, GuardRespond, GuardGoto DEF DetectTags, Refuse, Gathered, Held, Points
<1>5. ASSUME NEW q \in Queries, LegacyRag(q) PROVE GuardInv'
  BY <1>0, <1>5, GuardRespond DEF LegacyRag, Refuse, Held
<1>6. ASSUME NEW q \in Queries, ResolveScope(q) PROVE GuardInv'
  <2>1. UNCHANGED <<indexVars, req>> /\ pc[q] = "scope"
    BY <1>6 DEF ResolveScope, Held
  <2>2. CASE Refuse(q, "NO_RESULTS")
    BY <1>0, <2>1, <2>2, GuardRespond DEF Refuse
  <2>3. CASE UNCHANGED size /\ \E p \in {"lookup", "ask"} : Goto(q, p)
    BY <1>0, <2>1, <2>3, GuardGoto DEF Points
  <2> QED BY <1>6, <2>2, <2>3 DEF ResolveScope, Gathered
<1>7. ASSUME NEW q \in Queries, LookUp(q) PROVE GuardInv'
  <2>1. ASSUME NEW x \in Queries, x # q PROVE GuardOf(x)'
    BY <1>0, <1>7, <2>1, GuardKept DEF LookUp, Goto, Held, indexVars, KnowTypeOK
  <2>2. pc'[q] = "scan" /\ at'[q] = "out" /\ UNCHANGED <<indexVars, req>>
    BY <1>0, <1>7 DEF LookUp, Goto, Held, indexVars, KnowTypeOK, GuardInv, GuardOf
  <2>3. size'[q] = Cardinality(Scanned(req[q]))'
    BY <1>0, <1>7, <2>2 DEF LookUp, Scanned, indexVars, KnowTypeOK
  <2>4. GuardOf(q)'
    BY <1>0, <2>2, <2>3, Observed DEF GuardOf
  <2> QED BY <2>1, <2>4 DEF GuardInv
<1>8. ASSUME NEW q \in Queries, ScanEnds(q) PROVE GuardInv'
  <2>1. UNCHANGED <<indexVars, req>> /\ pc[q] = "scan"
    BY <1>8 DEF ScanEnds, Held
  <2>2. CASE Refuse(q, "QUERY_FAILED")
    BY <1>0, <2>1, <2>2, GuardRespond DEF Refuse
  <2>3. CASE size' = [size EXCEPT ![q] = 0] /\ \E p \in {"retrieve", "ask"} : Goto(q, p)
    <3>1. \A x \in Queries \ {q} : size'[x] = size[x] /\ req'[x] = req[x]
      BY <1>0, <2>1, <2>3 DEF KnowTypeOK
    <3>2. {"retrieve", "ask"} \subseteq Points \ {"judge", "scan"}
      BY DEF Points
    <3>3. UNCHANGED indexVars
      BY <2>1
    <3> QED BY <1>0, <2>1, <2>3, <3>1, <3>2, <3>3, GuardQuery
  <2> QED BY <1>8, <2>2, <2>3 DEF ScanEnds
<1>9. ASSUME NEW q \in Queries, Retrieve(q) PROVE GuardInv'
  BY <1>0, <1>9, GuardGoto DEF Retrieve, Gathered, Held, Points
<1>10. ASSUME NEW q \in Queries, Scroll(q) PROVE GuardInv'
  BY <1>0, <1>10, GuardGoto DEF Scroll, Held, Points
<1>11. ASSUME NEW q \in Queries, Warm(q) PROVE GuardInv'
  BY <1>0, <1>11, GuardGoto DEF Warm, Points
<1>12. ASSUME NEW q \in Queries, Search(q) PROVE GuardInv'
  BY <1>0, <1>12, GuardGoto DEF Search, Held, Points
<1>13. ASSUME NEW q \in Queries, Ask(q) PROVE GuardInv'
  <2>1. UNCHANGED <<indexVars, req>> /\ pc[q] = "ask"
    BY <1>13 DEF Ask, Held
  <2>2. CASE Refuse(q, "LLM_FAILED")
    BY <1>0, <2>1, <2>2, GuardRespond DEF Refuse
  <2>3. CASE Goto(q, "names") /\ UNCHANGED size
    BY <1>0, <2>1, <2>3, GuardGoto DEF Points
  <2> QED BY <1>13, <2>2, <2>3 DEF Ask, Gathered
<1>14. ASSUME NEW q \in Queries, Judge(q) PROVE GuardInv'
  BY <1>0, <1>14, GuardRespond DEF Judge, Refuse, Held
<1>15. ASSUME NEW l \in Loaders, Load(l) PROVE GuardInv'
  <2>1. UNCHANGED <<pc, req, size>>
    BY <1>15 DEF Load, Gathered
  <2>2. UNCHANGED answer /\ (at' = at \/ \E a : at' = [at EXCEPT ![l] = a])
    BY <1>15 DEF Load, Invalidate, StoreTag, AddRecord, Skip, indexVars
  <2>3. cache' = cache \/ lock # Nobody
    BY <1>15, NobodyAssumption
       DEF Load, Invalidate, StoreTag, AddRecord, Skip, indexVars, IndexInv, WritersHold
  <2> QED BY <1>0, <2>1, <2>2, <2>3, GuardOthers
<1>16. ASSUME NEW x \in Resets, ResetIndex(x) PROVE GuardInv'
  <2>1. UNCHANGED <<req, size>> /\ \E p \in Points : Goto(x, p)
    BY <1>16 DEF ResetIndex, Held, Gathered, Points
  <2>2. UNCHANGED answer /\ (at' = at \/ \E a : at' = [at EXCEPT ![x] = a])
    BY <1>16 DEF ResetIndex, Clear, Invalidate
  <2>3. cache' = cache \/ lock # Nobody
    BY <1>16, NobodyAssumption DEF ResetIndex, Clear, Invalidate, IndexInv, WritersHold
  <2> QED BY <1>0, <2>1, <2>2, <2>3, GuardOthers
<1>17. ASSUME NEW x \in Resets, DeletePoints(x) \/ PopCaches(x) PROVE GuardInv'
  <2>1. /\ UNCHANGED <<req, size, answer, at, cache>>
        /\ \E p \in Points : Goto(x, p)
    BY <1>17 DEF DeletePoints, PopCaches, Gathered, Points, indexVars
  <2> QED BY <1>0, <2>1, GuardOthers
<1>18. ASSUME Restart PROVE GuardInv'
  <2>1. ASSUME NEW q \in Queries PROVE GuardOf(q)'
    BY <1>0, <1>18, GuardMoved DEF Restart, IndexLost
  <2> QED BY <2>1 DEF GuardInv
<1> QED
  BY <1>1, <1>2, <1>3, <1>4, <1>5, <1>6, <1>7, <1>8, <1>9, <1>10, <1>11, <1>12, <1>13, <1>14,
     <1>15, <1>16, <1>17, <1>18 DEF Step, QueryStep, ResetStep

\* All that is needed of the index and of the queries at once.
GuardedInv == KnowInv /\ IndexInv /\ ScopeInv /\ GuardInv

LEMMA GuardedInit == Init => GuardedInv
BY KnowInvInit, IndexInvInit, ScopeInvInit, GuardInvInit DEF GuardedInv, Init

LEMMA GuardedStep ==
    ASSUME GuardedInv, [Next]_vars
    PROVE  GuardedInv'
<1>1. KnowInv'
  BY KnowInvStep DEF GuardedInv
<1>2. IndexInv'
  BY NextOfIndex, IndexInvStep DEF GuardedInv, KnowInv
<1>3. GuardInv'
  <2>1. CASE UNCHANGED vars
    BY <2>1 DEF vars, queryVars, indexVars, GuardedInv, GuardInv, GuardOf, InFlight, InForce,
       Visible, TagKeys, Of, Scanned
  <2> QED BY <2>1, GuardInvStep DEF GuardedInv, Next, Rest
<1>4. ScopeInv'
  BY ScopeInvNext DEF GuardedInv
<1> QED BY <1>1, <1>2, <1>3, <1>4 DEF GuardedInv

\* Only the query that answers changes its reply.
LEMMA ReplyOf ==
    ASSUME KnowTypeOK, NEW q \in Queries, NEW p \in Queries, NEW c, NEW S, NEW F,
           Respond(q, c, S, F), reply'[p] # reply[p]
    PROVE  p = q /\ reply'[p] = [code |-> c, sources |-> S, flagged |-> F]
BY DEF Respond, KnowTypeOK

LEMMA RefusalOf ==
    ASSUME KnowTypeOK, NEW q \in Queries, NEW p \in Queries, NEW c, Refuse(q, c),
           reply'[p] # reply[p]
    PROVE  p = q /\ reply'[p].code = c /\ reply'[p].flagged = {}
<1>1. p = q /\ reply'[p] = [code |-> c, sources |-> {}, flagged |-> {}]
  BY ReplyOf DEF Refuse
<1> QED BY <1>1

\* The steps that answer, and what they answer.
LEMMA Answered ==
    ASSUME KnowTypeOK, Step, NEW p \in Queries, reply'[p] # reply[p]
    PROVE  \/ reply'[p].code # "QUERY_FAILED" /\ reply'[p].flagged = {}
           \/ req[p].endpoint = "knowledge" /\ reply'[p].flagged = {}
           \/ ScanEnds(p) /\ Cardinality(Scanned(req[p])) # size[p] /\ reply'[p].flagged = {}
           \/ Judge(p) /\ answer[p] = NoAnswer /\ reply'[p].flagged = {}
           \/ /\ Judge(p) /\ answer[p] # NoAnswer /\ reply'[p].code = "ANSWER"
              /\ reply'[p].flagged \cap answer[p] = {}
<1> DEFINE Other == reply'[p].code # "QUERY_FAILED" /\ reply'[p].flagged = {}
           Outside == req[p].endpoint = "knowledge" /\ reply'[p].flagged = {}
<1>1. ASSUME NEW q \in Queries, Count(q) PROVE Other \/ Outside
  <2>1. PICK c \in {"NOT_READY", "QUERY_FAILED"} :
            Refuse(q, c) /\ (c = "QUERY_FAILED" => req[q].endpoint = "knowledge")
    BY <1>1 DEF Count
  <2> QED BY <2>1, RefusalOf
<1>2. ASSUME NEW q \in Queries, DetectTags(q) PROVE Other \/ Outside
  <2>1. PICK c : Refuse(q, c) /\ req[q].endpoint = "knowledge"
    BY <1>2 DEF DetectTags
  <2> QED BY <2>1, RefusalOf
<1>3. ASSUME NEW q \in Queries, LegacyRag(q) \/ ResolveScope(q) \/ Ask(q) PROVE Other
  <2>1. PICK c \in {"LEGACY_RAG", "NO_RESULTS", "LLM_FAILED"} : Refuse(q, c)
    BY <1>3 DEF LegacyRag, ResolveScope, Ask
  <2> QED BY <2>1, RefusalOf
<1>4. ASSUME NEW q \in Queries, ScanEnds(q)
      PROVE  ScanEnds(p) /\ Cardinality(Scanned(req[p])) # size[p] /\ reply'[p].flagged = {}
  <2>1. Refuse(q, "QUERY_FAILED") /\ Cardinality(Scanned(req[q])) # size[q]
    BY <1>4 DEF ScanEnds
  <2> QED BY <1>4, <2>1, RefusalOf
<1>5. ASSUME NEW q \in Queries, Judge(q)
      PROVE  \/ Judge(p) /\ answer[p] = NoAnswer /\ reply'[p].flagged = {}
             \/ /\ Judge(p) /\ answer[p] # NoAnswer /\ reply'[p].code = "ANSWER"
                /\ reply'[p].flagged \cap answer[p] = {}
  <2>1. CASE answer[q] = NoAnswer
    <3>1. Refuse(q, "QUERY_FAILED")
      BY <1>5, <2>1 DEF Judge
    <3> QED BY <1>5, <2>1, <3>1, RefusalOf
  <2>2. CASE answer[q] # NoAnswer
    <3>1. PICK raw : Respond(q, "ANSWER", sources[q],
                             Hallucinated(GuardText(q, ParseOutput(raw)), answer[q]))
      BY <1>5, <2>2 DEF Judge
    <3> DEFINE Flags == Hallucinated(GuardText(q, ParseOutput(raw)), answer[q])
    <3>2. p = q /\ reply'[p] = [code |-> "ANSWER", sources |-> sources[q], flagged |-> Flags]
      BY <3>1, ReplyOf
    <3>3. Flags \cap answer[q] = {}
      BY DEF Hallucinated
    <3> HIDE DEF Flags
    <3> QED BY <1>5, <2>2, <3>2, <3>3
  <2> QED BY <2>1, <2>2
<1>6. ASSUME NEW q \in Queries,
             \/ Receive(q) \/ GetNames(q) \/ LookUp(q) \/ Retrieve(q) \/ Scroll(q) \/ Warm(q)
             \/ Search(q)
      PROVE  UNCHANGED reply
  BY <1>6 DEF Receive, GetNames, LookUp, Retrieve, Scroll, Warm, Search
<1>7. ASSUME NEW t, Load(t) \/ ResetStep(t) PROVE UNCHANGED reply
  BY <1>7 DEF Load, ResetStep, ResetIndex, DeletePoints, PopCaches
<1>8. ASSUME Restart PROVE Other
  BY <1>8 DEF Restart, NoReply
<1> QED BY <1>1, <1>2, <1>3, <1>4, <1>5, <1>6, <1>7, <1>8 DEF Step, QueryStep

\* The guard flags no tag that was indexed all the while.
THEOREM GuardIsFair == Spec => NeverFlagsHeld
<1>1. ASSUME GuardedInv, [Next]_vars, NEW q \in Queries
      PROVE  reply'[q].flagged = reply[q].flagged \/ reply'[q].flagged \cap steady[q] = {}
  <2>1. CASE reply'[q] = reply[q]
    BY <2>1
  <2>2. CASE reply'[q] # reply[q]
    <3>1. Step
      BY <1>1, <2>2 DEF Next, Rest, vars, queryVars
    <3>2. \/ reply'[q].flagged = {}
          \/ Judge(q) /\ answer[q] # NoAnswer /\ reply'[q].flagged \cap answer[q] = {}
      BY <1>1, <2>2, <3>1, Answered DEF GuardedInv, KnowInv
    <3>3. Judge(q) /\ answer[q] # NoAnswer => steady[q] \subseteq answer[q]
      BY <1>1 DEF GuardedInv, GuardInv, GuardOf, Judge
    <3> QED BY <3>2, <3>3
  <2> QED BY <2>1, <2>2
<1>2. GuardedInv /\ [Next]_vars =>
        [\A q \in Queries : reply'[q].flagged = reply[q].flagged
                            \/ reply'[q].flagged \cap steady[q] = {}]_vars
  BY <1>1
<1> QED BY GuardedInit, GuardedStep, <1>2, PTL DEF Spec, NeverFlagsHeld

\* A question fails for its model's sake, or because the index was written.
THEOREM FailuresExplained == Spec => FailureExplained
<1>1. ASSUME GuardedInv, [Next]_vars, NEW q \in Queries, req[q].endpoint = "project", InFlight(q),
             reply'[q].code = "QUERY_FAILED"
      PROVE  touched[q]
  <2>1. reply'[q] # reply[q]
    BY <1>1 DEF GuardedInv, ScopeInv, ScopeOf, InFlight, NoReply
  <2>2. Step
    BY <1>1, <2>1 DEF Next, Rest, vars, queryVars
  <2>3. \/ ScanEnds(q) /\ Cardinality(Scanned(req[q])) # size[q]
        \/ Judge(q) /\ answer[q] = NoAnswer
    BY <1>1, <2>1, <2>2, Answered DEF GuardedInv, KnowInv
  <2> QED BY <2>3, <1>1 DEF GuardedInv, GuardInv, GuardOf, ScanEnds, Judge, KnowInv, KnowTypeOK
<1>2. GuardedInv /\ [Next]_vars =>
        [\A q \in Queries :
            req[q].endpoint = "project" /\ InFlight(q) /\ reply'[q].code = "QUERY_FAILED"
                => touched[q]]_vars
  BY <1>1
<1> QED BY GuardedInit, GuardedStep, <1>2, PTL DEF Spec, FailureExplained

----------------------------------------------------------------------------
(* The keyword index                                                        *)

\* What can be loaded changes with the collection only.
LEMMA LoadableOfPoints == points' = points => Loadable' = Loadable
BY DEF Loadable, FirstPage

\* A query that warms has what the keyword index lacks; a reset drops the index
\* when the collection has nothing of the project any more.
WarmInv ==
    /\ \A q \in Queries :
          toWarm[q] # {} => pc[q] = "warm" /\ Loadable \subseteq store \cup toWarm[q]
    /\ \A x \in Resets : pc[x] = "pop" => points = {}
    /\ store = {} \/ Loadable \subseteq store \/ \E q \in Queries : toWarm[q] # {}

LEMMA WarmInvInit == Init => WarmInv
BY UserThreads DEF Init, WarmInv

\* A query that is not warming goes on, or answers.
LEMMA WarmQuery ==
    ASSUME KnowTypeOK, WarmInv, NEW q \in Queries, UNCHANGED <<points, store, toWarm>>,
           pc[q] # "warm", pc' = pc \/ \E p \in Points : Goto(q, p)
    PROVE  WarmInv'
<1>1. ASSUME NEW x \in Queries, toWarm'[x] # {}
      PROVE  pc'[x] = "warm" /\ Loadable' \subseteq store' \cup toWarm'[x]
  BY <1>1, LoadableOfPoints, UserThreads DEF WarmInv, Goto, KnowTypeOK
<1>2. ASSUME NEW x \in Resets, pc'[x] = "pop" PROVE points' = {}
  BY <1>2, UserThreads, ThreadsAssumption DEF WarmInv, Goto, KnowTypeOK
<1> QED BY <1>1, <1>2, LoadableOfPoints DEF WarmInv

LEMMA WarmRespond ==
    ASSUME KnowTypeOK, WarmInv, NEW q \in Queries, UNCHANGED <<points, store>>, pc[q] # "warm",
           NEW c, NEW S, NEW F, Respond(q, c, S, F)
    PROVE  WarmInv'
<1>1. UNCHANGED toWarm
  BY DEF Respond, WarmInv, KnowTypeOK
<1>2. Goto(q, "done") /\ "done" \in Points
  BY DEF Respond, Goto, Points
<1> QED BY <1>1, <1>2, WarmQuery

LEMMA WarmInvStep ==
    ASSUME KnowInv, WarmInv, Step
    PROVE  WarmInv'
<1> USE UserThreads
<1>0. KnowTypeOK
  BY DEF KnowInv
<1>1. ASSUME NEW q \in Queries,
             \/ Receive(q) \/ Count(q) \/ GetNames(q) \/ DetectTags(q) \/ LegacyRag(q)
             \/ ResolveScope(q) \/ LookUp(q) \/ ScanEnds(q) \/ Retrieve(q) \/ Search(q) \/ Ask(q)
             \/ Judge(q)
      PROVE  WarmInv'
  <2>1. UNCHANGED <<points, store>> /\ pc[q] # "warm"
    BY <1>1 DEF Receive, Count, GetNames, DetectTags, LegacyRag, ResolveScope, LookUp, ScanEnds,
       Retrieve, Search, Ask, Judge, Held
  <2>2. \/ \E c, S, F : Respond(q, c, S, F)
        \/ UNCHANGED toWarm /\ (pc' = pc \/ \E p \in Points : Goto(q, p))
    BY <1>1 DEF Receive, Count, GetNames, DetectTags, LegacyRag, ResolveScope, LookUp, ScanEnds,
       Retrieve, Search, Ask, Judge, Refuse, Gathered, Points
  <2> QED BY <1>0, <2>1, <2>2, WarmQuery, WarmRespond
<1>2. ASSUME NEW q \in Queries, Scroll(q) PROVE WarmInv'
  <2>1. PICK page \in {Loadable, {}} :
            /\ toWarm' = [toWarm EXCEPT ![q] = page]
            /\ Goto(q, IF page = {} THEN "search" ELSE "warm")
    BY <1>2 DEF Scroll
  <2>2. UNCHANGED <<points, store>> /\ toWarm[q] = {}
    BY <1>2 DEF Scroll, Held, WarmInv
  <2>3. /\ toWarm'[q] = page /\ (page # {} => pc'[q] = "warm")
        /\ \A x \in Queries \ {q} : toWarm'[x] = toWarm[x] /\ pc'[x] = pc[x]
        /\ \A x \in Resets : pc'[x] = pc[x]
    BY <1>0, <2>1, ThreadsAssumption DEF Goto, KnowTypeOK
  <2> QED BY <2>2, <2>3, LoadableOfPoints DEF WarmInv
<1>3. ASSUME NEW q \in Queries, Warm(q) PROVE WarmInv'
  <2>1. PICK c \in toWarm[q] :
            /\ store' = store \cup {c} /\ toWarm' = [toWarm EXCEPT ![q] = @ \ {c}]
            /\ Goto(q, IF toWarm[q] = {c} THEN "search" ELSE "warm")
    BY <1>3 DEF Warm
  <2>2. UNCHANGED points
    BY <1>3 DEF Warm
  <2>3. /\ toWarm'[q] = toWarm[q] \ {c} /\ (toWarm[q] # {c} => pc'[q] = "warm")
        /\ \A x \in Queries \ {q} : toWarm'[x] = toWarm[x] /\ pc'[x] = pc[x]
        /\ \A x \in Resets : pc'[x] = pc[x]
    BY <1>0, <2>1, ThreadsAssumption DEF Goto, KnowTypeOK
  <2>4. Loadable \subseteq store' \cup toWarm'[q]
    BY <2>1, <2>3 DEF WarmInv
  <2> QED BY <2>1, <2>2, <2>3, <2>4, LoadableOfPoints DEF WarmInv
<1>4. ASSUME NEW l \in Loaders, Load(l) PROVE WarmInv'
  BY <1>4, LoadableOfPoints DEF Load, Gathered, WarmInv
<1>5. ASSUME NEW x \in Resets, ResetStep(x) PROVE WarmInv'
  <2>1. UNCHANGED toWarm
    BY <1>5 DEF ResetStep, ResetIndex, DeletePoints, PopCaches, Gathered
  <2>2. \A q \in Queries : pc'[q] = pc[q]
    BY <1>0, <1>5, ThreadsAssumption
       DEF ResetStep, ResetIndex, DeletePoints, PopCaches, Goto, KnowTypeOK
  <2>3. points' \in {points, {}} /\ (store' = store \/ (store' = {} /\ points = {}))
    <3>1. pc[x] = "pop" => points = {}
      BY DEF WarmInv
    <3> QED BY <1>5, <3>1 DEF ResetStep, ResetIndex, DeletePoints, PopCaches, Held
  <2>7. Loadable' \in {Loadable, {}} /\ (points = {} => Loadable = {})
    <3>1. points' = {} => Loadable' = {}
      BY DEF Loadable, FirstPage
    <3> QED BY <2>3, <3>1, LoadableInPoints, LoadableOfPoints
  <2>4. \A y \in Resets : pc'[y] = "pop" => points' = {}
    BY <1>0, <1>5
       DEF ResetStep, ResetIndex, DeletePoints, PopCaches, Held, WarmInv, Goto, KnowTypeOK
  <2>5. ASSUME NEW q \in Queries, toWarm'[q] # {}
        PROVE  pc'[q] = "warm" /\ Loadable' \subseteq store' \cup toWarm'[q]
    <3>1. toWarm[q] # {} /\ pc'[q] = pc[q]
      BY <2>1, <2>2, <2>5
    <3>2. pc[q] = "warm" /\ Loadable \subseteq store \cup toWarm[q]
      BY <3>1 DEF WarmInv
    <3>3. Loadable' \subseteq store' \cup toWarm[q]
      BY <2>3, <2>7, <3>2
    <3> QED BY <2>1, <3>1, <3>2, <3>3
  <2>6. \/ store' = {} \/ Loadable' \subseteq store'
        \/ \E q \in Queries : toWarm'[q] # {}
    <3>1. \/ store = {} \/ Loadable \subseteq store
          \/ \E q \in Queries : toWarm[q] # {}
      BY DEF WarmInv
    <3>2. store = {} => store' = {}
      BY <2>3
    <3>3. Loadable \subseteq store => store' = {} \/ Loadable' \subseteq store'
      BY <2>3, <2>7
    <3> QED BY <2>1, <3>1, <3>2, <3>3
  <2> QED BY <2>4, <2>5, <2>6 DEF WarmInv
<1>6. ASSUME Restart PROVE WarmInv'
  BY <1>0, <1>6 DEF Restart, WarmInv
<1> QED BY <1>1, <1>2, <1>3, <1>4, <1>5, <1>6 DEF Step, QueryStep

\* A question that finds the keyword index warm, with nobody warming it, misses no
\* chunk that a warming could load.
THEOREM WarmMissesNone == Spec => []WarmLoadsAll
<1>1. WarmInv => WarmLoadsAll
  BY DEF WarmInv, WarmLoadsAll
<1>2. KnowInv /\ WarmInv /\ [Next]_vars => WarmInv'
  <2>1. CASE UNCHANGED vars
    BY <2>1, LoadableOfPoints DEF vars, queryVars, WarmInv
  <2> QED BY <2>1, WarmInvStep DEF Next, Rest
<1> QED BY KnowInvInit, KnowInvStep, WarmInvInit, <1>1, <1>2, PTL DEF Spec
====

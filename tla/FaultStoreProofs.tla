--------------------------- MODULE FaultStoreProofs ---------------------------
(* What an answered upload has stored stands, and no reader sees the gap     *)
(* between the old dataset and the new one, for any number of requests and   *)
(* projects and any limit.                                                   *)
EXTENDS FaultStore, FiniteSetTheorems, TLAPS

\* The event loop runs one upload at a time.
OneAtATime == \A x, y \in loop : x = y

\* Which requests come to which point, that who goes for a lock finds one, and
\* that before the first __init__ only analyses have got past the service.
Places ==
    /\ \A r \in Requests : pc[r] = "building" => r \in Uploads
    /\ \A r \in Requests : pc[r] \in {"ensure", "gateway", "orchestrator"} => r \in Analyses
    /\ \A r \in Requests : pc[r] \in {"waiting", "inside", "building"} =>
          r \notin Analyses /\ mine[r] > 0
    /\ initialized <=> lock > 0
    /\ lock = 0 => \A r \in Requests :
                        pc[r] \in {"work", "waiting", "inside", "building"} => r \in Analyses

\* A lock is held by one request at a time.
Exclusion == \A x, y \in Inside : mine[x] = mine[y] => x = y

\* The dataset that an upload replaces has gone before its statistics are built.
Gap == \A u \in Requests : pc[u] = "building" => store[project[u]] = NoDataset

\* There is room for the dataset whose statistics are being built.
RoomLeft ==
    /\ IsFiniteSet(Loaded) /\ Cardinality(Loaded) =< MaxDatasets
    /\ \A u \in Requests :
          pc[u] = "building" => Cardinality(Loaded \cup {project[u]}) =< MaxDatasets

StoreInv ==
    /\ StoreTypeOK /\ OneAtATime /\ Places /\ Exclusion
    /\ Gap /\ RoomLeft /\ LoadedStays

----------------------------------------------------------------------------
(* Types and places                                                         *)

LEMMA SmallSets == Cardinality({}) = 0 /\ \A x : Cardinality({x}) = 1
BY FS_EmptySet, FS_Singleton

\* A request is over, and the loop given back if it was an upload.
LEMMA LoopEnds ==
    ASSUME StoreTypeOK, OneAtATime, NEW r \in Requests, pc[r] \notin {"idle", "done"},
           pc' = [pc EXCEPT ![r] = "done"]
    PROVE  /\ InFlight' \cap Uploads = loop \ {r}
           /\ Cardinality(loop \ {r}) =< 1
           /\ r \notin Uploads => loop \ {r} = loop
<1>1. InFlight' \cap Uploads = loop \ {r}
  BY DEF StoreTypeOK, InFlight
<1>2. r \in Uploads => loop \ {r} = {}
  BY DEF StoreTypeOK, InFlight, OneAtATime
<1>3. r \notin Uploads => loop \ {r} = loop
  BY DEF StoreTypeOK
<1>4. Cardinality(loop \ {r}) =< 1
  <2>1. CASE r \in Uploads
    BY <1>2, <2>1, SmallSets
  <2>2. CASE r \notin Uploads
    BY <1>3, <2>2 DEF StoreTypeOK
  <2> QED BY <2>1, <2>2
<1> QED BY <1>1, <1>3, <1>4

\* A request goes on: the uploads in flight stay the same.
LEMMA LoopStays ==
    ASSUME StoreTypeOK, NEW r \in Requests, NEW point \in Points, pc[r] \notin {"idle", "done"},
           r \in Uploads => point \notin {"idle", "done"},
           pc' = [pc EXCEPT ![r] = point]
    PROVE  InFlight' \cap Uploads = InFlight \cap Uploads
BY DEF StoreTypeOK, InFlight, Requests

LEMMA StoreInitInv == StoreInit => StoreInv
<1> SUFFICES ASSUME StoreInit PROVE StoreInv
  OBVIOUS
<1> USE DEF StoreInit
<1>1. InFlight = {} /\ Loaded = {} /\ Inside = {}
  BY DEF InFlight, Loaded, NoDatasets, Inside
<1>2. StoreTypeOK
  <2>1. loop = InFlight \cap Uploads /\ Cardinality(loop) =< 1
    BY <1>1, SmallSets
  <2>2. held = {<<mine[r], r>> : r \in Inside}
    BY <1>1
  <2>3. answer \in [Requests -> Answers] /\ mine \in [Requests -> 0..lock]
    BY DEF Answers, Outcomes
  <2> QED BY <2>1, <2>2, <2>3 DEF StoreTypeOK, Dataset, Points, NoDatasets
<1>3. OneAtATime /\ Gap /\ LoadedStays /\ Exclusion
  BY <1>1 DEF OneAtATime, Gap, LoadedStays, Exclusion
<1>5. Places
  BY DEF Places
<1>4. RoomLeft
  BY <1>1, FS_EmptySet, MaxDatasetsAssumption DEF RoomLeft
<1> QED BY <1>2, <1>3, <1>4, <1>5 DEF StoreInv

\* Who holds a lock is inside, and holds the one it has gone for.
LEMMA InsideHolds ==
    ASSUME StoreTypeOK, NEW u \in Inside
    PROVE  <<mine[u], u>> \in held
BY DEF StoreTypeOK

LEMMA HolderInside ==
    ASSUME StoreTypeOK, NEW h \in held
    PROVE  h[2] \in Inside /\ h[2] \in Requests /\ h[1] = mine[h[2]]
BY DEF StoreTypeOK, Inside

\* The locks that are held stay held.
LEMMA HeldStays ==
    ASSUME StoreTypeOK, held' = held, Inside' = Inside,
           \A x \in Inside : mine'[x] = mine[x]
    PROVE  held' = {<<mine'[x], x>> : x \in Inside'}
BY DEF StoreTypeOK

LEMMA InsideStays ==
    ASSUME \A x \in Requests : pc'[x] \in {"inside", "building"} <=> pc[x] \in {"inside", "building"}
    PROVE  Inside' = Inside
BY DEF Inside

LEMMA HeldGrows ==
    ASSUME StoreTypeOK, NEW r \in Requests, held' = held \cup {<<mine[r], r>>},
           mine' = mine, pc' = [pc EXCEPT ![r] = "inside"]
    PROVE  Inside' = Inside \cup {r} /\ held' = {<<mine'[x], x>> : x \in Inside'}
<1>1. Inside' = Inside \cup {r}
  BY DEF Inside, StoreTypeOK
<1> QED BY <1>1 DEF StoreTypeOK

LEMMA HeldShrinks ==
    ASSUME StoreTypeOK, NEW r \in Requests, held' = {h \in held : h[2] # r},
           mine' = [mine EXCEPT ![r] = 0], pc' = [pc EXCEPT ![r] = "done"]
    PROVE  /\ Inside' = Inside \ {r} /\ \A x \in Inside' : mine'[x] = mine[x]
           /\ held' = {<<mine'[x], x>> : x \in Inside'}
<1>1. Inside' = Inside \ {r}
  BY DEF Inside, StoreTypeOK
<1>2. \A x \in Inside' : mine'[x] = mine[x]
  BY <1>1 DEF StoreTypeOK, Inside
<1> QED BY <1>1, <1>2 DEF StoreTypeOK

\* What all leave alone that let go of the lock and are answered.
LEMMA WithEnds ==
    ASSUME StoreTypeOK, OneAtATime, NEW r \in Requests, NEW a \in Answers,
           pc[r] \notin {"idle", "done"}, LeaveWith(r, a), lock' = lock
    PROVE  /\ pc' \in [Requests -> Points] /\ answer' \in [Requests -> Answers]
           /\ mine' \in [Requests -> 0..lock']
           /\ loop' = InFlight' \cap Uploads /\ Cardinality(loop') =< 1 /\ OneAtATime'
           /\ held' = {<<mine'[x], x>> : x \in Inside'}
<1> USE DEF LeaveWith, Goto, Reply
<1>1. loop' = InFlight' \cap Uploads /\ Cardinality(loop') =< 1
  BY LoopEnds
<1>2. held' = {<<mine'[x], x>> : x \in Inside'}
  BY HeldShrinks
<1>3. OneAtATime'
  BY DEF OneAtATime
<1> QED BY <1>1, <1>2, <1>3 DEF StoreTypeOK, Points

LEMMA TypeStep ==
    ASSUME StoreTypeOK, OneAtATime, Places, NEW r \in Requests, Arrive(r) \/ RequestStep(r)
    PROVE  StoreTypeOK' /\ OneAtATime'
<1> USE DEF Goto, Reply, bootVars
<1>1. ASSUME Arrive(r) PROVE StoreTypeOK' /\ OneAtATime'
  <2> DEFINE point == IF r \in Analyses THEN "ensure" ELSE "service"
  <2>1. InFlight' \cap Uploads = IF r \in Uploads THEN {r} ELSE loop
    BY <1>1, KindsDisjoint DEF Arrive, StoreTypeOK, InFlight, Requests
  <2>2. loop' = InFlight' \cap Uploads /\ Cardinality(loop') =< 1 /\ OneAtATime'
    <3>1. CASE r \in Uploads
      <4>1. loop' = {r}
        BY <1>1, <3>1 DEF Arrive
      <4>2. Cardinality({r}) = 1
        BY SmallSets
      <4> QED BY <2>1, <3>1, <4>1, <4>2 DEF OneAtATime
    <3>2. CASE r \notin Uploads
      BY <1>1, <2>1, <3>2 DEF Arrive, StoreTypeOK, OneAtATime
    <3> QED BY <3>1, <3>2
  <2>3. held' = {<<mine'[x], x>> : x \in Inside'}
    BY <1>1, HeldStays, InsideStays DEF Arrive, StoreTypeOK, Inside
  <2>4. pc' \in [Requests -> Points] /\ project' \in [Requests -> Projects]
    BY <1>1 DEF Arrive, StoreTypeOK, Points
  <2> QED BY <1>1, <2>2, <2>3, <2>4 DEF Arrive, StoreTypeOK
<1>2. ASSUME EnsureGateway(r) PROVE StoreTypeOK' /\ OneAtATime'
  <2>1. InFlight' \cap Uploads = InFlight \cap Uploads
    BY <1>2, LoopStays DEF EnsureGateway, Points
  <2>2. held' = {<<mine'[x], x>> : x \in Inside'}
    BY <1>2, HeldStays, InsideStays DEF EnsureGateway, StoreTypeOK, Inside
  <2> QED BY <1>2, <2>1, <2>2 DEF EnsureGateway, StoreTypeOK, OneAtATime, Points
<1>3. ASSUME MakeGateway(r) PROVE StoreTypeOK' /\ OneAtATime'
  <2>1. InFlight' \cap Uploads = InFlight \cap Uploads
    BY <1>3, LoopStays DEF MakeGateway, Points
  <2>2. held' = {<<mine'[x], x>> : x \in Inside'}
    BY <1>3, HeldStays, InsideStays DEF MakeGateway, StoreTypeOK, Inside
  <2> QED BY <1>3, <2>1, <2>2 DEF MakeGateway, StoreTypeOK, OneAtATime, Points
<1>4. ASSUME MakeOrchestrator(r) PROVE StoreTypeOK' /\ OneAtATime'
  <2>1. InFlight' \cap Uploads = InFlight \cap Uploads
    BY <1>4, LoopStays DEF MakeOrchestrator, Points
  <2>2. held' = {<<mine'[x], x>> : x \in Inside'}
    BY <1>4, HeldStays, InsideStays DEF MakeOrchestrator, StoreTypeOK, Inside
  <2> QED BY <1>4, <2>1, <2>2 DEF MakeOrchestrator, StoreTypeOK, OneAtATime, Points
<1>5. ASSUME AskService(r) PROVE StoreTypeOK' /\ OneAtATime'
  <2>1. InFlight' \cap Uploads = InFlight \cap Uploads
    BY <1>5, LoopStays DEF AskService, Points, Onward
  <2>2. held' = {<<mine'[x], x>> : x \in Inside'}
    BY <1>5, HeldStays, InsideStays DEF AskService, StoreTypeOK, Inside, Onward
  <2> QED BY <1>5, <2>1, <2>2 DEF AskService, StoreTypeOK, OneAtATime, Points, Onward
<1>6. ASSUME InitService(r) PROVE StoreTypeOK' /\ OneAtATime'
  <2>1. InFlight' \cap Uploads = InFlight \cap Uploads
    BY <1>6, LoopStays DEF InitService, Points
  <2>2. held' = {<<mine'[x], x>> : x \in Inside'}
    BY <1>6, HeldStays, InsideStays DEF InitService, StoreTypeOK, Inside
  <2> QED BY <1>6, <2>1, <2>2 DEF InitService, StoreTypeOK, OneAtATime, Points, Dataset, NoDatasets
<1>14. ASSUME InitLock(r) PROVE StoreTypeOK' /\ OneAtATime'
  <2>1. InFlight' \cap Uploads = InFlight \cap Uploads
    BY <1>14, LoopStays DEF InitLock, Points, Onward
  <2>2. held' = {<<mine'[x], x>> : x \in Inside'}
    BY <1>14, HeldStays, InsideStays DEF InitLock, StoreTypeOK, Inside, Onward
  <2>3. lock' \in Nat /\ mine' \in [Requests -> 0..lock']
    BY <1>14 DEF InitLock, StoreTypeOK
  <2> QED BY <1>14, <2>1, <2>2, <2>3 DEF InitLock, StoreTypeOK, OneAtATime, Points, Onward
<1>15. ASSUME GoForLock(r) PROVE StoreTypeOK' /\ OneAtATime'
  <2>1. InFlight' \cap Uploads = InFlight \cap Uploads
    BY <1>15, LoopStays DEF GoForLock, Points
  <2>2. held' = {<<mine'[x], x>> : x \in Inside'}
    BY <1>15, HeldStays, InsideStays DEF GoForLock, StoreTypeOK, Inside
  <2>3. mine' \in [Requests -> 0..lock']
    BY <1>15 DEF GoForLock, StoreTypeOK
  <2> QED BY <1>15, <2>1, <2>2, <2>3 DEF GoForLock, StoreTypeOK, OneAtATime, Points
<1>16. ASSUME TakeLock(r) PROVE StoreTypeOK' /\ OneAtATime'
  <2>1. InFlight' \cap Uploads = InFlight \cap Uploads
    BY <1>16, LoopStays DEF TakeLock, Points
  <2>2. held' = {<<mine'[x], x>> : x \in Inside'}
    BY <1>16, HeldGrows DEF TakeLock
  <2> QED BY <1>16, <2>1, <2>2 DEF TakeLock, StoreTypeOK, OneAtATime, Points
<1>7. ASSUME Refuse(r) PROVE StoreTypeOK' /\ OneAtATime'
  <2>1. "refused" \in Answers
    BY DEF Answers, Outcomes
  <2> QED BY <1>7, <2>1, WithEnds DEF Refuse, StoreTypeOK
<1>8. ASSUME BeginUpload(r) PROVE StoreTypeOK' /\ OneAtATime'
  <2>1. InFlight' \cap Uploads = InFlight \cap Uploads
    BY <1>8, LoopStays DEF BeginUpload, Points
  <2>2. held' = {<<mine'[x], x>> : x \in Inside'}
    BY <1>8, HeldStays, InsideStays DEF BeginUpload, StoreTypeOK
  <2> QED BY <1>8, <2>1, <2>2 DEF BeginUpload, StoreTypeOK, OneAtATime, Points, Dataset
<1>9. ASSUME EndUpload(r) PROVE StoreTypeOK' /\ OneAtATime'
  <2>0. r \in Uploads /\ r \in Answers
    BY <1>9 DEF EndUpload, Places, Answers
  <2> QED BY <1>9, <2>0, WithEnds DEF EndUpload, StoreTypeOK, Dataset
<1>10. ASSUME FailUpload(r) PROVE StoreTypeOK' /\ OneAtATime'
  <2>1. "failed" \in Answers
    BY DEF Answers, Outcomes
  <2> QED BY <1>10, <2>1, WithEnds DEF FailUpload, StoreTypeOK, Dataset
<1>11. ASSUME Reset(r) PROVE StoreTypeOK' /\ OneAtATime'
  <2>1. "missing" \in Answers /\ "cleared" \in Answers
    BY DEF Answers, Outcomes
  <2> QED BY <1>11, <2>1, WithEnds DEF Reset, StoreTypeOK, Dataset
<1>12. ASSUME Read(r) PROVE StoreTypeOK' /\ OneAtATime'
  <2>1. Found(r) \in Answers
    BY DEF Found, StoreTypeOK, Dataset, Answers, Outcomes
  <2> QED BY <1>12, <2>1, WithEnds DEF Read, StoreTypeOK
<1>13. ASSUME Analyse(r) PROVE StoreTypeOK' /\ OneAtATime'
  <2>1. InFlight' \cap Uploads = InFlight \cap Uploads
    BY <1>13, LoopEnds, KindsDisjoint DEF Analyse, StoreTypeOK
  <2>2. held' = {<<mine'[x], x>> : x \in Inside'}
    BY <1>13, HeldStays, InsideStays DEF Analyse, StoreTypeOK, Inside
  <2> QED BY <1>13, <2>1, <2>2
          DEF Analyse, Found, StoreTypeOK, OneAtATime, Points, Dataset, Answers, Outcomes
<1> QED BY <1>1, <1>2, <1>3, <1>4, <1>5, <1>6, <1>7, <1>8, <1>9, <1>10, <1>11, <1>12, <1>13,
        <1>14, <1>15, <1>16 DEF RequestStep

----------------------------------------------------------------------------
(* The parts of the invariant                                               *)

LEMMA PlacesStep ==
    ASSUME StoreTypeOK, Places, NEW r \in Requests, Arrive(r) \/ RequestStep(r)
    PROVE  Places'
<1> USE DEF Goto, Reply, LeaveWith, bootVars, Places, StoreTypeOK
<1>1. ASSUME Arrive(r) PROVE Places'
  BY <1>1 DEF Arrive
<1>2. ASSUME EnsureGateway(r) PROVE Places'
  BY <1>2 DEF EnsureGateway
<1>3. ASSUME MakeGateway(r) PROVE Places'
  BY <1>3 DEF MakeGateway
<1>4. ASSUME MakeOrchestrator(r) PROVE Places'
  BY <1>4 DEF MakeOrchestrator
<1>5. ASSUME AskService(r) PROVE Places'
  BY <1>5 DEF AskService, Onward
<1>6. ASSUME InitService(r) PROVE Places'
  BY <1>6 DEF InitService
<1>13. ASSUME InitLock(r) PROVE Places'
  BY <1>13 DEF InitLock, Onward
<1>14. ASSUME GoForLock(r) PROVE Places'
  <2>1. lock > 0
    BY <1>14 DEF GoForLock
  <2> QED BY <1>14, <2>1 DEF GoForLock
<1>15. ASSUME TakeLock(r) PROVE Places'
  BY <1>15 DEF TakeLock
<1>7. ASSUME Refuse(r) PROVE Places'
  BY <1>7 DEF Refuse
<1>8. ASSUME BeginUpload(r) PROVE Places'
  BY <1>8, KindsDisjoint DEF BeginUpload
<1>9. ASSUME EndUpload(r) \/ FailUpload(r) PROVE Places'
  <2>1. r \notin Analyses
    BY <1>9, KindsDisjoint DEF EndUpload, FailUpload
  <2> QED BY <1>9, <2>1 DEF EndUpload, FailUpload
<1>11. ASSUME Reset(r) PROVE Places'
  BY <1>11, KindsDisjoint DEF Reset
<1>12. ASSUME Read(r) \/ Analyse(r) PROVE Places'
  BY <1>12 DEF Read, Analyse
<1> QED BY <1>1, <1>2, <1>3, <1>4, <1>5, <1>6, <1>7, <1>8, <1>9, <1>11, <1>12, <1>13,
        <1>14, <1>15 DEF RequestStep

\* Who takes a lock finds it free, and nobody inside changes to another.
LEMMA ExclusionStep ==
    ASSUME StoreTypeOK, Exclusion, NEW r \in Requests, Arrive(r) \/ RequestStep(r)
    PROVE  Exclusion'
<1> USE DEF Goto, Reply, LeaveWith, bootVars
<1>1. CASE Inside' \subseteq Inside /\ \A x \in Inside' : mine'[x] = mine[x]
  BY <1>1 DEF Exclusion
<1>2. CASE TakeLock(r)
  <2>1. Inside' = Inside \cup {r} /\ mine' = mine
    BY <1>2, HeldGrows DEF TakeLock
  <2>2. \A x \in Inside : mine[x] # mine[r]
    BY <1>2, InsideHolds DEF TakeLock, LockFree
  <2> QED BY <2>1, <2>2 DEF Exclusion
<1>3. CASE Arrive(r) \/ EnsureGateway(r) \/ MakeGateway(r) \/ MakeOrchestrator(r)
             \/ AskService(r) \/ InitService(r) \/ InitLock(r) \/ GoForLock(r)
  <2>1. /\ pc[r] \notin {"inside", "building"} /\ pc'[r] \notin {"inside", "building"}
        /\ \A x \in Requests \ {r} : pc'[x] = pc[x] /\ mine'[x] = mine[x]
    BY <1>3 DEF Arrive, EnsureGateway, MakeGateway, MakeOrchestrator, AskService, InitService,
       InitLock, GoForLock, Onward, StoreTypeOK
  <2> QED BY <1>1, <2>1 DEF Inside
<1>4. CASE BeginUpload(r) \/ Analyse(r)
  BY <1>1, <1>4 DEF BeginUpload, Analyse, Inside, StoreTypeOK
<1>5. CASE Refuse(r) \/ EndUpload(r) \/ FailUpload(r) \/ Reset(r) \/ Read(r)
  <2>1. Inside' = Inside \ {r} /\ \A x \in Inside' : mine'[x] = mine[x]
    BY <1>5, HeldShrinks DEF Refuse, EndUpload, FailUpload, Reset, Read
  <2> QED BY <1>1, <2>1
<1> QED BY <1>2, <1>3, <1>4, <1>5 DEF RequestStep

\* Only one upload builds at a time.
LEMMA OneBuilds ==
    ASSUME StoreTypeOK, OneAtATime, Places, NEW x \in Requests, NEW y \in Requests,
           pc[x] = "building", pc[y] = "building"
    PROVE  x = y
<1>1. x \in loop /\ y \in loop
  BY DEF StoreTypeOK, Places, InFlight
<1> QED BY <1>1 DEF OneAtATime

\* A step that is about no store and begins no upload.
LEMMA Quiet ==
    ASSUME StoreTypeOK, NEW r \in Requests, Arrive(r) \/ RequestStep(r)
    PROVE  \/ /\ store' = store /\ loaded' = loaded
              /\ \A u \in Requests : pc'[u] = "building" <=> pc[u] = "building"
              /\ \A u \in Requests : pc[u] = "building" => project'[u] = project[u]
           \/ InitService(r) \/ BeginUpload(r) \/ EndUpload(r) \/ FailUpload(r) \/ Reset(r)
<1> USE DEF Goto, Reply, LeaveWith, bootVars, StoreTypeOK
<1>1. CASE Arrive(r)
  BY <1>1 DEF Arrive
<1>2. CASE EnsureGateway(r) \/ MakeGateway(r) \/ MakeOrchestrator(r)
  BY <1>2 DEF EnsureGateway, MakeGateway, MakeOrchestrator
<1>3. CASE AskService(r) \/ InitLock(r) \/ GoForLock(r) \/ TakeLock(r)
  BY <1>3 DEF AskService, InitLock, GoForLock, TakeLock, Onward
<1>4. CASE Refuse(r) \/ Read(r) \/ Analyse(r)
  BY <1>4 DEF Refuse, Read, Analyse
<1> QED BY <1>1, <1>2, <1>3, <1>4 DEF RequestStep

LEMMA GapStep ==
    ASSUME StoreTypeOK, OneAtATime, Places, Gap, NEW r \in Requests, Arrive(r) \/ RequestStep(r)
    PROVE  Gap'
<1> USE DEF Goto, Reply, LeaveWith, bootVars, Gap, StoreTypeOK
<1>1. CASE /\ store' = store
           /\ \A u \in Requests : pc'[u] = "building" <=> pc[u] = "building"
           /\ \A u \in Requests : pc[u] = "building" => project'[u] = project[u]
  BY <1>1
<1>2. CASE InitService(r)
  BY <1>2 DEF InitService, NoDatasets
<1>3. CASE BeginUpload(r)
  BY <1>3 DEF BeginUpload
<1>4. CASE EndUpload(r)
  <2>1. \A u \in Requests : pc'[u] # "building"
    BY <1>4, OneBuilds DEF EndUpload
  <2> QED BY <2>1
<1>5. CASE FailUpload(r)
  BY <1>5 DEF FailUpload
<1>6. CASE Reset(r)
  BY <1>6 DEF Reset
<1> QED BY <1>1, <1>2, <1>3, <1>4, <1>5, <1>6, Quiet

LEMMA RoomStep ==
    ASSUME StoreTypeOK, OneAtATime, Places, Gap, RoomLeft,
           NEW r \in Requests, Arrive(r) \/ RequestStep(r)
    PROVE  RoomLeft'
<1> USE DEF Goto, Reply, LeaveWith, bootVars, StoreTypeOK
<1>0. Cardinality(Loaded) \in Nat /\ MaxDatasets \in Nat \ {0}
  BY FS_CardinalityType, MaxDatasetsAssumption DEF RoomLeft
<1>1. CASE /\ store' = store
           /\ \A u \in Requests : pc'[u] = "building" <=> pc[u] = "building"
           /\ \A u \in Requests : pc[u] = "building" => project'[u] = project[u]
  <2>1. Loaded' = Loaded
    BY <1>1 DEF Loaded
  <2> QED BY <1>1, <2>1 DEF RoomLeft
<1>2. CASE InitService(r)
  <2>1. Loaded' = {}
    BY <1>2 DEF InitService, Loaded, NoDatasets
  <2>2. ASSUME NEW u \in Requests PROVE Cardinality(Loaded' \cup {project'[u]}) = 1
    <3>1. Loaded' \cup {project'[u]} = {project'[u]}
      BY <2>1
    <3>2. Cardinality({project'[u]}) = 1
      BY FS_Singleton
    <3> QED BY <3>1, <3>2
  <2> QED BY <1>0, <2>1, <2>2, FS_EmptySet DEF RoomLeft
<1>3. CASE BeginUpload(r)
  <2> DEFINE p == project[r]
  <2>1. Loaded' = Loaded \ {p}
    BY <1>3 DEF BeginUpload, Loaded
  <2>2. \A u \in Requests : pc'[u] = "building" => u = r
    <3>1. r \in loop
      BY <1>3 DEF BeginUpload, InFlight
    <3>2. ASSUME NEW u \in Requests, pc'[u] = "building", u # r PROVE FALSE
      <4>1. pc[u] = "building"
        BY <1>3, <3>2 DEF BeginUpload
      <4>2. u \in loop
        BY <4>1 DEF Places, InFlight
      <4> QED BY <3>1, <3>2, <4>2 DEF OneAtATime
    <3> QED BY <3>2
  <2>3. IsFiniteSet(Loaded \ {p}) /\ Cardinality(Loaded \ {p}) =< Cardinality(Loaded)
    <3>1. Loaded \ {p} \in SUBSET Loaded /\ IsFiniteSet(Loaded)
      BY DEF RoomLeft
    <3> QED BY <3>1, FS_Subset
  <2>4. Cardinality((Loaded \ {p}) \cup {p}) =< MaxDatasets
    <3>1. CASE p \in Loaded
      <4>1. (Loaded \ {p}) \cup {p} = Loaded
        BY <3>1
      <4> QED BY <4>1 DEF RoomLeft
    <3>2. CASE p \notin Loaded
      <4>1. ~(Cardinality(Loaded) >= MaxDatasets)
        BY <1>3, <3>2 DEF BeginUpload, Full
      <4>2. (Loaded \ {p}) \cup {p} = Loaded \cup {p}
        OBVIOUS
      <4>3. Cardinality(Loaded \cup {p}) = Cardinality(Loaded) + 1
        BY <3>2, FS_AddElement DEF RoomLeft
      <4>4. Cardinality(Loaded) + 1 =< MaxDatasets
        BY <1>0, <4>1
      <4> QED BY <4>2, <4>3, <4>4
    <3> QED BY <3>1, <3>2
  <2>5. project' = project
    BY <1>3 DEF BeginUpload
  <2>6. Cardinality(Loaded \ {p}) \in Nat
    BY <2>3, FS_CardinalityType
  <2>7. Cardinality(Loaded \ {p}) =< MaxDatasets
    BY <1>0, <2>3, <2>6 DEF RoomLeft
  <2> QED BY <2>1, <2>2, <2>3, <2>4, <2>5, <2>7 DEF RoomLeft
<1>4. CASE EndUpload(r)
  <2>0. r \in Uploads
    BY <1>4 DEF EndUpload, Places
  <2>1. Loaded' = Loaded \cup {project[r]}
    BY <1>4, <2>0, NoDatasetAssumption DEF EndUpload, Loaded
  <2>2. \A u \in Requests : pc'[u] # "building"
    BY <1>4, OneBuilds DEF EndUpload
  <2>3. IsFiniteSet(Loaded \cup {project[r]})
    BY FS_AddElement DEF RoomLeft
  <2>4. Cardinality(Loaded \cup {project[r]}) =< MaxDatasets
    BY <1>4 DEF EndUpload, RoomLeft
  <2> QED BY <2>1, <2>2, <2>3, <2>4 DEF RoomLeft
<1>5. CASE FailUpload(r)
  <2>1. Loaded' = Loaded /\ project' = project
    BY <1>5 DEF FailUpload, Loaded
  <2>2. \A u \in Requests : pc'[u] = "building" => pc[u] = "building"
    BY <1>5 DEF FailUpload
  <2> QED BY <2>1, <2>2 DEF RoomLeft
<1>6. CASE Reset(r)
  <2>1. Loaded' = Loaded \ {project[r]} /\ project' = project
    BY <1>6 DEF Reset, Loaded
  <2>2. IsFiniteSet(Loaded') /\ Cardinality(Loaded') =< Cardinality(Loaded)
    <3>1. Loaded' \in SUBSET Loaded /\ IsFiniteSet(Loaded)
      BY <2>1 DEF RoomLeft
    <3> QED BY <3>1, FS_Subset
  <2>3. ASSUME NEW u \in Requests, pc'[u] = "building"
        PROVE  Cardinality(Loaded' \cup {project'[u]}) =< MaxDatasets
    <3>1. pc[u] = "building"
      BY <1>6, <2>3 DEF Reset
    <3>2. Loaded' \cup {project'[u]} \in SUBSET (Loaded \cup {project[u]})
      BY <2>1
    <3>3. IsFiniteSet(Loaded \cup {project[u]})
      BY FS_AddElement DEF RoomLeft
    <3>4. /\ IsFiniteSet(Loaded' \cup {project'[u]})
          /\ Cardinality(Loaded' \cup {project'[u]}) =< Cardinality(Loaded \cup {project[u]})
      BY <3>2, <3>3, FS_Subset
    <3>5. /\ Cardinality(Loaded' \cup {project'[u]}) \in Nat
          /\ Cardinality(Loaded \cup {project[u]}) \in Nat
      BY <3>3, <3>4, FS_CardinalityType
    <3>6. Cardinality(Loaded \cup {project[u]}) =< MaxDatasets
      BY <3>1 DEF RoomLeft
    <3> QED BY <1>0, <3>4, <3>5, <3>6
  <2>4. Cardinality(Loaded') \in Nat
    BY <2>2, FS_CardinalityType
  <2>5. Cardinality(Loaded') =< MaxDatasets
    BY <1>0, <2>2, <2>4 DEF RoomLeft
  <2> QED BY <2>2, <2>3, <2>5 DEF RoomLeft
<1> QED BY <1>1, <1>2, <1>3, <1>4, <1>5, <1>6, Quiet

LEMMA StaysStep ==
    ASSUME StoreTypeOK, OneAtATime, Places, Gap, LoadedStays,
           NEW r \in Requests, Arrive(r) \/ RequestStep(r)
    PROVE  LoadedStays'
<1> SUFFICES ASSUME NEW p \in Projects
             PROVE  \/ store'[p] = loaded'[p]
                    \/ /\ store'[p] = NoDataset
                       /\ \E u \in Uploads : pc'[u] = "building" /\ project'[u] = p
  BY DEF LoadedStays
<1> USE DEF Goto, Reply, LeaveWith, bootVars, StoreTypeOK
<1>0. \/ store[p] = loaded[p]
      \/ store[p] = NoDataset /\ \E u \in Uploads : pc[u] = "building" /\ project[u] = p
  BY DEF LoadedStays
<1>1. CASE /\ store' = store /\ loaded' = loaded
           /\ \A u \in Requests : pc'[u] = "building" <=> pc[u] = "building"
           /\ \A u \in Requests : pc[u] = "building" => project'[u] = project[u]
  BY <1>0, <1>1 DEF Requests
<1>2. CASE InitService(r)
  BY <1>2 DEF InitService
<1>3. CASE BeginUpload(r)
  <2>2. CASE project[r] = p
    BY <1>3, <2>2 DEF BeginUpload
  <2>3. CASE project[r] # p
    <3>1. store'[p] = store[p] /\ loaded' = loaded /\ project' = project
      BY <1>3, <2>3 DEF BeginUpload
    <3>2. \A u \in Uploads : pc[u] = "building" => pc'[u] = "building"
      BY <1>3 DEF BeginUpload, Requests
    <3> QED BY <1>0, <3>1, <3>2
  <2> QED BY <2>2, <2>3
<1>4. CASE EndUpload(r)
  <2>2. CASE project[r] = p
    BY <1>4, <2>2 DEF EndUpload
  <2>3. CASE project[r] # p
    <3>1. store'[p] = store[p] /\ loaded'[p] = loaded[p] /\ project' = project
      BY <1>4, <2>3 DEF EndUpload
    <3>2. \A u \in Uploads : pc[u] = "building" /\ u # r => pc'[u] = "building"
      BY <1>4 DEF EndUpload, Requests
    <3> QED BY <1>0, <2>3, <3>1, <3>2
  <2> QED BY <2>2, <2>3
<1>5. CASE FailUpload(r)
  <2>2. CASE project[r] = p
    <3>1. store[p] = NoDataset
      BY <1>5, <2>2 DEF FailUpload, Gap
    <3> QED BY <1>5, <2>2, <3>1 DEF FailUpload
  <2>3. CASE project[r] # p
    <3>1. store' = store /\ loaded'[p] = loaded[p] /\ project' = project
      BY <1>5, <2>3 DEF FailUpload
    <3>2. \A u \in Uploads : pc[u] = "building" /\ u # r => pc'[u] = "building"
      BY <1>5 DEF FailUpload, Requests
    <3> QED BY <1>0, <2>3, <3>1, <3>2
  <2> QED BY <2>2, <2>3
<1>6. CASE Reset(r)
  <2>2. CASE project[r] = p
    BY <1>6, <2>2 DEF Reset
  <2>3. CASE project[r] # p
    <3>1. store'[p] = store[p] /\ loaded'[p] = loaded[p] /\ project' = project
      BY <1>6, <2>3 DEF Reset
    <3>2. \A u \in Uploads : pc[u] = "building" => pc'[u] = "building"
      BY <1>6 DEF Reset, Requests
    <3> QED BY <1>0, <3>1, <3>2
  <2> QED BY <2>2, <2>3
<1> QED BY <1>1, <1>2, <1>3, <1>4, <1>5, <1>6, Quiet

LEMMA StoreInvStep == StoreInv /\ [StoreNext]_storeVars => StoreInv'
<1> SUFFICES ASSUME StoreInv, [StoreNext]_storeVars PROVE StoreInv'
  OBVIOUS
<1>1. ASSUME NEW r \in Requests, Arrive(r) \/ RequestStep(r) PROVE StoreInv'
  BY <1>1, TypeStep, PlacesStep, ExclusionStep, GapStep, RoomStep, StaysStep DEF StoreInv
<1>2. CASE UNCHANGED storeVars
  BY <1>2 DEF StoreInv, storeVars, StoreTypeOK, OneAtATime, Places, Exclusion, Gap, RoomLeft,
              LoadedStays, InFlight, Loaded, Inside
<1> QED BY <1>1, <1>2 DEF StoreNext

\* The invariant of the fault store.
THEOREM StoreInvariance == StoreSpec => []StoreInv
BY StoreInitInv, StoreInvStep, PTL DEF StoreSpec

----------------------------------------------------------------------------
(* What the runs check                                                      *)

\* Types; one upload in flight at a time holds the event loop, and who holds a
\* lock object is inside a "with" of it.
THEOREM StoreTyped == StoreSpec => []StoreTypeOK
BY StoreInvariance, PTL DEF StoreInv

\* The number of datasets of an instance stays within MAX_DATASETS, although the
\* limit is tested before the statistics are built and the dataset stored after.
THEOREM LimitHolds == StoreSpec => []WithinLimit
<1>1. StoreInv => WithinLimit
  BY DEF StoreInv, RoomLeft, WithinLimit
<1> QED BY <1>1, StoreInvariance, PTL

\* An answered upload stands until it is cleared, replaced, or swept away by a
\* second __init__.
THEOREM UploadsStay == StoreSpec => []LoadedStays
BY StoreInvariance, PTL DEF StoreInv

\* Two that are inside hold two locks.
LEMMA OthersLock ==
    ASSUME Exclusion, NEW r \in Inside, NEW u \in Inside, u # r
    PROVE  mine[u] # mine[r]
BY DEF Exclusion

LEMMA ReadStep ==
    ASSUME StoreInv, [StoreNext]_storeVars,
           NEW r \in Readers, answer'[r] = "missing", answer[r] = "none"
    PROVE  \/ loaded[project[r]] = NoDataset
           \/ \E u \in Uploads : /\ pc[u] = "building" /\ project[u] = project[r]
                                 /\ mine[u] # mine[r]
<1> USE DEF StoreInv, StoreTypeOK, Reply, Goto, LeaveWith
<1>1. PICK x \in Requests : Arrive(x) \/ RequestStep(x)
  BY DEF StoreNext, storeVars
<1>2. answer' # answer
  OBVIOUS
<1>3. r \in Requests
  BY DEF Requests
<1>4. x = r /\ (EndUpload(x) \/ FailUpload(x) \/ Reset(x) \/ Read(x) \/ Analyse(x) \/ Refuse(x))
  BY <1>1, <1>2, <1>3 DEF Arrive, RequestStep, EnsureGateway, MakeGateway, MakeOrchestrator,
     AskService, InitService, InitLock, GoForLock, TakeLock, Refuse, BeginUpload, EndUpload, FailUpload,
     Reset, Read, Analyse
<1>5. Read(r)
  <2>1. r \notin Uploads /\ r \notin Resets /\ r \notin Analyses
    BY KindsDisjoint
  <2> QED BY <1>3, <1>4, <2>1 DEF EndUpload, FailUpload, Reset, Analyse, Refuse, Places
<1>6. answer'[r] = Found(r)
  BY <1>3, <1>5 DEF Read
<1>7. store[project[r]] = NoDataset
  <2>1. store[project[r]] # NoDataset => Found(r) \in Uploads
    BY <1>3 DEF Found, Dataset
  <2> QED BY <1>6, <2>1, UploadsAssumption DEF Outcomes
<1>8. ASSUME NEW u \in Uploads, pc[u] = "building" PROVE mine[u] # mine[r]
  <2>1. r \in Inside /\ u \in Inside /\ u # r
    BY <1>3, <1>5, <1>8 DEF Read, Inside, Requests
  <2> QED BY <2>1, OthersLock
<1> QED BY <1>3, <1>7, <1>8 DEF LoadedStays

\* A reader is told that there is no dataset only if there is none, or if a
\* second __init__ has given it another lock than the upload that replaces it.
NoGapRead ==
    [][\A r \in Readers : answer'[r] = "missing" /\ answer[r] = "none" =>
            \/ loaded[project[r]] = NoDataset
            \/ \E u \in Uploads : /\ pc[u] = "building" /\ project[u] = project[r]
                                  /\ mine[u] # mine[r]]_storeVars

\* A reader told that there is no dataset was told the truth: what an upload
\* takes away before it stores the new one is behind the lock, as long as both
\* go for the same one.
THEOREM GapIsLocked == StoreSpec => NoGapRead
<1>1. StoreInv /\ [StoreNext]_storeVars =>
        [\A r \in Readers : answer'[r] = "missing" /\ answer[r] = "none" =>
            \/ loaded[project[r]] = NoDataset
            \/ \E u \in Uploads : /\ pc[u] = "building" /\ project[u] = project[r]
                                  /\ mine[u] # mine[r]]_storeVars
  BY ReadStep
<1> QED BY <1>1, StoreInvariance, PTL DEF StoreSpec, NoGapRead

----------------------------------------------------------------------------
(* Nobody waits for ever                                                     *)

\* The points of a request in the order in which it comes to them.
Rank(point) ==
    CASE point = "idle"         -> 0
      [] point = "ensure"       -> 1
      [] point = "gateway"      -> 2
      [] point = "service"      -> 3
      [] point = "init"         -> 4
      [] point = "locking"      -> 5
      [] point = "orchestrator" -> 6
      [] point = "work"         -> 7
      [] point = "waiting"      -> 8
      [] point = "inside"       -> 9
      [] point = "building"     -> 10
      [] OTHER                  -> 11

\* A request that is stopped by the lock that it has gone for.
Waits(r) == pc[r] = "waiting" /\ ~LockFree(r)

\* No request ever goes back: with its arrival it takes eleven steps at the most.
NobodyGoesBack == \A r \in Requests : pc'[r] = pc[r] \/ Rank(pc'[r]) > Rank(pc[r])
RequestsGoOn == [][NobodyGoesBack]_storeVars

\* Neither a refusal, a failed upload nor a singleton that another request made in
\* between sends a request back to a step that it has done.
THEOREM RequestsAdvance == StoreSpec => RequestsGoOn
<1>1. ASSUME StoreTypeOK, NEW x \in Requests, Arrive(x) \/ RequestStep(x), NEW r \in Requests
      PROVE  pc'[r] = pc[r] \/ Rank(pc'[r]) > Rank(pc[r])
  <2>1. CASE r # x
    BY <1>1, <2>1 DEF Arrive, RequestStep, EnsureGateway, MakeGateway, MakeOrchestrator,
       AskService, InitService, InitLock, GoForLock, TakeLock, Refuse, BeginUpload, EndUpload,
       FailUpload, Reset, Read, Analyse, LeaveWith, Goto, StoreTypeOK
  <2>2. CASE r = x
    BY <1>1, <2>2 DEF Arrive, RequestStep, EnsureGateway, MakeGateway, MakeOrchestrator,
       AskService, InitService, InitLock, GoForLock, TakeLock, Refuse, BeginUpload, EndUpload,
       FailUpload, Reset, Read, Analyse, LeaveWith, Goto, Onward, StoreTypeOK, Rank
  <2> QED BY <2>1, <2>2
<1>2. StoreTypeOK /\ [StoreNext]_storeVars =>
        [NobodyGoesBack]_storeVars
  BY <1>1 DEF StoreNext, NobodyGoesBack
<1> QED BY <1>2, StoreTyped, PTL DEF StoreSpec, RequestsGoOn

\* The lock of the FaultService is never left held by a request that is over,
\* refused or still to start, be there one lock or many: who holds one has a step to
\* make and waits for nobody, and an upload waits for the threads of the pool only.
THEOREM LockIsGivenBack == StoreSpec => []NobodyStuck
<1>1. ASSUME StoreInv, NEW r \in Requests, NEW h \in held, pc[r] = "waiting"
      PROVE  h[2] \in Inside /\ ~(r \in Uploads /\ h[2] \in Uploads)
  <2>1. h[2] \in Inside /\ h[2] \in Requests
    BY <1>1, HolderInside DEF StoreInv
  <2>2. ASSUME r \in Uploads, h[2] \in Uploads PROVE FALSE
    <3>1. r \in loop /\ h[2] \in loop
      BY <1>1, <2>1, <2>2 DEF StoreInv, StoreTypeOK, InFlight, Inside
    <3>2. r # h[2]
      BY <1>1, <2>1 DEF Inside
    <3> QED BY <1>1, <3>1, <3>2 DEF StoreInv, OneAtATime
  <2> QED BY <2>1, <2>2
<1>2. StoreInv => NobodyStuck
  BY <1>1 DEF NobodyStuck
<1> QED BY <1>2, StoreInvariance, PTL

\* Fairness of the threads, with the guards of their steps written out.  A thread
\* goes on that can, the event loop or one of the pool;
CanGo(r)    == r \in InFlight /\ ~Waits(r)
PoolRuns(r) == []<>~CanGo(r) \/ []<><<RequestStep(r)>>_storeVars

\* whoever holds the lock that a request waits for goes on, one after the other;
HolderStep(r) == \E h \in Inside : mine[h] = mine[r] /\ RequestStep(h)
HolderRuns(r) == []<>~Waits(r) \/ []<><<HolderStep(r)>>_storeVars

\* and a lock lets in at last who finds it free again and again.
LetIn(r) == <>[]~CanGo(r) \/ []<><<RequestStep(r)>>_storeVars

Reached(r, n) == Rank(pc[r]) >= n

LEMMA RankType ==
    ASSUME StoreTypeOK, NEW r \in Requests
    PROVE  /\ Rank(pc[r]) \in 0..11
           /\ Rank(pc[r]) = 0 <=> pc[r] = "idle"
           /\ Rank(pc[r]) = 11 <=> pc[r] = "done"
           /\ r \in InFlight <=> Rank(pc[r]) \in 1..10
<1>1. pc[r] \in Points
  BY DEF StoreTypeOK
<1> QED BY <1>1 DEF Rank, Points, InFlight

\* A request stays where it is, or further on.
LEMMA ReachedStays ==
    ASSUME NEW r \in Requests, NEW n \in 0..11
    PROVE  StoreTypeOK /\ StoreTypeOK' /\ Reached(r, n)
             /\ [NobodyGoesBack]_storeVars
           => Reached(r, n)'
<1> SUFFICES ASSUME StoreTypeOK, StoreTypeOK', Reached(r, n),
                    pc'[r] = pc[r] \/ Rank(pc'[r]) > Rank(pc[r])
             PROVE  Reached(r, n)'
  BY DEF storeVars, NobodyGoesBack
<1>1. Rank(pc[r]) \in 0..11
  BY RankType
<1>2. Rank(pc'[r]) \in 0..11
  <2>1. pc'[r] \in Points
    BY DEF StoreTypeOK
  <2> QED BY <2>1 DEF Rank, Points
<1> QED BY <1>1, <1>2 DEF Reached

\* Every step of a request takes it on.
LEMMA StepTakesOn ==
    ASSUME StoreTypeOK, NEW r \in Requests, RequestStep(r)
    PROVE  r \in InFlight /\ Rank(pc'[r]) > Rank(pc[r])
BY DEF RequestStep, EnsureGateway, MakeGateway, MakeOrchestrator, AskService, InitService,
   InitLock, GoForLock, TakeLock, Refuse, BeginUpload, EndUpload, FailUpload, Reset, Read, Analyse, LeaveWith, Goto, Onward,
   StoreTypeOK, Rank, InFlight

----------------------------------------------------------------------------
(* Every lock becomes free                                                   *)

\* An upload that builds its statistics holds the lock that the request waits for.
BuilderAhead(r) == \E h \in Inside : mine[h] = mine[r] /\ pc[h] = "building"

\* Who holds a lock and goes out leaves it free to who waits for it.
LEMMA GoneIsFree ==
    ASSUME StoreInv, NEW r \in Requests, pc[r] = "waiting", NEW h \in Inside, mine[h] = mine[r],
           NEW a, LeaveWith(h, a)
    PROVE  LockFree(r)'
<1>1. h \in Requests /\ h # r
  BY DEF Inside
<1>2. mine'[r] = mine[r] /\ held' = {x \in held : x[2] # h}
  BY <1>1 DEF LeaveWith, StoreInv, StoreTypeOK
<1>3. ASSUME NEW x \in held, x[2] # h PROVE x[1] # mine[r]
  BY <1>3, HolderInside DEF StoreInv, Exclusion
<1> QED BY <1>2, <1>3 DEF LockFree

\* A step of who is inside leads out, or is an upload that begins to build.
LEMMA InsideStep ==
    ASSUME StoreInv, NEW h \in Inside, RequestStep(h)
    PROVE  BeginUpload(h) \/ \E a : LeaveWith(h, a)
BY DEF RequestStep, EnsureGateway, MakeGateway, MakeOrchestrator, AskService, InitService,
   InitLock, GoForLock, TakeLock, Refuse, EndUpload, FailUpload, Reset, Read, Analyse, Inside

\* The lock that a request waits for is free again and again.
Freed(r) == StoreSpec /\ HolderRuns(r) => []<>~Waits(r)

LEMMA LocksAreFreed == ASSUME NEW r \in Requests PROVE Freed(r)
<1>1. StoreInv /\ Waits(r) /\ <<HolderStep(r)>>_storeVars => BuilderAhead(r)' \/ ~Waits(r)'
  <2> SUFFICES ASSUME StoreInv, Waits(r), NEW h \in Inside, mine[h] = mine[r], RequestStep(h),
                      Waits(r)'
               PROVE  BuilderAhead(r)'
    BY DEF HolderStep
  <2>1. BeginUpload(h)
    BY InsideStep, GoneIsFree DEF Waits
  <2>2. h \in Inside' /\ mine' = mine /\ pc'[h] = "building"
    BY <2>1 DEF BeginUpload, Goto, Inside, StoreInv, StoreTypeOK
  <2> QED BY <2>2 DEF BuilderAhead
<1>2. StoreInv /\ Waits(r) /\ BuilderAhead(r) /\ <<HolderStep(r)>>_storeVars => ~Waits(r)'
  <2> SUFFICES ASSUME StoreInv, Waits(r), NEW h \in Inside, mine[h] = mine[r], RequestStep(h),
                      NEW b \in Inside, mine[b] = mine[r], pc[b] = "building"
               PROVE  ~Waits(r)'
    BY DEF HolderStep, BuilderAhead
  <2>1. h = b
    BY DEF StoreInv, Exclusion
  <2>2. ~BeginUpload(h)
    BY <2>1 DEF BeginUpload
  <2> QED BY <2>2, InsideStep, GoneIsFree DEF Waits
<1>3. StoreInv /\ Waits(r) /\ BuilderAhead(r) /\ [StoreNext]_storeVars
        => BuilderAhead(r)' \/ ~Waits(r)'
  <2> SUFFICES ASSUME StoreInv, Waits(r), [StoreNext]_storeVars, Waits(r)',
                      NEW b \in Inside, mine[b] = mine[r], pc[b] = "building"
               PROVE  BuilderAhead(r)'
    BY DEF BuilderAhead
  <2>1. CASE UNCHANGED storeVars
    BY <2>1 DEF storeVars, BuilderAhead, Inside
  <2>2. ASSUME NEW x \in Requests, Arrive(x) \/ RequestStep(x) PROVE BuilderAhead(r)'
    <3>1. x # b
      <4>1. ASSUME x = b PROVE FALSE
        <5>1. RequestStep(b) /\ ~BeginUpload(b)
          BY <2>2, <4>1 DEF Arrive, BeginUpload
        <5> QED BY <5>1, InsideStep, GoneIsFree DEF Waits
      <4> QED BY <4>1
    <3>2. x # r
      <4>1. ASSUME x = r PROVE FALSE
        BY <2>2, <4>1 DEF Waits, Arrive, RequestStep, EnsureGateway, MakeGateway,
           MakeOrchestrator, AskService, InitService, InitLock, GoForLock, TakeLock, Refuse,
           BeginUpload, EndUpload, FailUpload, Reset, Read, Analyse
      <4> QED BY <4>1
    <3>3. pc'[b] = pc[b] /\ mine'[b] = mine[b] /\ mine'[r] = mine[r]
      BY <2>2, <3>1, <3>2 DEF StoreInv, StoreTypeOK, Inside, Arrive, RequestStep, EnsureGateway,
         MakeGateway, MakeOrchestrator, AskService, InitService, InitLock, GoForLock, TakeLock,
         Refuse, BeginUpload, EndUpload, FailUpload, Reset, Read, Analyse, LeaveWith, Goto
    <3> QED BY <3>3 DEF BuilderAhead, Inside
  <2> QED BY <2>1, <2>2 DEF StoreNext
<1> QED BY <1>1, <1>2, <1>3, StoreInvariance, PTL DEF Freed, StoreSpec, HolderRuns

----------------------------------------------------------------------------
(* Every request ends                                                        *)

\* A thread that goes on, and waits for no lock, takes its request on.
Further(r, n, m) ==
    StoreSpec /\ PoolRuns(r) /\ []~Waits(r) =>
        (Reached(r, n) ~> (Reached(r, m) \/ pc[r] = "done"))

\* So does one that is let in because the lock is fair to it.
Fairly(r, n, m) ==
    StoreSpec /\ LetIn(r) /\ []<>~Waits(r) =>
        (Reached(r, n) ~> (Reached(r, m) \/ pc[r] = "done"))

LEMMA OneStepFurther ==
    ASSUME NEW r \in Requests, NEW n \in 1..11, NEW m \in 1..11, m = n + 1
    PROVE  Further(r, n, m) /\ Fairly(r, n, m)
<1>1. StoreInv /\ StoreInv' /\ Reached(r, n) /\ [NobodyGoesBack]_storeVars => Reached(r, n)'
  BY ReachedStays DEF StoreInv
<1>2. StoreInv /\ StoreInv' /\ Reached(r, n) /\ <<RequestStep(r)>>_storeVars => Reached(r, m)'
  <2> SUFFICES ASSUME StoreInv, StoreInv', Reached(r, n), RequestStep(r) PROVE Reached(r, m)'
    OBVIOUS
  <2>1. Rank(pc'[r]) > Rank(pc[r]) /\ Rank(pc[r]) \in 0..11
    BY StepTakesOn, RankType DEF StoreInv
  <2>2. Rank(pc'[r]) \in 0..11
    <3>1. pc'[r] \in Points
      BY DEF StoreInv, StoreTypeOK
    <3> QED BY <3>1 DEF Rank, Points
  <2> QED BY <2>1, <2>2 DEF Reached
<1>3. StoreInv /\ Reached(r, n) => Reached(r, 1)
  <2> SUFFICES ASSUME StoreInv, Reached(r, n) PROVE Reached(r, 1)
    OBVIOUS
  <2> QED BY RankType DEF StoreInv, Reached
<1>4. StoreInv /\ Reached(r, 1) /\ ~CanGo(r) /\ ~Waits(r) => pc[r] = "done"
  <2> SUFFICES ASSUME StoreInv, Reached(r, 1), r \notin InFlight PROVE pc[r] = "done"
    BY DEF CanGo
  <2>1. Rank(pc[r]) \in 0..11 /\ Rank(pc[r]) >= 1
    BY RankType DEF Reached, StoreInv
  <2> QED BY <2>1, RankType DEF StoreInv
<1>6. Further(r, n, m)
  BY <1>1, <1>2, <1>3, <1>4, StoreInvariance, RequestsAdvance, PTL
     DEF Further, StoreSpec, PoolRuns, RequestsGoOn
<1>7. Fairly(r, n, m)
  BY <1>1, <1>2, <1>3, <1>4, StoreInvariance, RequestsAdvance, PTL
     DEF Fairly, StoreSpec, LetIn, RequestsGoOn
<1> QED BY <1>6, <1>7

\* Eleven steps at the most, and it is answered.
Answered(r) ==
    /\ StoreSpec /\ PoolRuns(r) /\ []~Waits(r) => (r \in InFlight ~> pc[r] = "done")
    /\ StoreSpec /\ LetIn(r) /\ []<>~Waits(r) => (r \in InFlight ~> pc[r] = "done")

LEMMA ThroughToTheEnd == ASSUME NEW r \in Requests PROVE Answered(r)
<1>1. /\ Further(r, 1, 2) /\ Further(r, 2, 3) /\ Further(r, 3, 4) /\ Further(r, 4, 5)
      /\ Further(r, 5, 6) /\ Further(r, 6, 7) /\ Further(r, 7, 8)
      /\ Further(r, 8, 9) /\ Further(r, 9, 10) /\ Further(r, 10, 11)
  BY OneStepFurther
<1>2. /\ Fairly(r, 1, 2) /\ Fairly(r, 2, 3) /\ Fairly(r, 3, 4) /\ Fairly(r, 4, 5)
      /\ Fairly(r, 5, 6) /\ Fairly(r, 6, 7) /\ Fairly(r, 7, 8)
      /\ Fairly(r, 8, 9) /\ Fairly(r, 9, 10) /\ Fairly(r, 10, 11)
  BY OneStepFurther
<1>3. StoreInv /\ r \in InFlight => Reached(r, 1)
  BY RankType DEF StoreInv, Reached
<1>4. StoreInv /\ Reached(r, 11) => pc[r] = "done"
  BY RankType DEF StoreInv, Reached
<1>5. StoreSpec /\ PoolRuns(r) /\ []~Waits(r) => (r \in InFlight ~> pc[r] = "done")
  BY <1>1, <1>3, <1>4, StoreInvariance, PTL DEF Further
<1>6. StoreSpec /\ LetIn(r) /\ []<>~Waits(r) => (r \in InFlight ~> pc[r] = "done")
  BY <1>2, <1>3, <1>4, StoreInvariance, PTL DEF Fairly
<1> QED BY <1>5, <1>6 DEF Answered

AnalysesAnswered == \A r \in Analyses : r \in InFlight ~> pc[r] = "done"

\* Every analysis is answered, if its thread goes on, for it waits for no lock:
\* not even uploads that come for ever keep it.
THEOREM AnalysesNeverWait == StoreSpec /\ (\A r \in Analyses : PoolRuns(r)) => AnalysesAnswered
<1> SUFFICES ASSUME NEW r \in Analyses
             PROVE  StoreSpec /\ PoolRuns(r) => (r \in InFlight ~> pc[r] = "done")
  BY DEF AnalysesAnswered
<1>1. Answered(r)
  BY ThroughToTheEnd DEF Requests
<1>2. StoreInv => ~Waits(r)
  BY DEF Waits, StoreInv, Places, Requests
<1> QED BY <1>1, <1>2, StoreInvariance, PTL DEF Answered

\* No order of uploads, resets, readers and analyses leaves one of them waiting
\* for ever.
RequestsEnd == \A r \in Requests : r \in InFlight ~> pc[r] = "done"

\* Every request is answered, uploads that block the event loop included and however
\* many others come meanwhile, if each thread that is inside a lock goes on and
\* the lock lets in who finds it free again and again.
THEOREM RequestsAnswered ==
    StoreSpec /\ (\A r \in Requests : HolderRuns(r) /\ LetIn(r)) => RequestsEnd
<1> SUFFICES ASSUME NEW r \in Requests
             PROVE  StoreSpec /\ HolderRuns(r) /\ LetIn(r) => (r \in InFlight ~> pc[r] = "done")
  BY DEF RequestsEnd
<1>1. Answered(r)
  BY ThroughToTheEnd
<1>2. Freed(r)
  BY LocksAreFreed
<1> QED BY <1>1, <1>2, PTL DEF Answered, Freed

----------------------------------------------------------------------------
(* The store is the register of DatasetRegister                             *)

Phase  == [r \in Requests |-> IF pc[r] \in {"idle", "done"} THEN pc[r] ELSE "asked"]
Makers == {r \in Requests : pc[r] \in {"init", "locking"}}

\* A request that goes on is still asked for, whatever it does next.
LEMMA PhaseStays ==
    ASSUME StoreTypeOK, NEW r \in Requests, pc[r] \notin {"idle", "done"},
           NEW point \in Points, point \notin {"idle", "done"},
           pc' = [pc EXCEPT ![r] = point]
    PROVE  /\ Phase' = Phase
           /\ Makers' = IF point \in {"init", "locking"} THEN Makers \cup {r} ELSE Makers \ {r}
<1>1. InFlight' = InFlight
  BY DEF InFlight, StoreTypeOK
<1>2. ASSUME NEW q \in Requests
      PROVE  (IF pc'[q] \in {"idle", "done"} THEN pc'[q] ELSE "asked") = Phase[q]
  BY DEF Phase, StoreTypeOK
<1>3. Phase' = Phase
  BY <1>2 DEF Phase
<1>4. Makers' = IF point \in {"init", "locking"} THEN Makers \cup {r} ELSE Makers \ {r}
  BY DEF Makers, StoreTypeOK
<1> QED BY <1>3, <1>4

LEMMA PhaseEnds ==
    ASSUME StoreTypeOK, NEW r \in Requests, pc[r] \notin {"idle", "done", "init", "locking"},
           pc' = [pc EXCEPT ![r] = "done"]
    PROVE  /\ Phase' = [Phase EXCEPT ![r] = "done"] /\ Makers' = Makers
           /\ r \in Register!Asking \ Makers
<1>1. InFlight' = InFlight \ {r}
  BY DEF InFlight, StoreTypeOK
<1>2. ASSUME NEW q \in Requests
      PROVE  (IF pc'[q] \in {"idle", "done"} THEN pc'[q] ELSE "asked") = [Phase EXCEPT ![r] = "done"][q]
  BY <1>1 DEF InFlight, StoreTypeOK, Phase
<1>3. Phase' = [Phase EXCEPT ![r] = "done"]
  BY <1>2 DEF Phase
<1>4. Makers' = Makers
  BY DEF Makers, StoreTypeOK
<1>5. r \in Register!Asking \ Makers
  BY DEF Register!Asking, Register!Requests, Requests, InFlight, Makers
<1> QED BY <1>3, <1>4, <1>5

LEMMA RegisterStart == StoreInit => Register!RegisterInit
<1> SUFFICES ASSUME StoreInit PROVE Register!RegisterInit
  OBVIOUS
<1>1. Makers = {} /\ InFlight = {}
  BY DEF StoreInit, Makers, InFlight
<1>2. Phase = [r \in Requests |-> "idle"]
  BY <1>1 DEF Phase, StoreInit
<1> QED BY <1>1, <1>2 DEF StoreInit, NoDatasets, Makers, Phase, Requests,
           Register!RegisterInit, Register!Requests

\* A step that answers nobody and makes nothing is none of the register.
LEMMA SilentStep ==
    ASSUME StoreInv, NEW r \in Requests,
           \/ EnsureGateway(r) \/ MakeGateway(r) \/ MakeOrchestrator(r)
           \/ GoForLock(r) \/ TakeLock(r) \/ BeginUpload(r)
    PROVE  UNCHANGED Register!registerVars
<1> USE DEF Goto, bootVars
<1>1. PICK point \in Points \ {"idle", "done", "init", "locking"} : pc' = [pc EXCEPT ![r] = point]
  BY DEF EnsureGateway, MakeGateway, MakeOrchestrator, GoForLock, TakeLock, BeginUpload, Points
<1>2. pc[r] \notin {"idle", "done", "init", "locking"}
  BY DEF EnsureGateway, MakeGateway, MakeOrchestrator, GoForLock, TakeLock, BeginUpload
<1>3. Phase' = Phase /\ Makers' = Makers
  BY <1>1, <1>2, PhaseStays DEF StoreInv, Makers
<1>4. UNCHANGED <<lock, loaded, project, answer>>
  BY DEF EnsureGateway, MakeGateway, MakeOrchestrator, GoForLock, TakeLock, BeginUpload
<1> QED BY <1>3, <1>4 DEF Register!registerVars, Phase, Makers

\* A request that asks for the service, and one that finds none, and makes it.
LEMMA ServiceStep ==
    ASSUME StoreInv, NEW r \in Requests, AskService(r) \/ InitService(r) \/ InitLock(r)
    PROVE  [Register!RegisterNext]_(Register!registerVars)
<1> USE DEF Goto, bootVars
<1>0. /\ Onward(r) \in Points \ {"idle", "done", "init", "locking"}
      /\ "init" \in Points /\ "locking" \in Points
  BY DEF Onward, Points
<1>1. r \in Register!Asking
  BY DEF AskService, InitService, InitLock, Register!Asking, Register!Requests, Requests, InFlight
<1>2. CASE AskService(r) /\ initialized
  <2>1. Phase' = Phase /\ Makers' = Makers
    BY <1>0, <1>2, PhaseStays DEF StoreInv, AskService, Makers
  <2> QED BY <1>2, <2>1 DEF AskService, Register!registerVars, Phase, Makers
<1>3. CASE AskService(r) /\ ~initialized
  <2>1. Phase' = Phase /\ Makers' = Makers \cup {r} /\ r \notin Makers
    BY <1>0, <1>3, PhaseStays DEF StoreInv, AskService, Makers
  <2>2. lock = 0
    BY <1>3 DEF StoreInv, StoreTypeOK, Places
  <2>3. Register!FindNone(r)
    BY <1>3, <2>1, <2>2 DEF AskService, Register!FindNone, Phase, Makers
  <2> QED BY <1>1, <2>1, <2>3 DEF Register!RegisterNext, Makers
<1>4. CASE InitService(r)
  <2>1. Phase' = Phase /\ Makers' = Makers /\ r \in Makers
    BY <1>0, <1>4, PhaseStays DEF StoreInv, InitService, Makers
  <2>2. Register!Sweep(r)
    BY <1>4, <2>1 DEF InitService, NoDatasets, Register!Sweep, Phase, Makers
  <2> QED BY <1>1, <2>2 DEF Register!RegisterNext
<1>5. CASE InitLock(r)
  <2>1. Phase' = Phase /\ Makers' = Makers \ {r} /\ r \in Makers
    BY <1>0, <1>5, PhaseStays DEF StoreInv, InitLock, Makers
  <2>2. Register!Make(r)
    BY <1>5, <2>1 DEF InitLock, Register!Make, Phase, Makers
  <2> QED BY <1>1, <2>2 DEF Register!RegisterNext
<1> QED BY <1>2, <1>3, <1>4, <1>5

LEMMA AskStep ==
    ASSUME StoreInv, NEW r \in Requests, Arrive(r)
    PROVE  Register!RegisterNext
<1> USE DEF Goto, bootVars, Arrive
<1>2. InFlight' = InFlight \cup {r}
  BY KindsDisjoint DEF InFlight, StoreInv, StoreTypeOK
<1>3. Phase' = [Phase EXCEPT ![r] = "asked"]
  <2>1. ASSUME NEW q \in Requests
        PROVE  (IF pc'[q] \in {"idle", "done"} THEN pc'[q] ELSE "asked") = [Phase EXCEPT ![r] = "asked"][q]
    BY <1>2 DEF Phase, StoreInv, StoreTypeOK
  <2> QED BY <2>1 DEF Phase
<1>4. Makers' = Makers
  BY DEF Makers, StoreInv, StoreTypeOK
<1>5. Phase[r] = "idle"
  BY DEF Phase, InFlight
<1>6. Register!Ask(r)
  BY <1>3, <1>4, <1>5 DEF Register!Ask, Phase, Makers
<1> QED BY <1>6 DEF Register!RegisterNext, Register!Requests, Requests

\* What a request finds in the store is what the register may show it: inside the
\* lock what stands, and the gap of an upload only to an analysis, or to one whose
\* lock is not that of the upload.
LEMMA FindsSeen ==
    ASSUME StoreInv, NEW r \in Requests,
           r \in Analyses \/ pc[r] = "inside"
    PROVE  store[project[r]] \in Register!Seen(r)
<1>0. project[r] \in Projects
  BY DEF StoreInv, StoreTypeOK
<1>1. CASE store[project[r]] = loaded[project[r]]
  BY <1>1 DEF Register!Seen, Register!Standing
<1>2. CASE store[project[r]] # loaded[project[r]]
  <2>1. store[project[r]] = NoDataset
    BY <1>0, <1>2 DEF StoreInv, LoadedStays
  <2>2. PICK u \in Uploads : pc[u] = "building" /\ project[u] = project[r]
    BY <1>0, <1>2 DEF StoreInv, LoadedStays
  <2>3. u \in Register!Asking \cap Uploads
    BY <2>2 DEF Register!Asking, Register!Requests, Requests, InFlight
  <2>4. ASSUME r \notin Analyses PROVE lock > 1
    <3>1. mine[u] # mine[r]
      BY <2>2, <2>4, OthersLock DEF StoreInv, Inside, Requests
    <3>2. mine[u] \in 1..lock /\ mine[r] \in 1..lock /\ lock \in Nat
      BY <2>2, <2>4 DEF StoreInv, StoreTypeOK, Places, Requests
    <3> QED BY <3>1, <3>2
  <2>5. u \in {x \in Register!Asking \cap Uploads :
                project[x] = project[r] /\ (r \in Analyses \/ lock > 1)}
    BY <2>2, <2>3, <2>4
  <2> QED BY <2>1, <2>5 DEF Register!Seen
<1> QED BY <1>1, <1>2

\* An answer of the store, with what then stands, is one of the register.
LEMMA TellStep ==
    ASSUME StoreInv, NEW r \in Requests, NEW a, NEW d,
           pc[r] \notin {"idle", "done", "init", "locking"}, Goto(r, "done"), Reply(r, a),
           loaded' = [loaded EXCEPT ![project[r]] = d], UNCHANGED <<lock, project>>
    PROVE  Register!Tell(r, a, d) /\ r \in Register!Asking \ Makers
<1>1. Phase' = [Phase EXCEPT ![r] = "done"] /\ Makers' = Makers /\ r \in Register!Asking \ Makers
  BY PhaseEnds DEF StoreInv, Goto
<1> QED BY <1>1 DEF Register!Tell, Reply, Phase, Makers

\* Telling a request what stands leaves it standing.
LEMMA TellStands ==
    ASSUME StoreInv, NEW r \in Requests, NEW a,
           pc[r] \notin {"idle", "done", "init", "locking"}, Goto(r, "done"), Reply(r, a),
           UNCHANGED <<loaded, lock, project>>
    PROVE  Register!Tell(r, a, loaded[project[r]]) /\ r \in Register!Asking \ Makers
<1>1. Phase' = [Phase EXCEPT ![r] = "done"] /\ Makers' = Makers /\ r \in Register!Asking \ Makers
  BY PhaseEnds DEF StoreInv, Goto
<1>2. loaded' = [loaded EXCEPT ![project[r]] = loaded[project[r]]]
  BY DEF StoreInv, StoreTypeOK
<1> QED BY <1>1, <1>2 DEF Register!Tell, Reply, Phase, Makers

LEMMA ServeStep ==
    ASSUME StoreInv, NEW r \in Requests,
           \/ Refuse(r) \/ EndUpload(r) \/ FailUpload(r) \/ Reset(r) \/ Read(r) \/ Analyse(r)
    PROVE  Register!RegisterNext
<1> USE DEF bootVars, LeaveWith
<1> SUFFICES r \in Register!Asking \ Makers /\ Register!Serve(r)
  BY DEF Register!RegisterNext, Makers
<1>0. r \notin Analyses /\ pc[r] \in {"inside", "building"} => lock > 0
  BY DEF StoreInv, StoreTypeOK, Places
<1>1. CASE Refuse(r)
  <2>1. Register!Tell(r, "refused", loaded[project[r]]) /\ r \in Register!Asking \ Makers
    BY <1>1, TellStands DEF Refuse
  <2> QED BY <1>0, <1>1, <2>1, KindsDisjoint
          DEF Refuse, Register!Serve, Register!Upload, Register!Standing
<1>2. CASE FailUpload(r)
  <2>1. Register!Tell(r, "failed", NoDataset) /\ r \in Register!Asking \ Makers
    BY <1>2, TellStep DEF FailUpload
  <2> QED BY <1>0, <1>2, <2>1, KindsDisjoint
          DEF FailUpload, StoreInv, Places, Register!Serve, Register!Upload
<1>3. CASE EndUpload(r)
  <2>1. Register!Tell(r, r, r) /\ r \in Register!Asking \ Makers
    BY <1>3, TellStep DEF EndUpload
  <2>2. \A u \in Uploads : pc[u] = "building" => u = r
    BY <1>3, OneBuilds DEF EndUpload, StoreInv, Requests
  <2>3. {p \in Projects : loaded[p] # NoDataset} \cup {project[r]} = Loaded \cup {project[r]}
    BY <2>2 DEF StoreInv, LoadedStays, Loaded
  <2>4. Register!Room(r)
    <3>1. Cardinality(Loaded \cup {project[r]}) =< MaxDatasets
      BY <1>3 DEF EndUpload, StoreInv, RoomLeft
    <3>2. Register!Cardinality(Loaded \cup {project[r]}) = Cardinality(Loaded \cup {project[r]})
      BY DEF Register!Cardinality, Cardinality
    <3> QED BY <2>3, <3>1, <3>2 DEF Register!Room
  <2> QED BY <1>0, <1>3, <2>1, <2>4, KindsDisjoint
          DEF EndUpload, StoreInv, Places, Register!Serve, Register!Upload
<1>4. CASE Reset(r)
  <2> DEFINE d == store[project[r]]
  <2>1. d \in Register!Seen(r)
    BY <1>4, FindsSeen DEF Reset
  <2>2. /\ Register!Tell(r, IF d = NoDataset THEN "missing" ELSE "cleared", NoDataset)
        /\ r \in Register!Asking \ Makers
    BY <1>4, TellStep DEF Reset
  <2>3. Register!Clear(r)
    BY <2>1, <2>2 DEF Register!Clear
  <2> QED BY <1>0, <1>4, <2>2, <2>3, KindsDisjoint DEF Reset, Register!Serve
<1>5. ASSUME Read(r) \/ (Analyse(r) /\ orchestrator)
      PROVE  Register!Get(r) /\ r \in Register!Asking \ Makers
  <2> DEFINE d == store[project[r]]
  <2>1. d \in Register!Seen(r)
    BY <1>5, FindsSeen DEF Read, Analyse
  <2>2. /\ Register!Tell(r, IF d = NoDataset THEN "missing" ELSE d, loaded[project[r]])
        /\ r \in Register!Asking \ Makers
    BY <1>5, TellStands DEF Read, Analyse, Found
  <2>3. Register!Get(r)
    BY <2>1, <2>2 DEF Register!Get, Register!Standing
  <2> QED BY <2>2, <2>3
<1>6. CASE Read(r)
  BY <1>0, <1>5, <1>6, KindsDisjoint DEF Read, Register!Serve
<1>7. CASE Analyse(r)
  <2>1. CASE orchestrator
    BY <1>5, <1>7, <2>1 DEF Analyse, Register!Serve
  <2>2. CASE ~orchestrator
    <3>1. Register!Tell(r, "broken", loaded[project[r]]) /\ r \in Register!Asking \ Makers
      BY <1>7, <2>2, TellStands DEF Analyse
    <3> QED BY <1>7, <3>1 DEF Analyse, Register!Serve, Register!Standing
  <2> QED BY <2>1, <2>2
<1> QED BY <1>1, <1>2, <1>3, <1>4, <1>6, <1>7

\* Every request of the store is one of a register that is read and written at one
\* moment between the question and the answer: uploads in two steps, readers in
\* between, analyses without the lock and services made twice included.
THEOREM StoreImplementsRegister == StoreSpec => DatasetSpec
<1>1. ASSUME StoreInv, NEW r \in Requests, Arrive(r) \/ RequestStep(r)
      PROVE  [Register!RegisterNext]_(Register!registerVars)
  BY <1>1, AskStep, SilentStep, ServiceStep, ServeStep DEF RequestStep
<1>2. StoreInv /\ [StoreNext]_storeVars => [Register!RegisterNext]_(Register!registerVars)
  <2>1. CASE UNCHANGED storeVars
    <3>1. Phase' = Phase /\ Makers' = Makers
      BY <2>1 DEF storeVars, Phase, Makers, InFlight
    <3> QED BY <2>1, <3>1 DEF storeVars, Register!registerVars, Phase, Makers
  <2> QED BY <1>1, <2>1 DEF StoreNext
<1> QED BY <1>2, RegisterStart, StoreInvariance, PTL
   DEF StoreSpec, DatasetSpec, Register!RegisterSpec
=============================================================================

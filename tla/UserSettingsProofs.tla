-------------------------- MODULE UserSettingsProofs --------------------------
(* What was saved stays and is shown, and every call is made with a key that *)
(* its user or the environment explains, for any number of users, instances, *)
(* requests and keys.                                                        *)
EXTENDS UserSettings, TLAPS

Clients == Threads \ Saves
KeyView == [has : BOOLEAN, preview : Keys \cup {None}]
Views == [llm : LLMs \cup {Blank, None}, llmKey : KeyView \cup {None},
          emb : Embedders \cup {Blank, None}, embKey : KeyView \cup {None}]
Types == SettingsTypeOK /\ reply \in [Saves -> [code : Answers, shown : Views]]

\* The fields, in full.
LEMMA FieldCases == Fields = {"llm", "llmKey", "emb", "embKey"} /\ KeyFields = {"llmKey", "embKey"}
BY DEF Fields, KeyFields

\* An empty document is one, and is shown as one.
LEMMA NoFieldType == NoField \in Documents /\ NoField \in Views
BY DEF NoField, Documents, Views, Fields

\* A function of the fields with the right values is a document.
LEMMA DocumentByFields ==
    ASSUME NEW A, NEW B, NEW C, NEW D, NEW d, d = [f \in Fields |-> d[f]],
           d["llm"] \in A, d["llmKey"] \in B, d["emb"] \in C, d["embKey"] \in D
    PROVE  d \in [llm : A, llmKey : B, emb : C, embKey : D]
BY DEF Fields

\* Merging keeps the type.
LEMMA MergeType ==
    ASSUME NEW d \in Documents, NEW e \in Documents
    PROVE  Merge(d, e) \in Documents
<1> DEFINE x == Merge(d, e)
<1>1. x = [f \in Fields |-> x[f]]
  BY DEF Merge
<1>2. x["llm"] \in LLMs \cup {Blank, None}
  BY DEF Merge, Documents, Fields
<1>3. x["llmKey"] \in Sealed \cup {None}
  BY DEF Merge, Documents, Fields
<1>4. x["emb"] \in Embedders \cup {Blank, None}
  BY DEF Merge, Documents, Fields
<1>5. x["embKey"] \in Sealed \cup {None}
  BY DEF Merge, Documents, Fields
<1> HIDE DEF x
<1>6. x \in Documents
  BY <1>1, <1>2, <1>3, <1>4, <1>5, DocumentByFields DEF Documents
<1> QED BY <1>6 DEF x

\* What is read of a user is a document.
LEMMA DocType ==
    ASSUME SettingsTypeOK, NEW u \in Users
    PROVE  Doc(u) \in Documents
BY NoFieldType DEF SettingsTypeOK, Doc

\* Opening yields a key, the empty string or nothing.
LEMMA OpenType ==
    ASSUME NEW sealed, NEW i
    PROVE  Open(sealed, i) \in Keys \cup {Blank, None}
BY DEF Open, Sealed

\* What a save answers is a view.
LEMMA ViewType ==
    ASSUME NEW d \in Documents, NEW i
    PROVE  View(d, i) \in Views
<1> DEFINE x == View(d, i)
<1>1. x = [f \in Fields |-> x[f]]
  BY DEF View
<1>2. x["llm"] \in LLMs \cup {Blank, None} /\ x["emb"] \in Embedders \cup {Blank, None}
  BY DEF View, Documents, Fields, KeyFields
<1>3. x["llmKey"] \in KeyView /\ x["embKey"] \in KeyView
  BY OpenType DEF View, Preview, Falsy, Fields, KeyFields, KeyView
<1> HIDE DEF x
<1>4. x \in Views
  BY <1>1, <1>2, <1>3, DocumentByFields DEF Views
<1> QED BY <1>4 DEF x

----------------------------------------------------------------------------
(* Saves                                                                    *)

\* What a save of u will be answered, if nobody writes in between: what it has
\* named is in the document, keys sealed for its instance.
Written(s) ==
    \A f \in Fields : req[s][f] # None =>
        Doc(UserOf[s])[f] =
            IF f \in KeyFields THEN [key |-> req[s][f], master |-> master[InstanceOf[s]]]
                               ELSE req[s][f]

SaveOK(s) ==
    /\ pc[s] \in {"idle", "write", "readBack", "done"}
    /\ pc[s] \in {"write", "readBack"} => req[s] \in Requests /\ Supported(req[s])
    /\ pc[s] = "write" => overtaken[s] \/ seen[s] = Doc(UserOf[s])
    /\ pc[s] = "readBack" /\ NamesKey(req[s]) => master[InstanceOf[s]] \in Masters
    /\ pc[s] = "readBack" /\ ~behind[s] => Written(s)
    /\ reply[s].code = "saved" => pc[s] = "done"
SaveInv == \A s \in Saves : SaveOK(s)

\* Every thread has a user and an instance.
LEMMA ThreadsOf ==
    ASSUME NEW t \in Threads PROVE UserOf[t] \in Users /\ InstanceOf[t] \in Instances
BY ThreadsAssumption

\* A save is a coroutine, and no ingestion.
LEMMA SavesAreThreads == ASSUME NEW s \in Saves PROVE s \in Threads /\ s \in OnLoop /\ s \notin Ingests
BY ThreadsAssumption DEF Threads, OnLoop

\* What is written is a document, where the encryption does not raise.
LEMMA UpdateType ==
    ASSUME NEW s \in Saves, req[s] \in Requests, Supported(req[s]),
           ~(NamesKey(req[s]) /\ master[InstanceOf[s]] = None),
           master[InstanceOf[s]] \in Masters \cup {None}
    PROVE  Update(s) \in Documents
<1>1. /\ req[s]["llmKey"] \in Keys \cup {Blank, None}
      /\ req[s]["embKey"] \in Keys \cup {Blank, None}
  BY RequestsAssumption DEF RequestOK, KeyFields
<1>2. \A k \in {"llmKey", "embKey"} : req[s][k] # None => master[InstanceOf[s]] \in Masters
  BY DEF NamesKey, KeyFields
<1>3. req[s].llm \in LLMs \cup {Blank, None} /\ req[s].emb \in Embedders \cup {Blank, None}
  BY DEF Supported
<1>4. "gemini" \in LLMs /\ "gemini" \in Embedders
  BY DEF LLMs, Embedders
<1>5. Update(s).llm \in LLMs \cup {Blank, None}
  BY <1>3, <1>4 DEF Update
<1>6. Update(s).emb \in Embedders \cup {Blank, None}
  BY <1>3, <1>4 DEF Update
<1>7. Update(s).llmKey \in Sealed \cup {None}
  BY <1>1, <1>2 DEF Update, Sealed
<1>8. Update(s).embKey \in Sealed \cup {None}
  BY <1>1, <1>2 DEF Update, Sealed
<1> QED BY <1>5, <1>6, <1>7, <1>8 DEF Update, Documents

\* The part of the update that the request has named.
Named(s) == [f \in Fields |-> IF req[s][f] = None THEN None ELSE Update(s)[f]]

\* The named part of it is one too.
LEMMA NamedType ==
    ASSUME NEW s \in Saves, Update(s) \in Documents
    PROVE  Named(s) \in Documents
<1> DEFINE x == Named(s)
<1>1. x = [f \in Fields |-> x[f]]
  BY DEF Named
<1>2. /\ x["llm"] \in LLMs \cup {Blank, None} /\ x["emb"] \in Embedders \cup {Blank, None}
      /\ x["llmKey"] \in Sealed \cup {None} /\ x["embKey"] \in Sealed \cup {None}
  BY DEF Named, Documents, Fields
<1> HIDE DEF x
<1>3. x \in Documents
  BY <1>1, <1>2, DocumentByFields DEF Documents
<1> QED BY <1>3 DEF x

\* What an update holds, field by field.
LEMMA UpdateFields ==
    ASSUME NEW s \in Saves, req[s] \in Requests, NEW f \in Fields
    PROVE  /\ f \in KeyFields => Update(s)[f] = IF req[s][f] = None THEN None
                                  ELSE [key |-> req[s][f], master |-> master[InstanceOf[s]]]
           /\ f \notin KeyFields => \/ Update(s)[f] = req[s][f]
                                  \/ /\ Update(s)[f] = "gemini" /\ req[s][f] = None
                                     /\ Falsy(seen[s][f])
BY DEF Update, Fields, KeyFields

\* What a write does to the document of its user, and to no other.
LEMMA AppliedDoc ==
    ASSUME Types, NEW s \in Saves, Update(s) \in Documents, Applied(s)
    PROVE  /\ profile' \in [Users -> Documents \cup {NoDoc}]
           /\ named' \in [Users -> Documents]
           /\ overtaken' \in [Saves -> BOOLEAN] /\ behind' \in [Saves -> BOOLEAN]
           /\ \A u \in Users : Doc(u)' = IF u = UserOf[s] THEN MergedDoc(s) ELSE Doc(u)
<1>1. UserOf[s] \in Users
  BY SavesAreThreads, ThreadsOf
<1>2. MergedDoc(s) \in Documents
  BY <1>1, DocType, MergeType DEF MergedDoc, Types
<1>3. MergedDoc(s) # NoDoc
  BY <1>2, MarkersAssumption
<1>4. profile' = [profile EXCEPT ![UserOf[s]] = MergedDoc(s)]
  BY DEF Applied
<1>5. profile \in [Users -> Documents \cup {NoDoc}] /\ named \in [Users -> Documents]
  BY DEF Types, SettingsTypeOK
<1>6. profile' \in [Users -> Documents \cup {NoDoc}]
  BY <1>2, <1>4, <1>5
<1>7. \A u \in Users : Doc(u)' = IF u = UserOf[s] THEN MergedDoc(s) ELSE Doc(u)
  BY <1>1, <1>3, <1>4, <1>5 DEF Doc
<1>8. named' = [named EXCEPT ![UserOf[s]] = Merge(@, Named(s))]
  BY DEF Applied, Named
<1>9. Merge(named[UserOf[s]], Named(s)) \in Documents
  BY <1>1, <1>5, NamedType, MergeType
<1>10. named' \in [Users -> Documents]
  BY <1>5, <1>8, <1>9
<1>11. overtaken' \in [Saves -> BOOLEAN] /\ behind' \in [Saves -> BOOLEAN]
  BY DEF Applied
<1> QED BY <1>6, <1>7, <1>10, <1>11

\* The clients leave the settings and the saves alone.
LEMMA ClientsApart ==
    ASSUME SettingsTypeOK, (\E t \in Clients : ClientStep(t)) \/ (\E i \in Instances : MakeShared(i))
    PROVE  /\ UNCHANGED <<profile, master, saveVars>>
           /\ \A s \in Saves : pc'[s] = pc[s]
<1>1. ASSUME NEW t \in Clients, ClientStep(t)
      PROVE  UNCHANGED <<profile, master, saveVars>> /\ \A s \in Saves : pc'[s] = pc[s]
  <2>1. \A s \in Saves : s # t /\ s \in Threads
    BY SavesAreThreads DEF Clients
  <2>2. t \in Threads /\ pc \in [Threads -> {"idle", "write", "readBack", "key", "second", "env",
                                         "own", "pdfKey", "call", "pdf", "done"}]
    BY DEF Clients, SettingsTypeOK
  <2>3. \A point : Goto(t, point) => \A s \in Saves : pc'[s] = pc[s]
    BY <2>1, <2>2 DEF Goto
  <2>4. UNCHANGED <<profile, master, saveVars>>
    BY <1>1 DEF ClientStep, BeginClient, ReadKey, NoKey, ReadPdfKey, ConfigureProvider, ConfigureEnv,
       ConfigureOwn, Call, ConfigurePdf, CallPdf, End, Drop
  <2>5. UNCHANGED pc \/ \E point : Goto(t, point)
    BY <1>1 DEF ClientStep, BeginClient, ReadKey, NoKey, ReadPdfKey, ConfigureProvider, ConfigureEnv,
       ConfigureOwn, Call, ConfigurePdf, CallPdf, End, Drop
  <2> QED BY <2>3, <2>4, <2>5
<1>2. ASSUME NEW i \in Instances, MakeShared(i)
      PROVE  UNCHANGED <<profile, master, saveVars>> /\ \A s \in Saves : pc'[s] = pc[s]
  BY <1>2 DEF MakeShared
<1> QED BY <1>1, <1>2

\* No settings, no saves changed: what is said of them still holds.
LEMMA SaveInvApart ==
    ASSUME SaveInv, UNCHANGED <<profile, master, saveVars>>, \A s \in Saves : pc'[s] = pc[s]
    PROVE  SaveInv'
BY DEF SaveInv, SaveOK, saveVars, Written, Doc, NamesKey, Supported

\* Beginning a save keeps what is said of all.
LEMMA BeginSaveInv ==
    ASSUME Types, SaveInv, NEW s \in Saves, BeginSave(s) PROVE SaveInv'
<1> SUFFICES ASSUME NEW x \in Saves PROVE SaveOK(x)'
  BY DEF SaveInv
<1>1. s \in Threads /\ x \in Threads
  BY SavesAreThreads
<1>2. UNCHANGED <<profile, master, overtaken, behind>>
  BY DEF BeginSave
<1>3. CASE x # s
  <2>1. pc'[x] = pc[x] /\ req'[x] = req[x] /\ seen'[x] = seen[x] /\ reply'[x] = reply[x]
    BY <1>1, <1>3 DEF BeginSave, Answer, Goto, Types, SettingsTypeOK
  <2> QED BY <1>2, <2>1 DEF SaveInv, SaveOK, Written, Doc, NamesKey, Supported
<1>4. CASE x = s
  <2>1. PICK r \in Requests :
          \/ /\ Supported(r)
             /\ req' = [req EXCEPT ![s] = r]
             /\ seen' = [seen EXCEPT ![s] = Doc(UserOf[s])]
             /\ Goto(s, "write") /\ TakeLoop(s)
             /\ UNCHANGED reply
          \/ Answer(s, "failed", NoField) /\ UNCHANGED loop
    BY DEF BeginSave
  <2>2. pc[s] = "idle"
    BY DEF BeginSave
  <2>3. CASE Answer(s, "failed", NoField)
    <3>1. pc'[s] = "done"
      BY <1>1, <2>3 DEF Answer, Goto, Types, SettingsTypeOK
    <3> QED BY <1>4, <3>1 DEF SaveInv, SaveOK
  <2>4. CASE ~Answer(s, "failed", NoField)
    <3>1. /\ pc'[s] = "write" /\ req'[s] = r /\ seen'[s] = Doc(UserOf[s]) /\ reply'[s] = reply[s]
          /\ Supported(r)
      BY <1>1, <2>1, <2>4 DEF Goto, Types, SettingsTypeOK
    <3>2. Doc(UserOf[s])' = Doc(UserOf[s])
      BY <1>2 DEF Doc
    <3>3. reply[s].code # "saved"
      BY <2>2 DEF SaveInv, SaveOK
    <3> QED BY <1>4, <3>1, <3>2, <3>3 DEF SaveInv, SaveOK, Supported
  <2> QED BY <2>3, <2>4
<1> QED BY <1>3, <1>4

\* A save that has applied its write is shown all it has named.
LEMMA WrittenAfter ==
    ASSUME Types, NEW s \in Saves, req[s] \in Requests, Update(s) \in Documents, Applied(s),
           NamesKey(req[s]) => master[InstanceOf[s]] \in Masters, UNCHANGED <<req, master>>
    PROVE  Written(s)'
<1>1. UserOf[s] \in Users
  BY SavesAreThreads, ThreadsOf
<1>2. Doc(UserOf[s])' = MergedDoc(s)
  BY <1>1, AppliedDoc
<1>3. ASSUME NEW f \in Fields, req[s][f] # None
      PROVE  MergedDoc(s)[f] = IF f \in KeyFields
                               THEN [key |-> req[s][f], master |-> master[InstanceOf[s]]]
                               ELSE req[s][f]
  <2>1. MergedDoc(s)[f] = IF Update(s)[f] = None THEN Doc(UserOf[s])[f] ELSE Update(s)[f]
    BY DEF MergedDoc, Merge
  <2>2. CASE f \in KeyFields
    <3>1. Update(s)[f] = [key |-> req[s][f], master |-> master[InstanceOf[s]]]
      BY <1>3, <2>2, UpdateFields
    <3>2. req[s][f] \in Keys \cup {Blank} /\ master[InstanceOf[s]] \in Masters
      BY <1>3, <2>2, RequestsAssumption DEF RequestOK, NamesKey
    <3>3. Update(s)[f] # None
      BY <3>1, <3>2, MarkersAssumption DEF Sealed
    <3> QED BY <2>1, <2>2, <3>1, <3>3
  <2>3. CASE f \notin KeyFields
    <3>1. Update(s)[f] = req[s][f]
      BY <1>3, <2>3, UpdateFields
    <3> QED BY <1>3, <2>1, <2>3, <3>1
  <2> QED BY <2>2, <2>3
<1> QED BY <1>2, <1>3 DEF Written

\* What a write does: it stores or does not, and goes on or fails.
LEMMA WriteCases ==
    ASSUME Types, SaveInv, NEW s \in Saves, WriteProfile(s)
    PROVE  /\ pc[s] = "write" /\ req[s] \in Requests /\ Supported(req[s]) /\ UNCHANGED master
           /\ \/ UNCHANGED <<profile, named, overtaken, behind>>
              \/ Update(s) \in Documents /\ Applied(s)
           /\ \/ /\ pc' = [pc EXCEPT ![s] = "readBack"] /\ UNCHANGED <<req, seen, reply>>
                 /\ NamesKey(req[s]) => master[InstanceOf[s]] \in Masters
                 /\ (Update(s) = NoField /\ UNCHANGED profile) \/ (Applied(s) /\ Update(s) \in Documents)
              \/ Answer(s, "failed", NoField)
<1>1. pc[s] = "write" /\ req[s] \in Requests /\ Supported(req[s]) /\ UNCHANGED master
  BY DEF WriteProfile, SaveInv, SaveOK
<1>2. master[InstanceOf[s]] \in Masters \cup {None}
  BY SavesAreThreads, ThreadsOf DEF Types, SettingsTypeOK
<1>3. ~(NamesKey(req[s]) /\ master[InstanceOf[s]] = None) => Update(s) \in Documents
  BY <1>1, <1>2, UpdateType
<1>4. CASE NamesKey(req[s]) /\ master[InstanceOf[s]] = None
  BY <1>1, <1>4 DEF WriteProfile
<1>5. CASE ~(NamesKey(req[s]) /\ master[InstanceOf[s]] = None)
  <2>1. \/ /\ IF Update(s) = NoField THEN UNCHANGED <<profile, named, overtaken, behind>>
                                       ELSE Applied(s)
           /\ Goto(s, "readBack")
           /\ UNCHANGED <<loop, req, seen, reply>>
        \/ /\ Update(s) # NoField
           /\ Applied(s) \/ UNCHANGED <<profile, named, overtaken, behind>>
           /\ Answer(s, "failed", NoField) /\ GiveLoop(s)
    BY <1>5 DEF WriteProfile
  <2> QED BY <1>1, <1>2, <1>3, <1>5, <2>1 DEF Goto
<1> QED BY <1>4, <1>5

\* So does the write ...
LEMMA WriteProfileInv ==
    ASSUME Types, SaveInv, NEW s \in Saves, WriteProfile(s) PROVE SaveInv'
<1> SUFFICES ASSUME NEW x \in Saves PROVE SaveOK(x)'
  BY DEF SaveInv
<1>1. s \in Threads /\ x \in Threads
  BY SavesAreThreads
<1>2. UNCHANGED master
  BY WriteCases
<1>3. CASE x # s
  <2>1. pc'[x] = pc[x] /\ req'[x] = req[x] /\ seen'[x] = seen[x] /\ reply'[x] = reply[x]
    BY <1>1, <1>3, WriteCases DEF Answer, Goto, Types, SettingsTypeOK
  <2>2. CASE UNCHANGED <<profile, named, overtaken, behind>>
    BY <1>2, <2>1, <2>2 DEF SaveInv, SaveOK, Written, Doc, NamesKey, Supported
  <2>3. CASE Update(s) \in Documents /\ Applied(s)
    <3>1. CASE UserOf[x] = UserOf[s]
      <4>1. pc[x] = "write" => overtaken'[x]
        BY <1>3, <2>3, <3>1 DEF Applied
      <4>2. pc[x] = "readBack" => behind'[x]
        BY <1>3, <2>3, <3>1 DEF Applied
      <4> QED BY <1>2, <2>1, <4>1, <4>2 DEF SaveInv, SaveOK, Supported, NamesKey
    <3>2. CASE UserOf[x] # UserOf[s]
      <4>1. Doc(UserOf[x])' = Doc(UserOf[x])
        BY <1>1, <2>3, <3>2, ThreadsOf, AppliedDoc
      <4>2. overtaken'[x] = overtaken[x] /\ behind'[x] = behind[x]
        BY <2>3, <3>2 DEF Applied, Types, SettingsTypeOK
      <4> QED BY <1>2, <2>1, <4>1, <4>2 DEF SaveInv, SaveOK, Supported, NamesKey, Written
    <3> QED BY <3>1, <3>2
  <2> QED BY <2>2, <2>3, WriteCases
<1>4. CASE x = s
  <2>1. CASE Answer(s, "failed", NoField)
    <3>1. pc'[s] = "done"
      BY <1>1, <2>1 DEF Answer, Goto, Types, SettingsTypeOK
    <3> QED BY <1>4, <3>1 DEF SaveOK
  <2>2. CASE ~Answer(s, "failed", NoField)
    <3>1. /\ pc' = [pc EXCEPT ![s] = "readBack"] /\ UNCHANGED <<req, seen, reply>>
          /\ NamesKey(req[s]) => master[InstanceOf[s]] \in Masters
          /\ (Update(s) = NoField /\ UNCHANGED profile) \/ (Applied(s) /\ Update(s) \in Documents)
          /\ pc[s] = "write" /\ req[s] \in Requests /\ Supported(req[s])
      BY <2>2, WriteCases
    <3>2. pc'[s] = "readBack"
      BY <1>1, <3>1 DEF Types, SettingsTypeOK
    <3>3. reply'[s].code # "saved"
      BY <3>1 DEF SaveInv, SaveOK
    <3>4. Written(s)'
      <4>1. CASE Applied(s) /\ Update(s) \in Documents
        BY <1>2, <3>1, <4>1, WrittenAfter
      <4>2. CASE Update(s) = NoField
        <5>1. \A f \in Fields : req[s][f] = None
          <6>1. \A f \in Fields : Update(s)[f] = None
            BY <4>2 DEF NoField
          <6>2. ASSUME NEW f \in Fields, f \in KeyFields PROVE req[s][f] = None
            <7>1. SUFFICES ASSUME req[s][f] # None PROVE FALSE
              OBVIOUS
            <7>2. req[s][f] \in Keys \cup {Blank} /\ master[InstanceOf[s]] \in Masters
              BY <3>1, <6>2, <7>1, RequestsAssumption DEF RequestOK, NamesKey
            <7>3. Update(s)[f] = [key |-> req[s][f], master |-> master[InstanceOf[s]]]
              BY <3>1, <6>2, <7>1, UpdateFields
            <7> QED BY <6>1, <7>2, <7>3, MarkersAssumption DEF Sealed
          <6>3. ASSUME NEW f \in Fields, f \notin KeyFields PROVE req[s][f] = None
            <7>1. None # "gemini"
              BY MarkersAssumption DEF LLMs
            <7> QED BY <3>1, <6>1, <6>3, <7>1, UpdateFields
          <6> QED BY <6>2, <6>3
        <5> QED BY <3>1, <5>1 DEF Written
      <4> QED BY <3>1, <4>1, <4>2
    <3> QED BY <1>2, <1>4, <3>1, <3>2, <3>3, <3>4 DEF SaveOK, Supported, NamesKey
  <2> QED BY <2>1, <2>2
<1> QED BY <1>3, <1>4

\* ... and the reply ...
LEMMA ReadBackInv ==
    ASSUME Types, SaveInv, NEW s \in Saves, ReadBack(s) PROVE SaveInv'
<1> SUFFICES ASSUME NEW x \in Saves PROVE SaveOK(x)'
  BY DEF SaveInv
<1>1. s \in Threads /\ x \in Threads
  BY SavesAreThreads
<1>2. /\ UNCHANGED <<profile, master, overtaken, behind>>
      /\ Answer(s, "saved", Shown(s)) \/ Answer(s, "failed", NoField)
  BY DEF ReadBack
<1>3. CASE x # s
  <2>1. pc'[x] = pc[x] /\ req'[x] = req[x] /\ seen'[x] = seen[x] /\ reply'[x] = reply[x]
    BY <1>1, <1>2, <1>3 DEF Answer, Goto, Types, SettingsTypeOK
  <2> QED BY <1>2, <2>1 DEF ReadBack, SaveInv, SaveOK, Written, Doc, NamesKey, Supported
<1>4. CASE x = s
  <2>1. pc'[s] = "done"
    BY <1>1 DEF ReadBack, Answer, Goto, Types, SettingsTypeOK
  <2> QED BY <1>4, <2>1 DEF SaveOK
<1> QED BY <1>3, <1>4

\* What a rollout does to the saves and settings.
LEMMA RolloutSaves ==
    ASSUME SettingsTypeOK, NEW i \in Instances, Rollout(i), NEW s \in Saves
    PROVE  /\ UNCHANGED <<profile, named, overtaken, behind>>
           /\ InstanceOf[s] = i /\ InFlight(s) =>
                 pc'[s] = "done" /\ reply'[s].code = "failed" /\ req'[s] = NoField
           /\ ~(InstanceOf[s] = i /\ InFlight(s)) =>
                 pc'[s] = pc[s] /\ reply'[s] = reply[s] /\ req'[s] = req[s]
           /\ InstanceOf[s] # i => seen'[s] = seen[s] /\ master'[InstanceOf[s]] = master[InstanceOf[s]]
<1>1. s \in Threads /\ InstanceOf[s] \in Instances
  BY SavesAreThreads, ThreadsOf
<1>2. UNCHANGED <<profile, named, overtaken, behind>>
  BY DEF Rollout
<1>3. /\ pc'[s] = IF InstanceOf[s] = i /\ InFlight(s) THEN "done" ELSE pc[s]
      /\ reply'[s] = IF InstanceOf[s] = i /\ InFlight(s)
                     THEN [NoReply EXCEPT !.code = "failed"] ELSE reply[s]
  BY <1>1 DEF Rollout
<1>4. /\ req'[s] = IF s \in {t \in Threads : InstanceOf[t] = i} /\ InFlight(s) THEN NoField ELSE req[s]
      /\ seen'[s] = IF s \in {t \in Threads : InstanceOf[t] = i} THEN NoField ELSE seen[s]
  BY <1>1 DEF Rollout
<1>5. [NoReply EXCEPT !.code = "failed"].code = "failed"
  BY DEF NoReply
<1>6. InstanceOf[s] # i => master'[InstanceOf[s]] = master[InstanceOf[s]]
  BY <1>1 DEF Rollout, SettingsTypeOK
<1> QED BY <1>1, <1>2, <1>3, <1>4, <1>5, <1>6

\* ... and a rollout.
LEMMA RolloutInv ==
    ASSUME Types, SaveInv, NEW i \in Instances, Rollout(i) PROVE SaveInv'
<1> SUFFICES ASSUME NEW x \in Saves PROVE SaveOK(x)'
  BY DEF SaveInv
<1>1. CASE InstanceOf[x] = i /\ InFlight(x)
  BY <1>1, RolloutSaves DEF Types, SaveOK
<1>2. CASE ~InFlight(x)
  <2>1. pc'[x] = pc[x] /\ pc[x] \in {"idle", "done"} /\ reply'[x] = reply[x]
    BY <1>2, RolloutSaves DEF Types, InFlight
  <2> QED BY <2>1 DEF SaveInv, SaveOK
<1>3. CASE InstanceOf[x] # i
  <2>1. /\ pc'[x] = pc[x] /\ req'[x] = req[x] /\ seen'[x] = seen[x] /\ reply'[x] = reply[x]
        /\ UNCHANGED <<profile, overtaken, behind>>
        /\ master'[InstanceOf[x]] = master[InstanceOf[x]]
    BY <1>3, RolloutSaves DEF Types
  <2> QED BY <2>1 DEF SaveInv, SaveOK, Written, Doc, NamesKey, Supported
<1> QED BY <1>1, <1>2, <1>3

\* Every step keeps what is said of the saves.
LEMMA SaveInvStep ==
    ASSUME Types, SaveInv, [Next]_vars PROVE SaveInv'
<1>1. CASE \E s \in Saves : SaveStep(s)
  BY <1>1, BeginSaveInv, WriteProfileInv, ReadBackInv DEF SaveStep
<1>2. CASE (\E t \in Clients : ClientStep(t)) \/ \E i \in Instances : MakeShared(i)
  BY <1>2, ClientsApart, SaveInvApart DEF Types
<1>3. CASE \E i \in Instances : Rollout(i)
  BY <1>3, RolloutInv
<1>4. CASE UNCHANGED vars
  <2>1. UNCHANGED <<profile, master, saveVars>> /\ \A s \in Saves : pc'[s] = pc[s]
    BY <1>4 DEF vars
  <2> QED BY <2>1, SaveInvApart
<1> QED BY <1>1, <1>2, <1>3, <1>4 DEF Next, Clients

----------------------------------------------------------------------------
(* What is kept and what is shown                                           *)

\* A write stores what was named, or the default of an unnamed provider.
LEMMA KeptStep ==
    ASSUME Types, SaveInv, SavesKept, [Next]_vars PROVE SavesKept'
<1>1. ASSUME NEW s \in Saves, Update(s) \in Documents, Applied(s), pc[s] = "write", req[s] \in Requests
      PROVE  SavesKept'
  <2> SUFFICES ASSUME NEW u \in Users, NEW f \in Fields
               PROVE  \/ Doc(u)'[f] = named'[u][f]
                      \/ /\ f \notin KeyFields /\ Doc(u)'[f] = "gemini"
                         /\ Falsy(named'[u][f]) \/ \E x \in Saves : UserOf[x] = u /\ overtaken'[x]
    BY DEF SavesKept, Falsy
  <2>1. \A x \in Saves : overtaken[x] => overtaken'[x]
    BY <1>1 DEF Applied
  <2>2. /\ \/ Doc(u)[f] = named[u][f]
           \/ /\ f \notin KeyFields /\ Doc(u)[f] = "gemini"
              /\ Falsy(named[u][f]) \/ \E x \in Saves : UserOf[x] = u /\ overtaken[x]
    BY DEF SavesKept
  <2>3. CASE u # UserOf[s]
    <3>1. Doc(u)' = Doc(u)
      BY <1>1, <2>3, AppliedDoc
    <3>2. named'[u] = named[u]
      BY <1>1, <2>3 DEF Applied, Types, SettingsTypeOK
    <3> QED BY <2>1, <2>2, <3>1, <3>2
  <2>4. CASE u = UserOf[s]
    <3>1. Doc(u)'[f] = IF Update(s)[f] = None THEN Doc(u)[f] ELSE Update(s)[f]
      BY <1>1, <2>4, AppliedDoc DEF MergedDoc, Merge
    <3>2. named'[u] = Merge(named[u], Named(s))
      BY <1>1, <2>4 DEF Applied, Named, Types, SettingsTypeOK
    <3>3. named'[u][f] = IF req[s][f] = None \/ Update(s)[f] = None THEN named[u][f] ELSE Update(s)[f]
      BY <3>2 DEF Merge, Named
    <3>4. CASE Update(s)[f] = None
      BY <2>1, <2>2, <3>1, <3>3, <3>4
    <3>5. CASE Update(s)[f] # None /\ req[s][f] # None
      BY <3>1, <3>3, <3>5
    <3>6. CASE Update(s)[f] # None /\ req[s][f] = None
      <4>1. f \notin KeyFields /\ Update(s)[f] = "gemini" /\ Falsy(seen[s][f])
        BY <1>1, <3>6, UpdateFields
      <4>2. CASE overtaken[s]
        BY <2>1, <2>4, <3>1, <3>6, <4>1, <4>2
      <4>3. CASE ~overtaken[s]
        <5>1. Falsy(Doc(u)[f])
          BY <1>1, <2>4, <4>1, <4>3 DEF SaveInv, SaveOK
        <5>2. ~Falsy("gemini")
          BY MarkersAssumption DEF Falsy, LLMs
        <5>3. Falsy(named[u][f])
          BY <2>2, <5>1, <5>2
        <5> QED BY <3>1, <3>3, <3>6, <4>1, <5>3
      <4> QED BY <4>2, <4>3
    <3> QED BY <3>4, <3>5, <3>6
  <2> QED BY <2>3, <2>4
<1>2. ASSUME UNCHANGED <<profile, named, overtaken>> PROVE SavesKept'
  BY <1>2 DEF SavesKept, Doc, Falsy
<1>3. ASSUME NEW s \in Saves, SaveStep(s) PROVE SavesKept'
  BY <1>1, <1>2, <1>3, WriteCases DEF SaveStep, BeginSave, ReadBack
<1>4. CASE (\E t \in Clients : ClientStep(t)) \/ \E i \in Instances : MakeShared(i)
  BY <1>2, <1>4, ClientsApart DEF Types, saveVars
<1>5. CASE \E i \in Instances : Rollout(i)
  BY <1>2, <1>5 DEF Rollout
<1>6. CASE UNCHANGED vars
  BY <1>2, <1>6 DEF vars, saveVars
<1> QED BY <1>3, <1>4, <1>5, <1>6 DEF Next, Clients

\* A field that was written is shown as it was named.
LEMMA ShownAsNamed ==
    ASSUME NEW s \in Saves, req[s] \in Requests, Written(s),
           NamesKey(req[s]) => master[InstanceOf[s]] \in Masters,
           NEW f \in Fields, req[s][f] # None
    PROVE  IF f \notin KeyFields THEN Shown(s)[f] = req[s][f]
           ELSE /\ Shown(s)[f].has
                /\ Shown(s)[f].preview = IF Falsy(req[s][f]) THEN None ELSE req[s][f]
<1>1. CASE f \notin KeyFields
  BY <1>1 DEF Shown, View, Written
<1>2. CASE f \in KeyFields
  <2> DEFINE sealed == [key |-> req[s][f], master |-> master[InstanceOf[s]]]
  <2>1. req[s][f] \in Keys \cup {Blank} /\ master[InstanceOf[s]] \in Masters
    BY <1>2, RequestsAssumption DEF RequestOK, NamesKey
  <2>2. sealed \in Sealed /\ Doc(UserOf[s])[f] = sealed
    BY <1>2, <2>1 DEF Sealed, Written
  <2>3. Open(sealed, InstanceOf[s]) = req[s][f]
    BY <2>2 DEF Open
  <2> HIDE DEF sealed
  <2>4. Shown(s)[f] = [has |-> sealed # None, preview |-> Preview(sealed, InstanceOf[s])]
    BY <1>2, <2>2 DEF Shown, View
  <2>5. (sealed # None) = TRUE
    BY <2>2, MarkersAssumption
  <2>6. Preview(sealed, InstanceOf[s]) = IF Falsy(req[s][f]) THEN None ELSE req[s][f]
    BY <2>3 DEF Preview, Falsy
  <2>7. Shown(s)[f] = [has |-> TRUE, preview |-> Preview(sealed, InstanceOf[s])]
    BY <2>4, <2>5, Zenon
  <2>8. Shown(s)[f].has = TRUE
    BY <2>7
  <2>9. Shown(s)[f].preview = IF Falsy(req[s][f]) THEN None ELSE req[s][f]
    BY <2>6, <2>7
  <2> QED BY <1>2, <2>8, <2>9
<1> QED BY <1>1, <1>2

\* The reply is made of the document as it was written.
LEMMA RepliesStep ==
    ASSUME Types, SaveInv, RepliesShow, [Next]_vars PROVE RepliesShow'
<1> SUFFICES ASSUME NEW x \in Saves, reply'[x].code = "saved", ~behind'[x],
                    NEW f \in Fields, req'[x][f] # None
             PROVE  IF f \notin KeyFields THEN reply'[x].shown[f] = req'[x][f]
                    ELSE /\ reply'[x].shown[f].has
                         /\ reply'[x].shown[f].preview =
                                IF Falsy(req'[x][f]) THEN None ELSE req'[x][f]
  BY DEF RepliesShow, Falsy
<1>0. x \in Threads
  BY SavesAreThreads
<1>1. CASE reply'[x] = reply[x] /\ req'[x] = req[x] /\ (behind[x] => behind'[x])
  BY <1>1 DEF RepliesShow
<1>2. ASSUME NEW s \in Saves, BeginSave(s) PROVE x # s
  <2>1. pc[s] = "idle" /\ reply[s].code # "saved"
    BY <1>2 DEF BeginSave, SaveInv, SaveOK
  <2>2. reply'[s] = reply[s] \/ Answer(s, "failed", NoField)
    BY <1>2 DEF BeginSave
  <2>3. reply'[s].code # "saved"
    BY <2>1, <2>2 DEF Answer, Types
  <2> QED BY <2>3
<1>3. ASSUME NEW s \in Saves, BeginSave(s) PROVE reply'[x] = reply[x] /\ req'[x] = req[x] /\ behind' = behind
  BY <1>2, <1>3 DEF BeginSave, Answer, Types, SettingsTypeOK
<1>4. ASSUME NEW s \in Saves, WriteProfile(s)
      PROVE  reply'[x] = reply[x] /\ req'[x] = req[x] /\ (behind[x] => behind'[x])
  <2>1. behind[x] => behind'[x]
    BY <1>4, WriteCases DEF Applied
  <2>2. CASE x # s
    BY <1>4, <2>1, <2>2, WriteCases DEF Answer, Types, SettingsTypeOK
  <2>3. CASE x = s
    <3>1. ~Answer(s, "failed", NoField)
      BY <2>3 DEF Answer, Types
    <3> QED BY <1>4, <2>1, <3>1, WriteCases
  <2> QED BY <2>2, <2>3
<1>5. ASSUME NEW s \in Saves, ReadBack(s), x # s
      PROVE  reply'[x] = reply[x] /\ req'[x] = req[x] /\ behind' = behind
  BY <1>5 DEF ReadBack, Answer, Types, SettingsTypeOK
<1>6. CASE ReadBack(x)
  <2>1. Answer(x, "saved", Shown(x))
    BY <1>6 DEF ReadBack, Answer, Types
  <2>2. reply'[x].shown = Shown(x) /\ req'[x] = req[x] /\ ~behind[x]
    BY <1>6, <2>1 DEF ReadBack, Answer, Types, SettingsTypeOK
  <2>3. /\ Written(x) /\ req[x] \in Requests
        /\ NamesKey(req[x]) => master[InstanceOf[x]] \in Masters
    BY <1>6, <2>2 DEF ReadBack, SaveInv, SaveOK
  <2> QED BY <2>2, <2>3, ShownAsNamed
<1>7. CASE (\E t \in Clients : ClientStep(t)) \/ \E i \in Instances : MakeShared(i)
  BY <1>1, <1>7, ClientsApart DEF Types, saveVars
<1>8. ASSUME NEW i \in Instances, Rollout(i)
      PROVE  reply'[x] = reply[x] /\ req'[x] = req[x] /\ behind' = behind
  BY <1>8, RolloutSaves DEF Types
<1>9. CASE UNCHANGED vars
  BY <1>1, <1>9 DEF vars, saveVars
<1> QED BY <1>1, <1>3, <1>4, <1>5, <1>6, <1>7, <1>8, <1>9 DEF Next, SaveStep, Clients

----------------------------------------------------------------------------
(* Clients                                                                  *)

\* Clients whose calls use the key the process is configured with, and explain it.
Shares(t) == ~HoldsKey(t) /\ ~AsksNobody(t) /\ ~Keyless(t)

ClientOK(t) ==
    /\ used[t] # Blank => pc[t] \in {"call", "pdf"}
    /\ pc[t] = "idle" => key[t] = None
    /\ pc[t] \in {"key", "second"} => provider[t] \in IF t \in Tests THEN LLMs ELSE Embedders
    /\ pc[t] = "second" => t \notin Tests /\ provider[t] = "openai"
    /\ pc[t] = "env" => \/ provider[t] = "gemini"
                        \/ t \notin Tests /\ provider[t] \notin Embedders /\ key[t] = None
    /\ pc[t] = "own" => t \notin Tests /\ provider[t] = "gemini" /\ ~Falsy(key[t])
    /\ pc[t] = "pdfKey" => t \in Ingests
    /\ pc[t] = "pdf" => t \in Ingests /\ ~Falsy(pdfKey[t])
    /\ t \in Ingests /\ pc[t] \notin {"call", "pdf"} => pdfKey[t] = None
    /\ pc[t] \in {"pdfKey", "call", "pdf"} /\ HoldsKey(t) => ~Falsy(key[t])
    /\ pc[t] \in {"pdfKey", "call"} /\ Shares(t) /\ ~crowded[t] =>
          configured[InstanceOf[t]] \in KeysOf(t)
    /\ pc[t] = "pdf" /\ ~crowded[t] => configured[InstanceOf[t]] = pdfKey[t]
    /\ used[t] # Blank => IF AsksNobody(t) THEN used[t] = None
                          ELSE crowded[t] \/ Keyless(t) \/ used[t] \in KeysOf(t)
ClientInv == \A t \in Clients : ClientOK(t)

\* What a thread does to the fields of another client: it may crowd it.
Elsewhere(x) ==
    /\ pc'[x] = pc[x] /\ provider'[x] = provider[x] /\ key'[x] = key[x] /\ used'[x] = used[x]
    /\ envKey'[InstanceOf[x]] = envKey[InstanceOf[x]]
    /\ x \in Ingests => pdfKey'[x] = pdfKey[x]
    /\ \/ crowded'[x] = crowded[x] /\ configured'[InstanceOf[x]] = configured[InstanceOf[x]]
       \/ crowded'[x]
       \/ pc[x] \in {"idle", "done"}

\* What is said of a client survives the steps of the others.
LEMMA ElsewhereOK ==
    ASSUME NEW x \in Clients, ClientOK(x), Elsewhere(x) PROVE ClientOK(x)'
<1>1. CASE pc[x] \in {"idle", "done"}
  <2>1. used'[x] = Blank
    BY <1>1 DEF ClientOK, Elsewhere
  <2> QED BY <1>1, <2>1 DEF ClientOK, Elsewhere
<1>2. CASE pc[x] \notin {"idle", "done"}
  <2>1. /\ HoldsKey(x)' = HoldsKey(x) /\ KeysOf(x)' = KeysOf(x) /\ Shares(x)' = Shares(x)
        /\ AsksNobody(x)' = AsksNobody(x) /\ Keyless(x)' = Keyless(x)
    BY DEF Elsewhere, HoldsKey, KeysOf, Shares, Own, Keyless, AsksNobody, Falsy
  <2>2. CASE crowded'[x]
    BY <1>2, <2>1, <2>2 DEF ClientOK, Elsewhere, Falsy
  <2>3. CASE crowded'[x] = crowded[x] /\ configured'[InstanceOf[x]] = configured[InstanceOf[x]]
    BY <1>2, <2>1, <2>3 DEF ClientOK, Elsewhere, Falsy
  <2> QED BY <1>2, <2>2, <2>3 DEF Elsewhere
<1> QED BY <1>1, <1>2

\* A client is a thread, and no save.
LEMMA ClientThreads ==
    ASSUME NEW t \in Clients
    PROVE  t \in Threads /\ t \notin Saves /\ UserOf[t] \in Users /\ InstanceOf[t] \in Instances
BY ThreadsOf DEF Clients

\* Configuring genai crowds the clients of the same process, no others.
LEMMA ConfigureElsewhere ==
    ASSUME SettingsTypeOK, NEW t \in Clients, NEW k, Configure(t, k), NEW x \in Clients, x # t
    PROVE  \/ crowded'[x] = crowded[x] /\ configured'[InstanceOf[x]] = configured[InstanceOf[x]]
           \/ crowded'[x]
           \/ pc[x] \in {"idle", "done"}
<1>1. x \in Threads \ Saves /\ InstanceOf[x] \in Instances
  BY ClientThreads DEF Clients
<1>2. crowded'[x] = (crowded[x] \/ (InstanceOf[x] = InstanceOf[t] /\ InFlight(x)))
  BY <1>1 DEF Configure
<1>3. InstanceOf[x] # InstanceOf[t] => configured'[InstanceOf[x]] = configured[InstanceOf[x]]
  BY <1>1 DEF Configure, SettingsTypeOK
<1>4. crowded[x] \in BOOLEAN
  BY <1>1 DEF SettingsTypeOK
<1> QED BY <1>2, <1>3, <1>4 DEF InFlight

\* So does configuring the key of the environment, or nothing where there is none.
LEMMA DefaultElsewhere ==
    ASSUME SettingsTypeOK, NEW t \in Clients, ConfigureDefault(t), NEW x \in Clients, x # t
    PROVE  \/ crowded'[x] = crowded[x] /\ configured'[InstanceOf[x]] = configured[InstanceOf[x]]
           \/ crowded'[x]
           \/ pc[x] \in {"idle", "done"}
BY ConfigureElsewhere DEF ConfigureDefault

\* A step of one client, seen by another.
LEMMA ClientElsewhere ==
    ASSUME SettingsTypeOK, NEW t \in Clients, ClientStep(t), NEW x \in Clients, x # t
    PROVE  Elsewhere(x)
<1>0. x \in Threads /\ x \notin Saves /\ t \in Threads /\ t \notin Saves
  BY ClientThreads
<1> USE <1>0 DEF Goto, SettingsTypeOK
<1>1. CASE BeginClient(t)
  BY <1>1 DEF BeginClient, Elsewhere
<1>2. CASE ReadKey(t)
  BY <1>2 DEF ReadKey, Elsewhere
<1>3. CASE NoKey(t)
  BY <1>3 DEF NoKey, Drop, Elsewhere
<1>4. CASE ReadPdfKey(t)
  BY <1>4 DEF ReadPdfKey, Elsewhere
<1>5. CASE ConfigureProvider(t)
  BY <1>5, ConfigureElsewhere, DefaultElsewhere DEF ConfigureProvider, Elsewhere
<1>6. CASE ConfigureEnv(t)
  BY <1>6, DefaultElsewhere DEF ConfigureEnv, Elsewhere, clientVars
<1>7. CASE ConfigureOwn(t)
  BY <1>7, ConfigureElsewhere DEF ConfigureOwn, Elsewhere, clientVars
<1>8. CASE Call(t)
  BY <1>8 DEF Call, Elsewhere
<1>9. CASE ConfigurePdf(t)
  BY <1>9, ConfigureElsewhere DEF ConfigurePdf, Elsewhere
<1>10. CASE CallPdf(t)
  BY <1>10 DEF CallPdf, Elsewhere
<1>11. CASE End(t)
  BY <1>11 DEF End, Drop, Elsewhere
<1> QED BY <1>1, <1>2, <1>3, <1>4, <1>5, <1>6, <1>7, <1>8, <1>9, <1>10, <1>11 DEF ClientStep

\* A client that ends is as it was before it began.
LEMMA DropOK ==
    ASSUME SettingsTypeOK, NEW t \in Clients, Drop(t) PROVE ClientOK(t)'
<1>0. t \in Threads /\ t \notin Saves
  BY ClientThreads
<1>1. pc'[t] = "done" /\ used'[t] = Blank /\ (t \in Ingests => pdfKey'[t] = None)
  BY <1>0 DEF Drop, Goto, SettingsTypeOK
<1> QED BY <1>1 DEF ClientOK

\* The provider of a client comes from the document or is Gemini.
LEMMA ChosenProvider ==
    ASSUME SettingsTypeOK, NEW t \in Clients
    PROVE  ChooseProvider(t) \in LLMs \cup {Blank, None}
<1>1. Doc(UserOf[t]) \in Documents
  BY ClientThreads, DocType
<1>2. "gemini" \in LLMs /\ Embedders \subseteq LLMs
  BY DEF LLMs, Embedders
<1> QED BY <1>1, <1>2 DEF ChooseProvider, Documents

\* A key is not falsy; neither are the absence of one and the empty string the same.
LEMMA KeyFacts == Falsy(None) /\ Falsy(Blank) /\ None # Blank /\ \A k \in Keys : ~Falsy(k)
BY KeysAssumption DEF Falsy

\* Configuring sets the key of the process; the one who does it is not crowded.
LEMMA ConfiguredBy ==
    ASSUME SettingsTypeOK, NEW t \in Clients, NEW k, Configure(t, k)
    PROVE  configured'[InstanceOf[t]] = k /\ crowded'[t] = FALSE
BY ClientThreads DEF Configure, SettingsTypeOK

\* A step of a client keeps what is said of it.
LEMMA ClientOwn ==
    ASSUME SettingsTypeOK, NEW t \in Clients, ClientStep(t), ClientOK(t) PROVE ClientOK(t)'
<1>0. t \in Threads /\ t \notin Saves /\ InstanceOf[t] \in Instances
  BY ClientThreads
<1>t. key[t] \in Keys \cup {Blank, None} /\ envKey[InstanceOf[t]] \in Keys \cup {None}
  BY <1>0 DEF SettingsTypeOK
<1>k. KeyField(t) = "embKey" => pc[t] = "key" /\ t \notin Tests /\ provider[t] = "openai"
  BY DEF KeyField
<1>m. /\ Made(t) = "pdfKey" => t \in Ingests
      /\ Made(t) \in {"pdfKey", "call"}
      /\ Made(t) = "call" => t \notin Ingests
  BY DEF Made
<1>1. CASE BeginClient(t)
  <2>1. pc[t] = "idle" /\ key'[t] = None /\ used'[t] = Blank /\ (t \in Ingests => pdfKey'[t] = None)
    BY <1>0, <1>1, <1>t DEF BeginClient, ClientOK
  <2>2. CASE t \in Tests /\ Falsy(ChooseProvider(t))
    <3>1. pc'[t] = "done"
      BY <1>0, <1>1, <2>2 DEF BeginClient, Goto, SettingsTypeOK
    <3> QED BY <2>1, <3>1 DEF ClientOK
  <2>3. CASE ~(t \in Tests /\ Falsy(ChooseProvider(t)))
    <3>1. /\ provider'[t] = ChooseProvider(t)
          /\ pc'[t] = IF t \in Tests \/ ChooseProvider(t) \in Embedders THEN "key" ELSE "env"
      BY <1>0, <1>1, <2>3 DEF BeginClient, Goto, SettingsTypeOK
    <3>2. t \in Tests => ChooseProvider(t) \in LLMs
      BY <2>3, ChosenProvider DEF Falsy
    <3> QED BY <2>1, <3>1, <3>2 DEF ClientOK
  <2> QED BY <2>2, <2>3
<1>2. CASE ReadKey(t)
  <2> DEFINE found == RawKey(t, KeyField(t))
  <2>1. /\ pc[t] \in {"key", "second"} /\ key'[t] = found
        /\ UNCHANGED <<configured, envKey, provider, pdfKey, used, crowded>>
    BY <1>0, <1>2 DEF ReadKey, SettingsTypeOK
  <2>2. used[t] = Blank /\ (t \in Ingests => pdfKey[t] = None)
    BY <1>t, <2>1 DEF ClientOK
  <2>3. provider[t] \in IF t \in Tests THEN LLMs ELSE Embedders
    BY <2>1 DEF ClientOK
  <2>4. \/ provider[t] = "gemini" /\ Goto(t, "env")
        \/ /\ provider[t] # "gemini" /\ (~Falsy(found) \/ provider[t] = "ollama")
           /\ Goto(t, Made(t))
        \/ KeyField(t) = "embKey" /\ Falsy(found) /\ Goto(t, "second")
    BY <1>2 DEF ReadKey
  <2> HIDE DEF found
  <2>5. CASE provider[t] = "gemini" /\ Goto(t, "env")
    <3>1. pc'[t] = "env"
      BY <1>0, <2>5 DEF Goto, SettingsTypeOK
    <3> QED BY <2>1, <2>2, <2>5, <3>1 DEF ClientOK
  <2>6. CASE /\ provider[t] # "gemini" /\ (~Falsy(found) \/ provider[t] = "ollama")
             /\ Goto(t, Made(t))
    <3>1. pc'[t] = Made(t)
      BY <1>0, <2>6 DEF Goto, SettingsTypeOK
    <3>2. HoldsKey(t) => provider[t] # "ollama"
      BY DEF HoldsKey
    <3>3. HoldsKey(t)' = HoldsKey(t)
      BY <2>1 DEF HoldsKey
    <3>4. ~Shares(t)'
      BY <2>1, <2>3, <2>6 DEF Shares, HoldsKey, LLMs, Embedders, AsksNobody
    <3>5. HoldsKey(t) => ~Falsy(found)
      BY <2>6, <3>2
    <3> QED BY <1>m, <2>1, <2>2, <3>1, <3>3, <3>4, <3>5 DEF ClientOK, Falsy
  <2>7. CASE KeyField(t) = "embKey" /\ Falsy(found) /\ Goto(t, "second")
    <3>1. pc'[t] = "second"
      BY <1>0, <2>7 DEF Goto, SettingsTypeOK
    <3> QED BY <1>k, <2>1, <2>2, <2>3, <2>7, <3>1 DEF ClientOK
  <2> QED BY <2>4, <2>5, <2>6, <2>7
<1>3. CASE NoKey(t) \/ End(t)
  BY <1>3, DropOK DEF NoKey, End
<1>4. CASE ReadPdfKey(t)
  <2>1. /\ pc[t] = "pdfKey" /\ pc'[t] = "call"
        /\ UNCHANGED <<configured, envKey, provider, key, used, crowded>>
    BY <1>0, <1>4 DEF ReadPdfKey, Goto, SettingsTypeOK
  <2>2. used[t] = Blank /\ t \in Ingests /\ pdfKey[t] = None
    BY <1>t, <2>1 DEF ClientOK
  <2>3. HoldsKey(t)' = HoldsKey(t) /\ Shares(t)' = Shares(t)
    BY <2>1 DEF HoldsKey, Shares, AsksNobody, Keyless, Own, Falsy
  <2>4. \A k \in KeysOf(t) : k \in KeysOf(t)'
    BY <2>1, <2>2, <2>3 DEF KeysOf, Own, Falsy
  <2> QED BY <2>1, <2>2, <2>3, <2>4 DEF ClientOK, Falsy
<1>5. CASE ConfigureProvider(t)
  <2>1. /\ pc[t] = "env" /\ t \in Tests /\ pc'[t] = "call"
        /\ UNCHANGED <<envKey, provider, pdfKey, used>>
    BY <1>0, <1>5 DEF ConfigureProvider, Goto, SettingsTypeOK
  <2>2. used[t] = Blank /\ provider[t] = "gemini" /\ t \notin Ingests
    BY <1>t, <2>1, ThreadsAssumption DEF ClientOK
  <2>3. ~HoldsKey(t)'
    BY <2>1, <2>2 DEF HoldsKey
  <2>4. CASE ~Falsy(key[t])
    <3>1. Configure(t, key[t]) /\ key'[t] = key[t]
      BY <1>5, <2>4 DEF ConfigureProvider
    <3>2. configured'[InstanceOf[t]] = key[t]
      BY <3>1, ConfiguredBy
    <3>3. key[t] \in KeysOf(t)'
      BY <2>1, <2>2, <2>4, <3>1 DEF KeysOf, Own, Falsy
    <3> QED BY <2>1, <2>2, <2>3, <3>2, <3>3 DEF ClientOK
  <2>5. CASE Falsy(key[t])
    <3>1. ConfigureDefault(t) /\ key'[t] = envKey[InstanceOf[t]]
      BY <1>0, <1>5, <2>5 DEF ConfigureProvider, SettingsTypeOK
    <3>2. CASE envKey[InstanceOf[t]] = None
      <4>1. AsksNobody(t)'
        BY <2>1, <3>1, <3>2 DEF AsksNobody, Falsy
      <4> QED BY <2>1, <2>2, <2>3, <4>1 DEF ClientOK, Shares
    <3>3. CASE envKey[InstanceOf[t]] # None
      <4>1. PICK k : k = envKey[InstanceOf[t]]
        OBVIOUS
      <4>2. configured'[InstanceOf[t]] = envKey[InstanceOf[t]]
        BY <3>1, <3>3, <4>1, ConfiguredBy DEF ConfigureDefault
      <4>3. envKey[InstanceOf[t]] \in KeysOf(t)'
        BY <2>1, <2>2, <3>1 DEF KeysOf, Own
      <4> QED BY <2>1, <2>2, <2>3, <4>2, <4>3 DEF ClientOK
    <3> QED BY <3>2, <3>3
  <2> QED BY <2>4, <2>5
<1>6. CASE ConfigureEnv(t)
  <2>1. /\ pc[t] = "env" /\ t \notin Tests /\ ConfigureDefault(t)
        /\ UNCHANGED <<envKey, provider, key, pdfKey, used>>
        /\ pc'[t] = IF Falsy(key[t]) THEN Made(t) ELSE "own"
    BY <1>0, <1>6 DEF ConfigureEnv, Goto, SettingsTypeOK, clientVars
  <2>2. used[t] = Blank /\ (t \in Ingests => pdfKey[t] = None)
    BY <1>t, <2>1 DEF ClientOK
  <2>3. CASE Falsy(key[t])
    <3>1. ~HoldsKey(t) /\ HoldsKey(t)' = HoldsKey(t)
      BY <2>1 DEF ClientOK, HoldsKey, Embedders
    <3>2. Falsy(Own(t)')
      BY <2>1, <2>3 DEF Own, Falsy, HoldsKey
    <3>3. CASE envKey[InstanceOf[t]] = None
      <4>1. ~Shares(t)'
        BY <2>1, <3>2, <3>3 DEF Shares, Keyless, Falsy
      <4> QED BY <1>m, <2>1, <2>2, <2>3, <3>1, <4>1 DEF ClientOK, Falsy
    <3>4. CASE envKey[InstanceOf[t]] # None
      <4>1. configured'[InstanceOf[t]] = envKey[InstanceOf[t]]
        BY <2>1, <3>4, ConfiguredBy DEF ConfigureDefault
      <4>2. envKey[InstanceOf[t]] \in KeysOf(t)'
        BY <2>1, <3>2 DEF KeysOf
      <4> QED BY <1>m, <2>1, <2>2, <2>3, <3>1, <4>1, <4>2 DEF ClientOK, Falsy
    <3> QED BY <3>3, <3>4
  <2>4. CASE ~Falsy(key[t])
    <3>1. provider[t] = "gemini"
      BY <2>1, <2>4, KeyFacts DEF ClientOK
    <3> QED BY <2>1, <2>2, <2>4, <3>1 DEF ClientOK, Falsy
  <2> QED BY <2>3, <2>4
<1>7. CASE ConfigureOwn(t)
  <2>1. /\ pc[t] = "own" /\ Configure(t, key[t]) /\ pc'[t] = Made(t)
        /\ UNCHANGED <<envKey, provider, key, pdfKey, used>>
    BY <1>0, <1>7 DEF ConfigureOwn, Goto, SettingsTypeOK, clientVars
  <2>2. configured'[InstanceOf[t]] = key[t]
    BY <2>1, ConfiguredBy
  <2>3. /\ used[t] = Blank /\ (t \in Ingests => pdfKey[t] = None)
        /\ t \notin Tests /\ provider[t] = "gemini" /\ ~Falsy(key[t])
    BY <1>t, <2>1 DEF ClientOK
  <2>4. key[t] \in KeysOf(t)' /\ ~HoldsKey(t)'
    BY <2>1, <2>3 DEF KeysOf, HoldsKey, Falsy, Own
  <2> QED BY <1>m, <2>1, <2>2, <2>3, <2>4 DEF ClientOK
<1>8. CASE Call(t)
  <2>1. pc[t] = "call" /\ UNCHANGED <<configured, envKey, pc, provider, key, pdfKey, crowded>>
    BY <1>8 DEF Call
  <2>2. used'[t] = IF AsksNobody(t) THEN None ELSE IF HoldsKey(t) THEN key[t]
                   ELSE configured[InstanceOf[t]]
    BY <1>0, <1>8 DEF Call, SettingsTypeOK
  <2>3. /\ HoldsKey(t)' = HoldsKey(t) /\ Shares(t)' = Shares(t) /\ KeysOf(t)' = KeysOf(t)
        /\ AsksNobody(t)' = AsksNobody(t) /\ Keyless(t)' = Keyless(t)
    BY <2>1 DEF HoldsKey, Shares, KeysOf, Own, AsksNobody, Keyless, Falsy
  <2>4. HoldsKey(t) => key[t] \in KeysOf(t)
    BY <2>1 DEF ClientOK, KeysOf, Own
  <2>5. Shares(t) /\ ~crowded[t] => configured[InstanceOf[t]] \in KeysOf(t)
    BY <2>1 DEF ClientOK
  <2>6. IF AsksNobody(t) THEN used'[t] = None
        ELSE crowded[t] \/ Keyless(t) \/ used'[t] \in KeysOf(t)
    BY <2>2, <2>4, <2>5 DEF Shares
  <2>7. HoldsKey(t) => ~Falsy(key[t])
    BY <2>1 DEF ClientOK
  <2> QED BY <2>1, <2>3, <2>5, <2>6, <2>7 DEF ClientOK, Falsy
<1>9. CASE ConfigurePdf(t)
  <2>1. /\ pc[t] = "call" /\ pc'[t] = "pdf" /\ t \in Ingests /\ ~Falsy(pdfKey[t])
        /\ Configure(t, pdfKey[t])
        /\ used'[t] = Blank /\ UNCHANGED <<envKey, provider, key, pdfKey>>
    BY <1>0, <1>9 DEF ConfigurePdf, Goto, SettingsTypeOK
  <2>2. configured'[InstanceOf[t]] = pdfKey[t]
    BY <2>1, ConfiguredBy
  <2>3. HoldsKey(t)' = HoldsKey(t)
    BY <2>1 DEF HoldsKey
  <2>4. HoldsKey(t) => ~Falsy(key[t])
    BY <2>1 DEF ClientOK
  <2> QED BY <2>1, <2>2, <2>3, <2>4 DEF ClientOK, Falsy
<1>10. CASE CallPdf(t)
  <2>1. /\ pc[t] = "pdf" /\ pc'[t] \in {"call", "pdf"}
        /\ UNCHANGED <<configured, envKey, provider, key, pdfKey, crowded>>
        /\ used'[t] = configured[InstanceOf[t]]
    BY <1>0, <1>10 DEF CallPdf, Goto, SettingsTypeOK
  <2>2. /\ HoldsKey(t)' = HoldsKey(t) /\ KeysOf(t)' = KeysOf(t) /\ AsksNobody(t)' = AsksNobody(t)
        /\ Keyless(t)' = Keyless(t)
    BY <2>1 DEF HoldsKey, KeysOf, Own, AsksNobody, Keyless, Falsy
  <2>3. /\ t \in Ingests /\ ~Falsy(pdfKey[t]) /\ (HoldsKey(t) => ~Falsy(key[t]))
        /\ ~crowded[t] => configured[InstanceOf[t]] = pdfKey[t]
    BY <2>1 DEF ClientOK
  <2>4. ~crowded[t] => configured[InstanceOf[t]] \in KeysOf(t)
    BY <2>3 DEF KeysOf, Falsy
  <2>5. ~AsksNobody(t)
    BY <2>3, ThreadsAssumption DEF AsksNobody
  <2> QED BY <2>1, <2>2, <2>3, <2>4, <2>5 DEF ClientOK, Falsy
<1> QED BY <1>1, <1>2, <1>3, <1>4, <1>5, <1>6, <1>7, <1>8, <1>9, <1>10 DEF ClientStep

\* What a save leaves alone, besides its own program counter.
LEMMA SavesApart ==
    ASSUME SettingsTypeOK, NEW s \in Saves, SaveStep(s)
    PROVE  /\ UNCHANGED <<master, envKey, configured, clientVars, crowded, rollouts>>
           /\ \A t \in Clients : pc'[t] = pc[t]
<1>1. UNCHANGED <<master, envKey, configured, clientVars, crowded, rollouts>>
  BY DEF SaveStep, BeginSave, WriteProfile, ReadBack
<1>2. \E point : Goto(s, point)
  BY DEF SaveStep, BeginSave, WriteProfile, ReadBack, Answer
<1>3. \A t \in Clients : t \in Threads /\ t # s
  BY DEF Clients
<1> QED BY <1>1, <1>2, <1>3 DEF Goto, SettingsTypeOK

\* Every step keeps what is said of the clients.
LEMMA ClientInvStep ==
    ASSUME SettingsTypeOK, ClientInv, [Next]_vars PROVE ClientInv'
<1> SUFFICES ASSUME NEW x \in Clients PROVE ClientOK(x)'
  BY DEF ClientInv
<1>0. /\ ClientOK(x) /\ crowded[x] \in BOOLEAN
      /\ x \in Threads /\ x \notin Saves /\ InstanceOf[x] \in Instances
  BY ClientThreads DEF ClientInv, SettingsTypeOK
<1>1. ASSUME NEW s \in Saves, SaveStep(s) PROVE ClientOK(x)'
  <2>1. Elsewhere(x)
    BY <1>1, SavesApart DEF Elsewhere, clientVars
  <2> QED BY <1>0, <2>1, ElsewhereOK
<1>2. ASSUME NEW t \in Clients, ClientStep(t) PROVE ClientOK(x)'
  BY <1>0, <1>2, ClientOwn, ClientElsewhere, ElsewhereOK
<1>3. ASSUME NEW i \in Instances, MakeShared(i) PROVE ClientOK(x)'
  <2>1. /\ crowded'[x] = (crowded[x] \/ (InstanceOf[x] = i /\ InFlight(x)))
        /\ InstanceOf[x] # i => configured'[InstanceOf[x]] = configured[InstanceOf[x]]
        /\ UNCHANGED <<pc, envKey, clientVars>>
    BY <1>0, <1>3 DEF MakeShared, SettingsTypeOK
  <2>2. Elsewhere(x)
    BY <1>0, <2>1 DEF Elsewhere, InFlight, clientVars
  <2> QED BY <1>0, <2>2, ElsewhereOK
<1>4. ASSUME NEW i \in Instances, Rollout(i) PROVE ClientOK(x)'
  <2> DEFINE gone == {t \in Threads : InstanceOf[t] = i}
  <2>1. /\ pc'[x] = IF InstanceOf[x] = i /\ InFlight(x) THEN "done" ELSE pc[x]
        /\ provider'[x] = IF x \in gone THEN None ELSE provider[x]
        /\ key'[x] = IF x \in gone THEN None ELSE key[x]
        /\ used'[x] = IF x \in gone THEN Blank ELSE used[x]
        /\ crowded'[x] = (x \notin gone /\ crowded[x])
        /\ x \in Ingests => pdfKey'[x] = IF x \in gone THEN None ELSE pdfKey[x]
        /\ InstanceOf[x] # i => /\ configured'[InstanceOf[x]] = configured[InstanceOf[x]]
                                /\ envKey'[InstanceOf[x]] = envKey[InstanceOf[x]]
    BY <1>0, <1>4 DEF Rollout, SettingsTypeOK
  <2>2. CASE InstanceOf[x] # i
    <3>1. Elsewhere(x)
      BY <1>0, <2>1, <2>2 DEF Elsewhere
    <3> QED BY <1>0, <3>1, ElsewhereOK
  <2>3. CASE InstanceOf[x] = i
    <3>1. pc'[x] \in {"idle", "done"}
      BY <2>1, <2>3 DEF InFlight
    <3>2. used'[x] = Blank /\ key'[x] = None /\ (x \in Ingests => pdfKey'[x] = None)
      BY <1>0, <2>1, <2>3
    <3> QED BY <3>1, <3>2 DEF ClientOK
  <2> QED BY <2>2, <2>3
<1>5. CASE UNCHANGED vars
  <2>1. Elsewhere(x)
    BY <1>5 DEF Elsewhere, vars, clientVars
  <2> QED BY <1>0, <2>1, ElsewhereOK
<1> QED BY <1>1, <1>2, <1>3, <1>4, <1>5 DEF Next, Clients

----------------------------------------------------------------------------
(* Types                                                                    *)

\* The types under a configuration ...
LEMMA ConfigureTypes ==
    ASSUME SettingsTypeOK, NEW t \in Clients, NEW k \in Keys, Configure(t, k)
    PROVE  /\ configured' \in [Instances -> Keys \cup {None}]
           /\ crowded' \in [Threads \ Saves -> BOOLEAN]
<1>1. \A x \in Threads \ Saves : crowded[x] \in BOOLEAN
  BY DEF SettingsTypeOK
<1> QED BY <1>1, ClientThreads DEF Configure, SettingsTypeOK

\* ... the end of a client ...
LEMMA DropTypes ==
    ASSUME SettingsTypeOK, NEW t \in Clients, Drop(t)
    PROVE  /\ pc' \in [Threads -> {"idle", "write", "readBack", "key", "second", "env", "own",
                                   "pdfKey", "call", "pdf", "done"}]
           /\ loop' \in [Instances -> OnLoop \cup {None}]
           /\ pdfKey' \in [Ingests -> Keys \cup {Blank, None}]
           /\ provider' \in [Threads \ Saves -> LLMs \cup {Blank, None}]
           /\ key' \in [Threads \ Saves -> Keys \cup {Blank, None}]
           /\ calls' \in [Threads \ Saves -> 0..MaxCalls]
           /\ used' \in [Threads \ Saves -> Keys \cup {Blank, None}]
           /\ crowded' \in [Threads \ Saves -> BOOLEAN]
<1>1. 0 \in 0..MaxCalls
  BY BoundsAssumption
<1>2. t \in Threads \ Saves
  BY DEF Clients
<1> QED BY <1>1, <1>2 DEF Drop, Goto, GiveLoop, SettingsTypeOK

\* ... the taking and giving of the event loop ...
LEMMA LoopTypes ==
    ASSUME SettingsTypeOK, NEW t \in Threads
    PROVE  /\ TakeLoop(t) => loop' \in [Instances -> OnLoop \cup {None}]
           /\ GiveLoop(t) => loop' \in [Instances -> OnLoop \cup {None}]
BY DEF TakeLoop, GiveLoop, SettingsTypeOK

\* ... all steps of a client ...
LEMMA ClientTypes ==
    ASSUME Types, NEW t \in Clients, ClientStep(t), ClientOK(t) PROVE Types'
<1>0. t \in Threads /\ t \in Threads \ Saves /\ InstanceOf[t] \in Instances
  BY ClientThreads DEF Clients
<1>1. UNCHANGED <<profile, master, envKey, saveVars, rollouts>>
  BY DEF ClientStep, BeginClient, ReadKey, NoKey, ReadPdfKey, ConfigureProvider, ConfigureEnv,
     ConfigureOwn, Call, ConfigurePdf, CallPdf, End, Drop
<1>2. key[t] \in Keys \cup {Blank, None} /\ envKey[InstanceOf[t]] \in Keys \cup {None}
  BY <1>0 DEF Types, SettingsTypeOK
<1>3. SUFFICES
        /\ pc' \in [Threads -> {"idle", "write", "readBack", "key", "second", "env", "own",
                                "pdfKey", "call", "pdf", "done"}]
        /\ configured' \in [Instances -> Keys \cup {None}]
        /\ loop' \in [Instances -> OnLoop \cup {None}]
        /\ pdfKey' \in [Ingests -> Keys \cup {Blank, None}]
        /\ provider' \in [Threads \ Saves -> LLMs \cup {Blank, None}]
        /\ key' \in [Threads \ Saves -> Keys \cup {Blank, None}]
        /\ calls' \in [Threads \ Saves -> 0..MaxCalls]
        /\ used' \in [Threads \ Saves -> Keys \cup {Blank, None}]
        /\ crowded' \in [Threads \ Saves -> BOOLEAN]
  BY <1>1 DEF Types, SettingsTypeOK, saveVars
<1>4. \A f : RawKey(t, f) \in Keys \cup {Blank, None}
  BY OpenType DEF RawKey
<1>5. Made(t) \in {"pdfKey", "call"}
  BY DEF Made
<1> USE DEF Types, Goto
<1>6. CASE BeginClient(t)
  <2>1. \/ Goto(t, "done") /\ UNCHANGED <<loop, provider>>
        \/ /\ provider' = [provider EXCEPT ![t] = ChooseProvider(t)] /\ TakeLoop(t)
           /\ Goto(t, "key") \/ Goto(t, "env")
    BY <1>6 DEF BeginClient
  <2>2. loop' \in [Instances -> OnLoop \cup {None}]
    BY <1>0, <2>1, LoopTypes DEF SettingsTypeOK
  <2>3. provider' \in [Threads \ Saves -> LLMs \cup {Blank, None}]
    BY <2>1, ChosenProvider DEF SettingsTypeOK
  <2>4. pc' \in [Threads -> {"idle", "write", "readBack", "key", "second", "env", "own",
                             "pdfKey", "call", "pdf", "done"}]
    BY <2>1 DEF SettingsTypeOK
  <2>5. UNCHANGED <<configured, pdfKey, key, calls, used, crowded>>
    BY <1>6 DEF BeginClient
  <2> QED BY <2>2, <2>3, <2>4, <2>5 DEF SettingsTypeOK
<1>7. CASE ReadKey(t)
  BY <1>0, <1>4, <1>5, <1>7 DEF ReadKey, SettingsTypeOK
<1>8. CASE NoKey(t) \/ End(t)
  BY <1>8, DropTypes DEF NoKey, End, SettingsTypeOK
<1>9. CASE ReadPdfKey(t)
  BY <1>0, <1>4, <1>9 DEF ReadPdfKey, SettingsTypeOK
<1>d. ConfigureDefault(t) => /\ configured' \in [Instances -> Keys \cup {None}]
                             /\ crowded' \in [Threads \ Saves -> BOOLEAN]
  BY <1>2, ConfigureTypes DEF ConfigureDefault, SettingsTypeOK
<1>10. CASE ConfigureProvider(t)
  <2>1. /\ configured' \in [Instances -> Keys \cup {None}]
        /\ crowded' \in [Threads \ Saves -> BOOLEAN]
    BY <1>2, <1>10, <1>d, ConfigureTypes DEF ConfigureProvider, Falsy
  <2>2. key' \in [Threads \ Saves -> Keys \cup {Blank, None}]
    BY <1>2, <1>10 DEF ConfigureProvider, SettingsTypeOK
  <2> QED BY <1>0, <1>10, <2>1, <2>2 DEF ConfigureProvider, SettingsTypeOK
<1>11. CASE ConfigureEnv(t)
  BY <1>0, <1>5, <1>11, <1>d DEF ConfigureEnv, SettingsTypeOK, clientVars
<1>12. CASE ConfigureOwn(t)
  <2>1. key[t] \in Keys
    BY <1>2, <1>12 DEF ConfigureOwn, ClientOK, Falsy
  <2> QED BY <1>0, <1>5, <1>12, <2>1, ConfigureTypes DEF ConfigureOwn, SettingsTypeOK, clientVars
<1>13. ASSUME calls[t] < Limit(t) PROVE calls[t] + 1 \in 0..MaxCalls
  BY <1>0, <1>13, BoundsAssumption DEF Limit, SettingsTypeOK
<1>14. CASE Call(t)
  <2>1. HoldsKey(t) => key[t] \in Keys
    BY <1>2, <1>14 DEF Call, ClientOK, Falsy
  <2>2. configured[InstanceOf[t]] \in Keys \cup {None}
    BY <1>0 DEF SettingsTypeOK
  <2> QED BY <1>0, <1>13, <1>14, <2>1, <2>2 DEF Call, SettingsTypeOK
<1>15. CASE ConfigurePdf(t)
  <2>1. pdfKey[t] \in Keys
    BY <1>15 DEF ConfigurePdf, SettingsTypeOK, Falsy
  <2> QED BY <1>0, <1>15, <2>1, ConfigureTypes DEF ConfigurePdf, SettingsTypeOK
<1>16. CASE CallPdf(t)
  <2>1. configured[InstanceOf[t]] \in Keys \cup {None}
    BY <1>0 DEF SettingsTypeOK
  <2>2. /\ calls' = [calls EXCEPT ![t] = @ + 1]
        /\ used' = [used EXCEPT ![t] = configured[InstanceOf[t]]]
        /\ pc' \in [Threads -> {"idle", "write", "readBack", "key", "second", "env", "own",
                                "pdfKey", "call", "pdf", "done"}]
        /\ UNCHANGED <<configured, loop, provider, key, pdfKey, crowded>>
    BY <1>16 DEF CallPdf, SettingsTypeOK
  <2> QED BY <1>0, <1>13, <1>16, <2>1, <2>2 DEF CallPdf, SettingsTypeOK
<1> QED BY <1>6, <1>7, <1>8, <1>9, <1>10, <1>11, <1>12, <1>14, <1>15, <1>16 DEF ClientStep

\* ... the answer to a save ...
LEMMA AnswerTypes ==
    ASSUME Types, NEW s \in Saves, NEW code \in Answers, NEW shown \in Views, Answer(s, code, shown)
    PROVE  /\ reply' \in [Saves -> [code : Answers, shown : Views]]
           /\ req' \in [Saves -> Requests \cup {NoField}]
           /\ seen' \in [Saves -> Documents]
           /\ pc' \in [Threads -> {"idle", "write", "readBack", "key", "second", "env", "own",
                                   "pdfKey", "call", "pdf", "done"}]
BY NoFieldType, SavesAreThreads DEF Answer, Types, SettingsTypeOK, Goto

\* ... all steps of a save ...
LEMMA SaveTypes ==
    ASSUME Types, SaveInv, NEW s \in Saves, SaveStep(s) PROVE Types'
<1>0. s \in Threads /\ UserOf[s] \in Users
  BY SavesAreThreads, ThreadsOf
<1>1. UNCHANGED <<master, envKey, configured, clientVars, crowded, rollouts>>
  BY SavesApart DEF Types
<1>2. SUFFICES
        /\ profile' \in [Users -> Documents \cup {NoDoc}] /\ named' \in [Users -> Documents]
        /\ overtaken' \in [Saves -> BOOLEAN] /\ behind' \in [Saves -> BOOLEAN]
        /\ loop' \in [Instances -> OnLoop \cup {None}]
        /\ pc' \in [Threads -> {"idle", "write", "readBack", "key", "second", "env", "own",
                                "pdfKey", "call", "pdf", "done"}]
        /\ req' \in [Saves -> Requests \cup {NoField}]
        /\ seen' \in [Saves -> Documents]
        /\ reply' \in [Saves -> [code : Answers, shown : Views]]
  <2>1. ASSUME reply' \in [Saves -> [code : Answers, shown : Views]], NEW x \in Saves
        PROVE  reply'[x].code \in Answers /\ DOMAIN reply'[x].shown = Fields
    BY <2>1 DEF Views, Fields
  <2> QED BY <1>1, <2>1 DEF Types, SettingsTypeOK, clientVars
<1>3. "failed" \in Answers /\ "saved" \in Answers /\ NoField \in Views
  BY NoFieldType DEF Answers
<1>4. CASE BeginSave(s)
  <2>1. UNCHANGED <<profile, named, overtaken, behind>>
    BY <1>4 DEF BeginSave
  <2>2. PICK r \in Requests :
          \/ /\ Supported(r)
             /\ req' = [req EXCEPT ![s] = r]
             /\ seen' = [seen EXCEPT ![s] = Doc(UserOf[s])]
             /\ Goto(s, "write") /\ TakeLoop(s)
             /\ UNCHANGED reply
          \/ Answer(s, "failed", NoField) /\ UNCHANGED loop
    BY <1>4 DEF BeginSave
  <2>3. CASE Answer(s, "failed", NoField) /\ UNCHANGED loop
    BY <1>3, <2>1, <2>3, AnswerTypes DEF Types, SettingsTypeOK
  <2>4. CASE ~(Answer(s, "failed", NoField) /\ UNCHANGED loop)
    <3>1. Doc(UserOf[s]) \in Documents
      BY <1>0, DocType DEF Types
    <3>2. /\ req' = [req EXCEPT ![s] = r] /\ seen' = [seen EXCEPT ![s] = Doc(UserOf[s])]
          /\ pc' = [pc EXCEPT ![s] = "write"] /\ TakeLoop(s) /\ UNCHANGED reply
      BY <2>2, <2>4 DEF Goto
    <3>3. loop' \in [Instances -> OnLoop \cup {None}]
      BY <1>0, <3>2, LoopTypes DEF Types
    <3>4. req' \in [Saves -> Requests \cup {NoField}] /\ seen' \in [Saves -> Documents]
      BY <3>1, <3>2 DEF Types, SettingsTypeOK
    <3>5. pc' \in [Threads -> {"idle", "write", "readBack", "key", "second", "env", "own",
                               "pdfKey", "call", "pdf", "done"}]
      BY <3>2 DEF Types, SettingsTypeOK
    <3> QED BY <2>1, <3>2, <3>3, <3>4, <3>5 DEF Types, SettingsTypeOK
  <2> QED BY <2>3, <2>4
<1>5. CASE WriteProfile(s)
  <2>1. UNCHANGED loop \/ GiveLoop(s)
    BY <1>5 DEF WriteProfile
  <2>2. loop' \in [Instances -> OnLoop \cup {None}]
    BY <1>0, <2>1, LoopTypes DEF Types, SettingsTypeOK
  <2>3. /\ profile' \in [Users -> Documents \cup {NoDoc}] /\ named' \in [Users -> Documents]
        /\ overtaken' \in [Saves -> BOOLEAN] /\ behind' \in [Saves -> BOOLEAN]
    BY <1>5, WriteCases, AppliedDoc DEF Types, SettingsTypeOK
  <2>4. \/ pc' = [pc EXCEPT ![s] = "readBack"] /\ UNCHANGED <<req, seen, reply>>
        \/ Answer(s, "failed", NoField)
    BY <1>5, WriteCases
  <2>5. CASE Answer(s, "failed", NoField)
    BY <1>3, <2>2, <2>3, <2>5, AnswerTypes
  <2>6. CASE pc' = [pc EXCEPT ![s] = "readBack"] /\ UNCHANGED <<req, seen, reply>>
    BY <1>0, <2>2, <2>3, <2>6 DEF Types, SettingsTypeOK
  <2> QED BY <2>4, <2>5, <2>6
<1>6. CASE ReadBack(s)
  <2>1. /\ UNCHANGED <<profile, named, overtaken, behind>> /\ GiveLoop(s)
        /\ Answer(s, "saved", Shown(s)) \/ Answer(s, "failed", NoField)
    BY <1>6 DEF ReadBack
  <2>2. Shown(s) \in Views
    BY <1>0, DocType, ViewType DEF Shown, Types
  <2>3. loop' \in [Instances -> OnLoop \cup {None}]
    BY <1>0, <2>1, LoopTypes DEF Types
  <2> QED BY <1>3, <2>1, <2>2, <2>3, AnswerTypes DEF Types, SettingsTypeOK
<1> QED BY <1>4, <1>5, <1>6 DEF SaveStep

\* ... and a rollout.
LEMMA RolloutTypes ==
    ASSUME Types, NEW i \in Instances, Rollout(i) PROVE Types'
<1>1. /\ master' \in [Instances -> Masters \cup {None}]
      /\ configured' \in [Instances -> Keys \cup {None}]
      /\ loop' \in [Instances -> OnLoop \cup {None}]
      /\ pc' \in [Threads -> {"idle", "write", "readBack", "key", "second", "env", "own",
                              "pdfKey", "call", "pdf", "done"}]
  BY DEF Rollout, Types, SettingsTypeOK
<1>9. envKey' \in [Instances -> Keys \cup {None}]
  <2>1. PICK k \in EnvKeys[i] : envKey' = [envKey EXCEPT ![i] = k]
    BY DEF Rollout
  <2>2. k \in Keys \cup {None}
    BY <2>1, KeysAssumption
  <2> QED BY <2>1, <2>2 DEF Types, SettingsTypeOK
<1>2. rollouts' \in 0..MaxRollouts
  BY BoundsAssumption DEF Rollout, Types, SettingsTypeOK
<1>3. [NoReply EXCEPT !.code = "failed"] \in [code : Answers, shown : Views]
  BY NoFieldType DEF NoReply, Answers
<1>4. reply' \in [Saves -> [code : Answers, shown : Views]]
  BY <1>3 DEF Rollout, Types, SettingsTypeOK
<1>5. \A s \in Saves : reply'[s].code \in Answers /\ DOMAIN reply'[s].shown = Fields
  BY <1>4 DEF Views, Fields
<1>6. req' \in [Saves -> Requests \cup {NoField}] /\ seen' \in [Saves -> Documents]
  BY NoFieldType DEF Rollout, Types, SettingsTypeOK
<1>7. /\ provider' \in [Threads \ Saves -> LLMs \cup {Blank, None}]
      /\ key' \in [Threads \ Saves -> Keys \cup {Blank, None}]
      /\ pdfKey' \in [Ingests -> Keys \cup {Blank, None}]
      /\ calls' \in [Threads \ Saves -> 0..MaxCalls]
      /\ used' \in [Threads \ Saves -> Keys \cup {Blank, None}]
      /\ crowded' \in [Threads \ Saves -> BOOLEAN]
  BY BoundsAssumption DEF Rollout, Types, SettingsTypeOK
<1>8. UNCHANGED <<profile, named, overtaken, behind>>
  BY DEF Rollout
<1> QED BY <1>1, <1>2, <1>4, <1>5, <1>6, <1>7, <1>8, <1>9 DEF Types, SettingsTypeOK

\* Every step keeps the types.
LEMMA TypesStep ==
    ASSUME Types, SaveInv, ClientInv, [Next]_vars PROVE Types'
<1>1. ASSUME NEW i \in Instances, MakeShared(i) PROVE Types'
  <2>1. /\ UNCHANGED <<profile, master, envKey, loop, pc, saveVars, clientVars, rollouts>>
        /\ configured' \in [Instances -> Keys \cup {None}]
    BY <1>1 DEF MakeShared, Types, SettingsTypeOK
  <2>2. crowded' \in [Threads \ Saves -> BOOLEAN]
    BY <1>1 DEF MakeShared, Types, SettingsTypeOK
  <2> QED BY <2>1, <2>2 DEF Types, SettingsTypeOK, saveVars, clientVars
<1>2. CASE UNCHANGED vars
  BY <1>2 DEF vars, saveVars, clientVars, Types, SettingsTypeOK
<1> QED BY <1>1, <1>2, SaveTypes, ClientTypes, RolloutTypes DEF Next, Clients, ClientInv

----------------------------------------------------------------------------
(* The inductive invariant and what follows from it                         *)

SettingsInv == Types /\ SaveInv /\ ClientInv /\ SavesKept /\ RepliesShow

\* It holds at the start.
LEMMA InitHolds == Init => SettingsInv
<1> SUFFICES ASSUME Init PROVE SettingsInv
  OBVIOUS
<1>1. NoReply \in [code : Answers, shown : Views] /\ NoReply.code = "none"
      /\ DOMAIN NoReply.shown = Fields
  BY NoFieldType DEF NoReply, Answers, NoField
<1>2. Types
  BY <1>1, NoFieldType, BoundsAssumption DEF Init, Types, SettingsTypeOK
<1>3. SaveInv
  BY <1>1, SavesAreThreads DEF Init, SaveInv, SaveOK
<1>4. ClientInv
  BY ClientThreads DEF Init, ClientInv, ClientOK, Clients
<1>5. SavesKept
  BY DEF Init, SavesKept, Doc
<1>6. RepliesShow
  BY <1>1 DEF Init, RepliesShow
<1> QED BY <1>2, <1>3, <1>4, <1>5, <1>6 DEF SettingsInv

\* The saves, the clients and what users see of them, together: each part
\* needs the types, the types need the other two.
THEOREM SettingsInvariant == Spec => []SettingsInv
<1>1. SettingsInv /\ [Next]_vars => SettingsInv'
  BY TypesStep, SaveInvStep, ClientInvStep, KeptStep, RepliesStep DEF SettingsInv, Types
<1> QED BY <1>1, InitHolds, PTL DEF Spec

\* Documents, keys and program counters keep their types; a client has a key
\* wherever it configures or calls with one.
THEOREM SettingsTyped == Spec => []SettingsTypeOK
<1>1. SettingsInv => SettingsTypeOK
  BY DEF SettingsInv, Types
<1> QED BY <1>1, SettingsInvariant, PTL

\* However the saves of several instances interleave, fail and are cut off by
\* rollouts, a field holds what was named for it last (save_settings).
THEOREM SavesAreKept == Spec => []SavesKept
<1>1. SettingsInv => SavesKept
  BY DEF SettingsInv
<1> QED BY <1>1, SettingsInvariant, PTL

\* A save that succeeds answers with the fields it has named, unless another
\* save of the user was between (get_settings inside save_settings).
THEOREM RepliesAreTrue == Spec => []RepliesShow
<1>1. SettingsInv => RepliesShow
  BY DEF SettingsInv
<1> QED BY <1>1, SettingsInvariant, PTL

\* A call is made with a key of its user or, without one, that of the
\* environment, unless another Gemini client was made meanwhile or there is neither
\* key: then a provider calls nobody, and an embedder with whatever key was left.
THEOREM CallsAreExplained == Spec => []CallsExplained
<1>1. SettingsInv => CallsExplained
  BY DEF SettingsInv, ClientInv, ClientOK, CallsExplained, Clients
<1> QED BY <1>1, SettingsInvariant, PTL
=============================================================================

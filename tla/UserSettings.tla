------------------------------ MODULE UserSettings ------------------------------
(***************************************************************************)
(* The providers and keys of the users, and the clients made from them.    *)
(*                                                                         *)
(* users/{uid}/profile/settings is read and then merged into by saves that *)
(* run on the event loops of several instances.  An embedder or a provider *)
(* is made for a user by two or three reads of the document.  The Gemini   *)
(* client takes its key from a setting of the process, which everybody who *)
(* makes one overwrites, and looks it up again at every call.              *)
(* llm_model and ollama_url are saved like the keys and are left out.      *)
(***************************************************************************)
EXTENDS Naturals

CONSTANTS
    Users, Instances,
    Saves, Questions, Ingests, Tests,  \* requests and tasks, by what they do
    UserOf, InstanceOf,                \* who sent it, where it runs
    Requests,     \* what a save can name, see RequestOK
    Keys,         \* API keys
    EnvKeys,      \* what GEMINI_API_KEY of an instance can be, None if it is not set
    Masters,      \* ENCRYPTION_KEYs
    None,         \* an absent field or key
    Blank,        \* the empty string
    NoDoc,        \* there is no document
    MaxCalls,     \* bound on the calls of one client
    MaxRollouts   \* bound on the restarts

Threads == Saves \cup Questions \cup Ingests \cup Tests
OnLoop == Saves \cup Ingests \cup Tests   \* coroutines that block the event loop
LLMs == {"gemini", "openai", "deepseek", "ollama"}
Embedders == {"gemini", "openai"}
Fields == {"llm", "llmKey", "emb", "embKey"}
KeyFields == {"llmKey", "embKey"}

\* A field that is not named is None; any string can be named as a provider.
RequestOK(r) ==
    /\ DOMAIN r = Fields
    /\ \A f \in KeyFields : r[f] \in Keys \cup {Blank, None}
    /\ \A f \in Fields \ KeyFields : r[f] \in LLMs \cup {"other", Blank, None}
ASSUME RequestsAssumption == \A r \in Requests : RequestOK(r)
ASSUME KeysAssumption ==
    /\ EnvKeys \in [Instances -> SUBSET (Keys \cup {None})]
    /\ {None, Blank} \cap Keys = {} /\ None # Blank
ASSUME ThreadsAssumption ==
    /\ UserOf \in [Threads -> Users] /\ InstanceOf \in [Threads -> Instances]
    /\ Saves \cap (Questions \cup Ingests \cup Tests) = {}
    /\ Questions \cap (Ingests \cup Tests) = {} /\ Ingests \cap Tests = {}
ASSUME BoundsAssumption == MaxCalls \in Nat \ {0} /\ MaxRollouts \in Nat

\* A key is stored encrypted under the master key of the instance.
Sealed == [key : Keys \cup {Blank}, master : Masters]
Documents == [llm : LLMs \cup {Blank, None}, llmKey : Sealed \cup {None},
              emb : Embedders \cup {Blank, None}, embKey : Sealed \cup {None}]
ASSUME MarkersAssumption ==
    NoDoc \notin Documents /\ None \notin Sealed /\ {None, Blank} \cap LLMs = {}

VARIABLES
    profile,     \* the settings document of each user
    master,      \* ENCRYPTION_KEY of each instance, None if it is not set
    envKey,      \* GEMINI_API_KEY of each instance
    configured,  \* the key genai was configured with last, by instance
    loop,        \* who holds the event loop of each instance
    pc,
    req,         \* what each save names
    seen,        \* the document as a save read it
    reply,       \* what a save answered
    provider,    \* provider of the client that is being made
    key,         \* key read for it
    pdfKey,      \* key an ingestion read for its PDFs
    calls,       \* calls made with it
    used,        \* the key of its last call, Blank before one, and again when it configures
                 \* another
    named,       \* history: each field as it was named last
    overtaken,   \* history: another save of the user wrote between read and write
    behind,      \* history: another save of the user wrote between write and reply
    crowded,     \* history: genai was configured for another since this client did
    rollouts

saveVars == <<req, seen, reply, named, overtaken, behind>>
clientVars == <<provider, key, pdfKey, calls, used>>
vars == <<profile, master, envKey, configured, loop, pc, saveVars, clientVars, crowded, rollouts>>

NoField == [f \in Fields |-> None]
Doc(u) == IF profile[u] = NoDoc THEN NoField ELSE profile[u]
Falsy(v) == v \in {None, Blank}
Goto(t, point) == pc' = [pc EXCEPT ![t] = point]
LoopFree(t) == t \in OnLoop => loop[InstanceOf[t]] = None
TakeLoop(t) == loop' = IF t \in OnLoop THEN [loop EXCEPT ![InstanceOf[t]] = t] ELSE loop
InFlight(t) == pc[t] \notin {"idle", "done"}
GiveLoop(t) == loop' = IF t \in OnLoop THEN [loop EXCEPT ![InstanceOf[t]] = None] ELSE loop

\* Mutant: what cannot be decrypted is taken as it is stored.
OpenRaw(sealed, i) ==
    IF sealed \in Sealed /\ sealed.master = master[i] THEN sealed.key ELSE sealed

\* decrypt, where what it raises is taken for no key
Open(sealed, i) == IF sealed \in Sealed /\ sealed.master = master[i] THEN sealed.key ELSE None

Answers == {"none", "saved", "failed"}
NoReply == [code |-> "none", shown |-> NoField]

SettingsTypeOK ==
    /\ profile \in [Users -> Documents \cup {NoDoc}]
    /\ master \in [Instances -> Masters \cup {None}]
    /\ envKey \in [Instances -> Keys \cup {None}]
    /\ configured \in [Instances -> Keys \cup {None}]
    /\ loop \in [Instances -> OnLoop \cup {None}]
    /\ pc \in [Threads -> {"idle", "write", "readBack", "key", "second", "env", "own", "pdfKey",
                           "call", "pdf", "done"}]
    /\ req \in [Saves -> Requests \cup {NoField}]
    /\ seen \in [Saves -> Documents]
    /\ \A s \in Saves : reply[s].code \in Answers /\ DOMAIN reply[s].shown = Fields
    /\ pdfKey \in [Ingests -> Keys \cup {Blank, None}]
    /\ provider \in [Threads \ Saves -> LLMs \cup {Blank, None}]
    /\ key \in [Threads \ Saves -> Keys \cup {Blank, None}]
    /\ calls \in [Threads \ Saves -> 0..MaxCalls]
    /\ used \in [Threads \ Saves -> Keys \cup {Blank, None}]
    /\ named \in [Users -> Documents]
    /\ overtaken \in [Saves -> BOOLEAN] /\ behind \in [Saves -> BOOLEAN]
    /\ crowded \in [Threads \ Saves -> BOOLEAN]
    /\ rollouts \in 0..MaxRollouts

Init ==
    /\ profile = [u \in Users |-> NoDoc]
    /\ \E m \in Masters : master = [i \in Instances |-> m]
    /\ envKey \in [Instances -> Keys \cup {None}]
    /\ \A i \in Instances : envKey[i] \in EnvKeys[i]
    /\ configured = [i \in Instances |-> None]
    /\ loop = [i \in Instances |-> None]
    /\ pc = [t \in Threads |-> "idle"]
    /\ req = [s \in Saves |-> NoField]
    /\ seen = [s \in Saves |-> NoField]
    /\ reply = [s \in Saves |-> NoReply]
    /\ provider = [t \in Threads \ Saves |-> None]
    /\ key = [t \in Threads \ Saves |-> None]
    /\ pdfKey = [t \in Ingests |-> None]
    /\ calls = [t \in Threads \ Saves |-> 0]
    /\ used = [t \in Threads \ Saves |-> Blank]
    /\ named = [u \in Users |-> NoField]
    /\ overtaken = [s \in Saves |-> FALSE]
    /\ behind = [s \in Saves |-> FALSE]
    /\ crowded = [t \in Threads \ Saves |-> FALSE]
    /\ rollouts = 0

----------------------------------------------------------------------------
(* POST /user/settings, save_settings                                       *)

Supported(r) == r.llm \in LLMs \cup {Blank, None} /\ r.emb \in Embedders \cup {Blank, None}

Answer(s, code, shown) ==
    /\ reply' = [reply EXCEPT ![s] = [code |-> code, shown |-> shown]]
    /\ req' = IF code = "saved" THEN req ELSE [req EXCEPT ![s] = NoField]
    /\ seen' = [seen EXCEPT ![s] = NoField]
    /\ Goto(s, "done")

\* An unsupported provider is refused before anything is read; the read can raise.
BeginSave(s) ==
    /\ pc[s] = "idle" /\ LoopFree(s)
    /\ \E r \in Requests :
        \/ /\ Supported(r)
           /\ req' = [req EXCEPT ![s] = r]
           /\ seen' = [seen EXCEPT ![s] = Doc(UserOf[s])]
           /\ Goto(s, "write") /\ TakeLoop(s)
           /\ UNCHANGED reply
        \/ Answer(s, "failed", NoField) /\ UNCHANGED loop
    /\ UNCHANGED <<profile, master, envKey, configured, clientVars, named, overtaken, behind,
                   crowded, rollouts>>

NamesKey(r) == \E f \in KeyFields : r[f] # None

\* What is written: the fields that are named, and gemini as the provider of a
\* key that comes without one when the document that was read had none either.
Update(s) ==
    LET r == req[s]
        Seal(f) == IF r[f] = None THEN None ELSE [key |-> r[f], master |-> master[InstanceOf[s]]]
        Default(f, k) == IF r[f] = None /\ r[k] # None /\ Falsy(seen[s][f]) THEN "gemini" ELSE r[f]
    IN  [llm |-> Default("llm", "llmKey"), llmKey |-> Seal("llmKey"),
         emb |-> Default("emb", "embKey"), embKey |-> Seal("embKey")]

Merge(doc, update) == [f \in Fields |-> IF update[f] = None THEN doc[f] ELSE update[f]]

\* Mutant: the document that was read is written back, with the update in it.
MergedDocStale(s) == Merge(seen[s], Update(s))

\* set_doc(..., merge=True)
MergedDoc(s) == Merge(Doc(UserOf[s]), Update(s))

\* The history of a write that was applied.
Applied(s) ==
    LET u == UserOf[s] IN
    /\ profile' = [profile EXCEPT ![u] = MergedDoc(s)]
    /\ named' = [named EXCEPT ![u] = Merge(@, [f \in Fields |->
                    IF req[s][f] = None THEN None ELSE Update(s)[f]])]
    /\ overtaken' = [x \in Saves |-> \/ overtaken[x]
                                     \/ x # s /\ UserOf[x] = u /\ pc[x] = "write"]
    /\ behind' = [x \in Saves |-> \/ behind[x]
                                  \/ x # s /\ UserOf[x] = u /\ pc[x] = "readBack"]

\* Encrypting raises without a master key; the write can raise, applied or not.
WriteProfile(s) ==
    /\ pc[s] = "write"
    /\ IF NamesKey(req[s]) /\ master[InstanceOf[s]] = None
       THEN /\ Answer(s, "failed", NoField) /\ GiveLoop(s)
            /\ UNCHANGED <<profile, named, overtaken, behind>>
       ELSE \/ /\ IF Update(s) = NoField THEN UNCHANGED <<profile, named, overtaken, behind>>
                                         ELSE Applied(s)
               /\ Goto(s, "readBack")
               /\ UNCHANGED <<loop, req, seen, reply>>
            \/ /\ Update(s) # NoField
               /\ Applied(s) \/ UNCHANGED <<profile, named, overtaken, behind>>
               /\ Answer(s, "failed", NoField) /\ GiveLoop(s)
    /\ UNCHANGED <<master, envKey, configured, clientVars, crowded, rollouts>>

\* has_llm_key and has_embedding_key are true of whatever is stored; the preview is
\* of what it decrypts to, which may be nothing.
Preview(sealed, i) == IF Falsy(Open(sealed, i)) THEN None ELSE Open(sealed, i)
View(d, i) ==
    [f \in Fields |-> IF f \in KeyFields
                      THEN [has |-> d[f] # None, preview |-> Preview(d[f], i)] ELSE d[f]]

\* Mutant: the reply is made from the document that was read first.
ShownSeen(s) == View(Merge(seen[s], [f \in Fields |-> IF f \in KeyFields THEN None ELSE req[s][f]]),
                     InstanceOf[s])

\* get_settings
Shown(s) == View(Doc(UserOf[s]), InstanceOf[s])

ReadBack(s) ==
    /\ pc[s] = "readBack"
    /\ Answer(s, "saved", Shown(s)) \/ Answer(s, "failed", NoField)
    /\ GiveLoop(s)
    /\ UNCHANGED <<profile, master, envKey, configured, named, overtaken, behind, clientVars,
                   crowded, rollouts>>

----------------------------------------------------------------------------
(* get_embedder_for_user, get_llm_for_user                                  *)

\* get_provider_config.  Without a document embeddings come from Gemini; with
\* one, from its embedding provider or else its language model's.
ChooseProvider(t) ==
    LET d == Doc(UserOf[t]) IN
    IF t \in Tests THEN d.llm
    ELSE IF profile[UserOf[t]] = NoDoc THEN "gemini"
    ELSE IF Falsy(d.emb) THEN d.llm ELSE d.emb

\* A test ends here without a provider.  For any other provider than the two,
\* embeddings come from Gemini without the user's key.
BeginClient(t) ==
    LET p == ChooseProvider(t) IN
    /\ pc[t] = "idle" /\ LoopFree(t)
    /\ IF t \in Tests /\ Falsy(p)
       THEN Goto(t, "done") /\ UNCHANGED <<loop, provider>>
       ELSE /\ provider' = [provider EXCEPT ![t] = p]
            /\ Goto(t, IF t \in Tests \/ p \in Embedders THEN "key" ELSE "env")
            /\ TakeLoop(t)
    /\ UNCHANGED <<profile, master, envKey, configured, saveVars, key, pdfKey, calls, used,
                   crowded, rollouts>>

\* get_raw_key.  An OpenAI embedder asks for its own key first.
KeyField(t) ==
    IF pc[t] = "key" /\ t \notin Tests /\ provider[t] = "openai" THEN "embKey" ELSE "llmKey"
RawKey(t, f) == Open(Doc(UserOf[t])[f], InstanceOf[t])

\* The request or task ends, and its client is dropped.
Drop(t) ==
    /\ Goto(t, "done") /\ GiveLoop(t)
    /\ provider' = [provider EXCEPT ![t] = None]
    /\ key' = [key EXCEPT ![t] = None]
    /\ pdfKey' = [x \in Ingests |-> IF x = t THEN None ELSE pdfKey[x]]
    /\ calls' = [calls EXCEPT ![t] = 0]
    /\ used' = [used EXCEPT ![t] = Blank]
    /\ crowded' = [crowded EXCEPT ![t] = FALSE]

Made(t) == IF t \in Ingests THEN "pdfKey" ELSE "call"

\* A Gemini client can do without a key, Ollama needs none, an embedder for
\* OpenAI asks again.
ReadKey(t) ==
    LET found == RawKey(t, KeyField(t)) IN
    /\ pc[t] \in {"key", "second"}
    /\ key' = [key EXCEPT ![t] = found]
    /\ \/ provider[t] = "gemini" /\ Goto(t, "env")
       \/ /\ provider[t] # "gemini" /\ (~Falsy(found) \/ provider[t] = "ollama")
          /\ Goto(t, Made(t))
       \/ KeyField(t) = "embKey" /\ Falsy(found) /\ Goto(t, "second")
    /\ UNCHANGED <<profile, master, envKey, configured, loop, saveVars, provider, pdfKey, calls,
                   used, crowded, rollouts>>

\* Any other client raises.
NoKey(t) ==
    /\ pc[t] \in {"key", "second"} /\ KeyField(t) = "llmKey"
    /\ provider[t] \notin {"gemini", "ollama"} /\ Falsy(RawKey(t, "llmKey"))
    /\ Drop(t)
    /\ UNCHANGED <<profile, master, envKey, configured, saveVars, rollouts>>

\* _run_ingestion reads a key once more, for the PDFs.
ReadPdfKey(t) ==
    /\ pc[t] = "pdfKey"
    /\ pdfKey' = [pdfKey EXCEPT ![t] = RawKey(t, "llmKey")]
    /\ Goto(t, "call")
    /\ UNCHANGED <<profile, master, envKey, configured, loop, saveVars, provider, key, calls,
                   used, crowded, rollouts>>

----------------------------------------------------------------------------
(* genai.configure and the calls                                            *)

\* t sets the key of the process: the other clients there may not have theirs.
Configure(t, k) ==
    /\ configured' = [configured EXCEPT ![InstanceOf[t]] = k]
    /\ crowded' = [x \in Threads \ Saves |->
                     x # t /\ (crowded[x] \/ (InstanceOf[x] = InstanceOf[t] /\ InFlight(x)))]

\* The key of the environment, if it has one.
ConfigureDefault(t) ==
    LET k == envKey[InstanceOf[t]] IN
    IF k = None THEN UNCHANGED <<configured, crowded>> ELSE Configure(t, k)

\* The container, the semantic index and the gateway make a Gemini client of
\* their own, each when it is first needed; how many are left is not modelled.
MakeShared(i) ==
    /\ envKey[i] # None
    /\ configured' = [configured EXCEPT ![i] = envKey[i]]
    /\ crowded' = [x \in Threads \ Saves |-> crowded[x] \/ (InstanceOf[x] = i /\ InFlight(x))]
    /\ UNCHANGED <<profile, master, envKey, loop, pc, saveVars, clientVars, rollouts>>

\* A GeminiProvider configures one key, the user's or that of the environment.
ConfigureProvider(t) ==
    /\ pc[t] = "env" /\ t \in Tests
    /\ \/ ~Falsy(key[t]) /\ Configure(t, key[t]) /\ UNCHANGED key
       \/ /\ Falsy(key[t]) /\ ConfigureDefault(t)
          /\ key' = [key EXCEPT ![t] = envKey[InstanceOf[t]]]
    /\ Goto(t, "call")
    /\ UNCHANGED <<profile, master, envKey, loop, saveVars, provider, pdfKey, calls, used,
                   rollouts>>

\* A GeminiEmbedder configures the key of the environment ...
ConfigureEnv(t) ==
    /\ pc[t] = "env" /\ t \notin Tests
    /\ ConfigureDefault(t)
    /\ Goto(t, IF Falsy(key[t]) THEN Made(t) ELSE "own")
    /\ UNCHANGED <<profile, master, envKey, loop, saveVars, clientVars, rollouts>>

\* Mutant: the user's key is read and not configured.
ConfigureNothing(t) ==
    /\ pc[t] = "own"
    /\ Goto(t, Made(t))
    /\ UNCHANGED <<profile, master, envKey, configured, crowded, loop, saveVars, clientVars,
                   rollouts>>

\* ... and get_embedder_for_user then the user's.
ConfigureOwn(t) ==
    /\ pc[t] = "own"
    /\ Configure(t, key[t])
    /\ Goto(t, Made(t))
    /\ UNCHANGED <<profile, master, envKey, loop, saveVars, clientVars, rollouts>>

Limit(t) == IF t \in Ingests THEN MaxCalls ELSE 1
HoldsKey(t) == provider[t] = "openai" \/ (t \in Tests /\ provider[t] = "deepseek")

\* A tested provider asks nobody without a key of its own, and Ollama needs none.
AsksNobody(t) == t \in Tests /\ (provider[t] = "ollama" \/ Falsy(key[t]))

\* embed_text, embed_batch, generate.  Gemini is asked with the key the process
\* is configured with now, the others with the key of the client.
Call(t) ==
    /\ pc[t] = "call" /\ calls[t] < Limit(t)
    /\ calls' = [calls EXCEPT ![t] = @ + 1]
    /\ used' = [used EXCEPT ![t] = IF AsksNobody(t) THEN None
                                  ELSE IF HoldsKey(t) THEN key[t]
                                  ELSE configured[InstanceOf[t]]]
    /\ UNCHANGED <<profile, master, envKey, configured, loop, pc, saveVars, provider, key, pdfKey,
                   crowded, rollouts>>

\* PDFProcessor.process configures the key of the language model, whoever provides
\* it; without one the file is skipped ...
ConfigurePdf(t) ==
    /\ t \in Ingests /\ pc[t] = "call" /\ calls[t] < Limit(t)
    /\ ~Falsy(pdfKey[t])
    /\ Configure(t, pdfKey[t])
    /\ used' = [used EXCEPT ![t] = Blank]
    /\ Goto(t, "pdf")
    /\ UNCHANGED <<profile, master, envKey, loop, saveVars, provider, key, pdfKey, calls,
                   rollouts>>

\* ... and then uploads, asks every two seconds how far it is, and generates, each
\* with the key that is configured by then.  Any of it can raise.
CallPdf(t) ==
    /\ pc[t] = "pdf" /\ calls[t] < Limit(t)
    /\ calls' = [calls EXCEPT ![t] = @ + 1]
    /\ used' = [used EXCEPT ![t] = configured[InstanceOf[t]]]
    /\ Goto(t, "call") \/ UNCHANGED pc
    /\ UNCHANGED <<profile, master, envKey, configured, loop, saveVars, provider, key, pdfKey,
                   crowded, rollouts>>

\* There is nothing more to do, or a read or a call raises.
End(t) ==
    /\ pc[t] \in {"key", "second", "pdfKey", "call", "pdf"}
    /\ Drop(t)
    /\ UNCHANGED <<profile, master, envKey, configured, saveVars, rollouts>>

----------------------------------------------------------------------------
(* A new revision, with other ENCRYPTION_KEY and GEMINI_API_KEY or the same  *)

Rollout(i) ==
    /\ rollouts < MaxRollouts
    /\ rollouts' = rollouts + 1
    /\ \E m \in Masters \cup {None} : master' = [master EXCEPT ![i] = m]
    /\ \E k \in EnvKeys[i] : envKey' = [envKey EXCEPT ![i] = k]
    /\ configured' = [configured EXCEPT ![i] = None]
    /\ loop' = [loop EXCEPT ![i] = None]
    /\ pc' = [t \in Threads |-> IF InstanceOf[t] = i /\ InFlight(t) THEN "done" ELSE pc[t]]
    /\ reply' = [s \in Saves |-> IF InstanceOf[s] = i /\ InFlight(s)
                                 THEN [NoReply EXCEPT !.code = "failed"] ELSE reply[s]]
    /\ LET gone == {t \in Threads : InstanceOf[t] = i} IN
       /\ req' = [s \in Saves |-> IF s \in gone /\ InFlight(s) THEN NoField ELSE req[s]]
       /\ seen' = [s \in Saves |-> IF s \in gone THEN NoField ELSE seen[s]]
       /\ provider' = [t \in Threads \ Saves |-> IF t \in gone THEN None ELSE provider[t]]
       /\ key' = [t \in Threads \ Saves |-> IF t \in gone THEN None ELSE key[t]]
       /\ pdfKey' = [t \in Ingests |-> IF t \in gone THEN None ELSE pdfKey[t]]
       /\ calls' = [t \in Threads \ Saves |-> IF t \in gone THEN 0 ELSE calls[t]]
       /\ used' = [t \in Threads \ Saves |-> IF t \in gone THEN Blank ELSE used[t]]
       /\ crowded' = [t \in Threads \ Saves |-> t \notin gone /\ crowded[t]]
    /\ UNCHANGED <<profile, named, overtaken, behind>>

SaveStep(s) == BeginSave(s) \/ WriteProfile(s) \/ ReadBack(s)
ClientStep(t) ==
    \/ BeginClient(t) \/ ReadKey(t) \/ NoKey(t) \/ ReadPdfKey(t)
    \/ ConfigureProvider(t) \/ ConfigureEnv(t) \/ ConfigureOwn(t)
    \/ Call(t) \/ ConfigurePdf(t) \/ CallPdf(t) \/ End(t)

Next ==
    \/ \E s \in Saves : SaveStep(s)
    \/ \E t \in Threads \ Saves : ClientStep(t)
    \/ \E i \in Instances : MakeShared(i) \/ Rollout(i)

Spec == Init /\ [][Next]_vars

----------------------------------------------------------------------------
(* Properties                                                               *)

\* However saves interleave, a field holds what was named for it last; only a
\* provider can be gemini instead, as the default of a key that came without one,
\* and then nobody had named one or the save that set it had been overtaken.
SavesKept ==
    \A u \in Users : \A f \in Fields :
        Doc(u)[f] = named[u][f]
        \/ /\ f \notin KeyFields /\ Doc(u)[f] = "gemini"
           /\ Falsy(named[u][f]) \/ \E s \in Saves : UserOf[s] = u /\ overtaken[s]

\* A save that succeeds answers with every field as it was named, and of a key that
\* there is one, even if it is blank and has no preview - unless another save of
\* the user came between its write and its reading back.
RepliesShow ==
    \A s \in Saves : reply[s].code = "saved" /\ ~behind[s] =>
        \A f \in Fields : req[s][f] # None =>
            LET shown == reply[s].shown[f] IN
            IF f \notin KeyFields THEN shown = req[s][f]
            ELSE /\ shown.has
                 /\ shown.preview = IF Falsy(req[s][f]) THEN None ELSE req[s][f]

\* The key of a call is one that was read for its user or, for a client without
\* one, that of the environment - unless somebody else made a Gemini client in
\* the same process after this one.  An embedder with neither key asks with the one
\* that was left in the process, whoever's it is; a tested provider asks nobody.
Own(t) == IF HoldsKey(t) \/ provider[t] = "gemini" THEN key[t] ELSE None
Keyless(t) == Falsy(Own(t)) /\ envKey[InstanceOf[t]] = None
KeysOf(t) ==
    (IF Falsy(Own(t)) THEN {envKey[InstanceOf[t]]} ELSE {Own(t)})
        \cup (IF t \in Ingests THEN {pdfKey[t]} \ {None, Blank} ELSE {})
CallsExplained ==
    \A t \in Threads \ Saves : used[t] # Blank =>
        IF AsksNobody(t) THEN used[t] = None
        ELSE crowded[t] \/ Keyless(t) \/ used[t] \in KeysOf(t)
=============================================================================

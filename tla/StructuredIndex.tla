---------------------------- MODULE StructuredIndex ----------------------------
(***************************************************************************)
(* The structured index of one project, in the memory of one instance.     *)
(*                                                                         *)
(* Four tables keyed by lower-case name, all written under one lock, and a *)
(* cache of the tag names that every write of a tag drops.  The cache is   *)
(* filled under the lock, but whether it must be is asked before the lock  *)
(* is taken, and it is handed out after the lock is given back.  A write   *)
(* of a tag is two steps here, the table and then the cache, because a     *)
(* reader that takes no lock can come between them.                        *)
(***************************************************************************)
EXTENDS Naturals, FiniteSets

CONSTANTS
    Threads,  \* threads of the instance that use the index
    Keys,     \* lower-case names and slots
    Files,    \* source files
    Limit,    \* MAX_TAGS, MAX_ROUTINES and MAX_IO_ROWS, by kind
    Nobody,   \* the lock is free
    NoAnswer  \* None

Kinds == {"tag", "routine", "aoi", "io"}
Record == [kind : Kinds, key : Keys, file : Files]

ASSUME LimitAssumption == Limit \in [Kinds \ {"aoi"} -> Nat]
ASSUME NobodyAssumption == Nobody \notin Threads
ASSUME NoAnswerAssumption == \A K \in SUBSET Keys : K # NoAnswer

VARIABLES
    records,  \* _tags, _routines, _aois and _io
    cache,    \* _tag_name_cache
    lock,     \* who holds _lock
    at,       \* where each thread is in a call of the index
    answer    \* what all_tag_names gave each thread last

indexVars == <<records, cache, lock, at, answer>>

Of(kind) == {r \in records : r.kind = kind}
TagKeys == {r.key : r \in Of("tag")}

IndexTypeOK ==
    /\ records \subseteq Record
    /\ cache \in {NoAnswer} \cup SUBSET Keys
    /\ lock \in Threads \cup {Nobody}
    /\ at \in [Threads -> {"out", "written", "rebuild", "return"}]
    /\ answer \in [Threads -> {NoAnswer} \cup SUBSET Keys]

IndexInit ==
    /\ records = {}
    /\ cache = NoAnswer
    /\ lock = Nobody
    /\ at = [t \in Threads |-> "out"]
    /\ answer = [t \in Threads |-> NoAnswer]

----------------------------------------------------------------------------
(* Writes                                                                   *)

\* The AOIs have no limit.  A full table refuses even a name that it holds.
AtCapacity(kind) == kind # "aoi" /\ Cardinality(Of(kind)) >= Limit[kind]

\* A dict entry is replaced by a later record of its key.
Put(r) == {x \in records : x.kind # r.kind \/ x.key # r.key} \cup {r}

\* add_tag up to the table, the lock still held
StoreTag(t, r) ==
    /\ at[t] = "out" /\ lock = Nobody
    /\ r.kind = "tag" /\ ~AtCapacity("tag")
    /\ records' = Put(r)
    /\ lock' = t
    /\ at' = [at EXCEPT ![t] = "written"]
    /\ UNCHANGED <<cache, answer>>

\* add_routine, add_aoi, add_io
AddRecord(t, r) ==
    /\ at[t] = "out" /\ lock = Nobody
    /\ r.kind # "tag" /\ ~AtCapacity(r.kind)
    /\ records' = Put(r)
    /\ UNCHANGED <<cache, lock, at, answer>>

\* Any of the four, at the limit: logged and skipped.
Skip(t, r) ==
    /\ at[t] = "out" /\ lock = Nobody
    /\ AtCapacity(r.kind)
    /\ UNCHANGED indexVars

\* clear, up to the tables
Clear(t) ==
    /\ at[t] = "out" /\ lock = Nobody
    /\ records' = {}
    /\ lock' = t
    /\ at' = [at EXCEPT ![t] = "written"]
    /\ UNCHANGED <<cache, answer>>

\* Mutant: the write leaves the cache as it is.
InvalidateForgotten(t) ==
    /\ at[t] = "written"
    /\ lock' = Nobody
    /\ at' = [at EXCEPT ![t] = "out"]
    /\ UNCHANGED <<records, cache, answer>>

\* The end of add_tag and of clear: the cache is dropped, the lock given back.
Invalidate(t) ==
    /\ at[t] = "written"
    /\ cache' = NoAnswer
    /\ lock' = Nobody
    /\ at' = [at EXCEPT ![t] = "out"]
    /\ UNCHANGED <<records, answer>>

----------------------------------------------------------------------------
(* all_tag_names, which all_tag_names_lower calls                           *)

\* Mutant: the cache is taken to be there.
AskNamesUntested(t) ==
    /\ at[t] = "out"
    /\ at' = [at EXCEPT ![t] = "return"]
    /\ UNCHANGED <<records, cache, lock, answer>>

\* The test of the cache takes no lock.
AskNames(t) ==
    /\ at[t] = "out"
    /\ at' = [at EXCEPT ![t] = IF cache = NoAnswer THEN "rebuild" ELSE "return"]
    /\ UNCHANGED <<records, cache, lock, answer>>

Rebuild(t) ==
    /\ at[t] = "rebuild" /\ lock = Nobody
    /\ cache' = TagKeys
    /\ at' = [at EXCEPT ![t] = "return"]
    /\ UNCHANGED <<records, lock, answer>>

\* The field is read again, without the lock: it may have been dropped since.
ReturnNames(t) ==
    /\ at[t] = "return"
    /\ answer' = [answer EXCEPT ![t] = cache]
    /\ at' = [at EXCEPT ![t] = "out"]
    /\ UNCHANGED <<records, cache, lock>>

----------------------------------------------------------------------------
\* The process ends; another starts with an empty registry.
IndexLost ==
    /\ records' = {} /\ cache' = NoAnswer /\ lock' = Nobody
    /\ at' = [t \in Threads |-> "out"]
    /\ answer' = [t \in Threads |-> NoAnswer]

\* all_source_files, which waits for the lock
SourceFiles == {r.file : r \in records}

IndexStep(t) ==
    \/ \E r \in Record : StoreTag(t, r) \/ AddRecord(t, r) \/ Skip(t, r)
    \/ Clear(t) \/ Invalidate(t)
    \/ AskNames(t) \/ Rebuild(t) \/ ReturnNames(t)

IndexNext == IndexLost \/ \E t \in Threads : IndexStep(t)

IndexSpec == IndexInit /\ [][IndexNext]_indexVars

----------------------------------------------------------------------------
(* Properties                                                               *)

\* A cache that is there holds exactly the names of the tag table, but for the
\* one write under way, and that one still has the lock (StructuredIndex
\* promises a cached set "rebuilt on write").
CacheAgrees == lock = Nobody /\ cache # NoAnswer => cache = TagKeys

\* The names in force: what all_tag_names would give now.  A write counts from
\* the moment the cache no longer hides it.
Visible == IF cache = NoAnswer THEN TagKeys ELSE cache

\* The index implements the plain set of TagNames: every call of all_tag_names
\* is given the names in force when it returns, or None, and each write takes
\* effect at one moment, although the cache is tested and read outside the lock.
Names == INSTANCE TagNames WITH names <- Visible
TagNamesSpec == Names!Spec
=============================================================================

--------------------------- MODULE DatasetRegister ---------------------------
(***************************************************************************)
(* What the fault datasets of an instance are to those who ask for them: a *)
(* register for each project, and room for so many of them.  A request is  *)
(* asked, has its effect and its answer at one moment, and is done.  Two   *)
(* things are promised less firmly.  While an upload of its project is on  *)
(* its way an analysis may be told that there is nothing, and so may all   *)
(* others once the service was made twice; and each request that found no  *)
(* service makes one, and sweeps all registers before it has.              *)
(***************************************************************************)
EXTENDS Naturals, FiniteSets

CONSTANTS Uploads, Readers, Resets, Analyses, Projects, NoDataset, MaxDatasets

VARIABLES
    made,      \* how often the service was made
    makers,    \* the requests that found none, and have yet to make it
    standing,  \* the upload whose dataset stands for each project
    phase,     \* of a request: "idle", "asked" or "done"
    project,   \* the project it is about
    answer     \* what it has been told

registerVars == <<made, makers, standing, phase, project, answer>>

Requests == Uploads \cup Readers \cup Resets \cup Analyses
Asking == {r \in Requests : phase[r] = "asked"}

RegisterInit ==
    /\ made = 0 /\ makers = {}
    /\ standing = [p \in Projects |-> NoDataset]
    /\ phase = [r \in Requests |-> "idle"]
    /\ project \in [Requests -> Projects]
    /\ answer = [r \in Requests |-> "none"]

Ask(r) ==
    /\ phase[r] = "idle"
    /\ phase' = [phase EXCEPT ![r] = "asked"]
    /\ UNCHANGED <<made, makers, standing, project, answer>>

\* The request is told a, and dataset d stands for its project from now on.
Tell(r, a, d) ==
    /\ answer' = [answer EXCEPT ![r] = a]
    /\ phase' = [phase EXCEPT ![r] = "done"]
    /\ standing' = [standing EXCEPT ![project[r]] = d]
    /\ UNCHANGED <<made, makers, project>>

Standing(r) == standing[project[r]]

\* What the request may see: what stands, or the gap of an upload.
Seen(r) ==
    {Standing(r)} \cup
    {NoDataset : u \in {x \in Asking \cap Uploads :
                           project[x] = project[r] /\ (r \in Analyses \/ made > 1)}}

\* One dataset more than stand now, at the most.
Room(r) ==
    Cardinality({p \in Projects : standing[p] # NoDataset} \cup {project[r]}) =< MaxDatasets

\* An upload stores its dataset, or is refused, or loses what it was to replace.
Upload(r) ==
    \/ Room(r) /\ Tell(r, r, r)
    \/ Tell(r, "refused", Standing(r))
    \/ Tell(r, "failed", NoDataset)

Clear(r) ==
    \E d \in Seen(r) : Tell(r, IF d = NoDataset THEN "missing" ELSE "cleared", NoDataset)

Get(r) ==
    \E d \in Seen(r) : Tell(r, IF d = NoDataset THEN "missing" ELSE d, Standing(r))

\* An analysis may come upon an instance that is only half made.
Serve(r) ==
    \/ r \in Uploads  /\ made > 0 /\ Upload(r)
    \/ r \in Resets   /\ made > 0 /\ Clear(r)
    \/ r \in Readers  /\ made > 0 /\ Get(r)
    \/ r \in Analyses /\ (Get(r) \/ Tell(r, "broken", Standing(r)))

FindNone(r) ==
    /\ made = 0
    /\ makers' = makers \cup {r}
    /\ UNCHANGED <<made, standing, phase, project, answer>>

Sweep(r) ==
    /\ r \in makers
    /\ standing' = [p \in Projects |-> NoDataset]
    /\ UNCHANGED <<made, makers, phase, project, answer>>

Make(r) ==
    /\ r \in makers
    /\ made' = made + 1 /\ makers' = makers \ {r}
    /\ UNCHANGED <<standing, phase, project, answer>>

RegisterNext ==
    \/ \E r \in Requests : Ask(r)
    \/ \E r \in Asking \ makers : Serve(r) \/ FindNone(r)
    \/ \E r \in Asking : Sweep(r) \/ Make(r)

RegisterSpec == RegisterInit /\ [][RegisterNext]_registerVars
=============================================================================

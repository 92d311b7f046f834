------------------------------- MODULE TagNames -------------------------------
(***************************************************************************)
(* What the index of a project promises about its tag names: one set that  *)
(* grows by a name, is emptied as a whole, and is given to whoever asks as *)
(* it stands at that moment - or not at all, when a write gets in between. *)
(***************************************************************************)

CONSTANTS
    Keys,     \* lower-case tag names
    Threads,
    NoAnswer  \* None

VARIABLES
    names,    \* the names a reader is given
    answer    \* what each thread was given last

Init ==
    /\ names = {}
    /\ answer = [t \in Threads |-> NoAnswer]

Learn(k) == names' = names \cup {k} /\ UNCHANGED answer

Forget == names' = {} /\ UNCHANGED answer

Read(t) ==
    /\ \E a \in {names, NoAnswer} : answer' = [answer EXCEPT ![t] = a]
    /\ UNCHANGED names

Restart == names' = {} /\ answer' = [t \in Threads |-> NoAnswer]

Next ==
    \/ \E k \in Keys : Learn(k)
    \/ Forget
    \/ \E t \in Threads : Read(t)
    \/ Restart

Spec == Init /\ [][Next]_<<names, answer>>
=============================================================================

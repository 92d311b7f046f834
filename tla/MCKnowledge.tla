----------------------------- MODULE MCKnowledge -----------------------------
(***************************************************************************)
(* A small instance of Knowledge for TLC: a logic file with two tags, of   *)
(* which the table holds one, and a routine; a chunk of it and four of     *)
(* another file, of which one has no text, one is broken and one is beyond *)
(* the page; three questions.                                              *)
(***************************************************************************)
EXTENDS Knowledge, TLC

CONSTANTS q1, q2, l1, x1, motor, valve, ghost, plc1, plc2, c1, c2, c3, c4, c5

MCFileOf == [c \in Chunks |-> IF c = c1 THEN plc1 ELSE plc2]
MCPointId == c1 :> 1 @@ c2 :> 2 @@ c3 :> 3 @@ c4 :> 4 @@ c5 :> 5
MCLimit == [tag |-> 1, routine |-> 1, io |-> 1]
MCParsed == {[kind |-> "tag", key |-> motor, file |-> plc1],
             [kind |-> "tag", key |-> valve, file |-> plc1],
             [kind |-> "routine", key |-> valve, file |-> plc1]}
Ask1 == [endpoint |-> "project", mode |-> "GLOBAL", files |-> {}, folders |-> {},
         picked |-> FALSE, rules |-> {"TAG_LOOKUP", "SYSTEM_FLOW"}, snake |-> FALSE,
         camel |-> FALSE, words |-> {motor}, intent |-> "FAULT_ANALYSIS", explain |-> FALSE]
MCRequests ==
    {[Ask1 EXCEPT !.mode = "STRICT", !.folders = {plc2}, !.picked = TRUE, !.explain = TRUE],
     Ask1,
     [Ask1 EXCEPT !.endpoint = "knowledge", !.rules = {}, !.snake = TRUE]}
MCReplies == {[json |-> TRUE, summary |-> {motor, ghost}, evidence |-> {valve}]}
MCTags == {motor, valve, ghost}
Symmetry == Permutations(Queries)
=============================================================================

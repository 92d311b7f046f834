--------------------------- MODULE MCFaultStatistics ---------------------------
(* All logs of up to four lines over two codes and three times, two of which  *)
(* are close; logs that are too long, not sorted, lack a column or a time.    *)
EXTENDS FaultStatistics, TLC

CONSTANTS E1, E2

Ordered(n) ==
    {s \in [1..n -> [code : {E1, E2}, ts : Times]] :
        \A i \in 1..(n - 1) :
            \/ s[i].ts < s[i + 1].ts
            \/ s[i].ts = s[i + 1].ts /\ (s[i].code = E2 => s[i + 1].code = E2)}
MCLogs ==
    {[complete |-> TRUE, lines |-> s] : s \in UNION {Ordered(n) : n \in 0..4}}
    \cup {[complete |-> TRUE, lines |-> <<[code |-> E1, ts |-> 4], [code |-> E2, ts |-> NaT],
                                          [code |-> E2, ts |-> 0], [code |-> E1, ts |-> 1]>>],
          [complete |-> TRUE, lines |-> [i \in 1..5 |-> [code |-> E1, ts |-> 1]]],
          [complete |-> FALSE, lines |-> <<[code |-> E1, ts |-> 1]>>]}
=============================================================================

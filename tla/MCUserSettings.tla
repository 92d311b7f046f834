---------------------------- MODULE MCUserSettings ----------------------------
EXTENDS UserSettings, TLC

CONSTANTS u1, i1, i2, s1, s2, q1, g1, t1, k1, env, m1, m2

MCUserOf == [t \in Threads |-> u1]
MCInstanceOf == [t \in Threads |-> IF t = s1 THEN i2 ELSE i1]

\* Only i1 has clients that could use it.
MCEnvKeys == [i \in Instances |-> IF i = i1 THEN {env, None} ELSE {None}]

\* Providers with a blank key, a key without a provider, an unsupported provider.
MCRequests ==
    {[NoField EXCEPT !.llm = "deepseek", !.emb = "openai", !.embKey = Blank],
     [NoField EXCEPT !.llmKey = k1],
     [NoField EXCEPT !.emb = "other"]}

MastersAlike == Permutations(Masters)
=============================================================================

SPECIFICATION Spec
CONSTANTS
    u1 = u1  i1 = i1  i2 = i2
    s1 = s1  s2 = s2  q1 = q1  g1 = g1  t1 = t1
    k1 = k1  env = env
    m1 = m1  m2 = m2
    Users = {u1}
    Instances = {i1, i2}
    Saves = {s1, s2}
    Questions = {q1}
    Ingests = {g1}
    Tests = {t1}
    UserOf <- MCUserOf
    InstanceOf <- MCInstanceOf
    Requests <- MCRequests
    Keys = {k1, env}
    EnvKeys <- MCEnvKeys
    Masters = {m1, m2}
    None = None  Blank = Blank  NoDoc = NoDoc
    MaxCalls = 2
    MaxRollouts = 1
SYMMETRY MastersAlike
INVARIANTS
  SettingsTypeOK
  SavesKept
  RepliesShow
  CallsExplained
CHECK_DEADLOCK FALSE

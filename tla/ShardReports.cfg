CONSTANTS
  Workers = {w1}
  Models = {m1, m2}
  Calls = {c1, c2, c3}
  Shards = {s1, s2}
  NoHandle = NoHandle
SPECIFICATION ReportSpec
INVARIANTS
  TypeOK
  LoadingIsLock
  ReportsAnswerCalls
PROPERTIES
  NeverReplaced
  EveryCallReported

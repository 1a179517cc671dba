SPECIFICATION Spec
CONSTANTS
  t1 = t1  t2 = t2  t3 = t3  c1 = c1  c2 = c2
  Conversations = {c1, c2}
  Turns = {t1, t2, t3}
  ConversationOf <- SharedAndOther
  Refs = {r1, r2, r3}
  NoRef = NoRef
  NoTurn = NoTurn
  Requests = {q1}
  Workers = {w1, w2}
  MaxAttempts = 2
  Concurrency = 1
  LateAttempts = FALSE
  MaxStops = 1
SYMMETRY Interchangeable
INVARIANTS TypeOK ChargedOncePerReply HoldIsForPendingTurn OneAttemptPerConversation AttemptsAreCurrent
PROPERTIES SettledTurnsStaySettled KeepsPromise
CHECK_DEADLOCK FALSE

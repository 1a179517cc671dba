SPECIFICATION Spec
CONSTANTS
  t1 = t1  t2 = t2  t3 = t3  c1 = c1  c2 = c2
  Conversations = {c1}
  Turns = {t1}
  ConversationOf <- Single
  Refs = {r1, r2, r3}
  NoRef = NoRef
  NoTurn = NoTurn
  Requests = {q1, q2}
  Workers = {w1, w2}
  MaxAttempts = 2
  Concurrency = 1
  LateAttempts = TRUE
  MaxStops = 1
SYMMETRY Interchangeable
INVARIANTS ReplyOrNoCharge
PROPERTIES SettledHoldsStaySettled
CHECK_DEADLOCK FALSE

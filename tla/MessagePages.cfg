\* The pages of the messages of a conversation.
SPECIFICATION RecordsSpec
CONSTANTS
  c1 = c1
  c2 = c2
  Parts = {"pages"}
  ConsentTypes = {terms, marketing}
  OptionalTypes = {marketing}
  ConsentRequests = {q1, q2}
  MaxVersions = 2
  MaxAnswers = 3
  Creates = {n1, n2}
  Deletes = {d1, d2}
  DailyLimit = 2
  MaxInquiries = 4
  LastDay = 2
  Characters = {c1, c2}
  Posts = {1, 2}
  Stories = {3}
  Owner <- Publishers
  Syncs = {s1, s2}
  SyncLimit = 1
  StoryLife = 2
  Millisecond = 2
  Retiring = {c2}
  Fickle = {c1}
  MaxTime = 3
  ReadLists = {"messages"}
  MaxLimit = 2
  Writers = {w1, w2}
  MaxBatch = 2
  MaxRows = 3
SYMMETRY Symmetric
CHECK_DEADLOCK FALSE
PROPERTY PagesFollowCursor

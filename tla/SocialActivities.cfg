\* Activities of two characters: repeated, overtaken, given up, on two days.
SPECIFICATION FairSpec
CONSTANTS
  c1 = c1
  c2 = c2
  Characters = {c1, c2}
  NoCharacter = NoCharacter
  Posts = {1, 2}
  Author <- AllByTheSecond
  Interesting <- AllForTheFirst
  Workers = {w1, w2}
  BatchSize = 1
  MaxAttempts = 2
  PostsPerRun = 2
  LikesToFollow = 2
  MaxViews = 1
  MaxLikes = 1
  MaxFollows = 1
  Performers = {c1}
  Restless = {c1}
  MaxJobs = 2
  MaxDays = 2
  MaxStops = 1
INVARIANT SocialTypeOK
PROPERTIES
  LiveLeaseIsRespected
  KeepsPromise
  JobsSettle
CHECK_DEADLOCK FALSE

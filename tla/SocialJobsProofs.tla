-------------------------- MODULE SocialJobsProofs --------------------------
(***************************************************************************)
(* Proofs about SocialJobs, for every set of characters, posts and         *)
(* workers and every setting of the worker and of the daily limits.        *)
(***************************************************************************)
EXTENDS SocialJobs, FiniteSetTheorems, WellFoundedInduction, TLAPS

-----------------------------------------------------------------------------
(***************************************************************************)
(* The invariant                                                           *)
(***************************************************************************)

HasClaim == {"claimed", "acting", "failing"}

\* What a worker believes it is doing makes sense: a claim is of a row, the day
\* of a transaction is a day, and the loop of runOnce has not run out.
WorkerOK(r) ==
  /\ r.pc \in HasClaim => r.claim.job \in Jobs /\ r.claim.token # 0
  /\ r.pc = "acting" => r.day \in Days
  /\ r.pc \in HasClaim \cup {"claiming"} => r.processed < BatchSize

WorkersInv ==
  /\ worker \in [Workers -> Worker]
  /\ \A w \in Workers : WorkerOK(worker[w])

\* Only a running row has a token and a lease; a row that exists has a character.
RowOK(r) ==
  /\ r.status = "running" <=> r.token # 0
  /\ r.status = "running" <=> r.lease # "none"
  /\ r.status # "none" => r.character \in Characters

\* Rows are numbered without gaps, so the next number names no row yet.
RowsInv ==
  /\ job \in [Jobs -> Job]
  /\ \A j \in Jobs : RowOK(job[j])
  /\ \E n \in 0..MaxJobs : Created = 1..n

\* No day of any character holds more than the limits of its policy.
DeedsInv ==
  /\ viewed \in Views
  /\ liked \in Likes
  /\ followed \in Follows
  /\ \A c \in Characters, d \in Days : /\ UsedViews(c, d) <= MaxViews
                                       /\ UsedLikes(c, d) <= MaxLikes
                                       /\ UsedFollows(c, d) <= MaxFollows

ClockInv ==
  /\ policy \in [Characters -> Policy]
  /\ day \in Days
  /\ stops \in 0..MaxStops

SocialInv == RowsInv /\ WorkersInv /\ DeedsInv /\ ClockInv

LEMMA InvariantTypes == SocialInv => SocialTypeOK
  BY DEF SocialInv, RowsInv, RowOK, WorkersInv, DeedsInv, ClockInv, SocialTypeOK

-----------------------------------------------------------------------------
(***************************************************************************)
(* The operators the model is built from                                   *)
(***************************************************************************)

LEMMA LeastMember ==
  ASSUME NEW S \in SUBSET Nat, S # {}
  PROVE  \E m \in S : \A n \in S : m <= n
  <1>1. PICK m \in S : \A n \in S : ~(<<n, m>> \in OpToRel(<, Nat))
    BY NatLessThanWellFounded, WFMin
  <1>2. \A k, n \in Nat : <<n, k>> \in OpToRel(<, Nat) <=> n < k
    BY DEF OpToRel
  <1>3. ASSUME NEW n \in S PROVE m <= n
    <2>1. m \in Nat /\ n \in Nat
      OBVIOUS
    <2>2. ~(n < m)
      BY <1>1, <1>2, <2>1
    <2>3. QED BY <2>1, <2>2
  <1>4. QED BY <1>3

\* The newest n posts of a set are n at most.
LEMMA NewestAreFew ==
  ASSUME NEW S \in SUBSET Posts, NEW n \in Nat
  PROVE  /\ Newest(S, n) \subseteq S
         /\ IsFiniteSet(Newest(S, n))
         /\ Cardinality(Newest(S, n)) <= n
  <1> DEFINE T == Newest(S, n)
  <1>1. IsFiniteSet(S) /\ S \subseteq Nat /\ T \subseteq S
    BY PostsAreNumbered, FS_Subset DEF Newest
  <1>2. IsFiniteSet(T)
    BY <1>1, FS_Subset
  <1>3. CASE T = {}
    BY <1>1, <1>3, FS_EmptySet
  <1>4. CASE T # {}
    <2>1. PICK m \in T : \A p \in T : m <= p
      <3>1. T \in SUBSET Nat
        BY <1>1
      <3>2. QED BY <3>1, <1>4, LeastMember
    <2> DEFINE U == {q \in S : q > m}
    <2>2. IsFiniteSet(U) /\ Cardinality(U) \in Nat
      <3>1. U \in SUBSET S
        OBVIOUS
      <3>2. QED BY <3>1, <1>1, FS_Subset, FS_CardinalityType
    <2>3. Cardinality(U) < n
      BY <2>1 DEF Newest
    <2>4. T \in SUBSET (U \cup {m})
      <3>1. ASSUME NEW p \in T PROVE p \in U \cup {m}
        <4>1. m <= p /\ p \in Nat /\ m \in Nat /\ p \in S
          BY <1>1, <2>1
        <4>2. QED BY <4>1
      <3>2. QED BY <3>1
    <2>5. m \notin U
      <3>1. m \in Nat
        BY <1>1
      <3>2. QED BY <3>1
    <2>6. IsFiniteSet(U \cup {m}) /\ Cardinality(U \cup {m}) = Cardinality(U) + 1
      BY <2>2, <2>5, FS_AddElement
    <2>7. Cardinality(T) <= Cardinality(U \cup {m}) /\ Cardinality(T) \in Nat
      BY <1>2, <2>4, <2>6, FS_Subset, FS_CardinalityType
    <2>8. QED
      BY <1>1, <1>2, <2>2, <2>3, <2>6, <2>7
  <1>5. QED BY <1>3, <1>4

\* What is allowed and what is used make no more than the limit.
LEMMA AllowanceFits ==
  ASSUME NEW limit \in Nat, NEW used \in Nat, used <= limit
  PROVE  /\ Allowance(limit, used) \in Nat
         /\ used + Allowance(limit, used) <= limit
  BY DEF Allowance

\* A log with new entries of a day: that day gains them, other days gain nothing.
LEMMA LoggedDays ==
  ASSUME NEW X, IsFiniteSet(X), NEW log \in [X -> 0..MaxDays],
         NEW S \in SUBSET X, NEW d \in Days, NEW limit \in Nat,
         \A e \in Days : Cardinality(On(log, e)) <= limit,
         Cardinality(S) <= Allowance(limit, Cardinality(On(log, d)))
  PROVE  /\ Logged(log, S, d) \in [X -> 0..MaxDays]
         /\ Cardinality(On(log, d) \cup S) <= limit
         /\ \A e \in Days : Cardinality(On(Logged(log, S, d), e)) <= limit
  <1>1. Logged(log, S, d) \in [X -> 0..MaxDays]
    BY BoundsAreNatural DEF Logged, Days
  <1>2. \A e : On(log, e) \in SUBSET X
    BY DEF On
  <1>3. IsFiniteSet(S) /\ Cardinality(S) \in Nat
    BY FS_Subset, FS_CardinalityType
  <1>4. \A e : IsFiniteSet(On(log, e)) /\ Cardinality(On(log, e)) \in Nat
    BY <1>2, FS_Subset, FS_CardinalityType
  <1>5. Cardinality(On(log, d) \cup S) <= limit
    <2>1. Cardinality(On(log, d) \cup S)
            = Cardinality(On(log, d)) + Cardinality(S) - Cardinality(On(log, d) \cap S)
      BY <1>3, <1>4, FS_Union
    <2>2. Cardinality(On(log, d) \cap S) \in Nat
      BY <1>4, FS_Intersection, FS_CardinalityType
    <2>3. Cardinality(On(log, d)) + Cardinality(S) <= limit
      BY <1>3, <1>4, AllowanceFits
    <2>4. QED BY <1>3, <1>4, <2>1, <2>2, <2>3
  <1>6. ASSUME NEW e \in Days PROVE Cardinality(On(Logged(log, S, d), e)) <= limit
    <2>1. CASE e = d
      <3>1. On(Logged(log, S, d), e) = On(log, d) \cup S
        BY <2>1 DEF On, Logged
      <3>2. QED BY <1>5, <3>1
    <2>2. CASE e # d
      <3>1. On(Logged(log, S, d), e) \in SUBSET On(log, e)
        BY <2>2 DEF On, Logged
      <3>2. /\ Cardinality(On(Logged(log, S, d), e)) <= Cardinality(On(log, e))
            /\ Cardinality(On(Logged(log, S, d), e)) \in Nat
        BY <1>4, <3>1, FS_Subset, FS_CardinalityType
      <3>3. QED BY <1>4, <3>2
    <2>3. QED BY <2>1, <2>2
  <1>7. QED BY <1>1, <1>5, <1>6

-----------------------------------------------------------------------------
(***************************************************************************)
(* Rows                                                                    *)
(***************************************************************************)

\* A worker whose token and lease still stand has claimed a running row.
LEMMA LiveClaim ==
  ASSUME SocialInv, NEW w \in Workers, LiveLease(w), worker[w].pc \in HasClaim
  PROVE  /\ worker[w].claim.job \in Jobs
         /\ job[worker[w].claim.job].status = "running"
         /\ job[worker[w].claim.job].lease = "live"
         /\ job[worker[w].claim.job].token = worker[w].claim.token
         /\ CharacterOf(w) \in Characters
  BY DEF SocialInv, WorkersInv, WorkerOK, RowsInv, RowOK, LiveLease, CharacterOf

\* A row that exists keeps its number and its character when it is edited.
LEMMA RowsKeptByEdit ==
  ASSUME RowsInv, NEW j \in Jobs, job[j].status # "none",
         NEW row \in Job, RowOK(row), row.status # "none",
         job' = [job EXCEPT ![j] = row]
  PROVE  RowsInv'
  <1>1. job' \in [Jobs -> Job]
    BY DEF RowsInv
  <1>2. \A k \in Jobs : RowOK(job'[k])
    BY DEF RowsInv
  <1>3. Created' = Created
    BY DEF RowsInv, Created
  <1>4. QED BY <1>1, <1>2, <1>3 DEF RowsInv, RowOK

\* The edits the UPDATEs make to a row that is active.
LEMMA RowEdits ==
  ASSUME RowsInv, NEW j \in Jobs, Active(j)
  PROVE  /\ \A s \in {"completed", "failed", "cancelled"} : job' = Closed(j, s) => RowsInv'
         /\ job' = Requeued(j) => RowsInv'
         /\ ~Exhausted(j) /\ job' = Leased(j) => RowsInv'
  <1>1. job[j] \in Job /\ RowOK(job[j]) /\ job[j].status # "none" /\ job[j].character \in Characters
    BY DEF RowsInv, RowOK, Active
  <1>2. ASSUME NEW s \in {"completed", "failed", "cancelled"}, job' = Closed(j, s) PROVE RowsInv'
    <2> DEFINE row == [job[j] EXCEPT !.status = s, !.token = 0, !.lease = "none", !.ready = FALSE]
    <2>1. row \in Job /\ RowOK(row) /\ row.status # "none"
      <3>1. 0 \in 0..MaxAttempts
        BY OptionsArePositive
      <3>2. row \in Job
        BY <1>1, <3>1 DEF Job
      <3>3. row.character \in Characters /\ row.token = 0 /\ row.lease = "none"
        BY <1>1 DEF Job
      <3>4. row.status \notin {"none", "running"}
        BY <1>1 DEF Job
      <3>5. QED BY <3>2, <3>3, <3>4 DEF RowOK
    <2>2. job' = [job EXCEPT ![j] = row]
      BY <1>2 DEF Closed
    <2> HIDE DEF row
    <2>3. QED BY <1>1, <2>1, <2>2, RowsKeptByEdit
  <1>3. ASSUME job' = Requeued(j) PROVE RowsInv'
    <2> DEFINE row == [job[j] EXCEPT !.status = "queued", !.token = 0, !.lease = "none", !.ready = FALSE]
    <2>1. row \in Job /\ RowOK(row) /\ row.status # "none"
      <3>1. 0 \in 0..MaxAttempts
        BY OptionsArePositive
      <3>2. row \in Job
        BY <1>1, <3>1 DEF Job
      <3>3. row.character \in Characters /\ row.token = 0 /\ row.lease = "none"
        BY <1>1 DEF Job
      <3>4. row.status \notin {"none", "running"}
        BY <1>1 DEF Job
      <3>5. QED BY <3>2, <3>3, <3>4 DEF RowOK
    <2>2. job' = [job EXCEPT ![j] = row]
      BY <1>3 DEF Requeued
    <2> HIDE DEF row
    <2>3. QED BY <1>1, <2>1, <2>2, RowsKeptByEdit
  <1>4. ASSUME ~Exhausted(j), job' = Leased(j) PROVE RowsInv'
    <2> DEFINE row == [job[j] EXCEPT !.status = "running", !.attempts = job[j].attempts + 1,
                                     !.token = job[j].attempts + 1, !.lease = "live", !.ready = FALSE]
    <2>1. job[j].attempts + 1 \in 0..MaxAttempts /\ job[j].attempts + 1 # 0
      BY <1>1, <1>4, OptionsArePositive DEF Exhausted, Job
    <2>2. row \in Job /\ RowOK(row) /\ row.status # "none"
      BY <1>1, <2>1 DEF Job, RowOK
    <2>3. job' = [job EXCEPT ![j] = row]
      BY <1>4 DEF Leased
    <2> HIDE DEF row
    <2>4. QED BY <1>1, <2>2, <2>3, RowsKeptByEdit
  <1>5. QED BY <1>2, <1>3, <1>4

\* The next number is that of a row that does not exist yet.
LEMMA NextRow ==
  ASSUME RowsInv, Created # Jobs
  PROVE  /\ Cardinality(Created) + 1 \in Jobs
         /\ job[Cardinality(Created) + 1].status = "none"
         /\ Created \cup {Cardinality(Created) + 1} = 1..(Cardinality(Created) + 1)
  <1>1. PICK n \in 0..MaxJobs : Created = 1..n
    BY DEF RowsInv
  <1>2. n \in Nat /\ MaxJobs \in Nat
    BY BoundsAreNatural
  <1>3. Cardinality(Created) = n
    BY <1>1, <1>2, FS_Interval
  <1>4. n # MaxJobs
    BY <1>1 DEF Jobs
  <1>5. n + 1 \in Jobs /\ n + 1 \notin Created
    BY <1>1, <1>2, <1>4 DEF Jobs
  <1>6. (1..n) \cup {n + 1} = 1..(n + 1)
    BY <1>2
  <1>7. QED BY <1>1, <1>3, <1>5, <1>6 DEF Created

LEMMA RowsKeptByInsert ==
  ASSUME RowsInv, NEW c \in Characters, Created # Jobs, job' = Inserted(c)
  PROVE  RowsInv'
  <1> DEFINE k == Cardinality(Created) + 1
  <1>1. /\ k \in Jobs /\ job[k].status = "none"
        /\ Created \cup {k} = 1..k
    BY NextRow
  <1>2. QueuedJob(c) \in Job /\ RowOK(QueuedJob(c)) /\ QueuedJob(c).status # "none"
    <2>1. 0 \in 0..MaxAttempts
      BY OptionsArePositive
    <2>2. QED BY <2>1 DEF QueuedJob, NoJob, Job, RowOK
  <1>3. job' = [job EXCEPT ![k] = QueuedJob(c)]
    BY DEF Inserted
  <1> HIDE DEF k
  <1>4. job' \in [Jobs -> Job] /\ \A j \in Jobs : RowOK(job'[j])
    BY <1>1, <1>2, <1>3 DEF RowsInv
  <1>5. Created' = Created \cup {k}
    BY <1>1, <1>2, <1>3 DEF RowsInv, Created
  <1>6. k \in 0..MaxJobs
    BY <1>1, BoundsAreNatural DEF Jobs
  <1>7. QED BY <1>1, <1>4, <1>5, <1>6 DEF RowsInv, RowOK

LEMMA RowsFrame ==
  ASSUME RowsInv, UNCHANGED job
  PROVE  RowsInv'
  BY DEF RowsInv, RowOK, Created

LEMMA RowsStep ==
  ASSUME SocialInv, [Next]_vars
  PROVE  RowsInv'
  <1> RowsInv
    BY DEF SocialInv
  <1>1. ASSUME NEW w \in Workers, NEW c \in Characters, Schedule(w, c) PROVE RowsInv'
    <2>1. \/ UNCHANGED job
          \/ Created # Jobs /\ job' = Inserted(c)
      BY <1>1 DEF Schedule
    <2>2. QED BY <2>1, RowsFrame, RowsKeptByInsert
  <1>2. ASSUME NEW w \in Workers, NEW j \in Jobs, ClaimExhausts(w, j) PROVE RowsInv'
    BY <1>2, RowEdits DEF ClaimExhausts, Eligible, Active
  <1>3. ASSUME NEW w \in Workers, NEW j \in Jobs, ClaimTakes(w, j) PROVE RowsInv'
    BY <1>3, RowEdits DEF ClaimTakes, Eligible, Active
  <1>4. ASSUME NEW w \in Workers,
               ProcessCancels(w) \/ ProcessCompletes(w) \/ FailJob(w)
        PROVE  RowsInv'
    <2>1. worker[w].pc \in HasClaim /\ LiveLease(w)
      BY <1>4 DEF ProcessCancels, ProcessCompletes, FailJob, InTransaction, HasClaim
    <2>2. worker[w].claim.job \in Jobs /\ Active(worker[w].claim.job)
      BY <2>1, LiveClaim DEF Active
    <2>3. \/ \E s \in {"completed", "failed", "cancelled"} : job' = Closed(worker[w].claim.job, s)
          \/ job' = Requeued(worker[w].claim.job)
      BY <1>4 DEF ProcessCancels, ProcessCompletes, FailJob
    <2>4. QED BY <2>2, <2>3, RowEdits
  <1>5. ASSUME NEW j \in Jobs, LeaseEnds(j) PROVE RowsInv'
    <2> DEFINE row == [job[j] EXCEPT !.lease = "expired"]
    <2>1. job[j] \in Job /\ RowOK(job[j]) /\ job[j].status # "none"
      BY <1>5 DEF LeaseEnds, RowsInv, RowOK
    <2>2. row \in Job /\ RowOK(row) /\ row.status # "none"
      BY <1>5, <2>1 DEF LeaseEnds, Job, RowOK
    <2>3. job' = [job EXCEPT ![j] = row]
      BY <1>5 DEF LeaseEnds
    <2> HIDE DEF row
    <2>4. QED BY <2>1, <2>2, <2>3, RowsKeptByEdit
  <1>6. ASSUME NEW j \in Jobs, BackoffElapses(j) PROVE RowsInv'
    <2> DEFINE row == [job[j] EXCEPT !.ready = TRUE]
    <2>1. job[j] \in Job /\ RowOK(job[j]) /\ job[j].status # "none"
      BY <1>6 DEF BackoffElapses, RowsInv, RowOK
    <2>2. row \in Job /\ RowOK(row) /\ row.status # "none"
      BY <1>6, <2>1 DEF BackoffElapses, Job, RowOK
    <2>3. job' = [job EXCEPT ![j] = row]
      BY <1>6 DEF BackoffElapses
    <2> HIDE DEF row
    <2>4. QED BY <2>1, <2>2, <2>3, RowsKeptByEdit
  <1>7. ASSUME UNCHANGED job PROVE RowsInv'
    BY <1>7, RowsFrame
  <1>8. QED
    BY <1>1, <1>2, <1>3, <1>4, <1>5, <1>6, <1>7
    DEF Next, vars, RunOnce, Process, WorkerStops, ListDue, ListCandidates, ClaimSkips, ProcessReads,
        ProcessTooLate, ProcessThrows, FailJobDoesNothing, PolicyComesDue, CircumstancesChange, DayEnds

-----------------------------------------------------------------------------
(***************************************************************************)
(* Workers                                                                 *)
(***************************************************************************)

LEMMA WorkersKeptByMove ==
  ASSUME WorkersInv, NEW w \in Workers, NEW r \in Worker, WorkerOK(r),
         worker' = [worker EXCEPT ![w] = r]
  PROVE  WorkersInv'
  <1>1. worker' \in [Workers -> Worker] /\ \A v \in Workers : WorkerOK(worker'[v])
    BY DEF WorkersInv
  <1>2. QED BY <1>1 DEF WorkersInv, WorkerOK

LEMMA WaitingOK == Waiting \in Worker /\ WorkerOK(Waiting)
  BY OptionsArePositive, BoundsAreNatural DEF Waiting, Worker, WorkerOK, HasClaim, NoClaim, Claim

\* processNextActivity was called with a turn of the loop left.
LEMMA ProcessedOK ==
  ASSUME WorkersInv, NEW w \in Workers, worker[w].pc \in HasClaim, worker' = Processed(w)
  PROVE  WorkersInv'
  <1> DEFINE r == [Waiting EXCEPT !.pc = "looping", !.processed = worker[w].processed + 1]
  <1>1. worker[w].processed + 1 \in 0..BatchSize
    BY OptionsArePositive DEF WorkersInv, WorkerOK, Worker
  <1>2. r \in Worker /\ WorkerOK(r)
    BY <1>1, WaitingOK DEF Worker, WorkerOK, HasClaim, Waiting
  <1>3. worker' = [worker EXCEPT ![w] = r]
    BY DEF Processed
  <1> HIDE DEF r
  <1>4. QED BY <1>2, <1>3, WorkersKeptByMove

LEMMA NextCandidateOK ==
  ASSUME WorkersInv, NEW w \in Workers, worker[w].pc = "claiming", NEW j, NextCandidate(w, j)
  PROVE  WorkersInv'
  <1> DEFINE r == [worker[w] EXCEPT !.todo = @ \ {j}]
  <1>1. r \in Worker /\ WorkerOK(r)
    BY DEF WorkersInv, Worker, WorkerOK, HasClaim
  <1>2. worker' = [worker EXCEPT ![w] = Waiting] \/ worker' = [worker EXCEPT ![w] = r]
    BY DEF NextCandidate
  <1> HIDE DEF r
  <1>3. QED BY <1>1, <1>2, WaitingOK, WorkersKeptByMove

LEMMA WorkersFrame ==
  ASSUME WorkersInv, UNCHANGED worker
  PROVE  WorkersInv'
  BY DEF WorkersInv, WorkerOK

LEMMA WorkersStep ==
  ASSUME SocialInv, [Next]_vars
  PROVE  WorkersInv'
  <1> WorkersInv /\ RowsInv /\ ClockInv
    BY DEF SocialInv
  <1>1. ASSUME NEW w \in Workers, ListDue(w) PROVE WorkersInv'
    <2>1. PICK S \in Limited({c \in Characters : Due(c)}, BatchSize) :
            worker' = [worker EXCEPT ![w] =
              [Waiting EXCEPT !.pc = IF S = {} THEN "looping" ELSE "scheduling", !.due = S]]
      BY <1>1 DEF ListDue
    <2>2. S \subseteq Characters
      BY DEF Limited
    <2> DEFINE r == [Waiting EXCEPT !.pc = IF S = {} THEN "looping" ELSE "scheduling", !.due = S]
    <2>3. r \in Worker /\ WorkerOK(r)
      BY <2>2, WaitingOK DEF Worker, WorkerOK, HasClaim, Waiting
    <2>4. worker' = [worker EXCEPT ![w] = r]
      BY <2>1
    <2> HIDE DEF r
    <2>5. QED BY <2>3, <2>4, WorkersKeptByMove
  <1>2. ASSUME NEW w \in Workers, NEW c \in Characters, Schedule(w, c) PROVE WorkersInv'
    <2> DEFINE r == [worker[w] EXCEPT !.due = @ \ {c},
                                      !.pc = IF worker[w].due = {c} THEN "looping" ELSE "scheduling"]
    <2>1. r \in Worker /\ WorkerOK(r)
      BY <1>2 DEF Schedule, WorkersInv, Worker, WorkerOK, HasClaim
    <2>2. worker' = [worker EXCEPT ![w] = r]
      BY <1>2 DEF Schedule
    <2> HIDE DEF r
    <2>3. QED BY <2>1, <2>2, WorkersKeptByMove
  <1>3. ASSUME NEW w \in Workers, ListCandidates(w) PROVE WorkersInv'
    <2>1. PICK S \in Limited({j \in Jobs : Eligible(j)}, BatchSize) :
            worker' = [worker EXCEPT ![w] =
              IF S = {} \/ worker[w].processed = BatchSize THEN Waiting
              ELSE [@ EXCEPT !.pc = "claiming", !.todo = S]]
      BY <1>3 DEF ListCandidates
    <2>2. S \subseteq Jobs
      BY DEF Limited
    <2> DEFINE r == [worker[w] EXCEPT !.pc = "claiming", !.todo = S]
    <2>3. CASE worker[w].processed = BatchSize
      BY <2>1, <2>3, WaitingOK, WorkersKeptByMove
    <2>4. CASE worker[w].processed # BatchSize
      <3>1. worker[w].processed < BatchSize
        BY <2>4, OptionsArePositive DEF WorkersInv, Worker
      <3>2. r \in Worker /\ WorkerOK(r)
        BY <2>2, <3>1 DEF WorkersInv, Worker, WorkerOK, HasClaim
      <3>3. worker' = [worker EXCEPT ![w] = Waiting] \/ worker' = [worker EXCEPT ![w] = r]
        BY <2>1
      <3> HIDE DEF r
      <3>4. QED BY <3>2, <3>3, WaitingOK, WorkersKeptByMove
    <2>5. QED BY <2>3, <2>4
  <1>4. ASSUME NEW w \in Workers, NEW j \in Jobs, ClaimSkips(w, j) \/ ClaimExhausts(w, j)
        PROVE  WorkersInv'
    BY <1>4, NextCandidateOK DEF ClaimSkips, ClaimExhausts
  <1>5. ASSUME NEW w \in Workers, NEW j \in Jobs, ClaimTakes(w, j) PROVE WorkersInv'
    <2> DEFINE r == [worker[w] EXCEPT !.pc = "claimed", !.todo = {},
                                      !.claim = [job |-> j, token |-> job[j].attempts + 1]]
    <2>1. job[j].attempts + 1 \in 0..MaxAttempts /\ job[j].attempts + 1 # 0
      BY <1>5, OptionsArePositive DEF ClaimTakes, Exhausted, RowsInv, Job
    <2>2. r \in Worker /\ WorkerOK(r)
      <3>1. [job |-> j, token |-> job[j].attempts + 1] \in Claim
        BY <2>1, BoundsAreNatural DEF Claim, Jobs
      <3>2. QED BY <1>5, <2>1, <3>1 DEF ClaimTakes, WorkersInv, Worker, WorkerOK, HasClaim
    <2>3. worker' = [worker EXCEPT ![w] = r]
      BY <1>5 DEF ClaimTakes
    <2> HIDE DEF r
    <2>4. QED BY <2>2, <2>3, WorkersKeptByMove
  <1>6. ASSUME NEW w \in Workers, ProcessReads(w) PROVE WorkersInv'
    <2> DEFINE r == [worker[w] EXCEPT !.pc = "acting", !.day = day]
    <2>1. r \in Worker /\ WorkerOK(r)
      <3>1. day \in Days /\ day \in 0..MaxDays
        BY BoundsAreNatural DEF ClockInv, Days
      <3>2. r \in Worker
        BY <3>1 DEF WorkersInv, Worker
      <3>3. QED BY <1>6, <3>1, <3>2 DEF ProcessReads, WorkersInv, Worker, WorkerOK, HasClaim
    <2>2. worker' = [worker EXCEPT ![w] = r]
      BY <1>6 DEF ProcessReads
    <2> HIDE DEF r
    <2>3. QED BY <2>1, <2>2, WorkersKeptByMove
  <1>7. ASSUME NEW w \in Workers,
               \/ ProcessTooLate(w) \/ ProcessCancels(w) \/ ProcessCompletes(w)
               \/ FailJob(w) \/ FailJobDoesNothing(w)
        PROVE  WorkersInv'
    <2>1. worker[w].pc \in HasClaim /\ worker' = Processed(w)
      BY <1>7 DEF ProcessTooLate, ProcessCancels, ProcessCompletes, FailJob, FailJobDoesNothing,
                  InTransaction, HasClaim
    <2>2. QED BY <2>1, ProcessedOK
  <1>8. ASSUME NEW w \in Workers, ProcessThrows(w) PROVE WorkersInv'
    <2> DEFINE r == [worker[w] EXCEPT !.pc = "failing", !.day = 0]
    <2>1. worker[w].pc \in HasClaim
      BY <1>8 DEF ProcessThrows, InTransaction, HasClaim
    <2>2. r \in Worker /\ WorkerOK(r)
      <3>1. 0 \in 0..MaxDays
        BY BoundsAreNatural
      <3>2. r \in Worker
        BY <3>1 DEF WorkersInv, Worker
      <3>3. QED BY <2>1, <3>2 DEF WorkersInv, Worker, WorkerOK, HasClaim
    <2>3. worker' = [worker EXCEPT ![w] = r]
      BY <1>8 DEF ProcessThrows
    <2> HIDE DEF r
    <2>4. QED BY <2>2, <2>3, WorkersKeptByMove
  <1>9. ASSUME NEW w \in Workers, WorkerStops(w) PROVE WorkersInv'
    BY <1>9, WaitingOK, WorkersKeptByMove DEF WorkerStops
  <1>10. ASSUME UNCHANGED worker PROVE WorkersInv'
    BY <1>10, WorkersFrame
  <1>11. QED
    BY <1>1, <1>2, <1>3, <1>4, <1>5, <1>6, <1>7, <1>8, <1>9, <1>10
    DEF Next, vars, RunOnce, Process, LeaseEnds, BackoffElapses, PolicyComesDue,
        CircumstancesChange, DayEnds

-----------------------------------------------------------------------------
(***************************************************************************)
(* Views, likes and follows                                                *)
(***************************************************************************)

LEMMA LeastBounds ==
  ASSUME NEW m \in Nat, NEW n \in Nat
  PROVE  Least(m, n) \in Nat /\ Least(m, n) <= m /\ Least(m, n) <= n
  BY DEF Least

LEMMA UsedType ==
  ASSUME DeedsInv, NEW c \in Characters, NEW d \in Days
  PROVE  /\ UsedViews(c, d) \in Nat /\ UsedLikes(c, d) \in Nat /\ UsedFollows(c, d) \in Nat
         /\ viewed[c] \in [Posts -> 0..MaxDays]
         /\ liked[c] \in [Posts -> 0..MaxDays]
         /\ followed[c] \in [Characters -> 0..MaxDays]
  <1>1. /\ viewed[c] \in [Posts -> 0..MaxDays]
        /\ liked[c] \in [Posts -> 0..MaxDays]
        /\ followed[c] \in [Characters -> 0..MaxDays]
    BY DEF DeedsInv, Views, Likes, Follows
  <1>2. /\ On(viewed[c], d) \in SUBSET Posts
        /\ On(liked[c], d) \in SUBSET Posts
        /\ On(followed[c], d) \in SUBSET Characters
    BY <1>1 DEF On
  <1>3. /\ IsFiniteSet(On(viewed[c], d))
        /\ IsFiniteSet(On(liked[c], d))
        /\ IsFiniteSet(On(followed[c], d))
    BY <1>2, PostsAreNumbered, CharactersFinite, FS_Subset
  <1>4. QED BY <1>1, <1>3, FS_CardinalityType DEF UsedViews, UsedLikes, UsedFollows

\* What one transaction does for its character stays within what is allowed.
LEMMA DoesWhatIsAllowed ==
  ASSUME DeedsInv, NEW c \in Characters, NEW d \in Days,
         NEW L \in PostsToLike(c, d), NEW F \in AuthorsToFollow(c, d, L)
  PROVE  /\ PostsToView(c, d) \subseteq Candidates(c)
         /\ PostsToView(c, d) \in SUBSET Posts
         /\ Cardinality(PostsToView(c, d)) <= PostsPerRun
         /\ Cardinality(PostsToView(c, d)) <= Allowance(MaxViews, UsedViews(c, d))
         /\ L \in SUBSET PostsToView(c, d)
         /\ Cardinality(L) <= Allowance(MaxLikes, UsedLikes(c, d))
         /\ F \in SUBSET QualifiedAuthors(c, L)
         /\ F \in SUBSET Characters
         /\ Cardinality(F) <= Allowance(MaxFollows, UsedFollows(c, d))
  <1> DEFINE allowed == Allowance(MaxViews, UsedViews(c, d))
             n == Least(PostsPerRun, allowed)
  <1>1. Candidates(c) \in SUBSET Posts
    BY InterestingType DEF Candidates
  <1>2. allowed \in Nat
    BY UsedType, LimitsAreNatural, AllowanceFits DEF DeedsInv
  <1>3. n \in Nat /\ n <= PostsPerRun /\ n <= allowed
    BY <1>2, OptionsArePositive, LeastBounds
  <1>4. /\ PostsToView(c, d) \subseteq Candidates(c)
        /\ Cardinality(PostsToView(c, d)) <= n
        /\ IsFiniteSet(PostsToView(c, d))
    BY <1>1, <1>3, NewestAreFew DEF PostsToView
  <1>5. Cardinality(PostsToView(c, d)) \in Nat
    BY <1>4, FS_CardinalityType
  <1>6. /\ Cardinality(PostsToView(c, d)) <= PostsPerRun
        /\ Cardinality(PostsToView(c, d)) <= allowed
    <2> HIDE DEF n, allowed
    <2>1. PostsPerRun \in Nat
      BY OptionsArePositive
    <2>2. QED BY <1>2, <1>3, <1>4, <1>5, <2>1
  <1>7. L \in SUBSET PostsToView(c, d) /\ Cardinality(L) <= Allowance(MaxLikes, UsedLikes(c, d))
    BY DEF PostsToLike
  <1>8. F \in SUBSET QualifiedAuthors(c, L)
    BY DEF AuthorsToFollow, Limited
  <1>9. Cardinality(F) <= Allowance(MaxFollows, UsedFollows(c, d))
    <2>1. F = QualifiedAuthors(c, L) => IsFiniteSet(QualifiedAuthors(c, L))
      BY CharactersFinite, FS_Subset DEF QualifiedAuthors
    <2>2. QED BY DEF AuthorsToFollow, Limited
  <1>10. QED BY <1>1, <1>4, <1>6, <1>7, <1>8, <1>9 DEF QualifiedAuthors

LEMMA DeedsFrame ==
  ASSUME DeedsInv, UNCHANGED deeds
  PROVE  DeedsInv'
  <1>1. UNCHANGED <<viewed, liked, followed>>
    BY DEF deeds
  <1>2. QED BY <1>1 DEF DeedsInv, UsedViews, UsedLikes, UsedFollows

LEMMA DeedsStep ==
  ASSUME SocialInv, [Next]_vars
  PROVE  DeedsInv'
  <1> DeedsInv
    BY DEF SocialInv
  <1>1. ASSUME NEW w \in Workers, ProcessCompletes(w) PROVE DeedsInv'
    <2> DEFINE c == CharacterOf(w)
               d == worker[w].day
    <2>1. c \in Characters /\ d \in Days
      BY <1>1, LiveClaim DEF ProcessCompletes, InTransaction, HasClaim, SocialInv, WorkersInv, WorkerOK
    <2>0. PICK L \in PostsToLike(c, d) :
            /\ viewed' = [viewed EXCEPT ![c] = Logged(viewed[c], PostsToView(c, d), d)]
            /\ liked' = [liked EXCEPT ![c] = Logged(liked[c], L, d)]
            /\ \E F \in AuthorsToFollow(c, d, L) :
                 followed' = [followed EXCEPT ![c] = Logged(followed[c], F, d)]
      BY <1>1 DEF ProcessCompletes
    <2>2. PICK F \in AuthorsToFollow(c, d, L) :
            followed' = [followed EXCEPT ![c] = Logged(followed[c], F, d)]
      BY <2>0
    <2> HIDE DEF c, d
    <2>3. /\ PostsToView(c, d) \in SUBSET Posts /\ L \in SUBSET Posts /\ F \in SUBSET Characters
          /\ Cardinality(PostsToView(c, d)) <= Allowance(MaxViews, UsedViews(c, d))
          /\ Cardinality(L) <= Allowance(MaxLikes, UsedLikes(c, d))
          /\ Cardinality(F) <= Allowance(MaxFollows, UsedFollows(c, d))
      BY <2>1, <2>2, DoesWhatIsAllowed
    <2>4. /\ Logged(viewed[c], PostsToView(c, d), d) \in [Posts -> 0..MaxDays]
          /\ \A e \in Days : Cardinality(On(Logged(viewed[c], PostsToView(c, d), d), e)) <= MaxViews
      <3>1. viewed[c] \in [Posts -> 0..MaxDays] /\ IsFiniteSet(Posts) /\ MaxViews \in Nat
        BY <2>1, UsedType, PostsAreNumbered, LimitsAreNatural
      <3>2. \A e \in Days : Cardinality(On(viewed[c], e)) <= MaxViews
        BY <2>1 DEF DeedsInv, UsedViews
      <3>3. QED BY <2>1, <2>3, <3>1, <3>2, LoggedDays DEF UsedViews
    <2>5. /\ Logged(liked[c], L, d) \in [Posts -> 0..MaxDays]
          /\ \A e \in Days : Cardinality(On(Logged(liked[c], L, d), e)) <= MaxLikes
      <3>1. liked[c] \in [Posts -> 0..MaxDays] /\ IsFiniteSet(Posts) /\ MaxLikes \in Nat
        BY <2>1, UsedType, PostsAreNumbered, LimitsAreNatural
      <3>2. \A e \in Days : Cardinality(On(liked[c], e)) <= MaxLikes
        BY <2>1 DEF DeedsInv, UsedLikes
      <3>3. QED BY <2>1, <2>3, <3>1, <3>2, LoggedDays DEF UsedLikes
    <2>6. /\ Logged(followed[c], F, d) \in [Characters -> 0..MaxDays]
          /\ \A e \in Days : Cardinality(On(Logged(followed[c], F, d), e)) <= MaxFollows
      <3>1. followed[c] \in [Characters -> 0..MaxDays] /\ IsFiniteSet(Characters) /\ MaxFollows \in Nat
        BY <2>1, UsedType, CharactersFinite, LimitsAreNatural
      <3>2. \A e \in Days : Cardinality(On(followed[c], e)) <= MaxFollows
        BY <2>1 DEF DeedsInv, UsedFollows
      <3>3. QED BY <2>1, <2>3, <3>1, <3>2, LoggedDays DEF UsedFollows
    <2>7. viewed' \in Views /\ liked' \in Likes /\ followed' \in Follows
      BY <2>0, <2>2, <2>4, <2>5, <2>6 DEF DeedsInv, Views, Likes, Follows
    <2>8. ASSUME NEW b \in Characters, NEW e \in Days
          PROVE  /\ Cardinality(On(viewed'[b], e)) <= MaxViews
                 /\ Cardinality(On(liked'[b], e)) <= MaxLikes
                 /\ Cardinality(On(followed'[b], e)) <= MaxFollows
      <3>1. CASE b = c
        <4>1. /\ viewed'[b] = Logged(viewed[c], PostsToView(c, d), d)
              /\ liked'[b] = Logged(liked[c], L, d)
              /\ followed'[b] = Logged(followed[c], F, d)
          BY <2>0, <2>2, <3>1 DEF DeedsInv, Views, Likes, Follows
        <4>2. QED BY <2>4, <2>5, <2>6, <4>1
      <3>2. CASE b # c
        <4>1. viewed'[b] = viewed[b] /\ liked'[b] = liked[b] /\ followed'[b] = followed[b]
          BY <2>0, <2>2, <3>2 DEF DeedsInv, Views, Likes, Follows
        <4>2. QED BY <4>1 DEF DeedsInv, UsedViews, UsedLikes, UsedFollows
      <3>3. QED BY <3>1, <3>2
    <2>9. QED BY <2>7, <2>8 DEF DeedsInv, UsedViews, UsedLikes, UsedFollows
  <1>2. ASSUME UNCHANGED deeds PROVE DeedsInv'
    BY <1>2, DeedsFrame
  <1>3. QED
    BY <1>1, <1>2
    DEF Next, vars, deeds, RunOnce, Process, ListDue, Schedule, ListCandidates, ClaimSkips, ClaimExhausts,
        ClaimTakes, ProcessReads, ProcessTooLate, ProcessCancels, ProcessThrows, FailJob,
        FailJobDoesNothing, WorkerStops, LeaseEnds, BackoffElapses, PolicyComesDue,
        CircumstancesChange, DayEnds

-----------------------------------------------------------------------------
(***************************************************************************)
(* Every reachable state                                                   *)
(***************************************************************************)

LEMMA ClockStep ==
  ASSUME SocialInv, [Next]_vars
  PROVE  ClockInv'
  <1> ClockInv
    BY DEF SocialInv
  <1>1. ASSUME NEW w \in Workers, NEW c \in Characters, Schedule(w, c) PROVE ClockInv'
    BY <1>1 DEF Schedule, Advance, ClockInv, Policy, Circumstances
  <1>2. ASSUME NEW w \in Workers, WorkerStops(w) PROVE ClockInv'
    BY <1>2, BoundsAreNatural DEF WorkerStops, ClockInv
  <1>3. ASSUME NEW c \in Characters, PolicyComesDue(c) PROVE ClockInv'
    BY <1>3 DEF PolicyComesDue, ClockInv, Policy, Circumstances
  <1>4. ASSUME NEW c \in Characters, CircumstancesChange(c) PROVE ClockInv'
    BY <1>4 DEF CircumstancesChange, ClockInv, Policy, Circumstances
  <1>5. CASE DayEnds
    BY <1>5, BoundsAreNatural DEF DayEnds, ClockInv, Days
  <1>6. ASSUME UNCHANGED <<policy, day, stops>> PROVE ClockInv'
    BY <1>6 DEF ClockInv
  <1>7. QED
    BY <1>1, <1>2, <1>3, <1>4, <1>5, <1>6
    DEF Next, vars, RunOnce, Process, ListDue, ListCandidates, ClaimSkips, ClaimExhausts, ClaimTakes,
        ProcessReads, ProcessTooLate, ProcessCancels, ProcessCompletes, ProcessThrows, FailJob,
        FailJobDoesNothing, LeaseEnds, BackoffElapses

LEMMA InvariantInit ==
  ASSUME Init
  PROVE  SocialInv
  <1>1. RowsInv
    <2>1. NoJob \in Job /\ RowOK(NoJob)
      <3>1. 0 \in 0..MaxAttempts
        BY OptionsArePositive
      <3>2. QED BY <3>1 DEF NoJob, Job, RowOK
    <2>2. job \in [Jobs -> Job] /\ \A j \in Jobs : job[j] = NoJob
      BY <2>1 DEF Init
    <2>3. Created = 1..0
      BY <2>2 DEF Created, NoJob
    <2>4. 0 \in 0..MaxJobs
      BY BoundsAreNatural
    <2>5. QED BY <2>1, <2>2, <2>3, <2>4 DEF RowsInv
  <1>2. WorkersInv
    BY WaitingOK DEF Init, WorkersInv
  <1>3. DeedsInv
    <2>1. viewed \in Views /\ liked \in Likes /\ followed \in Follows
      <3>1. 0 \in 0..MaxDays
        BY BoundsAreNatural
      <3>2. QED BY <3>1 DEF Init, Views, Likes, Follows
    <2>2. ASSUME NEW c \in Characters, NEW d \in Days
          PROVE  On(viewed[c], d) = {} /\ On(liked[c], d) = {} /\ On(followed[c], d) = {}
      BY BoundsAreNatural DEF Init, On, Days
    <2>3. QED BY <2>1, <2>2, FS_EmptySet, LimitsAreNatural
              DEF DeedsInv, UsedViews, UsedLikes, UsedFollows
  <1>4. ClockInv
    BY BoundsAreNatural DEF Init, ClockInv, Policy, Circumstances, Days
  <1>5. QED BY <1>1, <1>2, <1>3, <1>4 DEF SocialInv

\* The invariant of the queue: rows are numbered without gaps, only a running
\* row has a lease, workers hold claims of rows, and no day of a character goes
\* over its limits, however workers meet, die and repeat each other's work.
THEOREM SocialInvariant == Spec => []SocialInv
  <1>1. Init => SocialInv
    BY InvariantInit
  <1>2. SocialInv /\ [Next]_vars => SocialInv'
    BY RowsStep, WorkersStep, DeedsStep, ClockStep DEF SocialInv
  <1>3. QED BY <1>1, <1>2, PTL DEF Spec

\* Every reachable state is of the declared types, and a row has its token and
\* its lease exactly while it runs.
THEOREM SocialTypeCorrect == Spec => []SocialTypeOK
  BY SocialInvariant, InvariantTypes, PTL

-----------------------------------------------------------------------------
(***************************************************************************)
(* Leases                                                                  *)
(***************************************************************************)

\* The worker whose claim it is.
Holder(w, j) == worker[w].claim = [job |-> j, token |-> job[j].token]

LEMMA LiveLeaseStep ==
  ASSUME SocialInv, [Next]_vars, NEW j \in Jobs,
         job[j].lease = "live", job'[j].token # job[j].token
  PROVE  \E w \in Workers : Holder(w, j) /\ worker'[w].claim # worker[w].claim
  <1>1. job[j].status = "running" /\ RowOK(job[j]) /\ job \in [Jobs -> Job]
    BY DEF SocialInv, RowsInv, RowOK
  <1>2. ASSUME NEW w \in Workers, NEW c \in Characters, Schedule(w, c) PROVE FALSE
    <2>1. Created # Jobs /\ job' = Inserted(c)
      BY <1>2 DEF Schedule
    <2>2. Cardinality(Created) + 1 # j
      BY <1>1, <2>1, NextRow DEF SocialInv
    <2>3. job'[j] = job[j]
      BY <1>1, <2>1, <2>2 DEF Inserted
    <2>4. QED BY <2>3
  <1>3. ASSUME NEW w \in Workers, NEW k \in Jobs, ClaimExhausts(w, k) \/ ClaimTakes(w, k)
        PROVE  FALSE
    <2>1. Eligible(k)
      BY <1>3 DEF ClaimExhausts, ClaimTakes
    <2>2. k # j
      BY <1>1, <2>1 DEF Eligible
    <2>3. job'[j] = job[j]
      BY <1>1, <1>3, <2>2 DEF ClaimExhausts, ClaimTakes, Closed, Leased
    <2>4. QED BY <2>3
  <1>4. ASSUME NEW w \in Workers,
               ProcessCancels(w) \/ ProcessCompletes(w) \/ FailJob(w)
        PROVE  Holder(w, j) /\ worker'[w].claim # worker[w].claim
    <2> DEFINE k == worker[w].claim.job
    <2>1. worker[w].pc \in HasClaim /\ LiveLease(w) /\ worker' = Processed(w)
      BY <1>4 DEF ProcessCancels, ProcessCompletes, FailJob, InTransaction, HasClaim
    <2>2. /\ worker[w].claim.job \in Jobs
          /\ job[worker[w].claim.job].token = worker[w].claim.token
      BY <2>1, LiveClaim
    <2>3. \A i \in Jobs \ {worker[w].claim.job} : job'[i] = job[i]
      BY <1>1, <1>4 DEF ProcessCancels, ProcessCompletes, FailJob, Closed, Requeued
    <2>4. worker[w].claim.job = j
      BY <2>3
    <2>5. worker[w] \in Worker /\ worker[w].claim \in Claim
      BY DEF SocialInv, WorkersInv, Worker
    <2>6. worker[w].claim = [job |-> j, token |-> job[j].token]
      BY <2>2, <2>4, <2>5 DEF Claim
    <2>7. worker'[w].claim = NoClaim
      BY <2>1 DEF Processed, Waiting, SocialInv, WorkersInv
    <2>8. NoClaim.job = 0 /\ 0 \notin Jobs
      BY BoundsAreNatural DEF NoClaim, Jobs
    <2>9. QED BY <2>4, <2>6, <2>7, <2>8 DEF Holder
  <1>5. ASSUME NEW k \in Jobs, LeaseEnds(k) \/ BackoffElapses(k) PROVE FALSE
    <2>1. job'[j].token = job[j].token
      BY <1>1, <1>5 DEF LeaseEnds, BackoffElapses, Job
    <2>2. QED BY <2>1
  <1>6. ~UNCHANGED job
    OBVIOUS
  <1>7. QED
    BY <1>2, <1>3, <1>4, <1>5, <1>6
    DEF Next, vars, RunOnce, Process, WorkerStops, ListDue, ListCandidates, ClaimSkips, ProcessReads,
        ProcessTooLate, ProcessThrows, FailJobDoesNothing, PolicyComesDue, CircumstancesChange, DayEnds

\* A lease that lives keeps everybody else off the row: the token changes only
\* in a step of the worker that has it.
THEOREM LeasesHold == Spec => LiveLeaseIsRespected
  <1> DEFINE Respected ==
        \A j \in Jobs :
          job[j].lease = "live" /\ job'[j].token # job[j].token =>
            \E w \in Workers : /\ worker[w].claim = [job |-> j, token |-> job[j].token]
                               /\ worker'[w].claim # worker[w].claim
  <1>1. SocialInv /\ [Next]_vars => [Respected]_vars
    BY LiveLeaseStep DEF Holder
  <1>2. QED BY <1>1, SocialInvariant, PTL DEF Spec, LiveLeaseIsRespected

-----------------------------------------------------------------------------
(***************************************************************************)
(* The promise                                                             *)
(***************************************************************************)

\* state and actor of ActivityPromise, as KeepsPromise substitutes them.
Outcomes == [j \in Jobs |-> Outcome(job[j].status)]
Actors == [j \in Jobs |-> job[j].character]

\* tlapm tells the Cardinality of an instance from that of the module.
LEMMA SameCardinality == \A S : Promise!Cardinality(S) = Cardinality(S)
  BY Zenon DEF Cardinality, Promise!Cardinality

LEMMA PromiseStutters ==
  ASSUME UNCHANGED <<Outcomes, Actors>>, UNCHANGED deeds
  PROVE  [Promise!PromiseNext]_(Promise!promiseVars)
  BY DEF Outcomes, Actors, deeds, Promise!promiseVars, Promise!deeds

\* What an edit of a row means to the promise.
LEMMA EditOutcome ==
  ASSUME RowsInv, NEW j \in Jobs, NEW row,
         job' = [job EXCEPT ![j] = row], row.character = job[j].character
  PROVE  /\ Actors' = Actors
         /\ Outcomes' = [Outcomes EXCEPT ![j] = Outcome(row.status)]
  BY DEF RowsInv, Actors, Outcomes

LEMMA ActiveIsOpen ==
  ASSUME NEW j \in Jobs
  PROVE  Active(j) <=> Outcomes[j] = "open"
  BY DEF Active, Outcomes, Outcome

\* An active row that is closed without having acted.
LEMMA DropStep ==
  ASSUME RowsInv, NEW j \in Jobs, Active(j), NEW s \in {"failed", "cancelled"},
         job' = Closed(j, s), UNCHANGED deeds
  PROVE  Promise!PromiseNext
  <1> DEFINE row == [job[j] EXCEPT !.status = s, !.token = 0, !.lease = "none", !.ready = FALSE]
  <1>1. job[j] \in Job
    BY DEF RowsInv
  <1>2. row.character = job[j].character /\ Outcome(row.status) = "dropped"
    BY <1>1 DEF Job, Outcome
  <1>3. job' = [job EXCEPT ![j] = row]
    BY DEF Closed
  <1> HIDE DEF row
  <1>4. Actors' = Actors /\ Outcomes' = [Outcomes EXCEPT ![j] = "dropped"]
    BY <1>2, <1>3, EditOutcome
  <1>5. Outcomes[j] = "open"
    BY ActiveIsOpen
  <1>6. Promise!Drop(j)
    BY <1>4, <1>5 DEF Outcomes, Actors, deeds, Promise!Drop, Promise!deeds
  <1>7. QED BY <1>6 DEF Promise!PromiseNext

\* An active row that is edited and stays active.
LEMMA KeepsOpen ==
  ASSUME RowsInv, NEW j \in Jobs, Active(j), NEW row,
         job' = [job EXCEPT ![j] = row], row.character = job[j].character,
         row.status \in {"queued", "running"}, UNCHANGED deeds
  PROVE  [Promise!PromiseNext]_(Promise!promiseVars)
  <1>1. Actors' = Actors /\ Outcomes' = [Outcomes EXCEPT ![j] = Outcome(row.status)]
    BY EditOutcome
  <1>2. Outcome(row.status) = Outcomes[j]
    BY ActiveIsOpen DEF Outcome
  <1>3. Outcomes' = Outcomes
    BY <1>1, <1>2 DEF Outcomes
  <1>4. QED BY <1>1, <1>3, PromiseStutters

LEMMA OpenStep ==
  ASSUME RowsInv, NEW c \in Characters, Created # Jobs, Insertable(c), job' = Inserted(c),
         UNCHANGED deeds
  PROVE  Promise!PromiseNext
  <1> DEFINE k == Cardinality(Created) + 1
  <1>1. k \in Jobs /\ job[k].status = "none"
    BY NextRow
  <1>2. job' = [job EXCEPT ![k] = QueuedJob(c)]
    BY DEF Inserted
  <1> HIDE DEF k
  <1>3. QueuedJob(c).status = "queued" /\ QueuedJob(c).character = c
    BY DEF QueuedJob, NoJob
  <1>4. Outcomes[k] = "none"
    BY <1>1 DEF Outcomes, Outcome
  <1>5. ~\E b \in Jobs : Outcomes[b] = "open" /\ Actors[b] = c
    BY ActiveIsOpen DEF Insertable, Actors
  <1>6. Outcomes' = [Outcomes EXCEPT ![k] = "open"]
    BY <1>1, <1>2, <1>3 DEF RowsInv, Outcomes, Outcome
  <1>7. Actors' = [Actors EXCEPT ![k] = c]
    BY <1>1, <1>2, <1>3 DEF RowsInv, Actors
  <1>8. Promise!Open(k, c)
    BY <1>4, <1>5, <1>6, <1>7 DEF Outcomes, Actors, deeds, Promise!Open, Promise!deeds
  <1>9. QED BY <1>1, <1>8 DEF Promise!PromiseNext

\* The transaction that acts, seen from outside: its character does once what
\* the promise allows, in the step that completes the activity.
LEMMA ActStep ==
  ASSUME SocialInv, NEW w \in Workers, ProcessCompletes(w)
  PROVE  Promise!PromiseNext
  <1> DEFINE c == CharacterOf(w)
             d == worker[w].day
             j == worker[w].claim.job
             V == PostsToView(c, d)
  <1>1. worker[w].pc \in HasClaim /\ LiveLease(w) /\ worker[w].pc = "acting"
    BY DEF ProcessCompletes, InTransaction, HasClaim
  <1>2. j \in Jobs /\ Active(j) /\ c \in Characters /\ d \in Days /\ c = job[j].character
    BY <1>1, LiveClaim DEF Active, SocialInv, WorkersInv, WorkerOK, CharacterOf
  <1>3. viewed' = [viewed EXCEPT ![c] = Logged(viewed[c], V, d)] /\ job' = Closed(j, "completed")
    BY DEF ProcessCompletes
  <1>4. PICK L \in PostsToLike(c, d) :
          /\ liked' = [liked EXCEPT ![c] = Logged(liked[c], L, d)]
          /\ \E F \in AuthorsToFollow(c, d, L) :
               followed' = [followed EXCEPT ![c] = Logged(followed[c], F, d)]
    BY DEF ProcessCompletes
  <1>5. PICK F \in AuthorsToFollow(c, d, L) :
          followed' = [followed EXCEPT ![c] = Logged(followed[c], F, d)]
    BY <1>4
  <1> HIDE DEF c, d, j
  <1>6. DeedsInv /\ RowsInv
    BY DEF SocialInv
  <1>7. /\ V \subseteq Candidates(c) /\ V \in SUBSET Posts
        /\ Cardinality(V) <= PostsPerRun
        /\ Cardinality(V) <= Allowance(MaxViews, UsedViews(c, d))
        /\ L \in SUBSET V /\ L \in SUBSET Posts
        /\ Cardinality(L) <= Allowance(MaxLikes, UsedLikes(c, d))
        /\ F \in SUBSET QualifiedAuthors(c, L) /\ F \in SUBSET Characters
        /\ Cardinality(F) <= Allowance(MaxFollows, UsedFollows(c, d))
    BY <1>2, <1>4, <1>5, <1>6, DoesWhatIsAllowed
  <1>8. Cardinality(On(viewed[c], d) \cup V) <= MaxViews
    <2>1. viewed[c] \in [Posts -> 0..MaxDays] /\ IsFiniteSet(Posts) /\ MaxViews \in Nat
      BY <1>2, <1>6, UsedType, PostsAreNumbered, LimitsAreNatural
    <2>2. \A e \in Days : Cardinality(On(viewed[c], e)) <= MaxViews
      BY <1>2, <1>6 DEF DeedsInv, UsedViews
    <2>3. QED BY <1>2, <1>7, <2>1, <2>2, LoggedDays DEF UsedViews
  <1>9. Cardinality(On(liked[c], d) \cup L) <= MaxLikes
    <2>1. liked[c] \in [Posts -> 0..MaxDays] /\ IsFiniteSet(Posts) /\ MaxLikes \in Nat
      BY <1>2, <1>6, UsedType, PostsAreNumbered, LimitsAreNatural
    <2>2. \A e \in Days : Cardinality(On(liked[c], e)) <= MaxLikes
      BY <1>2, <1>6 DEF DeedsInv, UsedLikes
    <2>3. QED BY <1>2, <1>7, <2>1, <2>2, LoggedDays DEF UsedLikes
  <1>10. Cardinality(On(followed[c], d) \cup F) <= MaxFollows
    <2>1. followed[c] \in [Characters -> 0..MaxDays] /\ IsFiniteSet(Characters) /\ MaxFollows \in Nat
      BY <1>2, <1>6, UsedType, CharactersFinite, LimitsAreNatural
    <2>2. \A e \in Days : Cardinality(On(followed[c], e)) <= MaxFollows
      BY <1>2, <1>6 DEF DeedsInv, UsedFollows
    <2>3. QED BY <1>2, <1>7, <2>1, <2>2, LoggedDays DEF UsedFollows
  <1>11. \A p \in V : viewed[c][p] = 0 /\ Author[p] # c
    BY <1>7 DEF Candidates
  <1>12. \A e \in F : /\ e # c
                      /\ followed[c][e] = 0
                      /\ Cardinality({p \in Ever(liked[c]) \cup L : Author[p] = e}) >= LikesToFollow
    BY <1>7 DEF QualifiedAuthors, LikedOf
  <1> HIDE DEF V
  <1>13. Promise!Does(c, d, V, L, F)
    BY <1>3, <1>4, <1>5, <1>7, <1>8, <1>9, <1>10, <1>11, <1>12, SameCardinality
    DEF Promise!Does, Promise!On, Promise!Ever, Promise!Logged, On, Ever, Logged
  <1>14. Outcomes[j] = "open" /\ Actors[j] = c
    BY <1>2, ActiveIsOpen DEF Actors
  <1>15. Actors' = Actors /\ Outcomes' = [Outcomes EXCEPT ![j] = "acted"]
    <2> DEFINE row == [job[j] EXCEPT !.status = "completed", !.token = 0, !.lease = "none", !.ready = FALSE]
    <2>1. job[j] \in Job
      BY <1>2, <1>6 DEF RowsInv
    <2>2. row.character = job[j].character /\ Outcome(row.status) = "acted"
      BY <2>1 DEF Job, Outcome
    <2>3. job' = [job EXCEPT ![j] = row]
      BY <1>3 DEF Closed
    <2> HIDE DEF row
    <2>4. QED BY <1>2, <1>6, <2>2, <2>3, EditOutcome
  <1>16. \E e \in Days, W \in SUBSET Posts, G \in SUBSET Characters :
           \E M \in SUBSET W : Promise!Does(Actors[j], e, W, M, G)
    BY <1>2, <1>7, <1>13, <1>14
  <1>17. Promise!Act(j)
    BY <1>14, <1>15, <1>16 DEF Outcomes, Actors, Promise!Act
  <1>18. QED BY <1>2, <1>17 DEF Promise!PromiseNext

LEMMA PromiseStep ==
  ASSUME SocialInv, [Next]_vars
  PROVE  [Promise!PromiseNext]_(Promise!promiseVars)
  <1>1. RowsInv
    BY DEF SocialInv
  <1>2. ASSUME UNCHANGED <<job, deeds>>
        PROVE  [Promise!PromiseNext]_(Promise!promiseVars)
    BY <1>2, PromiseStutters DEF Outcomes, Actors
  <1>3. ASSUME NEW w \in Workers, NEW c \in Characters, Schedule(w, c)
        PROVE  [Promise!PromiseNext]_(Promise!promiseVars)
    <2>1. CASE UNCHANGED job
      BY <1>2, <1>3, <2>1 DEF Schedule
    <2>2. CASE ~UNCHANGED job
      BY <1>1, <1>3, <2>2, OpenStep DEF Schedule
    <2>3. QED BY <2>1, <2>2
  <1>4. ASSUME NEW w \in Workers, NEW j \in Jobs, ClaimExhausts(w, j)
        PROVE  [Promise!PromiseNext]_(Promise!promiseVars)
    BY <1>1, <1>4, DropStep DEF ClaimExhausts, Eligible, Active
  <1>5. ASSUME NEW w \in Workers, NEW j \in Jobs, ClaimTakes(w, j)
        PROVE  [Promise!PromiseNext]_(Promise!promiseVars)
    <2> DEFINE row == [job[j] EXCEPT !.status = "running", !.attempts = job[j].attempts + 1,
                                     !.token = job[j].attempts + 1, !.lease = "live", !.ready = FALSE]
    <2>1. job[j] \in Job /\ Active(j)
      BY <1>1, <1>5 DEF RowsInv, ClaimTakes, Eligible, Active
    <2>2. row.character = job[j].character /\ row.status = "running"
      BY <2>1 DEF Job
    <2>3. job' = [job EXCEPT ![j] = row] /\ UNCHANGED deeds
      BY <1>5 DEF ClaimTakes, Leased
    <2> HIDE DEF row
    <2>4. QED BY <1>1, <2>1, <2>2, <2>3, KeepsOpen
  <1>6. ASSUME NEW w \in Workers, ProcessCancels(w) \/ FailJob(w)
        PROVE  [Promise!PromiseNext]_(Promise!promiseVars)
    <2> DEFINE j == worker[w].claim.job
    <2>1. worker[w].pc \in HasClaim /\ LiveLease(w) /\ UNCHANGED deeds
      BY <1>6 DEF ProcessCancels, FailJob, HasClaim
    <2>2. j \in Jobs /\ Active(j)
      BY <2>1, LiveClaim DEF Active
    <2>3. \/ \E s \in {"failed", "cancelled"} : job' = Closed(j, s)
          \/ job' = Requeued(j)
      BY <1>6 DEF ProcessCancels, FailJob
    <2> HIDE DEF j
    <2>4. CASE job' = Requeued(j)
      <3> DEFINE row == [job[j] EXCEPT !.status = "queued", !.token = 0, !.lease = "none", !.ready = FALSE]
      <3>1. job[j] \in Job
        BY <1>1, <2>2 DEF RowsInv
      <3>2. row.character = job[j].character /\ row.status = "queued"
        BY <3>1 DEF Job
      <3>3. job' = [job EXCEPT ![j] = row]
        BY <2>4 DEF Requeued
      <3> HIDE DEF row
      <3>4. QED BY <1>1, <2>1, <2>2, <3>2, <3>3, KeepsOpen
    <2>5. QED BY <1>1, <2>1, <2>2, <2>3, <2>4, DropStep
  <1>7. ASSUME NEW w \in Workers, ProcessCompletes(w)
        PROVE  [Promise!PromiseNext]_(Promise!promiseVars)
    BY <1>7, ActStep
  <1>8. ASSUME NEW j \in Jobs, LeaseEnds(j) \/ BackoffElapses(j)
        PROVE  [Promise!PromiseNext]_(Promise!promiseVars)
    <2>1. Active(j) /\ job[j] \in Job
      BY <1>1, <1>8 DEF LeaseEnds, BackoffElapses, RowsInv, RowOK, Active
    <2>2. \E row : /\ job' = [job EXCEPT ![j] = row]
                   /\ row.character = job[j].character
                   /\ row.status = job[j].status
      BY <1>8, <2>1 DEF LeaseEnds, BackoffElapses, Job
    <2>3. UNCHANGED deeds
      BY <1>8 DEF LeaseEnds, BackoffElapses
    <2>4. QED BY <1>1, <2>1, <2>2, <2>3, KeepsOpen DEF Active
  <1>9. QED
    BY <1>2, <1>3, <1>4, <1>5, <1>6, <1>7, <1>8
    DEF Next, vars, RunOnce, Process, WorkerStops, ListDue, ListCandidates, ClaimSkips, ProcessReads,
        ProcessTooLate, ProcessThrows, FailJobDoesNothing, PolicyComesDue, CircumstancesChange, DayEnds

\* The queue implements ActivityPromise.
THEOREM SocialKeepsPromise == Spec => KeepsPromise
  <1>1. Init => Promise!PromiseInit
    BY DEF Init, NoJob, Outcome, Promise!PromiseInit
  <1>2. SocialInv /\ [Next]_vars => [Promise!PromiseNext]_(Promise!promiseVars)
    BY PromiseStep
  <1>3. QED BY <1>1, <1>2, SocialInvariant, PTL DEF Spec, KeepsPromise, Promise!PromiseSpec

=============================================================================

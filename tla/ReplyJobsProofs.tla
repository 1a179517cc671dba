--------------------------- MODULE ReplyJobsProofs ---------------------------
(***************************************************************************)
(* Proofs about ReplyJobs, for every set of turns, conversations, calls,   *)
(* workers and reservations and every setting of the worker.               *)
(***************************************************************************)
EXTENDS ReplyJobs, TLAPS

\* Types of the values the actions build.
LEMMA NextAttemptType ==
  ASSUME NEW n \in 0..MaxAttempts
  PROVE  NextAttempt(n) \in 0..MaxAttempts
  BY AttemptsAssumption DEF NextAttempt

LEMMA OneMoreType ==
  ASSUME NEW n \in 0..Twice
  PROVE  OneMore(n) \in 0..Twice
  BY DEF OneMore, Twice

LEMMA QueuedRunType ==
  ASSUME NEW r \in Refs \cup {NoRef}
  PROVE  QueuedRun(r) \in Job
  BY AttemptsAssumption DEF QueuedRun, Job

\* The edits the worker's UPDATEs make to a row leave it a row.
LEMMA JobEdits ==
  ASSUME NEW j \in Job
  PROVE  /\ \A n \in 0..MaxAttempts, d \in Refs \cup {NoRef} :
              [j EXCEPT !.status = "running", !.attempts = n,
                        !.lease = "live", !.deadline = d] \in Job
         /\ [j EXCEPT !.status = "completed", !.lease = "none"] \in Job
         /\ [j EXCEPT !.status = "failed", !.lease = "none"] \in Job
         /\ [j EXCEPT !.status = "queued", !.lease = "none", !.ready = FALSE] \in Job
  <1>1. ASSUME NEW n \in 0..MaxAttempts, NEW d \in Refs \cup {NoRef}
        PROVE [j EXCEPT !.status = "running", !.attempts = n,
                        !.lease = "live", !.deadline = d] \in Job
    BY DEF Job
  <1>2. [j EXCEPT !.status = "completed", !.lease = "none"] \in Job
    BY DEF Job
  <1>3. [j EXCEPT !.status = "failed", !.lease = "none"] \in Job
    BY DEF Job
  <1>4. [j EXCEPT !.status = "queued", !.lease = "none", !.ready = FALSE] \in Job
    BY DEF Job
  <1>5. QED BY <1>1, <1>2, <1>3, <1>4

LEMMA AdvancedType ==
  ASSUME TypeOK, NEW w \in Workers, NEW t \in Turns
  PROVE  Advanced(w, t) \in Worker
  BY DEF Advanced, TypeOK, Worker

LEMMA AheadType ==
  ASSUME TypeOK, NEW t \in Turns
  PROVE  /\ LinedUp(t) \in [Turns -> SUBSET Turns]
         /\ PutBack(t) \in [Turns -> SUBSET Turns]
  BY DEF LinedUp, PutBack, TypeOK

LEMMA ReservationType ==
  ASSUME TypeOK, NEW r
  PROVE  /\ Released(r) \in [Refs -> ReservationStatus]
         /\ Captured(r) \in [Refs -> ReservationStatus]
  BY DEF Released, Captured, TypeOK, ReservationStatus

LEMMA SettledType ==
  ASSUME TypeOK, NEW w \in Workers, NEW a
  PROVE  Settled(w, a) \in [Workers -> Worker]
  BY DEF Settled, TypeOK, Worker

-----------------------------------------------------------------------------
(***************************************************************************)
(* Type correctness, with and without late attempts                        *)
(***************************************************************************)

LEMMA TypeInit == Init => TypeOK
  BY AttemptsAssumption, MaxStopsType, NullsAreNull
  DEF Init, TypeOK, Job, NoJob, ReservationStatus, Request, Idle, Worker, Waiting, Twice

LEMMA TypeRequest ==
  ASSUME TypeOK, NEW q \in Requests, RequestStep(q)
  PROVE  TypeOK'
  <1>1. ASSUME NEW t \in Turns, NEW r \in Refs, SendReserves(q, t, r) PROVE TypeOK'
    BY <1>1 DEF TypeOK, SendReserves, Reserve, ReservationStatus, Request
  <1>2. ASSUME NEW r \in Refs, RetryReserves(q, r) PROVE TypeOK'
    BY <1>2 DEF TypeOK, RetryReserves, Reserve, ReservationStatus, Request
  <1>3. ASSUME NEW t \in Turns, SendCommits(q, t) PROVE TypeOK'
    <2>1. request[q].ref \in Refs \cup {NoRef}
      BY DEF TypeOK, Request
    <2>2. Idle \in Request
      BY DEF Idle, Request
    <2>3. QED BY <1>3, <2>1, <2>2, QueuedRunType, AheadType DEF TypeOK, SendCommits
  <1>4. ASSUME NEW t \in Turns, RetryReads(q, t) PROVE TypeOK'
    BY <1>4 DEF TypeOK, RetryReads, Request
  <1>5. ASSUME NEW t \in Turns, RetryRequeues(q, t) PROVE TypeOK'
    <2>1. request[q].ref \in Refs \cup {NoRef}
      BY DEF TypeOK, Request
    <2>2. Idle \in Request
      BY DEF Idle, Request
    <2>3. QED BY <1>5, <2>1, <2>2, QueuedRunType, AheadType DEF TypeOK, RetryRequeues
  <1>6. ASSUME NEW t \in Turns, RetryLosesRace(q, t) PROVE TypeOK'
    BY <1>6 DEF TypeOK, RetryLosesRace, Request
  <1>7. CASE SendFails(q)
    BY <1>7 DEF TypeOK, SendFails, Request
  <1>8. CASE RetryRefused(q)
    BY <1>8 DEF TypeOK, RetryRefused, Request, Idle
  <1>9. CASE RequestUndoes(q)
    BY <1>9, ReservationType DEF TypeOK, RequestUndoes, Request, Idle
  <1>10. CASE RequestDies(q)
    <2>1. request[q].ref \in Refs \cup {NoRef}
      BY DEF TypeOK, Request
    <2>2. stops + 1 \in 0..MaxStops
      BY <1>10, MaxStopsType DEF RequestDies, TypeOK
    <2>3. QED BY <1>10, <2>1, <2>2 DEF TypeOK, RequestDies, Request, Idle
  <1>11. QED
    BY <1>1, <1>2, <1>3, <1>4, <1>5, <1>6, <1>7, <1>8, <1>9, <1>10 DEF RequestStep

LEMMA TypeWorker ==
  ASSUME TypeOK, NEW w \in Workers,
         \/ FindClaimable(w) \/ WorkerStops(w)
         \/ \E t \in Turns : ClaimStep(w, t)
         \/ \E a \in worker[w].attempts : AttemptStep(w, a) \/ AttemptLost(w, a)
  PROVE  TypeOK'
  <1>1. CASE FindClaimable(w)
    <2>1. Candidates \subseteq Turns
      BY DEF Candidates, FirstPerConversation, Window
    <2>2. [worker[w] EXCEPT !.pc = "claiming", !.todo = Candidates] \in Worker
      BY <2>1 DEF TypeOK, Worker
    <2>3. worker' = [worker EXCEPT ![w] =
                       [worker[w] EXCEPT !.pc = "claiming", !.todo = Candidates]]
      BY <1>1 DEF FindClaimable
    <2>4. worker' \in [Workers -> Worker]
      BY <2>2, <2>3 DEF TypeOK
    <2>5. QED BY <1>1, <2>4 DEF TypeOK, FindClaimable
  <1>2. CASE WorkerStops(w)
    <2>1. stops + 1 \in 0..MaxStops
      BY <1>2, MaxStopsType DEF WorkerStops, TypeOK
    <2>2. QED BY <1>2, <2>1 DEF TypeOK, WorkerStops, Worker, Waiting
  <1>3. ASSUME NEW t \in Turns, ClaimSkips(w, t) PROVE TypeOK'
    BY <1>3, AdvancedType DEF TypeOK, ClaimSkips
  <1>4. ASSUME NEW t \in Turns, ClaimReads(w, t) PROVE TypeOK'
    <2> DEFINE record == [worker[w] EXCEPT !.pc = "writing", !.claim = t,
                                           !.read = job[t].deadline]
    <2>1. job[t].deadline \in Refs \cup {NoRef}
      BY DEF TypeOK, Job
    <2>2. record \in Worker
      BY <2>1 DEF TypeOK, Worker
    <2>3. worker' = [worker EXCEPT ![w] = record]
      BY <1>4 DEF ClaimReads
    <2>4. worker' \in [Workers -> Worker]
      BY <2>2, <2>3 DEF TypeOK
    <2>5. QED BY <1>4, <2>4 DEF TypeOK, ClaimReads
  <1>5. ASSUME NEW t \in Turns, ClaimWrites(w, t) PROVE TypeOK'
    <2> DEFINE deadline == IF worker[w].read # NoRef THEN worker[w].read ELSE job[t].ref
               count == NextAttempt(job[t].attempts)
               a == [turn |-> t, ref |-> job[t].ref, count |-> count,
                     deadline |-> deadline, stage |-> "claimed"]
    <2>1. deadline \in Refs \cup {NoRef} /\ count \in 0..MaxAttempts
      BY NextAttemptType DEF TypeOK, Worker, Job
    <2>2. a \in Attempt
      BY <2>1 DEF TypeOK, Attempt, Job
    <2>3. job' \in [Turns -> Job]
      <3>1. [job[t] EXCEPT !.status = "running", !.attempts = count,
                           !.lease = "live", !.deadline = deadline] \in Job
        <4>1. job[t] \in Job
          BY DEF TypeOK
        <4>2. QED BY <2>1, <4>1, JobEdits
      <3>2. QED BY <1>5, <3>1 DEF ClaimWrites, TypeOK
    <2> HIDE DEF a
    <2>4. [Advanced(w, t) EXCEPT !.attempts = @ \cup {a}] \in Worker
      BY <2>2, AdvancedType DEF Worker
    <2>5. worker' = [worker EXCEPT ![w] = [Advanced(w, t) EXCEPT !.attempts = @ \cup {a}]]
      BY <1>5 DEF ClaimWrites, a
    <2>6. worker' \in [Workers -> Worker]
      BY <2>4, <2>5 DEF TypeOK
    <2>7. QED BY <1>5, <2>3, <2>6 DEF ClaimWrites, TypeOK
  <1>6. ASSUME NEW a \in worker[w].attempts, AttemptStep(w, a) \/ AttemptLost(w, a)
        PROVE TypeOK'
    <2>1. a \in Attempt
      BY DEF TypeOK, Worker
    <2>2. CASE CallAgent(w, a)
      <3> DEFINE b == [a EXCEPT !.stage = "calling"]
      <3>1. b \in Attempt
        BY <2>1 DEF Attempt
      <3>2. worker' = [worker EXCEPT ![w].attempts = (@ \ {a}) \cup {b}]
        BY <2>2 DEF CallAgent
      <3> HIDE DEF b
      <3>3. worker[w] \in Worker
        BY DEF TypeOK
      <3>4. [worker[w] EXCEPT !.attempts = (@ \ {a}) \cup {b}] \in Worker
        BY <3>1, <3>3 DEF Worker
      <3>5. worker' \in [Workers -> Worker]
        BY <3>2, <3>4 DEF TypeOK
      <3>6. QED BY <2>2, <3>5 DEF CallAgent, TypeOK
    <2>3. CASE CompleteReply(w, a)
      <3>1. replies' \in [Refs -> 0..Twice]
        BY <2>3, OneMoreType DEF CompleteReply, TypeOK
      <3>2. job' \in [Turns -> Job]
        <4>1. [job[a.turn] EXCEPT !.status = "completed", !.lease = "none"] \in Job
          <5>1. job[a.turn] \in Job
            BY <2>1 DEF Attempt, TypeOK
          <5>2. QED BY <5>1, JobEdits
        <4>2. QED BY <2>3, <4>1 DEF CompleteReply, TypeOK
      <3>3. QED BY <2>3, <3>1, <3>2, ReservationType, SettledType DEF CompleteReply, TypeOK
    <2>4. CASE AttemptTooLate(w, a)
      BY <2>4, SettledType DEF TypeOK, AttemptTooLate
    <2>5. CASE FinalizeFailure(w, a)
      <3>1. job' \in [Turns -> Job]
        <4>1. [job[a.turn] EXCEPT !.status = "failed", !.lease = "none"] \in Job
          <5>1. job[a.turn] \in Job
            BY <2>1 DEF Attempt, TypeOK
          <5>2. QED BY <5>1, JobEdits
        <4>2. QED BY <2>5, <4>1 DEF FinalizeFailure, TypeOK
      <3>2. QED BY <2>5, <3>1, ReservationType, SettledType DEF FinalizeFailure, TypeOK
    <2>6. CASE RequeueAttempt(w, a)
      <3>1. job' \in [Turns -> Job]
        <4>1. [job[a.turn] EXCEPT !.status = "queued", !.lease = "none", !.ready = FALSE] \in Job
          <5>1. job[a.turn] \in Job
            BY <2>1 DEF Attempt, TypeOK
          <5>2. QED BY <5>1, JobEdits
        <4>2. QED BY <2>6, <4>1 DEF RequeueAttempt, TypeOK
      <3>2. a.turn \in Turns
        BY <2>1 DEF Attempt
      <3>3. QED BY <2>6, <3>1, <3>2, AheadType, SettledType DEF RequeueAttempt, TypeOK
    <2>7. CASE AttemptLost(w, a)
      <3>1. stops + 1 \in 0..MaxStops
        BY <2>7, MaxStopsType DEF AttemptLost, TypeOK
      <3>2. QED BY <2>7, <3>1, SettledType DEF TypeOK, AttemptLost
    <2>8. QED BY <1>6, <2>2, <2>3, <2>4, <2>5, <2>6, <2>7 DEF AttemptStep
  <1>7. QED
    BY <1>1, <1>2, <1>3, <1>4, <1>5, <1>6 DEF ClaimStep

LEMMA TypeStep ==
  ASSUME TypeOK, [Next]_vars
  PROVE  TypeOK'
  <1>0. ASSUME NEW t \in Turns
        PROVE  [job[t] EXCEPT !.lease = "expired"] \in Job /\ [job[t] EXCEPT !.ready = TRUE] \in Job
    <2>1. job[t] \in Job
      BY DEF TypeOK
    <2>2. QED BY <2>1 DEF Job
  <1>1. ASSUME NEW t \in Turns, LeaseExpires(t) PROVE TypeOK'
    <2>1. job' \in [Turns -> Job]
      BY <1>0, <1>1 DEF TypeOK, LeaseExpires
    <2>2. QED BY <1>1, <2>1 DEF TypeOK, LeaseExpires
  <1>2. ASSUME NEW t \in Turns, BackoffElapses(t) PROVE TypeOK'
    <2>1. job' \in [Turns -> Job]
      BY <1>0, <1>2 DEF TypeOK, BackoffElapses
    <2>2. QED BY <1>2, <2>1 DEF TypeOK, BackoffElapses
  <1>3. ASSUME NEW r \in Refs, DeadlinePasses(r) PROVE TypeOK'
    BY <1>3 DEF TypeOK, DeadlinePasses
  <1>4. CASE UNCHANGED vars
    BY <1>4 DEF TypeOK, vars
  <1>5. QED
    BY <1>1, <1>2, <1>3, <1>4, TypeRequest, TypeWorker DEF Next

\* Every reachable state is of the declared types, late attempts or not.
THEOREM TypeCorrect == Spec => []TypeOK
  <1>1. TypeOK /\ [Next]_vars => TypeOK'
    BY TypeStep
  <1>2. QED BY TypeInit, <1>1, PTL DEF Spec

-----------------------------------------------------------------------------
(***************************************************************************)
(* The invariant, when a lease outlasts the attempt it covers              *)
(***************************************************************************)

\* The conjuncts of ReplyInv that only read jobs, leases and workers.
WorkersInv == ClaimsAreExclusive /\ AttemptsAreCurrent /\ OneAttemptPerConversation

\* The conjuncts of ReplyInv that only read jobs, reservations, replies, calls.
CreditsInv == JobsOwnRefs /\ RequestsOwnRefs /\ ChargedOncePerReply /\ HoldIsForPendingTurn

LEMMA ReplyInit == Init => CreditsInv /\ WorkersInv
  BY NullsAreNull
  DEF Init, CreditsInv, WorkersInv, JobsOwnRefs, RequestsOwnRefs, OwnsRef, ChargedOncePerReply,
      HoldIsForPendingTurn, ClaimsAreExclusive, ExclusiveClaim, AttemptsAreCurrent,
      OneAttemptPerConversation, NoJob, Idle, Waiting, Pending

\* Nothing that workers rely on changes when no job and no worker does.
LEMMA WorkersFrame ==
  ASSUME WorkersInv, UNCHANGED <<job, worker>>
  PROVE  WorkersInv'
  BY DEF WorkersInv, ClaimsAreExclusive, ExclusiveClaim, AttemptsAreCurrent, OneAttemptPerConversation

\* A step of a call that queues t, which was not running, disturbs no worker.
LEMMA WorkersKeptByQueueing ==
  ASSUME TypeOK, WorkersInv, NEW t \in Turns, NEW r \in Refs,
         job[t].status \in {"none", "failed"},
         job' = [job EXCEPT ![t] = QueuedRun(r)], UNCHANGED worker
  PROVE  WorkersInv'
  <1>1. job'[t] = QueuedRun(r) /\ \A u \in Turns \ {t} : job'[u] = job[u]
    BY DEF TypeOK
  <1>2. AttemptsAreCurrent'
    <2> SUFFICES ASSUME NEW w \in Workers, NEW a \in worker[w].attempts
                 PROVE  /\ job'[a.turn].status = "running"
                        /\ job'[a.turn].lease = "live"
                        /\ <<a.ref, a.count, a.deadline>> =
                             <<job'[a.turn].ref, job'[a.turn].attempts, job'[a.turn].deadline>>
      BY DEF AttemptsAreCurrent
    <2>1. a.turn \in Turns
      BY DEF TypeOK, Worker, Attempt
    <2>2. job[a.turn].status = "running"
      BY DEF WorkersInv, AttemptsAreCurrent
    <2>3. QED BY <1>1, <2>1, <2>2 DEF WorkersInv, AttemptsAreCurrent
  <1>3. ClaimsAreExclusive'
    <2> SUFFICES ASSUME NEW w \in Workers, worker[w].pc = "writing"
                 PROVE  ExclusiveClaim(w, worker[w].claim)'
      BY DEF ClaimsAreExclusive
    <2>1. QED BY <1>1 DEF WorkersInv, ClaimsAreExclusive, ExclusiveClaim, QueuedRun
  <1>4. QED BY <1>2, <1>3 DEF WorkersInv, OneAttemptPerConversation

\* A worker that forgets candidates, a claim or attempts disturbs nobody.
LEMMA WorkersKeptByForgetting ==
  ASSUME TypeOK, WorkersInv, NEW w \in Workers, NEW record \in Worker,
         worker' = [worker EXCEPT ![w] = record], UNCHANGED job,
         record.attempts \subseteq worker[w].attempts,
         record.pc = "writing" => record = [worker[w] EXCEPT !.attempts = record.attempts]
  PROVE  WorkersInv'
  <1>1. /\ worker'[w] = record
        /\ \A v \in Workers \ {w} : worker'[v] = worker[v]
        /\ \A v \in Workers : worker'[v].attempts \subseteq worker[v].attempts
    BY DEF TypeOK
  <1>2. \A v \in Workers : worker'[v].pc = "writing" =>
          /\ worker[v].pc = "writing"
          /\ worker'[v].claim = worker[v].claim
          /\ worker'[v].read = worker[v].read
    BY <1>1 DEF TypeOK, Worker
  <1>3. AttemptsAreCurrent'
    BY <1>1 DEF WorkersInv, AttemptsAreCurrent
  <1>4. OneAttemptPerConversation'
    BY <1>1 DEF WorkersInv, OneAttemptPerConversation
  <1>5. ClaimsAreExclusive'
    BY <1>2 DEF WorkersInv, ClaimsAreExclusive, ExclusiveClaim
  <1>6. QED BY <1>3, <1>4, <1>5 DEF WorkersInv

\* An attempt that closes or requeues its own job and is forgotten: no other
\* attempt is in the conversation, so no other attempt is disturbed.
LEMMA WorkersKeptBySettling ==
  ASSUME TypeOK, WorkersInv, NEW w \in Workers, NEW a \in worker[w].attempts,
         worker' = Settled(w, a), NEW j \in Job,
         job' = [job EXCEPT ![a.turn] = j], j.status # "running"
  PROVE  WorkersInv'
  <1>1. a.turn \in Turns /\ job[a.turn].status = "running" /\ job[a.turn].lease = "live"
    BY DEF TypeOK, Worker, Attempt, WorkersInv, AttemptsAreCurrent
  <1>2. job'[a.turn] = j /\ \A u \in Turns \ {a.turn} : job'[u] = job[u]
    BY <1>1 DEF TypeOK
  <1>3. /\ \A v \in Workers : /\ worker'[v].pc = worker[v].pc
                              /\ worker'[v].claim = worker[v].claim
                              /\ worker'[v].read = worker[v].read
        /\ \A v \in Workers : worker'[v].attempts \subseteq worker[v].attempts
        /\ a \notin worker'[w].attempts
    BY DEF TypeOK, Settled, Worker
  <1>4. OneAttemptPerConversation'
    BY <1>3 DEF WorkersInv, OneAttemptPerConversation
  <1>5. AttemptsAreCurrent'
    <2> SUFFICES ASSUME NEW v \in Workers, NEW b \in worker'[v].attempts
                 PROVE  /\ job'[b.turn].status = "running"
                        /\ job'[b.turn].lease = "live"
                        /\ <<b.ref, b.count, b.deadline>> =
                             <<job'[b.turn].ref, job'[b.turn].attempts, job'[b.turn].deadline>>
      BY DEF AttemptsAreCurrent
    <2>1. b \in worker[v].attempts /\ b.turn \in Turns
      BY <1>3 DEF TypeOK, Worker, Attempt
    <2>2. b.turn # a.turn
      BY <1>3, <2>1 DEF WorkersInv, OneAttemptPerConversation
    <2>3. QED BY <1>2, <2>1, <2>2 DEF WorkersInv, AttemptsAreCurrent
  <1>6. ClaimsAreExclusive'
    <2> SUFFICES ASSUME NEW v \in Workers, worker[v].pc = "writing"
                 PROVE  ExclusiveClaim(v, worker[v].claim)'
      BY <1>3 DEF ClaimsAreExclusive
    <2>1. ExclusiveClaim(v, worker[v].claim)
      BY DEF WorkersInv, ClaimsAreExclusive
    <2>2. worker[v].claim # a.turn
      BY <1>1, <2>1 DEF ExclusiveClaim
    <2>3. QED BY <1>2, <1>3, <2>1, <2>2 DEF ExclusiveClaim
  <1>7. QED BY <1>4, <1>5, <1>6 DEF WorkersInv

LEMMA WorkersClaim ==
  ASSUME TypeOK, TypeOK', WorkersInv, NEW w \in Workers, NEW t \in Turns, ClaimStep(w, t)
  PROVE  WorkersInv'
  <1>1. CASE ClaimSkips(w, t)
    <2>1. worker[w].pc = "claiming" /\ worker[w] \in Worker
      BY <1>1 DEF ClaimSkips, TypeOK
    <2>2. Advanced(w, t).attempts = worker[w].attempts /\ Advanced(w, t).pc # "writing"
      BY <2>1 DEF Advanced, Worker
    <2>3. QED BY <1>1, <2>2, AdvancedType, WorkersKeptByForgetting DEF ClaimSkips
  <1>2. CASE ClaimReads(w, t)
    <2>1. /\ worker'[w].pc = "writing" /\ worker'[w].claim = t
          /\ worker'[w].read = job[t].deadline
          /\ worker'[w].attempts = worker[w].attempts
          /\ \A v \in Workers \ {w} : worker'[v] = worker[v]
      BY <1>2 DEF ClaimReads, TypeOK, Worker
    <2>2. AttemptsAreCurrent' /\ OneAttemptPerConversation'
      BY <1>2, <2>1 DEF ClaimReads, WorkersInv, AttemptsAreCurrent, OneAttemptPerConversation
    <2>3. /\ Claimable(t)
          /\ \A u \in Turns : ConversationOf[u] = ConversationOf[t] =>
               ~(job[u].status = "running" /\ job[u].lease = "live")
          /\ \A v \in Workers : worker[v].pc = "writing" =>
               ConversationOf[worker[v].claim] # ConversationOf[t]
      BY <1>2 DEF ClaimReads, MayClaim, Claimable, Locked
    <2>4. ExclusiveClaim(w, worker[w].claim)'
      BY <1>2, <2>1, <2>3 DEF ClaimReads, ExclusiveClaim, Claimable
    <2>5. ASSUME NEW v \in Workers \ {w}, worker'[v].pc = "writing"
          PROVE  ExclusiveClaim(v, worker[v].claim)'
      <3>1. ExclusiveClaim(v, worker[v].claim)
        BY <2>1, <2>5 DEF WorkersInv, ClaimsAreExclusive
      <3>2. ConversationOf[worker[v].claim] # ConversationOf[t]
        BY <2>1, <2>3, <2>5
      <3>3. QED BY <1>2, <2>1, <3>1, <3>2 DEF ClaimReads, ExclusiveClaim
    <2>6. QED BY <2>1, <2>2, <2>4, <2>5 DEF WorkersInv, ClaimsAreExclusive
  <1>3. CASE ClaimWrites(w, t)
    <2>1. PICK a : /\ a.turn = t /\ a.ref = job'[t].ref /\ a.count = job'[t].attempts
                   /\ a.deadline = job'[t].deadline
                   /\ worker'[w].attempts = worker[w].attempts \cup {a}
                   /\ worker'[w].pc # "writing"
      <3> DEFINE deadline == IF worker[w].read # NoRef THEN worker[w].read ELSE job[t].ref
                 count == NextAttempt(job[t].attempts)
                 b == [turn |-> t, ref |-> job[t].ref, count |-> count,
                       deadline |-> deadline, stage |-> "claimed"]
      <3>1. /\ job'[t].ref = job[t].ref
            /\ job'[t].attempts = count
            /\ job'[t].deadline = deadline
        BY <1>3 DEF ClaimWrites, TypeOK, Job
      <3>2. worker'[w] = [Advanced(w, t) EXCEPT !.attempts = @ \cup {b}]
        BY <1>3 DEF ClaimWrites, TypeOK
      <3>3. Advanced(w, t).pc # "writing" /\ Advanced(w, t).attempts = worker[w].attempts
        BY DEF Advanced, TypeOK, Worker
      <3>4. worker'[w].pc = Advanced(w, t).pc
            /\ worker'[w].attempts = Advanced(w, t).attempts \cup {b}
        BY <3>2, AdvancedType DEF Worker
      <3>5. b.turn = t /\ b.ref = job[t].ref /\ b.count = count /\ b.deadline = deadline
        OBVIOUS
      <3> HIDE DEF b
      <3>6. QED BY <3>1, <3>3, <3>4, <3>5
    <2>2. /\ job'[t].status = "running" /\ job'[t].lease = "live"
          /\ \A u \in Turns \ {t} : job'[u] = job[u]
          /\ \A v \in Workers \ {w} : worker'[v] = worker[v]
      BY <1>3 DEF ClaimWrites, TypeOK, Job
    <2>3. worker[w].pc = "writing" /\ worker[w].claim = t /\ ExclusiveClaim(w, t)
      BY <1>3 DEF ClaimWrites, WorkersInv, ClaimsAreExclusive
    <2>4. \A v \in Workers : \A b \in worker[v].attempts :
            b.turn \in Turns /\ ConversationOf[b.turn] # ConversationOf[t]
      BY <2>3 DEF WorkersInv, AttemptsAreCurrent, ExclusiveClaim, TypeOK, Worker, Attempt
    <2>5. \A v \in Workers : \A b \in worker'[v].attempts :
            \/ v = w /\ b = a
            \/ b \in worker[v].attempts /\ ConversationOf[b.turn] # ConversationOf[t]
      BY <2>1, <2>2, <2>4
    <2>6. OneAttemptPerConversation'
      BY <2>1, <2>5 DEF WorkersInv, OneAttemptPerConversation
    <2>7. AttemptsAreCurrent'
      <3> SUFFICES ASSUME NEW v \in Workers, NEW b \in worker'[v].attempts
                   PROVE  /\ job'[b.turn].status = "running"
                          /\ job'[b.turn].lease = "live"
                          /\ <<b.ref, b.count, b.deadline>> =
                               <<job'[b.turn].ref, job'[b.turn].attempts, job'[b.turn].deadline>>
        BY DEF AttemptsAreCurrent
      <3>1. CASE b = a
        BY <2>1, <2>2, <3>1
      <3>2. CASE b # a
        <4>1. b \in worker[v].attempts /\ b.turn \in Turns /\ b.turn # t
          BY <2>4, <2>5, <3>2
        <4>2. QED BY <2>2, <4>1 DEF WorkersInv, AttemptsAreCurrent
      <3>3. QED BY <3>1, <3>2
    <2>8. ClaimsAreExclusive'
      <3> SUFFICES ASSUME NEW v \in Workers, worker'[v].pc = "writing"
                   PROVE  ExclusiveClaim(v, worker[v].claim)'
        BY DEF ClaimsAreExclusive
      <3>1. v # w /\ worker'[v] = worker[v]
        BY <2>1, <2>2
      <3>2. ExclusiveClaim(v, worker[v].claim)
        BY <3>1 DEF WorkersInv, ClaimsAreExclusive
      <3>3. ConversationOf[worker[v].claim] # ConversationOf[t]
        BY <2>3, <3>1 DEF ExclusiveClaim
      <3>4. QED BY <2>1, <2>2, <3>1, <3>2, <3>3 DEF ExclusiveClaim
    <2>9. QED BY <2>6, <2>7, <2>8 DEF WorkersInv
  <1>4. QED BY <1>1, <1>2, <1>3 DEF ClaimStep

LEMMA WorkersAttempt ==
  ASSUME TypeOK, TypeOK', WorkersInv, NEW w \in Workers, NEW a \in worker[w].attempts,
         AttemptStep(w, a) \/ AttemptLost(w, a)
  PROVE  WorkersInv'
  <1>1. a \in Attempt /\ a.turn \in Turns /\ worker[w] \in Worker
    BY DEF TypeOK, Worker, Attempt
  <1>2. CASE CallAgent(w, a)
    <2> DEFINE b == [a EXCEPT !.stage = "calling"]
    <2>1. b.turn = a.turn /\ b.ref = a.ref /\ b.count = a.count /\ b.deadline = a.deadline
      BY <1>1 DEF Attempt
    <2>2. /\ worker'[w].attempts = (worker[w].attempts \ {a}) \cup {b}
          /\ worker'[w].pc = worker[w].pc /\ worker'[w].claim = worker[w].claim
          /\ worker'[w].read = worker[w].read
          /\ \A v \in Workers \ {w} : worker'[v] = worker[v]
      BY <1>2 DEF CallAgent, TypeOK, Worker
    <2> HIDE DEF b
    <2>3. \A v \in Workers : \A c \in worker'[v].attempts :
            \/ v = w /\ c = b
            \/ c \in worker[v].attempts /\ ~(v = w /\ c = a)
      BY <2>2
    <2>4. AttemptsAreCurrent'
      <3> SUFFICES ASSUME NEW v \in Workers, NEW c \in worker'[v].attempts
                   PROVE  /\ job[c.turn].status = "running"
                          /\ job[c.turn].lease = "live"
                          /\ <<c.ref, c.count, c.deadline>> =
                               <<job[c.turn].ref, job[c.turn].attempts, job[c.turn].deadline>>
        BY <1>2 DEF CallAgent, AttemptsAreCurrent
      <3>1. QED BY <2>1, <2>3 DEF WorkersInv, AttemptsAreCurrent
    <2>5. OneAttemptPerConversation'
      <3> SUFFICES ASSUME NEW u \in Workers, NEW v \in Workers,
                          NEW c \in worker'[u].attempts, NEW d \in worker'[v].attempts,
                          ConversationOf[c.turn] = ConversationOf[d.turn]
                   PROVE  u = v /\ c = d
        BY DEF OneAttemptPerConversation
      <3>1. PICK c0 \in worker[u].attempts :
              /\ c0.turn = c.turn
              /\ (u = w /\ c = b /\ c0 = a) \/ (c = c0 /\ ~(u = w /\ c = a))
        BY <2>1, <2>3
      <3>2. PICK d0 \in worker[v].attempts :
              /\ d0.turn = d.turn
              /\ (v = w /\ d = b /\ d0 = a) \/ (d = d0 /\ ~(v = w /\ d = a))
        BY <2>1, <2>3
      <3>3. u = v /\ c0 = d0
        BY <3>1, <3>2 DEF WorkersInv, OneAttemptPerConversation
      <3>4. QED BY <3>1, <3>2, <3>3
    <2>6. ClaimsAreExclusive'
      BY <1>2, <2>2 DEF CallAgent, WorkersInv, ClaimsAreExclusive, ExclusiveClaim
    <2>7. QED BY <2>4, <2>5, <2>6 DEF WorkersInv
  <1>3. CASE AttemptTooLate(w, a) \/ AttemptLost(w, a)
    <2>1. worker' = [worker EXCEPT ![w] = [worker[w] EXCEPT !.attempts = @ \ {a}]]
      BY <1>3 DEF AttemptTooLate, AttemptLost, Settled
    <2>2. [worker[w] EXCEPT !.attempts = @ \ {a}] \in Worker
      BY <1>1 DEF Worker
    <2>3. /\ UNCHANGED job
          /\ [worker[w] EXCEPT !.attempts = @ \ {a}].attempts = worker[w].attempts \ {a}
      BY <1>1, <1>3 DEF AttemptTooLate, AttemptLost, Worker
    <2>4. QED BY <2>1, <2>2, <2>3, WorkersKeptByForgetting
  <1>4. CASE CompleteReply(w, a) \/ FinalizeFailure(w, a) \/ RequeueAttempt(w, a)
    <2>1. job[a.turn] \in Job
      BY <1>1 DEF TypeOK
    <2>2. PICK j \in Job : j.status # "running" /\ job' = [job EXCEPT ![a.turn] = j]
      <3>1. CASE CompleteReply(w, a)
        <4>1. [job[a.turn] EXCEPT !.status = "completed", !.lease = "none"] \in Job
          BY <2>1, JobEdits
        <4>2. QED BY <2>1, <3>1, <4>1 DEF CompleteReply, Job
      <3>2. CASE FinalizeFailure(w, a)
        <4>1. [job[a.turn] EXCEPT !.status = "failed", !.lease = "none"] \in Job
          BY <2>1, JobEdits
        <4>2. QED BY <2>1, <3>2, <4>1 DEF FinalizeFailure, Job
      <3>3. CASE RequeueAttempt(w, a)
        <4>1. [job[a.turn] EXCEPT !.status = "queued", !.lease = "none", !.ready = FALSE] \in Job
          BY <2>1, JobEdits
        <4>2. QED BY <2>1, <3>3, <4>1 DEF RequeueAttempt, Job
      <3>4. QED BY <1>4, <3>1, <3>2, <3>3
    <2>3. worker' = Settled(w, a)
      BY <1>4 DEF CompleteReply, FinalizeFailure, RequeueAttempt
    <2>4. QED BY <2>2, <2>3, WorkersKeptBySettling
  <1>5. QED BY <1>2, <1>3, <1>4 DEF AttemptStep

LEMMA WorkersTick ==
  ASSUME TypeOK, WorkersInv, NEW w \in Workers, FindClaimable(w) \/ WorkerStops(w)
  PROVE  WorkersInv'
  <1>1. CASE FindClaimable(w)
    <2> DEFINE record == [worker[w] EXCEPT !.pc = "claiming", !.todo = Candidates]
    <2>1. Candidates \subseteq Turns
      BY DEF Candidates, FirstPerConversation, Window
    <2>2. record \in Worker
      BY <2>1 DEF TypeOK, Worker
    <2>3. record.attempts = worker[w].attempts /\ record.pc # "writing"
      BY DEF TypeOK, Worker
    <2>4. worker' = [worker EXCEPT ![w] = record] /\ UNCHANGED job
      BY <1>1 DEF FindClaimable
    <2> HIDE DEF record
    <2>5. QED BY <2>2, <2>3, <2>4, WorkersKeptByForgetting
  <1>2. CASE WorkerStops(w)
    <2>1. Waiting \in Worker /\ Waiting.attempts = {} /\ Waiting.pc # "writing"
      BY DEF Waiting, Worker
    <2>2. QED BY <1>2, <2>1, WorkersKeptByForgetting DEF WorkerStops
  <1>3. QED BY <1>1, <1>2

\* The only place where the assumption on the lease is used: it ends only when
\* no attempt of its job is left.
LEMMA WorkersTime ==
  ASSUME TypeOK, WorkersInv, ~LateAttempts, NEW t \in Turns,
         LeaseExpires(t) \/ BackoffElapses(t)
  PROVE  WorkersInv'
  <1>1. /\ UNCHANGED worker
        /\ \A u \in Turns \ {t} : job'[u] = job[u]
        /\ job'[t].status = job[t].status /\ job'[t].ref = job[t].ref
        /\ job'[t].attempts = job[t].attempts /\ job'[t].deadline = job[t].deadline
        /\ job'[t].lease = job[t].lease \/ job'[t].lease = "expired"
        /\ job[t].lease = "expired" => job'[t].lease = "expired"
    BY DEF LeaseExpires, BackoffElapses, TypeOK, Job
  <1>2. \A w \in Workers : \A a \in worker[w].attempts :
          a.turn \in Turns /\ (a.turn = t => job'[t].lease = job[t].lease)
    <2>1. CASE LeaseExpires(t)
      <3>1. InFlight(t) = {}
        BY <2>1 DEF LeaseExpires
      <3>2. \A w \in Workers : \A a \in worker[w].attempts : a.turn # t
        BY <3>1 DEF InFlight
      <3>3. QED BY <3>2 DEF TypeOK, Worker, Attempt
    <2>2. CASE BackoffElapses(t)
      BY <2>2 DEF BackoffElapses, TypeOK, Job, Worker, Attempt
    <2>3. QED BY <2>1, <2>2
  <1>3. AttemptsAreCurrent'
    <2> SUFFICES ASSUME NEW w \in Workers, NEW a \in worker[w].attempts
                 PROVE  /\ job'[a.turn].status = "running"
                        /\ job'[a.turn].lease = "live"
                        /\ <<a.ref, a.count, a.deadline>> =
                             <<job'[a.turn].ref, job'[a.turn].attempts, job'[a.turn].deadline>>
      BY <1>1 DEF AttemptsAreCurrent
    <2>1. QED BY <1>1, <1>2 DEF WorkersInv, AttemptsAreCurrent
  <1>4. OneAttemptPerConversation'
    BY <1>1 DEF WorkersInv, OneAttemptPerConversation
  <1>5. ClaimsAreExclusive'
    <2> SUFFICES ASSUME NEW w \in Workers, worker[w].pc = "writing"
                 PROVE  ExclusiveClaim(w, worker[w].claim)'
      BY <1>1 DEF ClaimsAreExclusive
    <2>1. ExclusiveClaim(w, worker[w].claim)
      BY DEF WorkersInv, ClaimsAreExclusive
    <2>2. QED BY <1>1, <2>1 DEF ExclusiveClaim
  <1>6. QED BY <1>3, <1>4, <1>5 DEF WorkersInv

LEMMA WorkersRequest ==
  ASSUME TypeOK, WorkersInv, RequestsOwnRefs, NEW q \in Requests, RequestStep(q)
  PROVE  WorkersInv'
  <1>1. ASSUME NEW t \in Turns, SendCommits(q, t) PROVE WorkersInv'
    <2>1. job[t].status = "none" /\ request[q].ref \in Refs
      BY <1>1 DEF SendCommits, RequestsOwnRefs, OwnsRef
    <2>2. QED BY <1>1, <2>1, WorkersKeptByQueueing DEF SendCommits
  <1>2. ASSUME NEW t \in Turns, RetryRequeues(q, t) PROVE WorkersInv'
    <2>1. request[q].ref \in Refs
      BY <1>2 DEF RetryRequeues, RequestsOwnRefs, OwnsRef
    <2>2. QED BY <1>2, <2>1, WorkersKeptByQueueing DEF RetryRequeues
  <1>3. CASE UNCHANGED <<job, worker>>
    BY <1>3, WorkersFrame
  <1>4. QED
    BY <1>1, <1>2, <1>3
    DEF RequestStep, SendReserves, SendFails, RetryReads, RetryReserves, RetryRefused,
        RetryLosesRace, RequestUndoes, RequestDies

-----------------------------------------------------------------------------
(***************************************************************************)
(* Credits                                                                 *)
(***************************************************************************)

\* Moving a job between "queued" and "running", or changing what its status and
\* its reservation do not depend on, is invisible to the credits.
LEMMA CreditsFrame ==
  ASSUME TypeOK, CreditsInv,
         \A u \in Turns : \/ job'[u] = job[u]
                          \/ /\ job'[u].ref = job[u].ref
                             /\ \/ Pending(u) /\ Pending(u)'
                                \/ job'[u].status = job[u].status /\ job[u].status # "none",
         UNCHANGED <<reservation, replies, request, lost>>
  PROVE  CreditsInv'
  <1>1. \A u \in Turns : /\ job'[u].ref = job[u].ref
                         /\ Pending(u)' = Pending(u)
                         /\ \A st \in {"none", "completed", "failed"} :
                              job'[u].status = st <=> job[u].status = st
    BY DEF Pending, TypeOK, Job
  <1>2. JobsOwnRefs'
    <2>1. \A t \in Turns : IF job'[t].status = "none" THEN job'[t] = NoJob
                      ELSE /\ job'[t].ref \in Refs
                           /\ reservation[job'[t].ref] =
                                CASE Pending(t)' -> "reserved"
                                  [] job'[t].status = "completed" -> "captured"
                                  [] OTHER -> "released"
      BY <1>1 DEF CreditsInv, JobsOwnRefs, Pending
    <2>2. QED BY <1>1, <2>1 DEF CreditsInv, JobsOwnRefs, Pending
  <1>3. RequestsOwnRefs'
    BY <1>1 DEF CreditsInv, RequestsOwnRefs, OwnsRef
  <1>4. ChargedOncePerReply'
    BY <1>1 DEF CreditsInv, ChargedOncePerReply
  <1>5. HoldIsForPendingTurn'
    BY <1>1 DEF CreditsInv, HoldIsForPendingTurn, Pending
  <1>6. QED BY <1>2, <1>3, <1>4, <1>5 DEF CreditsInv

\* A call takes a reservation nobody uses.
LEMMA CreditsReserve ==
  ASSUME TypeOK, CreditsInv, NEW q \in Requests, NEW r \in Refs, Reserve(r),
         NEW t \in Turns, NEW pc \in {"sending", "retrying"},
         request' = [request EXCEPT ![q] = [pc |-> pc, turn |-> t, ref |-> r]],
         request[q].pc \in {"idle", "checked"},
         pc = "sending" => /\ job[t].status = "none"
                           /\ \A p \in Requests : request[p].turn # t,
         pc = "retrying" => request[q].turn = t,
         UNCHANGED <<job, replies, lost>>
  PROVE  CreditsInv'
  <1>1. /\ request'[q] = [pc |-> pc, turn |-> t, ref |-> r]
        /\ \A p \in Requests \ {q} : request'[p] = request[p]
    BY DEF TypeOK
  <1>2. /\ reservation[r] = "none" /\ reservation'[r] = "reserved"
        /\ \A x \in Refs \ {r} : reservation'[x] = reservation[x]
    BY DEF Reserve, TypeOK
  <1>3. \A u \in Turns : job[u].ref # r
    BY <1>2, NullsAreNull DEF CreditsInv, JobsOwnRefs, NoJob
  <1>4. \A p \in Requests : request[p].ref # r
    BY <1>2, NullsAreNull DEF CreditsInv, RequestsOwnRefs, OwnsRef, Idle, TypeOK, Request
  <1>5. JobsOwnRefs'
    BY <1>2, <1>3 DEF CreditsInv, JobsOwnRefs, Pending
  <1>6. RequestsOwnRefs'
    <2> SUFFICES ASSUME NEW p \in Requests PROVE OwnsRef(p)'
      BY DEF RequestsOwnRefs
    <2>1. QED BY <1>1, <1>2, <1>3, <1>4 DEF CreditsInv, RequestsOwnRefs, OwnsRef, Idle
  <1>7. ChargedOncePerReply'
    <2>1. \A u \in Turns : job[u].status = "completed" => job[u].ref \in Refs \ {r}
      BY <1>3 DEF CreditsInv, JobsOwnRefs
    <2>2. QED BY <1>2, <2>1 DEF CreditsInv, ChargedOncePerReply
  <1>8. HoldIsForPendingTurn'
    <2>1. \A u \in Turns : job[u].status = "failed" => job[u].ref \in Refs \ {r}
      BY <1>3 DEF CreditsInv, JobsOwnRefs
    <2>2. \A x \in Refs \ {r} : (\E p \in Requests : request[p].ref = x) =>
                                  \E p \in Requests : request'[p].ref = x
      BY <1>1, NullsAreNull DEF CreditsInv, RequestsOwnRefs, OwnsRef, Idle
    <2>3. QED BY <1>1, <1>2, <2>1, <2>2 DEF CreditsInv, HoldIsForPendingTurn, Pending
  <1>9. QED BY <1>5, <1>6, <1>7, <1>8 DEF CreditsInv

\* A call hands its reservation to a job that has none or has lost its own.
LEMMA CreditsHandOver ==
  ASSUME TypeOK, CreditsInv, NEW q \in Requests, NEW t \in Turns,
         request[q].pc \in {"sending", "retrying"}, request[q].turn = t,
         job[t].status \in {"none", "failed"},
         job[t].status = "failed" => request[q].pc = "retrying",
         job' = [job EXCEPT ![t] = QueuedRun(request[q].ref)],
         request' = [request EXCEPT ![q] = Idle],
         UNCHANGED <<reservation, replies, lost>>
  PROVE  CreditsInv'
  <1> DEFINE r == request[q].ref
  <1>1. OwnsRef(q)
    BY DEF CreditsInv, RequestsOwnRefs
  <1>2. /\ r \in Refs /\ reservation[r] = "reserved"
        /\ \A u \in Turns : job[u].ref # r
        /\ \A p \in Requests \ {q} : request[p].ref # r
    BY <1>1 DEF OwnsRef
  <1> HIDE DEF r
  <1>3. /\ job'[t] = QueuedRun(r) /\ \A u \in Turns \ {t} : job'[u] = job[u]
        /\ request'[q] = Idle /\ \A p \in Requests \ {q} : request'[p] = request[p]
    BY DEF TypeOK, r
  <1>4. /\ job'[t].status = "queued" /\ job'[t].ref = r /\ Pending(t)'
        /\ \A u \in Turns \ {t} : Pending(u)' = Pending(u)
    BY <1>3 DEF QueuedRun, Pending
  <1>5. JobsOwnRefs'
    <2>1. ASSUME NEW u \in Turns
          PROVE IF job'[u].status = "none" THEN job'[u] = NoJob
                ELSE /\ job'[u].ref \in Refs
                     /\ reservation'[job'[u].ref] =
                          CASE Pending(u)' -> "reserved"
                            [] job'[u].status = "completed" -> "captured"
                            [] OTHER -> "released"
      BY <1>2, <1>3, <1>4 DEF CreditsInv, JobsOwnRefs
    <2>2. ASSUME NEW u \in Turns, NEW v \in Turns, job'[u].ref = job'[v].ref,
                 job'[u].ref # NoRef
          PROVE  u = v
      BY <1>2, <1>3, <1>4, <2>2 DEF CreditsInv, JobsOwnRefs
    <2>3. QED BY <2>1, <2>2 DEF JobsOwnRefs
  <1>6. RequestsOwnRefs'
    <2> SUFFICES ASSUME NEW p \in Requests PROVE OwnsRef(p)'
      BY DEF RequestsOwnRefs
    <2>1. CASE p = q
      BY <1>3, <2>1 DEF OwnsRef, Idle
    <2>2. CASE p # q
      <3>1. OwnsRef(p) /\ request'[p] = request[p]
        BY <1>3, <2>2 DEF CreditsInv, RequestsOwnRefs
      <3>2. request[p].pc = "sending" => request[p].turn # t
        BY <1>1, <2>2, <3>1 DEF OwnsRef
      <3>3. request[p].pc \in {"sending", "retrying", "undoing"} => request[p].ref # r
        BY <1>2, <2>2
      <3>4. \A x \in Requests \ {p} :
              /\ request[p].turn \in Turns /\ request[x].turn # request[p].turn
                   => request'[x].turn # request[p].turn
              /\ request[p].ref \in Refs /\ request[x].ref # request[p].ref
                   => request'[x].ref # request[p].ref
        BY <1>3, NullsAreNull DEF Idle
      <3>5. QED BY <1>3, <1>4, <3>1, <3>2, <3>3, <3>4 DEF OwnsRef
    <2>3. QED BY <2>1, <2>2
  <1>7. ChargedOncePerReply'
    <2>1. \A u \in Turns : job'[u].status = "completed" <=> u # t /\ job[u].status = "completed"
      BY <1>3, <1>4
    <2>2. ASSUME NEW u \in Turns, NEW v \in Turns, job'[u].ref = job'[v].ref,
                 job'[u].ref # NoRef
          PROVE  u = v
      BY <1>5, <2>2 DEF JobsOwnRefs
    <2>3. \A x \in Refs : reservation[x] = "captured" =>
            \E u \in Turns : job'[u].status = "completed" /\ job'[u].ref = x
      BY <1>3, <2>1 DEF CreditsInv, ChargedOncePerReply
    <2>4. \A u \in Turns : job'[u].status = "completed" => reservation[job'[u].ref] = "captured"
      BY <1>3, <2>1 DEF CreditsInv, ChargedOncePerReply
    <2>5. \A x \in Refs : replies[x] = IF reservation[x] = "captured" THEN 1 ELSE 0
      BY DEF CreditsInv, ChargedOncePerReply
    <2>6. QED BY <2>2, <2>3, <2>4, <2>5 DEF ChargedOncePerReply
  <1>8. HoldIsForPendingTurn'
    <2>1. \A u \in Turns : job'[u].status = "failed" => reservation[job'[u].ref] = "released"
      BY <1>3, <1>4 DEF CreditsInv, HoldIsForPendingTurn
    <2>2. ASSUME NEW x \in Refs, reservation[x] = "reserved"
          PROVE  \/ x \in lost
                 \/ \E p \in Requests : request'[p].ref = x
                 \/ \E u \in Turns : Pending(u)' /\ job'[u].ref = x
      <3>1. CASE x = r
        BY <1>4, <3>1
      <3>2. CASE x # r
        <4>1. \/ x \in lost
              \/ \E p \in Requests : request[p].ref = x
              \/ \E u \in Turns : Pending(u) /\ job[u].ref = x
          BY <2>2 DEF CreditsInv, HoldIsForPendingTurn
        <4>2. ASSUME NEW p \in Requests, request[p].ref = x PROVE request'[p].ref = x
          BY <1>3, <3>2, <4>2 DEF r
        <4>3. ASSUME NEW u \in Turns, Pending(u), job[u].ref = x
              PROVE  Pending(u)' /\ job'[u].ref = x
          BY <1>3, <1>4, <4>3 DEF Pending
        <4>4. QED BY <4>1, <4>2, <4>3
      <3>3. QED BY <3>1, <3>2
    <2>3. QED BY <2>1, <2>2 DEF HoldIsForPendingTurn
  <1>9. QED BY <1>5, <1>6, <1>7, <1>8 DEF CreditsInv

\* A call ends without its reservation: given back, or lost with the process.
LEMMA CreditsLetGo ==
  ASSUME TypeOK, CreditsInv, NEW q \in Requests,
         request[q].pc \in {"sending", "retrying", "undoing"},
         request' = [request EXCEPT ![q] = Idle],
         \/ reservation' = Released(request[q].ref) /\ UNCHANGED lost
         \/ UNCHANGED reservation /\ lost' = lost \cup {request[q].ref},
         UNCHANGED <<job, replies>>
  PROVE  CreditsInv'
  <1> DEFINE r == request[q].ref
  <1>1. /\ r \in Refs /\ reservation[r] = "reserved"
        /\ \A u \in Turns : job[u].ref # r
        /\ \A p \in Requests \ {q} : request[p].ref # r
    BY DEF CreditsInv, RequestsOwnRefs, OwnsRef
  <1>2. /\ \A x \in Refs \ {r} : reservation'[x] = reservation[x]
        /\ reservation'[r] \in {"reserved", "released"}
        /\ reservation'[r] = "reserved" => r \in lost'
        /\ lost \subseteq lost'
    BY <1>1 DEF Released, TypeOK
  <1> HIDE DEF r
  <1>3. request'[q] = Idle /\ \A p \in Requests \ {q} : request'[p] = request[p]
    BY DEF TypeOK
  <1>4. JobsOwnRefs'
    BY <1>1, <1>2 DEF CreditsInv, JobsOwnRefs, Pending
  <1>5. RequestsOwnRefs'
    <2> SUFFICES ASSUME NEW p \in Requests PROVE OwnsRef(p)'
      BY DEF RequestsOwnRefs
    <2>1. CASE p = q
      BY <1>3, <2>1 DEF OwnsRef, Idle
    <2>2. CASE p # q
      <3>1. OwnsRef(p) /\ request'[p] = request[p] /\ request[p].ref # r
        BY <1>1, <1>3, <2>2 DEF CreditsInv, RequestsOwnRefs
      <3>2. \A x \in Requests \ {p} :
              /\ request[p].turn \in Turns /\ request[x].turn # request[p].turn
                   => request'[x].turn # request[p].turn
              /\ request[p].ref \in Refs /\ request[x].ref # request[p].ref
                   => request'[x].ref # request[p].ref
        BY <1>3, NullsAreNull DEF Idle
      <3>3. QED BY <1>2, <3>1, <3>2 DEF OwnsRef
    <2>3. QED BY <2>1, <2>2
  <1>6. ChargedOncePerReply'
    <2>1. \A u \in Turns : job[u].status = "completed" => job[u].ref \in Refs \ {r}
      BY <1>1 DEF CreditsInv, JobsOwnRefs, Pending
    <2>2. \A x \in Refs : reservation'[x] = "captured" <=> reservation[x] = "captured"
      BY <1>1, <1>2
    <2>3. QED BY <2>1, <2>2 DEF CreditsInv, ChargedOncePerReply
  <1>7. HoldIsForPendingTurn'
    <2>1. \A u \in Turns : job[u].status = "failed" => job[u].ref \in Refs \ {r}
      BY <1>1 DEF CreditsInv, JobsOwnRefs, Pending
    <2>2. \A x \in Refs \ {r} : (\E p \in Requests : request[p].ref = x) =>
                                  \E p \in Requests : request'[p].ref = x
      BY <1>3 DEF r
    <2>3. QED BY <1>2, <2>1, <2>2 DEF CreditsInv, HoldIsForPendingTurn, Pending
  <1>8. QED BY <1>4, <1>5, <1>6, <1>7 DEF CreditsInv

\* A call that holds nothing yet, or goes on with what it holds.
LEMMA CreditsCallProceeds ==
  ASSUME TypeOK, CreditsInv, NEW q \in Requests, NEW call \in Request,
         request' = [request EXCEPT ![q] = call],
         \/ call = Idle /\ request[q].pc = "checked"
         \/ call.pc = "checked" /\ call.ref = NoRef /\ call.turn \in Turns
            /\ job[call.turn].status = "failed" /\ request[q] = Idle
         \/ call = [request[q] EXCEPT !.pc = "undoing"]
            /\ request[q].pc \in {"sending", "retrying"},
         UNCHANGED <<job, reservation, replies, lost>>
  PROVE  CreditsInv'
  <1>1. request'[q] = call /\ \A p \in Requests \ {q} : request'[p] = request[p]
    BY DEF TypeOK
  <1>2. OwnsRef(q) /\ request[q] \in Request
    BY DEF CreditsInv, RequestsOwnRefs, TypeOK
  <1>3. call.ref = request[q].ref
    BY <1>2 DEF OwnsRef, Idle, Request
  <1>4. RequestsOwnRefs'
    <2>1. OwnsRef(q)'
      BY <1>1, <1>2 DEF OwnsRef, Idle, Request
    <2>2. ASSUME NEW p \in Requests \ {q} PROVE OwnsRef(p)'
      <3>1. OwnsRef(p) /\ request'[p] = request[p]
        BY <1>1 DEF CreditsInv, RequestsOwnRefs
      <3>2. request[p].pc = "sending" => request'[q].turn # request[p].turn
        BY <1>1, <1>2, <3>1, NullsAreNull DEF OwnsRef, Idle, Request
      <3>3. QED BY <1>1, <1>3, <3>1, <3>2 DEF OwnsRef
    <2>3. QED BY <2>1, <2>2 DEF RequestsOwnRefs
  <1>5. HoldIsForPendingTurn'
    BY <1>1, <1>3 DEF CreditsInv, HoldIsForPendingTurn, Pending
  <1>6. QED BY <1>4, <1>5 DEF CreditsInv, JobsOwnRefs, ChargedOncePerReply, Pending

LEMMA CreditsRequest ==
  ASSUME TypeOK, TypeOK', CreditsInv, NEW q \in Requests, RequestStep(q)
  PROVE  CreditsInv'
  <1>1. request[q] \in Request /\ OwnsRef(q)
    BY DEF TypeOK, CreditsInv, RequestsOwnRefs
  <1>2. ASSUME NEW t \in Turns, NEW r \in Refs, SendReserves(q, t, r) PROVE CreditsInv'
    <2>1. request[q].pc = "idle"
      BY <1>2 DEF SendReserves, Idle
    <2>2. QED BY <1>2, <2>1, CreditsReserve DEF SendReserves
  <1>3. ASSUME NEW r \in Refs, RetryReserves(q, r) PROVE CreditsInv'
    <2>1. request[q].turn \in Turns
      BY <1>1, <1>3 DEF RetryReserves, OwnsRef
    <2>2. QED BY <1>3, <2>1, CreditsReserve DEF RetryReserves
  <1>4. ASSUME NEW t \in Turns, SendCommits(q, t) PROVE CreditsInv'
    <2>1. job[t].status = "none"
      BY <1>1, <1>4 DEF SendCommits, OwnsRef
    <2>2. QED BY <1>4, <2>1, CreditsHandOver DEF SendCommits
  <1>5. ASSUME NEW t \in Turns, RetryRequeues(q, t) PROVE CreditsInv'
    BY <1>5, CreditsHandOver DEF RetryRequeues
  <1>6. CASE RequestUndoes(q) \/ RequestDies(q)
    BY <1>6, CreditsLetGo DEF RequestUndoes, RequestDies
  <1>7. CASE RetryRefused(q)
    <2>1. Idle \in Request
      BY DEF Idle, Request
    <2>2. QED BY <1>7, <2>1, CreditsCallProceeds DEF RetryRefused
  <1>8. ASSUME NEW t \in Turns, RetryReads(q, t) PROVE CreditsInv'
    <2>1. [pc |-> "checked", turn |-> t, ref |-> NoRef] \in Request
      BY DEF Request
    <2>2. QED BY <1>8, <2>1, CreditsCallProceeds DEF RetryReads
  <1>9. ASSUME NEW t \in Turns, RetryLosesRace(q, t) PROVE CreditsInv'
    <2>1. [request[q] EXCEPT !.pc = "undoing"] \in Request
      BY <1>1 DEF Request
    <2>2. QED BY <1>9, <2>1, CreditsCallProceeds DEF RetryLosesRace
  <1>10. CASE SendFails(q)
    <2>1. [request[q] EXCEPT !.pc = "undoing"] \in Request
      BY <1>1 DEF Request
    <2>2. QED BY <1>10, <2>1, CreditsCallProceeds DEF SendFails
  <1>11. QED
    BY <1>2, <1>3, <1>4, <1>5, <1>6, <1>7, <1>8, <1>9, <1>10 DEF RequestStep

\* A settled attempt closes its job and its reservation together.
LEMMA CreditsSettle ==
  ASSUME TypeOK, CreditsInv, NEW t \in Turns, Pending(t),
         NEW j \in Job, job' = [job EXCEPT ![t] = j], j.ref = job[t].ref,
         \/ /\ j.status = "completed"
            /\ reservation' = Captured(job[t].ref)
            /\ replies' = [replies EXCEPT ![job[t].ref] = OneMore(@)]
         \/ /\ j.status = "failed"
            /\ reservation' = Released(job[t].ref)
            /\ UNCHANGED replies,
         UNCHANGED <<request, lost>>
  PROVE  CreditsInv'
  <1> DEFINE r == job[t].ref
  <1>1. /\ r \in Refs /\ reservation[r] = "reserved" /\ replies[r] = 0
        /\ \A u \in Turns \ {t} : job[u].ref # r
        /\ \A q \in Requests : request[q].pc \in {"sending", "retrying", "undoing"} =>
                                 request[q].ref # r
    BY NullsAreNull
    DEF CreditsInv, JobsOwnRefs, Pending, RequestsOwnRefs, OwnsRef, ChargedOncePerReply
  <1>2. /\ \A u \in Turns : job'[u].ref = job[u].ref
        /\ \A u \in Turns \ {t} : job'[u] = job[u]
        /\ job'[t].status = j.status /\ job'[t] = j
    BY DEF TypeOK
  <1>3. /\ \A x \in Refs \ {r} : reservation'[x] = reservation[x] /\ replies'[x] = replies[x]
        /\ \/ /\ j.status = "completed" /\ reservation'[r] = "captured" /\ replies'[r] = 1
           \/ /\ j.status = "failed" /\ reservation'[r] = "released" /\ replies'[r] = 0
    BY <1>1 DEF TypeOK, Captured, Released, OneMore, Twice
  <1> HIDE DEF r
  <1>4. JobsOwnRefs'
    <2>1. ASSUME NEW u \in Turns
          PROVE IF job'[u].status = "none" THEN job'[u] = NoJob
                ELSE /\ job'[u].ref \in Refs
                     /\ reservation'[job'[u].ref] =
                          CASE Pending(u)' -> "reserved"
                            [] job'[u].status = "completed" -> "captured"
                            [] OTHER -> "released"
      <3>1. CASE u = t
        <4>1. job'[u].ref = r /\ job'[u].status = j.status /\ job'[u].status # "none"
          BY <1>2, <1>3, <3>1 DEF r
        <4>2. QED BY <1>1, <1>3, <4>1 DEF Pending
      <3>2. CASE u # t
        <4>1. job'[u] = job[u] /\ job[u].ref # r
          BY <1>1, <1>2, <3>2
        <4>2. QED BY <1>3, <4>1 DEF CreditsInv, JobsOwnRefs, Pending
      <3>3. QED BY <3>1, <3>2
    <2>2. \A u, v \in Turns : job'[u].ref = job'[v].ref /\ job'[u].ref # NoRef => u = v
      BY <1>2 DEF CreditsInv, JobsOwnRefs
    <2>3. QED BY <2>1, <2>2 DEF JobsOwnRefs
  <1>5. RequestsOwnRefs'
    <2> SUFFICES ASSUME NEW q \in Requests PROVE OwnsRef(q)'
      BY DEF RequestsOwnRefs
    <2>1. OwnsRef(q)
      BY DEF CreditsInv, RequestsOwnRefs
    <2>2. \A u \in Turns : job[u].status = "none" => job'[u].status = "none"
      BY <1>2 DEF Pending
    <2>3. QED BY <1>1, <1>2, <1>3, <2>1, <2>2 DEF OwnsRef
  <1>6. ChargedOncePerReply'
    <2>1. \A x \in Refs : replies'[x] = IF reservation'[x] = "captured" THEN 1 ELSE 0
      BY <1>1, <1>3 DEF CreditsInv, ChargedOncePerReply
    <2>2. ASSUME NEW x \in Refs, reservation'[x] = "captured"
          PROVE  \E u \in Turns : job'[u].status = "completed" /\ job'[u].ref = x
      <3>1. CASE x = r
        BY <1>2, <1>3, <2>2, <3>1 DEF r
      <3>2. CASE x # r
        <4>1. PICK u \in Turns : job[u].status = "completed" /\ job[u].ref = x
          BY <1>3, <2>2, <3>2 DEF CreditsInv, ChargedOncePerReply
        <4>2. u # t
          BY <4>1 DEF Pending
        <4>3. QED BY <1>2, <4>1, <4>2
      <3>3. QED BY <3>1, <3>2
    <2>3. \A u \in Turns : job'[u].status = "completed" => reservation'[job'[u].ref] = "captured"
      BY <1>4 DEF JobsOwnRefs, Pending
    <2>4. \A u, v \in Turns : job'[u].ref = job'[v].ref /\ job'[u].ref # NoRef => u = v
      BY <1>4 DEF JobsOwnRefs
    <2>5. QED BY <2>1, <2>2, <2>3, <2>4 DEF ChargedOncePerReply
  <1>7. HoldIsForPendingTurn'
    <2>1. \A u \in Turns : job'[u].status = "failed" => reservation'[job'[u].ref] = "released"
      BY <1>4 DEF JobsOwnRefs, Pending
    <2>2. ASSUME NEW x \in Refs, reservation'[x] = "reserved"
          PROVE  \/ x \in lost
                 \/ \E p \in Requests : request[p].ref = x
                 \/ \E u \in Turns : Pending(u)' /\ job'[u].ref = x
      <3>1. x # r /\ reservation[x] = "reserved"
        BY <1>3, <2>2
      <3>2. ASSUME NEW u \in Turns, Pending(u), job[u].ref = x
            PROVE  Pending(u)' /\ job'[u].ref = x
        <4>1. u # t
          BY <3>1, <3>2 DEF r
        <4>2. QED BY <1>2, <3>2, <4>1 DEF Pending
      <3>3. QED BY <3>1, <3>2 DEF CreditsInv, HoldIsForPendingTurn
    <2>3. QED BY <2>1, <2>2 DEF HoldIsForPendingTurn
  <1>8. QED BY <1>4, <1>5, <1>6, <1>7 DEF CreditsInv

\* The steps of a worker and of time, as the credits see them.
LEMMA CreditsAttempt ==
  ASSUME TypeOK, CreditsInv, WorkersInv, NEW w \in Workers, NEW a \in worker[w].attempts,
         AttemptStep(w, a) \/ AttemptLost(w, a)
  PROVE  CreditsInv'
  <1>1. a.turn \in Turns /\ job[a.turn] \in Job
    BY DEF TypeOK, Worker, Attempt
  <1>2. Pending(a.turn) /\ a.ref = job[a.turn].ref
    BY DEF WorkersInv, AttemptsAreCurrent, Pending
  <1>3. CASE CompleteReply(w, a)
    <2> DEFINE j == [job[a.turn] EXCEPT !.status = "completed", !.lease = "none"]
    <2>1. j \in Job /\ j.status = "completed" /\ j.ref = job[a.turn].ref
      <3>1. j \in Job
        BY <1>1, JobEdits
      <3>2. j.status = "completed" /\ j.ref = job[a.turn].ref
        BY <1>1 DEF Job
      <3>3. QED BY <3>1, <3>2
    <2>2. job' = [job EXCEPT ![a.turn] = j]
      BY <1>3 DEF CompleteReply
    <2> HIDE DEF j
    <2>3. QED BY <1>1, <1>2, <1>3, <2>1, <2>2, CreditsSettle DEF CompleteReply
  <1>4. CASE FinalizeFailure(w, a)
    <2> DEFINE j == [job[a.turn] EXCEPT !.status = "failed", !.lease = "none"]
    <2>1. j \in Job /\ j.status = "failed" /\ j.ref = job[a.turn].ref
      <3>1. j \in Job
        BY <1>1, JobEdits
      <3>2. j.status = "failed" /\ j.ref = job[a.turn].ref
        BY <1>1 DEF Job
      <3>3. QED BY <3>1, <3>2
    <2>2. job' = [job EXCEPT ![a.turn] = j]
      BY <1>4 DEF FinalizeFailure
    <2> HIDE DEF j
    <2>3. QED BY <1>1, <1>2, <1>4, <2>1, <2>2, CreditsSettle DEF FinalizeFailure
  <1>5. CASE RequeueAttempt(w, a)
    <2>1. /\ job'[a.turn].status = "queued" /\ job'[a.turn].ref = job[a.turn].ref
          /\ \A u \in Turns \ {a.turn} : job'[u] = job[u]
      BY <1>1, <1>5 DEF RequeueAttempt, TypeOK, Job
    <2>2. QED BY <1>2, <1>5, <2>1, CreditsFrame DEF RequeueAttempt, Pending
  <1>6. CASE UNCHANGED <<job, reservation, replies, request, lost>>
    BY <1>6, CreditsFrame
  <1>7. QED
    BY <1>3, <1>4, <1>5, <1>6 DEF AttemptStep, CallAgent, AttemptTooLate, AttemptLost

LEMMA CreditsClaim ==
  ASSUME TypeOK, CreditsInv, WorkersInv, NEW w \in Workers, NEW t \in Turns, ClaimStep(w, t)
  PROVE  CreditsInv'
  <1>1. CASE ClaimWrites(w, t)
    <2>1. Pending(t)
      BY <1>1 DEF ClaimWrites, WorkersInv, ClaimsAreExclusive, ExclusiveClaim, Pending
    <2>2. /\ job'[t].status = "running" /\ job'[t].ref = job[t].ref
          /\ \A u \in Turns \ {t} : job'[u] = job[u]
      BY <1>1 DEF ClaimWrites, TypeOK, Job
    <2>3. QED BY <1>1, <2>1, <2>2, CreditsFrame DEF ClaimWrites, Pending
  <1>2. CASE UNCHANGED <<job, reservation, replies, request, lost>>
    BY <1>2, CreditsFrame
  <1>3. QED
    BY <1>1, <1>2 DEF ClaimStep, ClaimSkips, ClaimReads

LEMMA CreditsTime ==
  ASSUME TypeOK, CreditsInv, NEW t \in Turns, LeaseExpires(t) \/ BackoffElapses(t)
  PROVE  CreditsInv'
  <1>1. CASE LeaseExpires(t)
    <2>1. /\ Pending(t) /\ job'[t].status = job[t].status /\ job'[t].ref = job[t].ref
          /\ \A u \in Turns \ {t} : job'[u] = job[u]
      BY <1>1 DEF LeaseExpires, TypeOK, Job, Pending
    <2>2. QED BY <1>1, <2>1, CreditsFrame DEF LeaseExpires, Pending
  <1>2. CASE BackoffElapses(t)
    <2>1. /\ job[t].status # "none"
          /\ job'[t].status = job[t].status /\ job'[t].ref = job[t].ref
          /\ \A u \in Turns \ {t} : job'[u] = job[u]
      BY <1>2 DEF BackoffElapses, TypeOK, Job
    <2>2. QED BY <1>2, <2>1, CreditsFrame DEF BackoffElapses
  <1>3. QED BY <1>1, <1>2

-----------------------------------------------------------------------------
(***************************************************************************)
(* The theorems                                                            *)
(***************************************************************************)

LEMMA ReplyStep ==
  ASSUME TypeOK, CreditsInv, WorkersInv, ~LateAttempts, [Next]_vars
  PROVE  TypeOK' /\ CreditsInv' /\ WorkersInv'
  <1>1. TypeOK'
    BY TypeStep
  <1>2. ASSUME NEW q \in Requests, RequestStep(q) PROVE CreditsInv' /\ WorkersInv'
    <2>1. CreditsInv'
      BY <1>1, <1>2, CreditsRequest
    <2>2. QED BY <1>2, <2>1, WorkersRequest DEF CreditsInv
  <1>3. ASSUME NEW w \in Workers, FindClaimable(w) \/ WorkerStops(w)
        PROVE  CreditsInv' /\ WorkersInv'
    <2>1. UNCHANGED <<job, reservation, replies, request, lost>>
      BY <1>3 DEF FindClaimable, WorkerStops
    <2>2. QED BY <1>3, <2>1, CreditsFrame, WorkersTick
  <1>4. ASSUME NEW w \in Workers, NEW t \in Turns, ClaimStep(w, t)
        PROVE  CreditsInv' /\ WorkersInv'
    BY <1>1, <1>4, CreditsClaim, WorkersClaim
  <1>5. ASSUME NEW w \in Workers, NEW a \in worker[w].attempts,
               AttemptStep(w, a) \/ AttemptLost(w, a)
        PROVE  CreditsInv' /\ WorkersInv'
    BY <1>1, <1>5, CreditsAttempt, WorkersAttempt
  <1>6. ASSUME NEW t \in Turns, LeaseExpires(t) \/ BackoffElapses(t)
        PROVE  CreditsInv' /\ WorkersInv'
    BY <1>6, CreditsTime, WorkersTime
  <1>7. ASSUME NEW r \in Refs, DeadlinePasses(r) PROVE CreditsInv' /\ WorkersInv'
    BY <1>7, CreditsFrame, WorkersFrame DEF DeadlinePasses
  <1>8. CASE UNCHANGED vars
    BY <1>1, <1>8, CreditsFrame, WorkersFrame DEF vars
  <1>9. QED
    BY <1>1, <1>2, <1>3, <1>4, <1>5, <1>6, <1>7, <1>8 DEF Next

\* If no lease ends before its attempt, the inductive invariant holds for ever.
THEOREM ReplyInvariant ==
  ASSUME ~LateAttempts
  PROVE  Spec => []ReplyInv
  <1> DEFINE Inv == TypeOK /\ CreditsInv /\ WorkersInv
  <1>1. Init => Inv
    BY TypeInit, ReplyInit
  <1>2. Inv /\ [Next]_vars => Inv'
    BY ReplyStep
  <1>3. Inv => ReplyInv
    BY DEF CreditsInv, WorkersInv, ReplyInv
  <1>4. QED BY <1>1, <1>2, <1>3, PTL DEF Spec

\* Replies and charges correspond one to one.
THEOREM ChargedOnce ==
  ASSUME ~LateAttempts
  PROVE  Spec => []ChargedOncePerReply
  <1>1. ReplyInv => ChargedOncePerReply
    BY DEF ReplyInv
  <1>2. QED BY <1>1, ReplyInvariant, PTL

\* No credits stay locked except those of a call that died half way.
THEOREM HoldsAreUsed ==
  ASSUME ~LateAttempts
  PROVE  Spec => []HoldIsForPendingTurn
  <1>1. ReplyInv => HoldIsForPendingTurn
    BY DEF ReplyInv
  <1>2. QED BY <1>1, ReplyInvariant, PTL

\* No two attempts are ever in one conversation,
THEOREM AttemptsExclude ==
  ASSUME ~LateAttempts
  PROVE  Spec => []OneAttemptPerConversation
  <1>1. ReplyInv => OneAttemptPerConversation
    BY DEF ReplyInv
  <1>2. QED BY <1>1, ReplyInvariant, PTL

\* and none works on stale data: its job still runs, with the reference, count
\* and deadline that the claim has read.
THEOREM AttemptsCurrent ==
  ASSUME ~LateAttempts
  PROVE  Spec => []AttemptsAreCurrent
  <1>1. ReplyInv => AttemptsAreCurrent
    BY DEF ReplyInv
  <1>2. QED BY <1>1, ReplyInvariant, PTL

-----------------------------------------------------------------------------
(***************************************************************************)
(* Steps of one turn, and the refinement of TurnPromise                    *)
(***************************************************************************)

Status(t) == toReplyStatus(job[t].status)

\* The moves a turn can make, told by the status its user sees.
TurnMoves(t) ==
  \/ Status(t) = "none" /\ Status(t)' = "pending"
  \/ Status(t) = "pending" /\ Status(t)' \in {"completed", "failed"}
  \/ Status(t) = "failed" /\ Status(t)' = "pending"

\* No other row changes, and what its user sees of t only by one of these moves.
ChangesOnly(t) ==
  /\ \A u \in Turns \ {t} : job'[u] = job[u]
  /\ Status(t)' = Status(t) \/ TurnMoves(t)

LEMMA OneTurnMoves ==
  ASSUME TypeOK, CreditsInv, WorkersInv, [Next]_vars
  PROVE  UNCHANGED job \/ \E t \in Turns : ChangesOnly(t)
  <1>1. ASSUME NEW q \in Requests, NEW t \in Turns, SendCommits(q, t) \/ RetryRequeues(q, t)
        PROVE  ChangesOnly(t)
    <2>1. job[t].status \in {"none", "failed"}
      BY <1>1 DEF SendCommits, RetryRequeues, CreditsInv, RequestsOwnRefs, OwnsRef
    <2>2. job'[t].status = "queued" /\ \A u \in Turns \ {t} : job'[u] = job[u]
      BY <1>1 DEF SendCommits, RetryRequeues, TypeOK, QueuedRun
    <2>3. QED BY <2>1, <2>2 DEF ChangesOnly, TurnMoves, Status, toReplyStatus
  <1>2. ASSUME NEW w \in Workers, NEW t \in Turns, ClaimWrites(w, t)
        PROVE  ChangesOnly(t)
    <2>1. job[t].status \in {"queued", "running"}
      BY <1>2 DEF ClaimWrites, WorkersInv, ClaimsAreExclusive, ExclusiveClaim
    <2>2. job'[t].status = "running" /\ \A u \in Turns \ {t} : job'[u] = job[u]
      BY <1>2 DEF ClaimWrites, TypeOK, Job
    <2>3. QED BY <2>1, <2>2 DEF ChangesOnly, Status, toReplyStatus
  <1>3. ASSUME NEW w \in Workers, NEW a \in worker[w].attempts,
               CompleteReply(w, a) \/ FinalizeFailure(w, a) \/ RequeueAttempt(w, a)
        PROVE  a.turn \in Turns /\ ChangesOnly(a.turn)
    <2>1. a.turn \in Turns /\ job[a.turn].status = "running"
      BY <1>3 DEF TypeOK, Worker, Attempt, CompleteReply, FinalizeFailure, RequeueAttempt
    <2>2. \A u \in Turns \ {a.turn} : job'[u] = job[u]
      BY <1>3, <2>1 DEF TypeOK, CompleteReply, FinalizeFailure, RequeueAttempt
    <2>3. CASE CompleteReply(w, a)
      <3>1. job'[a.turn].status = "completed"
        BY <2>1, <2>3 DEF TypeOK, Job, CompleteReply
      <3>2. QED BY <2>1, <2>2, <3>1 DEF ChangesOnly, TurnMoves, Status, toReplyStatus
    <2>4. CASE FinalizeFailure(w, a)
      <3>1. job'[a.turn].status = "failed"
        BY <2>1, <2>4 DEF TypeOK, Job, FinalizeFailure
      <3>2. QED BY <2>1, <2>2, <3>1 DEF ChangesOnly, TurnMoves, Status, toReplyStatus
    <2>5. CASE RequeueAttempt(w, a)
      <3>1. job'[a.turn].status = "queued"
        BY <2>1, <2>5 DEF TypeOK, Job, RequeueAttempt
      <3>2. QED BY <2>1, <2>2, <3>1 DEF ChangesOnly, Status, toReplyStatus
    <2>6. QED BY <1>3, <2>3, <2>4, <2>5
  <1>4. ASSUME NEW t \in Turns, LeaseExpires(t) \/ BackoffElapses(t)
        PROVE  ChangesOnly(t)
    BY <1>4 DEF LeaseExpires, BackoffElapses, TypeOK, Job, ChangesOnly, Status
  <1>5. ASSUME NEW q \in Requests, RequestStep(q),
               ~\E t \in Turns : SendCommits(q, t) \/ RetryRequeues(q, t)
        PROVE  UNCHANGED job
    BY <1>5 DEF RequestStep, SendReserves, SendFails, RetryReads, RetryReserves, RetryRefused,
                RetryLosesRace, RequestUndoes, RequestDies
  <1>6. ASSUME NEW w \in Workers,
               \/ FindClaimable(w) \/ WorkerStops(w)
               \/ \E t \in Turns : ClaimSkips(w, t) \/ ClaimReads(w, t)
               \/ \E a \in worker[w].attempts :
                    CallAgent(w, a) \/ AttemptTooLate(w, a) \/ AttemptLost(w, a)
        PROVE  UNCHANGED job
    BY <1>6 DEF FindClaimable, WorkerStops, ClaimSkips, ClaimReads, CallAgent, AttemptTooLate,
                AttemptLost
  <1>7. CASE UNCHANGED job
    BY <1>7
  <1>8. CASE \E q \in Requests : RequestStep(q)
    BY <1>1, <1>5, <1>8
  <1>9. CASE \E w \in Workers : \/ FindClaimable(w) \/ WorkerStops(w)
                                \/ \E t \in Turns : ClaimStep(w, t)
                                \/ \E a \in worker[w].attempts : AttemptStep(w, a) \/ AttemptLost(w, a)
    BY <1>2, <1>3, <1>6, <1>9 DEF ClaimStep, AttemptStep
  <1>10. CASE \E t \in Turns : LeaseExpires(t) \/ BackoffElapses(t)
    BY <1>4, <1>10
  <1>11. CASE \E r \in Refs : DeadlinePasses(r)
    BY <1>7, <1>11 DEF DeadlinePasses
  <1>12. QED
    BY <1>7, <1>8, <1>9, <1>10, <1>11 DEF Next, vars

\* The hold a turn shows is the one its status calls for.
HoldOf(status) ==
  CASE status = "none" -> "none"
    [] status = "pending" -> "reserved"
    [] status = "completed" -> "captured"
    [] OTHER -> "released"

Hold(t) == IF job[t].ref = NoRef THEN "none" ELSE reservation[job[t].ref]

HoldsFollow == \A t \in Turns : Hold(t) = HoldOf(Status(t))

LEMMA HoldsFollowStatus ==
  ASSUME TypeOK, JobsOwnRefs
  PROVE  HoldsFollow
  <1> SUFFICES ASSUME NEW t \in Turns PROVE Hold(t) = HoldOf(Status(t))
    BY DEF HoldsFollow
  <1>1. CASE job[t].status = "none"
    BY <1>1 DEF JobsOwnRefs, NoJob, Hold, HoldOf, Status, toReplyStatus
  <1>2. CASE job[t].status # "none"
    <2>1. job[t].status \in {"queued", "running", "completed", "failed"}
      BY <1>2 DEF TypeOK, Job
    <2>2. /\ job[t].ref # NoRef
          /\ reservation[job[t].ref] = CASE Pending(t) -> "reserved"
                                         [] job[t].status = "completed" -> "captured"
                                         [] OTHER -> "released"
      BY <1>2, NullsAreNull DEF JobsOwnRefs
    <2>3. QED BY <2>1, <2>2 DEF Pending, Hold, HoldOf, Status, toReplyStatus
  <1>3. QED BY <1>1, <1>2

\* The states the promise sees, as functions of the turn.
States == [t \in Turns |-> Status(t)]
Holds == [t \in Turns |-> Hold(t)]

LEMMA PromiseStep ==
  ASSUME TypeOK, CreditsInv, WorkersInv, HoldsFollow, HoldsFollow', [Next]_vars
  PROVE  [Promise!PromiseNext]_(Promise!promiseVars)
  <1>1. /\ \A t \in Turns : Hold(t) = HoldOf(Status(t))
        /\ \A t \in Turns : Hold(t)' = HoldOf(Status(t)')
    BY DEF HoldsFollow, HoldOf
  <1>2. CASE \A t \in Turns : Status(t)' = Status(t)
    BY <1>1, <1>2 DEF Promise!promiseVars, States, Holds, Status, Hold
  <1>3. ASSUME NEW t \in Turns, TurnMoves(t), \A u \in Turns \ {t} : job'[u] = job[u]
        PROVE  Promise!PromiseNext
    <2>1. \A u \in Turns \ {t} : Status(u)' = Status(u) /\ Hold(u)' = Hold(u)
      BY <1>1, <1>3 DEF Status
    <2>2. /\ States' = [States EXCEPT ![t] = Status(t)']
          /\ Holds' = [Holds EXCEPT ![t] = HoldOf(Status(t)')]
          /\ States[t] = Status(t)
      BY <1>1, <2>1 DEF States, Holds
    <2>3. QED
      BY <1>3, <2>2
      DEF Promise!PromiseNext, Promise!Ask, Promise!Answer, Promise!GiveUp, Promise!AskAgain,
          Promise!Move, TurnMoves, HoldOf, States, Holds, Status, Hold
  <1>4. CASE UNCHANGED job
    BY <1>2, <1>4 DEF Status
  <1>5. ASSUME NEW t \in Turns, ChangesOnly(t)
        PROVE  [Promise!PromiseNext]_(Promise!promiseVars)
    <2>1. CASE TurnMoves(t)
      BY <1>3, <1>5, <2>1 DEF ChangesOnly
    <2>2. CASE Status(t)' = Status(t)
      BY <1>2, <1>5, <2>2 DEF ChangesOnly, Status
    <2>3. QED BY <1>5, <2>1, <2>2 DEF ChangesOnly
  <1>6. QED BY <1>4, <1>5, OneTurnMoves

\* The pipeline implements the promise of TurnPromise.
THEOREM PipelineKeepsPromise ==
  ASSUME ~LateAttempts
  PROVE  Spec => KeepsPromise
  <1> DEFINE Inv == TypeOK /\ CreditsInv /\ WorkersInv
  <1>1. Init => Inv
    BY TypeInit, ReplyInit
  <1>2. Inv /\ [Next]_vars => Inv'
    BY ReplyStep
  <1>3. Init => Promise!PromiseInit
    BY DEF Init, NoJob, toReplyStatus, Promise!PromiseInit
  <1>4. Inv => HoldsFollow
    BY HoldsFollowStatus DEF CreditsInv
  <1>5. Inv /\ HoldsFollow /\ HoldsFollow' /\ [Next]_vars
          => [Promise!PromiseNext]_(Promise!promiseVars)
    BY PromiseStep
  <1>6. QED BY <1>1, <1>2, <1>3, <1>4, <1>5, PTL DEF Spec, KeepsPromise, Promise!PromiseSpec

\* Only a user's retry reopens a failed turn.
LEMMA OnlyRetryReopens ==
  ASSUME TypeOK, CreditsInv, WorkersInv, [Next]_vars, NEW t \in Turns,
         job[t].status = "failed", job'[t].status # "failed"
  PROVE  \E q \in Requests : RetryRequeues(q, t)
  <1>1. ASSUME NEW q \in Requests, NEW u \in Turns, SendCommits(q, u) PROVE FALSE
    <2>1. job[u].status = "none" /\ u # t
      BY <1>1 DEF SendCommits, CreditsInv, RequestsOwnRefs, OwnsRef
    <2>2. QED BY <1>1, <2>1 DEF SendCommits, TypeOK
  <1>2. ASSUME NEW q \in Requests, NEW u \in Turns, RetryRequeues(q, u) PROVE u = t
    BY <1>2 DEF RetryRequeues, TypeOK
  <1>3. ASSUME NEW w \in Workers, NEW u \in Turns, ClaimWrites(w, u) PROVE FALSE
    <2>1. job[u].status \in {"queued", "running"} /\ u # t
      BY <1>3 DEF ClaimWrites, WorkersInv, ClaimsAreExclusive, ExclusiveClaim
    <2>2. QED BY <1>3, <2>1 DEF ClaimWrites, TypeOK
  <1>4. ASSUME NEW w \in Workers, NEW a \in worker[w].attempts,
               CompleteReply(w, a) \/ FinalizeFailure(w, a) \/ RequeueAttempt(w, a)
        PROVE  FALSE
    <2>1. a.turn \in Turns /\ a.turn # t
      BY <1>4 DEF TypeOK, Worker, Attempt, CompleteReply, FinalizeFailure, RequeueAttempt
    <2>2. QED
      BY <1>4, <2>1 DEF TypeOK, CompleteReply, FinalizeFailure, RequeueAttempt
  <1>5. ASSUME NEW u \in Turns, LeaseExpires(u) \/ BackoffElapses(u) PROVE FALSE
    <2>1. CASE u = t
      <3>1. job'[t].status = job[t].status
        BY <1>5, <2>1 DEF LeaseExpires, BackoffElapses, TypeOK, Job
      <3>2. QED BY <3>1
    <2>2. CASE u # t
      <3>1. job'[t] = job[t]
        BY <1>5, <2>2 DEF LeaseExpires, BackoffElapses, TypeOK
      <3>2. QED BY <3>1
    <2>3. QED BY <2>1, <2>2
  <1>6. CASE UNCHANGED job
    BY <1>6
  <1>7. CASE \E q \in Requests : RequestStep(q)
    BY <1>1, <1>2, <1>6, <1>7
    DEF RequestStep, SendReserves, SendFails, RetryReads, RetryReserves, RetryRefused,
        RetryLosesRace, RequestUndoes, RequestDies
  <1>8. CASE \E w \in Workers : \/ FindClaimable(w) \/ WorkerStops(w)
                                \/ \E u \in Turns : ClaimStep(w, u)
                                \/ \E a \in worker[w].attempts : AttemptStep(w, a) \/ AttemptLost(w, a)
    BY <1>3, <1>4, <1>6, <1>8
    DEF ClaimStep, AttemptStep, FindClaimable, WorkerStops, ClaimSkips, ClaimReads, CallAgent,
        AttemptTooLate, AttemptLost
  <1>9. CASE \E r \in Refs : DeadlinePasses(r)
    BY <1>6, <1>9 DEF DeadlinePasses
  <1>10. QED
    BY <1>5, <1>6, <1>7, <1>8, <1>9 DEF Next, vars

\* An answered turn is never reopened, a failed one only by a retry with a hold
\* of its own.
THEOREM SettledForGood ==
  ASSUME ~LateAttempts
  PROVE  Spec => SettledTurnsStaySettled
  <1> DEFINE Inv == TypeOK /\ CreditsInv /\ WorkersInv
             Stays == \A t \in Turns :
               /\ job[t].status = "completed" => job'[t].status = "completed"
               /\ job[t].status = "failed" /\ job'[t].status # "failed" =>
                    /\ job'[t] = QueuedRun(job'[t].ref)
                    /\ job'[t].ref # job[t].ref
                    /\ reservation[job'[t].ref] = "reserved"
  <1>1. Init => Inv
    BY TypeInit, ReplyInit
  <1>2. Inv /\ [Next]_vars => Inv'
    BY ReplyStep
  <1>3. Inv /\ [Next]_vars => [Stays]_vars
    <2> SUFFICES ASSUME Inv, [Next]_vars, NEW t \in Turns
                 PROVE  /\ job[t].status = "completed" => job'[t].status = "completed"
                        /\ job[t].status = "failed" /\ job'[t].status # "failed" =>
                             /\ job'[t] = QueuedRun(job'[t].ref)
                             /\ job'[t].ref # job[t].ref
                             /\ reservation[job'[t].ref] = "reserved"
      OBVIOUS
    <2>1. ASSUME job[t].status = "completed" PROVE job'[t].status = "completed"
      <3>1. Status(t) = "completed"
        BY <2>1 DEF Status, toReplyStatus
      <3>2. Status(t)' = "completed"
        BY <3>1, OneTurnMoves DEF ChangesOnly, TurnMoves, Status
      <3>3. QED BY <3>2 DEF Status, toReplyStatus
    <2>2. ASSUME job[t].status = "failed", job'[t].status # "failed"
          PROVE  /\ job'[t] = QueuedRun(job'[t].ref)
                 /\ job'[t].ref # job[t].ref
                 /\ reservation[job'[t].ref] = "reserved"
      <3>1. PICK q \in Requests : RetryRequeues(q, t)
        BY <2>2, OnlyRetryReopens
      <3>2. /\ request[q].ref \in Refs /\ reservation[request[q].ref] = "reserved"
            /\ job[t].ref # request[q].ref
        BY <3>1 DEF RetryRequeues, CreditsInv, RequestsOwnRefs, OwnsRef
      <3>3. job'[t] = QueuedRun(request[q].ref)
        BY <3>1 DEF RetryRequeues, TypeOK
      <3>4. QED BY <3>2, <3>3 DEF QueuedRun
    <2>3. QED BY <2>1, <2>2
  <1>4. QED BY <1>1, <1>2, <1>3, PTL DEF Spec, SettledTurnsStaySettled

-----------------------------------------------------------------------------
(***************************************************************************)
(* What stays true when an attempt outlives its lease                      *)
(***************************************************************************)

\* What a step does to reservations and replies: nothing, or one of the calls
\* of CreditsService; a capture comes with a reply.
CreditMove ==
  \/ UNCHANGED <<reservation, replies>>
  \/ \E r \in Refs : Reserve(r) /\ UNCHANGED replies
  \/ \E r \in Refs \cup {NoRef} : reservation' = Released(r) /\ UNCHANGED replies
  \/ \E r \in Refs \cup {NoRef} : /\ Capturable(r) /\ reservation' = Captured(r)
                                  /\ replies' = [replies EXCEPT ![r] = OneMore(replies[r])]

LEMMA CreditsMove ==
  ASSUME TypeOK, [Next]_vars
  PROVE  CreditMove
  <1>1. ASSUME NEW q \in Requests, RequestStep(q) PROVE CreditMove
    <2>1. request[q].ref \in Refs \cup {NoRef}
      BY DEF TypeOK, Request
    <2>2. ASSUME NEW r \in Refs, RetryReserves(q, r) \/ \E t \in Turns : SendReserves(q, t, r) PROVE CreditMove
      BY <2>2 DEF RetryReserves, SendReserves, CreditMove
    <2>3. CASE RequestUndoes(q)
      BY <2>1, <2>3 DEF RequestUndoes, CreditMove
    <2>4. ASSUME \/ \E t \in Turns : SendCommits(q, t) \/ RetryReads(q, t) \/ RetryRequeues(q, t) \/ RetryLosesRace(q, t)
                 \/ SendFails(q) \/ RetryRefused(q) \/ RequestDies(q)
          PROVE  UNCHANGED <<reservation, replies>>
      BY <2>4 DEF SendCommits, RetryReads, RetryRequeues, RetryLosesRace, SendFails, RetryRefused, RequestDies
    <2>5. QED BY <1>1, <2>2, <2>3, <2>4 DEF RequestStep, CreditMove
  <1>2. ASSUME NEW w \in Workers, NEW a \in worker[w].attempts, AttemptStep(w, a) \/ AttemptLost(w, a)
        PROVE  CreditMove
    <2>1. a.ref \in Refs \cup {NoRef}
      BY DEF TypeOK, Worker, Attempt
    <2>2. CASE CompleteReply(w, a)
      BY <2>1, <2>2 DEF CompleteReply, CreditMove
    <2>3. CASE FinalizeFailure(w, a)
      BY <2>1, <2>3 DEF FinalizeFailure, CreditMove
    <2>4. ASSUME CallAgent(w, a) \/ AttemptTooLate(w, a) \/ RequeueAttempt(w, a) \/ AttemptLost(w, a)
          PROVE  UNCHANGED <<reservation, replies>>
      BY <2>4 DEF CallAgent, AttemptTooLate, RequeueAttempt, AttemptLost
    <2>5. QED BY <1>2, <2>2, <2>3, <2>4 DEF AttemptStep, CreditMove
  <1>3. ASSUME \/ \E w \in Workers : FindClaimable(w) \/ WorkerStops(w) \/ \E t \in Turns : ClaimStep(w, t)
               \/ \E t \in Turns : LeaseExpires(t) \/ BackoffElapses(t)
               \/ \E r \in Refs : DeadlinePasses(r)
               \/ UNCHANGED vars
        PROVE  UNCHANGED <<reservation, replies>>
    BY <1>3 DEF FindClaimable, WorkerStops, ClaimStep, ClaimSkips, ClaimReads, ClaimWrites, LeaseExpires, BackoffElapses,
                DeadlinePasses, vars
  <1>4. QED BY <1>1, <1>2, <1>3 DEF Next, CreditMove

\* However late an attempt is, a capture and a stored reply go together.
THEOREM NoChargeWithoutReply == Spec => []ReplyOrNoCharge
  <1>1. Init => ReplyOrNoCharge
    BY DEF Init, ReplyOrNoCharge
  <1>2. TypeOK /\ ReplyOrNoCharge /\ [Next]_vars => ReplyOrNoCharge'
    <2> SUFFICES ASSUME TypeOK, ReplyOrNoCharge, [Next]_vars, NEW r \in Refs
                 PROVE  reservation'[r] = "captured" <=> replies'[r] > 0
      BY DEF ReplyOrNoCharge
    <2>1. /\ reservation \in [Refs -> ReservationStatus] /\ replies \in [Refs -> 0..Twice]
          /\ reservation[r] = "captured" <=> replies[r] > 0
      BY DEF TypeOK, ReplyOrNoCharge
    <2>2. OneMore(replies[r]) > 0
      BY <2>1 DEF OneMore, Twice
    <2>3. QED
      BY <2>1, <2>2, CreditsMove DEF CreditMove, Reserve, Released, Captured
  <1>3. QED BY <1>1, <1>2, TypeCorrect, PTL DEF Spec

\* However late an attempt is, it cannot charge what was given back, nor give
\* back what was charged.
THEOREM HoldsSettledForGood == Spec => SettledHoldsStaySettled
  <1> DEFINE Stay == \A r \in Refs : reservation[r] \in {"captured", "released"} => reservation'[r] = reservation[r]
  <1>1. TypeOK /\ [Next]_vars => [Stay]_vars
    <2> SUFFICES ASSUME TypeOK, [Next]_vars, NEW r \in Refs, reservation[r] \in {"captured", "released"}
                 PROVE  reservation'[r] = reservation[r]
      OBVIOUS
    <2>1. reservation \in [Refs -> ReservationStatus]
      BY DEF TypeOK
    <2>2. QED BY <2>1, CreditsMove DEF CreditMove, Reserve, Released, Captured, Capturable
  <1>2. QED BY <1>1, TypeCorrect, PTL DEF Spec, SettledHoldsStaySettled

=============================================================================

----------------------------- MODULE SocialJobs -----------------------------
(***************************************************************************)
(* The social activities of characters (character-social/): a scheduler    *)
(* that queues an activity when the policy of a character is due, and      *)
(* workers that claim an activity with a lease token, act for the          *)
(* character in one transaction and retry what fails.                      *)
(*                                                                         *)
(* Every transaction is withActivityTransaction: it holds the advisory     *)
(* lock "character_social:<id>" to its end.  The short ones are one step;  *)
(* the one that acts is cut in two (ProcessReads, then its outcome),       *)
(* because the lease and the day may end while it runs.  What it has       *)
(* written is undone unless it commits.                                    *)
(***************************************************************************)
EXTENDS Integers, FiniteSets

CONSTANTS
  Characters, NoCharacter,
  Posts,         \* numbered in the order of created_at
  Author,        \* [Posts -> Characters]
  Interesting,   \* posts with a hashtag among the interests of each character
  Workers,       \* processes that run CharacterSocialWorker
  BatchSize, MaxAttempts, PostsPerRun, LikesToFollow,  \* characterSocialWorkerOptions
  MaxViews, MaxLikes, MaxFollows,  \* daily limits of every policy
  Performers,    \* characters that have a policy
  Restless,      \* bound of the model: characters whose circumstances change
  MaxJobs,       \* bound of the model: activities ever queued
  MaxDays,       \* bound of the model: days that pass
  MaxStops       \* bound of the model: crashes, restarts and failed ticks

ASSUME PostsAreNumbered == Posts \subseteq Nat /\ IsFiniteSet(Posts)
ASSUME CharactersFinite == IsFiniteSet(Characters) /\ NoCharacter \notin Characters
ASSUME AuthorType == Author \in [Posts -> Characters]
ASSUME InterestingType == Interesting \in [Characters -> SUBSET Posts]
ASSUME OptionsArePositive ==
  /\ BatchSize \in Nat \ {0} /\ MaxAttempts \in Nat \ {0}
  /\ PostsPerRun \in Nat \ {0} /\ LikesToFollow \in Nat \ {0}
ASSUME LimitsAreNatural == MaxViews \in Nat /\ MaxLikes \in Nat /\ MaxFollows \in Nat
ASSUME BoundsAreNatural ==
  /\ Performers \subseteq Characters /\ Restless \subseteq Characters
  /\ MaxJobs \in Nat /\ MaxDays \in Nat \ {0} /\ MaxStops \in Nat

VARIABLES
  job,       \* character_social_activity_jobs
  policy,    \* character_social_activity_policies, and what else decides if a character may act
  viewed,    \* character_post_views
  liked,     \* post_reactions of type like
  followed,  \* character_follows
  day,       \* today, in the time zone of the characters
  worker,    \* worker processes
  stops      \* how often a worker has been stopped

deeds == <<viewed, liked, followed>>
vars == <<job, policy, deeds, day, worker, stops>>

-----------------------------------------------------------------------------
(***************************************************************************)
(* Rows and records                                                        *)
(***************************************************************************)

\* The identity column numbers the rows.
Jobs == 1..MaxJobs
Days == 1..MaxDays

\* lease and ready say how processing_lease_expires_at and next_attempt_at
\* compare with the clock.  token names the random token of a claim by the
\* number of the claim; 0 is NULL.
Job == [status: {"none", "queued", "running", "completed", "failed", "cancelled"},
        character: Characters \cup {NoCharacter},
        attempts: 0..MaxAttempts,
        token: 0..MaxAttempts,
        lease: {"none", "live", "expired"},
        ready: BOOLEAN]

NoJob == [status |-> "none", character |-> NoCharacter, attempts |-> 0, token |-> 0,
          lease |-> "none", ready |-> FALSE]

QueuedJob(c) == [NoJob EXCEPT !.status = "queued", !.character = c, !.ready = TRUE]

\* due: next_activity_at has come.  circumstances: the character is active and
\* in its hours ("open") or out of them ("closed"), it is not active, or it has
\* no policy that is switched on.
Circumstances == {"open", "closed", "inactive", "disabled"}
Policy == [due: BOOLEAN, circumstances: Circumstances]

\* One row per viewer and post, per character and post, and per pair of
\* characters (their primary keys and unique indexes), with the day it was made;
\* 0 is no row.
Views == [Characters -> [Posts -> 0..MaxDays]]
Likes == [Characters -> [Posts -> 0..MaxDays]]
Follows == [Characters -> [Characters -> 0..MaxDays]]

\* What claimNext hands to processClaimedActivity.
Claim == [job: 0..MaxJobs, token: 0..MaxAttempts]
NoClaim == [job |-> 0, token |-> 0]

\* A worker waits for its timer, schedules the characters it has listed, looks
\* for work ("looping"), tries the candidates it has listed, has a claim, is in
\* the transaction that acts, or is about to record that it failed.
Worker == [pc: {"waiting", "scheduling", "looping", "claiming", "claimed", "acting", "failing"},
           due: SUBSET Characters,
           todo: SUBSET Jobs,
           claim: Claim,
           day: 0..MaxDays,
           processed: 0..BatchSize]

Waiting == [pc |-> "waiting", due |-> {}, todo |-> {}, claim |-> NoClaim, day |-> 0, processed |-> 0]

Active(j) == job[j].status \in {"queued", "running"}
Created == {j \in Jobs : job[j].status # "none"}
CharacterOf(w) == job[worker[w].claim.job].character

\* The transaction that acts is open: what it has written is seen by nobody.
InTransaction(w) == worker[w].pc = "acting"

\* It holds the advisory lock of its character.
Locked(c) == \E w \in Workers : InTransaction(w) /\ CharacterOf(w) = c

CanAct(c) == policy[c].circumstances = "open"
ActiveCharacter(c) == policy[c].circumstances # "inactive"

\* ORDER BY ... LIMIT n over rows whose order is not modelled.
Limited(S, n) == {T \in SUBSET S : Cardinality(T) <= n /\ (T = S \/ Cardinality(T) = n)}

-----------------------------------------------------------------------------
(***************************************************************************)
(* scheduleDueActivities: list outside of any transaction, then one        *)
(* transaction per character that looks again                              *)
(***************************************************************************)

Due(c) == policy[c].due /\ policy[c].circumstances # "disabled"

\* findDueCharacterIds.
ListDue(w) ==
  /\ worker[w].pc = "waiting"
  /\ \E S \in Limited({c \in Characters : Due(c)}, BatchSize) :
       worker' = [worker EXCEPT ![w] = [Waiting EXCEPT !.pc = IF S = {} THEN "looping" ELSE "scheduling",
                                                       !.due = S]]
  /\ UNCHANGED <<job, policy, deeds, day, stops>>

\* Mutant: no unique index over the active activity of a character.
InsertableAlways(c) == TRUE

\* INSERT ... ON CONFLICT DO NOTHING over character_social_activity_jobs_active_character_key.
Insertable(c) == ~\E j \in Jobs : Active(j) /\ job[j].character = c

Inserted(c) == [job EXCEPT ![Cardinality(Created) + 1] = QueuedJob(c)]

\* advance: the next activity is an interval away, whatever becomes of this one.
Advance(c) == [policy EXCEPT ![c].due = FALSE]

\* lockDue finds the policy still due; advance; canAct; schedule.
Schedule(w, c) ==
  /\ worker[w].pc = "scheduling"
  /\ c \in worker[w].due
  /\ ~Locked(c)
  /\ policy' = IF Due(c) THEN Advance(c) ELSE policy
  /\ job' = IF Due(c) /\ CanAct(c) /\ Insertable(c) /\ Created # Jobs THEN Inserted(c) ELSE job
  /\ worker' = [worker EXCEPT ![w] =
       [@ EXCEPT !.due = worker[w].due \ {c},
                 !.pc = IF worker[w].due = {c} THEN "looping" ELSE "scheduling"]]
  /\ UNCHANGED <<deeds, day, stops>>

-----------------------------------------------------------------------------
(***************************************************************************)
(* claimNext: the same for jobs, until one is claimed                      *)
(***************************************************************************)

\* Mutant: nobody takes over from a worker whose lease has ended.
EligibleQueued(j) == job[j].status = "queued" /\ job[j].ready

Eligible(j) ==
  \/ job[j].status = "queued" /\ job[j].ready
  \/ job[j].status = "running" /\ job[j].lease = "expired"

\* Mutant: one attempt too many.
ExhaustedLate(j) == job[j].attempts > MaxAttempts

Exhausted(j) == job[j].attempts >= MaxAttempts

\* findClaimCandidates, while the loop of runOnce has a turn left.
ListCandidates(w) ==
  /\ worker[w].pc = "looping"
  /\ \E S \in Limited({j \in Jobs : Eligible(j)}, BatchSize) :
       worker' = [worker EXCEPT ![w] =
         IF S = {} \/ worker[w].processed = BatchSize THEN Waiting
         ELSE [@ EXCEPT !.pc = "claiming", !.todo = S]]
  /\ UNCHANGED <<job, policy, deeds, day, stops>>

\* The loop of claimNext goes on; after its last candidate runOnce ends.
NextCandidate(w, j) ==
  worker' = [worker EXCEPT ![w] =
    IF worker[w].todo = {j} THEN Waiting ELSE [@ EXCEPT !.todo = worker[w].todo \ {j}]]

ClaimSkips(w, j) ==
  /\ worker[w].pc = "claiming"
  /\ j \in worker[w].todo
  /\ ~Locked(job[j].character)
  /\ ~Eligible(j)
  /\ NextCandidate(w, j)
  /\ UNCHANGED <<job, policy, deeds, day, stops>>

\* A row in its final status has no lease.
Closed(j, status) ==
  [job EXCEPT ![j] = [@ EXCEPT !.status = status, !.token = 0, !.lease = "none", !.ready = FALSE]]

\* markAttemptsExhausted.
ClaimExhausts(w, j) ==
  /\ worker[w].pc = "claiming"
  /\ j \in worker[w].todo
  /\ ~Locked(job[j].character)
  /\ Eligible(j)
  /\ Exhausted(j)
  /\ job' = Closed(j, "failed")
  /\ NextCandidate(w, j)
  /\ UNCHANGED <<policy, deeds, day, stops>>

\* assignLease.
Leased(j) ==
  [job EXCEPT ![j] = [@ EXCEPT !.status = "running", !.attempts = job[j].attempts + 1,
                               !.token = job[j].attempts + 1, !.lease = "live", !.ready = FALSE]]

ClaimTakes(w, j) ==
  /\ worker[w].pc = "claiming"
  /\ j \in worker[w].todo
  /\ ~Locked(job[j].character)
  /\ Eligible(j)
  /\ ~Exhausted(j)
  /\ job' = Leased(j)
  /\ worker' = [worker EXCEPT ![w] = [@ EXCEPT !.pc = "claimed", !.todo = {},
                                               !.claim = [job |-> j, token |-> job[j].attempts + 1]]]
  /\ UNCHANGED <<policy, deeds, day, stops>>

-----------------------------------------------------------------------------
(***************************************************************************)
(* processClaimedActivity                                                  *)
(***************************************************************************)

\* Mutant: the token is not compared.
LiveLeaseOfAny(w) ==
  LET row == job[worker[w].claim.job]
  IN row.status = "running" /\ row.lease = "live"

\* The WHERE of hasLiveLease, finish and fail.
LiveLease(w) ==
  LET row == job[worker[w].claim.job]
  IN row.status = "running" /\ row.token = worker[w].claim.token /\ row.lease = "live"

\* processNextActivity is over, one way or another; runOnce counts it.
Processed(w) ==
  [worker EXCEPT ![w] = [Waiting EXCEPT !.pc = "looping", !.processed = worker[w].processed + 1]]

\* The lock, hasLiveLease, the policy, its context and now.
ProcessReads(w) ==
  /\ worker[w].pc = "claimed"
  /\ ~Locked(CharacterOf(w))
  /\ LiveLease(w)
  /\ CanAct(CharacterOf(w))
  /\ worker' = [worker EXCEPT ![w] = [@ EXCEPT !.pc = "acting", !.day = day]]
  /\ UNCHANGED <<job, policy, deeds, day, stops>>

\* hasLiveLease says no: nothing is done and nothing is thrown.
ProcessTooLate(w) ==
  /\ worker[w].pc = "claimed"
  /\ ~Locked(CharacterOf(w))
  /\ ~LiveLease(w)
  /\ worker' = Processed(w)
  /\ UNCHANGED <<job, policy, deeds, day, stops>>

\* If the lease ends before cancel() it is ProcessTooLate.
ProcessCancels(w) ==
  /\ worker[w].pc = "claimed"
  /\ ~Locked(CharacterOf(w))
  /\ LiveLease(w)
  /\ ~CanAct(CharacterOf(w))
  /\ job' = Closed(worker[w].claim.job, "cancelled")
  /\ worker' = Processed(w)
  /\ UNCHANGED <<policy, deeds, day, stops>>

Least(m, n) == IF m < n THEN m ELSE n

On(log, d) == {x \in DOMAIN log : log[x] = d}
Ever(log) == {x \in DOMAIN log : log[x] # 0}
Logged(log, S, d) == [x \in DOMAIN log |-> IF x \in S THEN d ELSE log[x]]

UsedViews(c, d) == Cardinality(On(viewed[c], d))
UsedLikes(c, d) == Cardinality(On(liked[c], d))
UsedFollows(c, d) == Cardinality(On(followed[c], d))

\* Mutant: what was used today is not deducted.
FullAllowance(limit, used) == limit

\* remainingAllowances.
Allowance(limit, used) == IF used < limit THEN limit - used ELSE 0

\* findSocialCandidates, newest first.
Candidates(c) == {p \in Interesting[c] : Author[p] # c /\ ActiveCharacter(Author[p]) /\ viewed[c][p] = 0}
Newest(S, n) == {p \in S : Cardinality({q \in S : q > p}) < n}

PostsToView(c, d) == Newest(Candidates(c), Least(PostsPerRun, Allowance(MaxViews, UsedViews(c, d))))

\* likeViewedPosts: the dice, then slice.
PostsToLike(c, d) ==
  {L \in SUBSET PostsToView(c, d) : Cardinality(L) <= Allowance(MaxLikes, UsedLikes(c, d))}

\* findLikedAuthorCounts, which sees the likes L of its own transaction.
LikedOf(c, e, L) == {p \in Ever(liked[c]) \cup L : Author[p] = e}

QualifiedAuthors(c, L) ==
  {e \in Characters \ {c} : /\ Cardinality(LikedOf(c, e, L)) >= LikesToFollow
                            /\ ActiveCharacter(e)
                            /\ followed[c][e] = 0}

\* followQualifiedAuthors.
AuthorsToFollow(c, d, L) == Limited(QualifiedAuthors(c, L), Allowance(MaxFollows, UsedFollows(c, d)))

\* Everything up to complete(), and the commit.
ProcessCompletes(w) ==
  LET c == CharacterOf(w)
      d == worker[w].day
  IN /\ InTransaction(w)
     /\ LiveLease(w)
     /\ viewed' = [viewed EXCEPT ![c] = Logged(@, PostsToView(c, d), d)]
     /\ \E L \in PostsToLike(c, d) :
          /\ liked' = [liked EXCEPT ![c] = Logged(@, L, d)]
          /\ \E F \in AuthorsToFollow(c, d, L) : followed' = [followed EXCEPT ![c] = Logged(@, F, d)]
     /\ job' = Closed(worker[w].claim.job, "completed")
     /\ worker' = Processed(w)
     /\ UNCHANGED <<policy, day, stops>>

\* complete() says no, or a statement fails: the transaction is rolled back.
ProcessThrows(w) ==
  /\ \/ InTransaction(w)
     \/ worker[w].pc = "claimed" /\ ~Locked(CharacterOf(w))
  /\ worker' = [worker EXCEPT ![w] = [@ EXCEPT !.pc = "failing", !.day = 0]]
  /\ UNCHANGED <<job, policy, deeds, day, stops>>

-----------------------------------------------------------------------------
(***************************************************************************)
(* failJob                                                                 *)
(***************************************************************************)

Requeued(j) ==
  [job EXCEPT ![j] = [@ EXCEPT !.status = "queued", !.token = 0, !.lease = "none", !.ready = FALSE]]

\* Terminal by the count of the claim, not of the row.
FailJob(w) ==
  /\ worker[w].pc = "failing"
  /\ ~Locked(CharacterOf(w))
  /\ LiveLease(w)
  /\ job' = IF worker[w].claim.token >= MaxAttempts
            THEN Closed(worker[w].claim.job, "failed")
            ELSE Requeued(worker[w].claim.job)
  /\ worker' = Processed(w)
  /\ UNCHANGED <<policy, deeds, day, stops>>

\* The lease has ended, or failJob throws itself: the row is left to its lease.
FailJobDoesNothing(w) ==
  /\ worker[w].pc = "failing"
  /\ worker' = Processed(w)
  /\ UNCHANGED <<job, policy, deeds, day, stops>>

\* The process ends, or something throws that only the timer catches.
WorkerStops(w) ==
  /\ worker[w] # Waiting
  /\ stops < MaxStops
  /\ stops' = stops + 1
  /\ worker' = [worker EXCEPT ![w] = Waiting]
  /\ UNCHANGED <<job, policy, deeds, day>>

-----------------------------------------------------------------------------
(***************************************************************************)
(* Time, and the administration of characters (opod-admin)                 *)
(***************************************************************************)

LeaseEnds(j) ==
  /\ job[j].lease = "live"
  /\ job' = [job EXCEPT ![j].lease = "expired"]
  /\ UNCHANGED <<policy, deeds, day, worker, stops>>

BackoffElapses(j) ==
  /\ job[j].status = "queued"
  /\ ~job[j].ready
  /\ job' = [job EXCEPT ![j].ready = TRUE]
  /\ UNCHANGED <<policy, deeds, day, worker, stops>>

\* Not more often than there are jobs left to queue.
PolicyComesDue(c) ==
  /\ c \in Performers
  /\ ~policy[c].due
  /\ Cardinality(Created) + Cardinality({e \in Characters : policy[e].due}) < MaxJobs
  /\ policy' = [policy EXCEPT ![c].due = TRUE]
  /\ UNCHANGED <<job, deeds, day, worker, stops>>

DayEnds ==
  /\ day < MaxDays
  /\ day' = day + 1
  /\ UNCHANGED <<job, policy, deeds, worker, stops>>

\* Hours begin and end, characters are activated and retired, policies are
\* switched on and off, but not while findForExecution has the policy locked.
CircumstancesChange(c) ==
  /\ c \in Restless
  /\ \E s \in Circumstances :
       /\ Locked(c) => "disabled" \notin {s, policy[c].circumstances}
       /\ policy' = [policy EXCEPT ![c].circumstances = s]
  /\ UNCHANGED <<job, deeds, day, worker, stops>>

-----------------------------------------------------------------------------
Init ==
  /\ job = [j \in Jobs |-> NoJob]
  /\ policy = [c \in Characters |->
                 [due |-> FALSE, circumstances |-> IF c \in Performers THEN "open" ELSE "disabled"]]
  /\ viewed = [c \in Characters |-> [p \in Posts |-> 0]]
  /\ liked = [c \in Characters |-> [p \in Posts |-> 0]]
  /\ followed = [c \in Characters |-> [e \in Characters |-> 0]]
  /\ day = 1
  /\ worker = [w \in Workers |-> Waiting]
  /\ stops = 0

Process(w) ==
  \/ ProcessReads(w) \/ ProcessTooLate(w) \/ ProcessCancels(w)
  \/ ProcessCompletes(w) \/ ProcessThrows(w)
  \/ FailJob(w) \/ FailJobDoesNothing(w)

RunOnce(w) ==
  \/ ListDue(w) \/ ListCandidates(w) \/ Process(w)
  \/ \E c \in Characters : Schedule(w, c)
  \/ \E j \in Jobs : ClaimSkips(w, j) \/ ClaimExhausts(w, j) \/ ClaimTakes(w, j)

Next ==
  \/ \E w \in Workers : RunOnce(w) \/ WorkerStops(w)
  \/ \E j \in Jobs : LeaseEnds(j) \/ BackoffElapses(j)
  \/ \E c \in Characters : PolicyComesDue(c) \/ CircumstancesChange(c)
  \/ DayEnds

Spec == Init /\ [][Next]_vars

\* The timer of a worker always arms itself again (scheduleTick), a transaction
\* ends, and time passes.
Fairness ==
  /\ \A w \in Workers : WF_vars(RunOnce(w))
  /\ \A j \in Jobs : WF_vars(LeaseEnds(j)) /\ WF_vars(BackoffElapses(j))

FairSpec == Spec /\ Fairness

-----------------------------------------------------------------------------
(***************************************************************************)
(* Properties                                                              *)
(***************************************************************************)

\* The type of every row and record; a row has a token and a lease exactly
\* while it runs (character_social_activity_jobs_lease_check), and attempts
\* stay within their limit although a claim after a crash counts none.
SocialTypeOK ==
  /\ job \in [Jobs -> Job]
  /\ policy \in [Characters -> Policy]
  /\ viewed \in Views
  /\ liked \in Likes
  /\ followed \in Follows
  /\ day \in Days
  /\ worker \in [Workers -> Worker]
  /\ stops \in 0..MaxStops
  /\ \A j \in Jobs : /\ job[j].status = "running" <=> job[j].token # 0
                     /\ job[j].status = "running" <=> job[j].lease # "none"

\* While the lease of an activity lives, nobody settles, retries or takes over
\* the activity but the worker that has its token: not a worker whose own lease
\* on it has ended, and not the scheduler.
LiveLeaseIsRespected ==
  [][\A j \in Jobs :
       job[j].lease = "live" /\ job'[j].token # job[j].token =>
         \E w \in Workers : /\ worker[w].claim = [job |-> j, token |-> job[j].token]
                            /\ worker'[w].claim # worker[w].claim]_vars

Outcome(status) ==
  CASE status = "none" -> "none"
    [] status \in {"queued", "running"} -> "open"
    [] status = "completed" -> "acted"
    [] OTHER -> "dropped"

Promise == INSTANCE ActivityPromise WITH
  Activities <- Jobs,
  state <- [j \in Jobs |-> Outcome(job[j].status)],
  actor <- [j \in Jobs |-> job[j].character]

\* The job queue implements ActivityPromise: one open activity per character;
\* however often an activity is claimed, repeated or rolled back, its character
\* acts at most once for it, in the step that completes it, and within the
\* limits of the day it acts on.
KeepsPromise == Promise!PromiseSpec

\* An activity that is queued ends, whether or not workers die with it.
JobsSettle == \A j \in Jobs : Active(j) ~> ~Active(j)

=============================================================================

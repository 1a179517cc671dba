------------------------------ MODULE ReplyJobs ------------------------------
(***************************************************************************)
(* The direct-message reply pipeline: POST /messages and the retry of a    *)
(* turn (messages.service.ts), and the worker that claims stored reply     *)
(* jobs, calls the agent and settles the result                            *)
(* (message-reply.worker.ts).  One user message is one turn, and one turn  *)
(* has one reply job.                                                      *)
(*                                                                         *)
(* Every transaction of the code is one step; everything the code does     *)
(* between two transactions can be interleaved, including the read and the *)
(* write of a claim, which the row lock does not tie together.  Clocks are *)
(* abstracted to the events they cause: a lease that ends, a back-off that *)
(* elapses, a deadline that passes.                                        *)
(***************************************************************************)
EXTENDS Naturals, FiniteSets

CONSTANTS
  Conversations,   \* rows of chat_conversations
  Turns,           \* user messages; each has at most one reply job
  ConversationOf,  \* the conversation of each turn
  Refs,            \* reservation references that calls may create
  NoRef, NoTurn,   \* "null"
  Requests,        \* HTTP calls that may be in flight at the same time
  Workers,         \* service processes that run the worker
  MaxAttempts,     \* MESSAGE_REPLY_MAX_ATTEMPTS
  Concurrency,     \* MESSAGE_REPLY_CONCURRENCY
  LateAttempts,    \* may a lease end while the attempt it covers still runs?
  MaxStops         \* bound of the model: crashes and failed statements

ASSUME ConversationOfType == ConversationOf \in [Turns -> Conversations]
ASSUME NullsAreNull == NoRef \notin Refs /\ NoTurn \notin Turns
ASSUME AttemptsAssumption == MaxAttempts \in Nat \ {0} /\ Concurrency \in Nat \ {0}
ASSUME LateAttemptsType == LateAttempts \in BOOLEAN
ASSUME MaxStopsType == MaxStops \in Nat

VARIABLES
  job,          \* reply job of each turn
  ahead,        \* ahead[t]: the turns whose readyAt is before that of t
  passed,       \* deadlines that have passed, named by the run that set them
  reservation,  \* status of each credit reservation
  replies,      \* character messages stored in exchange for each reservation
  request,      \* HTTP calls in flight
  worker,       \* the worker of each process
  lost,         \* history: reservations whose call died before using them
  stops         \* crashes and failed statements so far

vars == <<job, ahead, passed, reservation, replies, request, worker, lost, stops>>

-----------------------------------------------------------------------------
(***************************************************************************)
(* Rows and records                                                        *)
(***************************************************************************)

\* A deadline is named by the reservation of the run that stamped it; a lease
\* is not set, in the future, or in the past.
Job == [status: {"none", "queued", "running", "completed", "failed"},
        ref: Refs \cup {NoRef},
        attempts: 0..MaxAttempts,
        lease: {"none", "live", "expired"},
        ready: BOOLEAN,
        deadline: Refs \cup {NoRef}]

NoJob == [status |-> "none", ref |-> NoRef, attempts |-> 0, lease |-> "none",
          ready |-> FALSE, deadline |-> NoRef]

\* A fresh run of a job: what sendMessage inserts and retryReply resets to.
QueuedRun(r) == [status |-> "queued", ref |-> r, attempts |-> 0, lease |-> "none",
                 ready |-> TRUE, deadline |-> NoRef]

ReservationStatus == {"none", "reserved", "captured", "released"}

\* A call: "sending" and "retrying" hold a reservation no job uses yet,
\* "checked" has seen a failed job, "undoing" is about to give back its hold.
Request == [pc: {"idle", "sending", "checked", "retrying", "undoing"},
            turn: Turns \cup {NoTurn},
            ref: Refs \cup {NoRef}]

Idle == [pc |-> "idle", turn |-> NoTurn, ref |-> NoRef]

\* ClaimedJob: what claim() copied from the row, and how far process() got.
Attempt == [turn: Turns, ref: Refs \cup {NoRef}, count: 0..MaxAttempts,
            deadline: Refs \cup {NoRef}, stage: {"claimed", "calling"}]

\* A worker waits for its tick or for the attempts of the last one
\* ("waiting"), walks the candidates ("claiming"), or is between the read and
\* the write of one claim ("writing").
Worker == [pc: {"waiting", "claiming", "writing"},
           todo: SUBSET Turns,
           claim: Turns \cup {NoTurn},
           read: Refs \cup {NoRef},
           attempts: SUBSET Attempt]

Waiting == [pc |-> "waiting", todo |-> {}, claim |-> NoTurn, read |-> NoRef, attempts |-> {}]

Pending(t) == job[t].status \in {"queued", "running"}

\* Mutant: attempts are counted on for ever.
NextAttemptUncapped(n) == n + 1

\* attemptCount is only ever compared with MaxAttempts, so it stops there.
NextAttempt(n) == IF n < MaxAttempts THEN n + 1 ELSE n

\* More than one stored reply is all that the properties tell apart.
Twice == 2
OneMore(n) == IF n < Twice THEN n + 1 ELSE n

InFlight(t) == {a \in UNION {worker[w].attempts : w \in Workers} : a.turn = t}

\* t takes the place of a row whose readyAt is now: after every row that is
\* ready, before every row that is still backing off.
LinedUp(t) == [u \in Turns |->
    CASE u = t -> {v \in Turns \ {t} : job[v].status # "none" /\ job[v].ready}
      [] u # t /\ job[u].status # "none" /\ ~job[u].ready -> ahead[u] \cup {t}
      [] OTHER -> ahead[u] \ {t}]

\* t takes the place of a row whose readyAt is a back-off from now.
PutBack(t) == [u \in Turns |->
    IF u = t THEN {v \in Turns \ {t} : job[v].status # "none"} ELSE ahead[u] \ {t}]

-----------------------------------------------------------------------------
(***************************************************************************)
(* Credit reservations (the part of CreditsService the pipeline calls)     *)
(***************************************************************************)

\* Mutant: a reference that is not random finds its own earlier reservation.
ReserveAgain(r) ==
  /\ reservation[r] \in {"none", "reserved"}
  /\ reservation' = [reservation EXCEPT ![r] = "reserved"]

\* reserveCredits with a random reference and no expiry; a refusal for want of
\* credits changes nothing and is the caller's business.
Reserve(r) ==
  /\ reservation[r] = "none"
  /\ reservation' = [reservation EXCEPT ![r] = "reserved"]

\* Mutant: release does not look at the status of the reservation.
ReleasedAnyway(r) == [reservation EXCEPT ![r] = "released"]

\* releaseReservationInTx: only a reserved row changes.
Released(r) == [reservation EXCEPT ![r] = IF @ = "reserved" THEN "released" ELSE @]

\* Mutant: the capture is left to somebody else.
NotCaptured(r) == reservation

\* captureReservationInTx throws for a released row and leaves a captured one.
Capturable(r) == reservation[r] \in {"reserved", "captured"}
Captured(r) == [reservation EXCEPT ![r] = "captured"]

-----------------------------------------------------------------------------
(***************************************************************************)
(* sendMessage: reserve in one transaction, then conversation, message and *)
(* job in another                                                          *)
(***************************************************************************)

\* The name of the turn the call will create is chosen when the call starts.
SendReserves(q, t, r) ==
  /\ request[q] = Idle
  /\ job[t].status = "none"
  /\ \A p \in Requests : request[p].turn # t
  /\ Reserve(r)
  /\ request' = [request EXCEPT ![q] = [pc |-> "sending", turn |-> t, ref |-> r]]
  /\ UNCHANGED <<job, ahead, passed, replies, worker, lost, stops>>

SendCommits(q, t) ==
  /\ request[q].pc = "sending"
  /\ request[q].turn = t
  /\ job' = [job EXCEPT ![t] = QueuedRun(request[q].ref)]
  /\ ahead' = LinedUp(t)
  /\ request' = [request EXCEPT ![q] = Idle]
  /\ UNCHANGED <<passed, reservation, replies, worker, lost, stops>>

\* The second transaction throws and the catch block is entered.
SendFails(q) ==
  /\ request[q].pc = "sending"
  /\ request' = [request EXCEPT ![q].pc = "undoing"]
  /\ UNCHANGED <<job, ahead, passed, reservation, replies, worker, lost, stops>>

-----------------------------------------------------------------------------
(***************************************************************************)
(* retryReply: read the job, reserve, then one guarded UPDATE              *)
(***************************************************************************)

RetryReads(q, t) ==
  /\ request[q] = Idle
  /\ job[t].status = "failed"
  /\ request' = [request EXCEPT ![q] = [pc |-> "checked", turn |-> t, ref |-> NoRef]]
  /\ UNCHANGED <<job, ahead, passed, reservation, replies, worker, lost, stops>>

RetryReserves(q, r) ==
  /\ request[q].pc = "checked"
  /\ Reserve(r)
  /\ request' = [request EXCEPT ![q] = [pc |-> "retrying", turn |-> request[q].turn, ref |-> r]]
  /\ UNCHANGED <<job, ahead, passed, replies, worker, lost, stops>>

\* reserveCredits throws InsufficientCreditsException.
RetryRefused(q) ==
  /\ request[q].pc = "checked"
  /\ request' = [request EXCEPT ![q] = Idle]
  /\ UNCHANGED <<job, ahead, passed, reservation, replies, worker, lost, stops>>

\* Mutant: the UPDATE does not write the new reference.
RetryKeepsOldRef(q, t) ==
  /\ request[q].pc = "retrying"
  /\ request[q].turn = t
  /\ job[t].status = "failed"
  /\ job' = [job EXCEPT ![t] = QueuedRun(job[t].ref)]
  /\ ahead' = LinedUp(t)
  /\ request' = [request EXCEPT ![q] = Idle]
  /\ UNCHANGED <<passed, reservation, replies, worker, lost, stops>>

RetryRequeues(q, t) ==
  /\ request[q].pc = "retrying"
  /\ request[q].turn = t
  /\ job[t].status = "failed"
  /\ job' = [job EXCEPT ![t] = QueuedRun(request[q].ref)]
  /\ ahead' = LinedUp(t)
  /\ request' = [request EXCEPT ![q] = Idle]
  /\ UNCHANGED <<passed, reservation, replies, worker, lost, stops>>

\* The UPDATE matched no row: another retry was first.
RetryLosesRace(q, t) ==
  /\ request[q].pc = "retrying"
  /\ request[q].turn = t
  /\ job[t].status # "failed"
  /\ request' = [request EXCEPT ![q].pc = "undoing"]
  /\ UNCHANGED <<job, ahead, passed, reservation, replies, worker, lost, stops>>

\* Mutant: the compensation forgets the release.
RequestForgets(q) ==
  /\ request[q].pc = "undoing"
  /\ request' = [request EXCEPT ![q] = Idle]
  /\ UNCHANGED <<job, ahead, passed, reservation, replies, worker, lost, stops>>

\* releaseReservation of the compensation.
RequestUndoes(q) ==
  /\ request[q].pc = "undoing"
  /\ reservation' = Released(request[q].ref)
  /\ request' = [request EXCEPT ![q] = Idle]
  /\ UNCHANGED <<job, ahead, passed, replies, worker, lost, stops>>

\* The process dies, the compensating release fails (its error is swallowed),
\* or the UPDATE of retryReply throws (nothing catches it): the call ends and
\* nothing gives its reservation back.
RequestDies(q) ==
  /\ request[q].pc \in {"sending", "retrying", "undoing"}
  /\ stops < MaxStops
  /\ stops' = stops + 1
  /\ lost' = lost \cup {request[q].ref}
  /\ request' = [request EXCEPT ![q] = Idle]
  /\ UNCHANGED <<job, ahead, passed, reservation, replies, worker>>

-----------------------------------------------------------------------------
(***************************************************************************)
(* The worker's tick: list candidates, claim them one by one, process all  *)
(***************************************************************************)

\* Mutants: nobody takes over a lease that ended; nobody looks at the lease.
ClaimableQueuedOnly(t) == job[t].status = "queued" /\ job[t].ready
ClaimableWithoutLease(t) ==
  \/ job[t].status = "queued" /\ job[t].ready
  \/ job[t].status = "running"

\* queued and due, or running with a lease that has ended.
Claimable(t) ==
  \/ job[t].status = "queued" /\ job[t].ready
  \/ job[t].status = "running" /\ job[t].lease = "expired"

\* The LIMIT of the query, then the first row of each conversation, then as
\* many of those as one tick may process.
Window == {t \in Turns : /\ Claimable(t)
                         /\ Cardinality({u \in ahead[t] : Claimable(u)}) < 4 * Concurrency}
FirstPerConversation ==
  {t \in Window : ~\E u \in Window \cap ahead[t] : ConversationOf[u] = ConversationOf[t]}
Candidates ==
  {t \in FirstPerConversation : Cardinality(FirstPerConversation \cap ahead[t]) < Concurrency}

\* The next tick is scheduled when every attempt of the last one has settled.
FindClaimable(w) ==
  /\ worker[w].pc = "waiting"
  /\ worker[w].attempts = {}
  /\ Candidates # {}
  /\ worker' = [worker EXCEPT ![w] = [@ EXCEPT !.pc = "claiming", !.todo = Candidates]]
  /\ UNCHANGED <<job, ahead, passed, reservation, replies, request, lost, stops>>

\* pg_try_advisory_xact_lock of the conversation is held by a claim in progress.
Locked(c) ==
  \E w \in Workers : worker[w].pc = "writing" /\ ConversationOf[worker[w].claim] = c

\* Mutants: no advisory lock; no second look at the row the query listed.
MayClaimUnlocked(t) ==
  /\ Claimable(t)
  /\ ~\E u \in Turns \ {t} : /\ ConversationOf[u] = ConversationOf[t]
                             /\ job[u].status = "running"
                             /\ job[u].lease = "live"
MayClaimAsListed(t) ==
  /\ ~Locked(ConversationOf[t])
  /\ ~\E u \in Turns : /\ ConversationOf[u] = ConversationOf[t]
                       /\ job[u].status = "running"
                       /\ job[u].lease = "live"

MayClaim(t) ==
  /\ ~Locked(ConversationOf[t])
  /\ Claimable(t)
  /\ ~\E u \in Turns \ {t} : /\ ConversationOf[u] = ConversationOf[t]
                             /\ job[u].status = "running"
                             /\ job[u].lease = "live"

\* The candidate is done with; the loop ends with the last one.
Advanced(w, t) ==
  [worker[w] EXCEPT !.pc = IF worker[w].todo = {t} THEN "waiting" ELSE "claiming",
                    !.todo = @ \ {t}, !.claim = NoTurn, !.read = NoRef]

ClaimSkips(w, t) ==
  /\ worker[w].pc = "claiming"
  /\ t \in worker[w].todo
  /\ ~MayClaim(t)
  /\ worker' = [worker EXCEPT ![w] = Advanced(w, t)]
  /\ UNCHANGED <<job, ahead, passed, reservation, replies, request, lost, stops>>

\* The SELECTs of claim(): lock taken, row read, checks passed.
ClaimReads(w, t) ==
  /\ worker[w].pc = "claiming"
  /\ t \in worker[w].todo
  /\ MayClaim(t)
  /\ worker' = [worker EXCEPT ![w] = [@ EXCEPT !.pc = "writing", !.claim = t,
                                              !.read = job[t].deadline]]
  /\ UNCHANGED <<job, ahead, passed, reservation, replies, request, lost, stops>>

\* The UPDATE of claim(): its WHERE names the row only, not the status that was
\* read.  The deadline comes from the row as read, the reference and the count
\* from the row as written.
ClaimWrites(w, t) ==
  LET deadline == IF worker[w].read # NoRef THEN worker[w].read ELSE job[t].ref
      count == NextAttempt(job[t].attempts)
  IN /\ worker[w].pc = "writing"
     /\ worker[w].claim = t
     /\ job' = [job EXCEPT ![t] = [@ EXCEPT !.status = "running", !.attempts = count,
                                           !.lease = "live", !.deadline = deadline]]
     /\ worker' = [worker EXCEPT ![w] =
          [Advanced(w, t) EXCEPT !.attempts = @ \cup
             {[turn |-> t, ref |-> job[t].ref, count |-> count,
               deadline |-> deadline, stage |-> "claimed"]}]]
     /\ UNCHANGED <<ahead, passed, reservation, replies, request, lost, stops>>

\* The process dies, or a statement of the claim loop throws: runOnce rejects,
\* and the jobs it had claimed are left to their leases.
WorkerStops(w) ==
  /\ worker[w] # Waiting
  /\ stops < MaxStops
  /\ stops' = stops + 1
  /\ worker' = [worker EXCEPT ![w] = Waiting]
  /\ UNCHANGED <<job, ahead, passed, reservation, replies, request, lost>>

-----------------------------------------------------------------------------
(***************************************************************************)
(* process(): the attempts of a tick run concurrently                      *)
(***************************************************************************)

\* Attempt a of worker w is being processed: the claim loop is over.
Processing(w, a) == worker[w].pc = "waiting" /\ a \in worker[w].attempts

Settled(w, a) == [worker EXCEPT ![w].attempts = @ \ {a}]

\* The deadline is checked once, before the agent is called.
CallAgent(w, a) ==
  /\ Processing(w, a)
  /\ a.stage = "claimed"
  /\ a.deadline \notin passed
  /\ worker' = [worker EXCEPT ![w].attempts = (@ \ {a}) \cup {[a EXCEPT !.stage = "calling"]}]
  /\ UNCHANGED <<job, ahead, passed, reservation, replies, request, lost, stops>>

\* Mutant: the transaction survives a capture that throws.
CompleteUncharged(w, a) ==
  /\ Processing(w, a)
  /\ a.stage = "calling"
  /\ job[a.turn].status = "running"
  /\ job' = [job EXCEPT ![a.turn] = [@ EXCEPT !.status = "completed", !.lease = "none"]]
  /\ replies' = [replies EXCEPT ![a.ref] = OneMore(@)]
  /\ reservation' = IF Capturable(a.ref) THEN Captured(a.ref) ELSE reservation
  /\ worker' = Settled(w, a)
  /\ UNCHANGED <<ahead, passed, request, lost, stops>>

\* complete(): close the job if it is still running, store the reply and
\* capture the reservation of the claim, all in one transaction.
CompleteReply(w, a) ==
  /\ Processing(w, a)
  /\ a.stage = "calling"
  /\ job[a.turn].status = "running"
  /\ Capturable(a.ref)
  /\ job' = [job EXCEPT ![a.turn] = [@ EXCEPT !.status = "completed", !.lease = "none"]]
  /\ replies' = [replies EXCEPT ![a.ref] = OneMore(@)]
  /\ reservation' = Captured(a.ref)
  /\ worker' = Settled(w, a)
  /\ UNCHANGED <<ahead, passed, request, lost, stops>>

\* Whatever the attempt came to, the job is not running any more: the guarded
\* UPDATE of complete(), handleFailure() or finalizeFailure() matches no row.
AttemptTooLate(w, a) ==
  /\ Processing(w, a)
  /\ a.stage = "claimed" => a.deadline \in passed
  /\ job[a.turn].status # "running"
  /\ worker' = Settled(w, a)
  /\ UNCHANGED <<job, ahead, passed, reservation, replies, request, lost, stops>>

\* Mutant: the failed job keeps its reservation.
FinalizeWithoutRelease(w, a) ==
  /\ Processing(w, a)
  /\ a.stage = "claimed" => a.deadline \in passed
  /\ job[a.turn].status = "running"
  /\ job' = [job EXCEPT ![a.turn] = [@ EXCEPT !.status = "failed", !.lease = "none"]]
  /\ worker' = Settled(w, a)
  /\ UNCHANGED <<ahead, passed, reservation, replies, request, lost, stops>>

\* finalizeFailure(): close the job and give back the reservation of the claim.
\* Reached when the deadline has passed before the call, when the agent's
\* answer may not be retried or the attempts are used up, and when complete()
\* throws and rolls back (as it does when the reservation is not Capturable).
FinalizeFailure(w, a) ==
  /\ Processing(w, a)
  /\ a.stage = "claimed" => a.deadline \in passed
  /\ job[a.turn].status = "running"
  /\ job' = [job EXCEPT ![a.turn] = [@ EXCEPT !.status = "failed", !.lease = "none"]]
  /\ reservation' = Released(a.ref)
  /\ worker' = Settled(w, a)
  /\ UNCHANGED <<ahead, passed, replies, request, lost, stops>>

\* handleFailure() of a retryable error: back to the queue after a back-off.
RequeueAttempt(w, a) ==
  /\ Processing(w, a)
  /\ a.stage = "calling"
  /\ a.count < MaxAttempts
  /\ a.deadline \notin passed
  /\ job[a.turn].status = "running"
  /\ job' = [job EXCEPT ![a.turn] =
                [@ EXCEPT !.status = "queued", !.lease = "none", !.ready = FALSE]]
  /\ ahead' = PutBack(a.turn)
  /\ worker' = Settled(w, a)
  /\ UNCHANGED <<passed, reservation, replies, request, lost, stops>>

\* The statement that should settle the attempt throws; Promise.allSettled
\* forgets it and the lease is all that is left.
AttemptLost(w, a) ==
  /\ Processing(w, a)
  /\ stops < MaxStops
  /\ stops' = stops + 1
  /\ worker' = Settled(w, a)
  /\ UNCHANGED <<job, ahead, passed, reservation, replies, request, lost>>

-----------------------------------------------------------------------------
(***************************************************************************)
(* Time                                                                    *)
(***************************************************************************)

\* With LateAttempts FALSE the lease outlasts the attempt it covers, which is
\* what the defaults are chosen for: a lease of 6 minutes, a call of at most 5.
LeaseExpires(t) ==
  /\ job[t].status = "running"
  /\ job[t].lease = "live"
  /\ LateAttempts \/ InFlight(t) = {}
  /\ job' = [job EXCEPT ![t].lease = "expired"]
  /\ UNCHANGED <<ahead, passed, reservation, replies, request, worker, lost, stops>>

\* Every back-off is equally long, so they end in the order they began.
BackoffElapses(t) ==
  /\ job[t].status # "none"
  /\ ~job[t].ready
  /\ \A u \in ahead[t] : job[u].ready
  /\ job' = [job EXCEPT ![t].ready = TRUE]
  /\ UNCHANGED <<ahead, passed, reservation, replies, request, worker, lost, stops>>

DeadlinePasses(r) ==
  /\ r \notin passed
  /\ \E t \in Turns : \/ Pending(t) /\ job[t].deadline = r
                      \/ \E a \in InFlight(t) : a.deadline = r
  /\ passed' = passed \cup {r}
  /\ UNCHANGED <<job, ahead, reservation, replies, request, worker, lost, stops>>

-----------------------------------------------------------------------------

Init ==
  /\ job = [t \in Turns |-> NoJob]
  /\ ahead = [t \in Turns |-> {}]
  /\ passed = {}
  /\ reservation = [r \in Refs |-> "none"]
  /\ replies = [r \in Refs |-> 0]
  /\ request = [q \in Requests |-> Idle]
  /\ worker = [w \in Workers |-> Waiting]
  /\ lost = {}
  /\ stops = 0

RequestStep(q) ==
  \/ \E t \in Turns, r \in Refs : SendReserves(q, t, r)
  \/ \E r \in Refs : RetryReserves(q, r)
  \/ \E t \in Turns : SendCommits(q, t) \/ RetryReads(q, t) \/ RetryRequeues(q, t)
                      \/ RetryLosesRace(q, t)
  \/ SendFails(q) \/ RetryRefused(q) \/ RequestUndoes(q) \/ RequestDies(q)

ClaimStep(w, t) == ClaimSkips(w, t) \/ ClaimReads(w, t) \/ ClaimWrites(w, t)

AttemptStep(w, a) ==
  \/ CallAgent(w, a) \/ CompleteReply(w, a) \/ AttemptTooLate(w, a)
  \/ FinalizeFailure(w, a) \/ RequeueAttempt(w, a)

Next ==
  \/ \E q \in Requests : RequestStep(q)
  \/ \E w \in Workers :
       \/ FindClaimable(w) \/ WorkerStops(w)
       \/ \E t \in Turns : ClaimStep(w, t)
       \/ \E a \in worker[w].attempts : AttemptStep(w, a) \/ AttemptLost(w, a)
  \/ \E t \in Turns : LeaseExpires(t) \/ BackoffElapses(t)
  \/ \E r \in Refs : DeadlinePasses(r)

Spec == Init /\ [][Next]_vars

(***************************************************************************)
(* Scheduling: each worker's timer keeps ticking and each tick runs on,    *)
(* the agent call has a timeout (AbortSignal), calls in flight run on, and *)
(* time passes.  Nothing is assumed of crashes, of the users, or of which  *)
(* answer the agent gives.                                                 *)
(***************************************************************************)
Fairness ==
  /\ \A w \in Workers :
       /\ WF_vars(FindClaimable(w))
       /\ WF_vars(\E t \in Turns : ClaimStep(w, t))
       /\ WF_vars(\E a \in worker[w].attempts : AttemptStep(w, a))
  /\ \A t \in Turns : WF_vars(LeaseExpires(t)) /\ WF_vars(BackoffElapses(t))
  /\ \A q \in Requests :
       /\ WF_vars(\E t \in Turns : SendCommits(q, t) \/ RetryRequeues(q, t) \/ RetryLosesRace(q, t))
       /\ WF_vars(RequestUndoes(q))

LiveSpec == Spec /\ Fairness

-----------------------------------------------------------------------------
(***************************************************************************)
(* Properties                                                              *)
(***************************************************************************)

TypeOK ==
  /\ job \in [Turns -> Job]
  /\ ahead \in [Turns -> SUBSET Turns]
  /\ passed \subseteq Refs \cup {NoRef}
  /\ reservation \in [Refs -> ReservationStatus]
  /\ replies \in [Refs -> 0..Twice]
  /\ request \in [Requests -> Request]
  /\ worker \in [Workers -> Worker]
  /\ lost \subseteq Refs \cup {NoRef}
  /\ stops \in 0..MaxStops

\* A user is charged for exactly the replies that were stored: every captured
\* reservation bought one character message and is the reservation of one
\* completed turn, and every completed turn has captured its own
\* (docs/06-architecture.md: replies and credits are never applied twice).
ChargedOncePerReply ==
  /\ \A r \in Refs : replies[r] = IF reservation[r] = "captured" THEN 1 ELSE 0
  /\ \A r \in Refs : reservation[r] = "captured" =>
       \E t \in Turns : job[t].status = "completed" /\ job[t].ref = r
  /\ \A t \in Turns : job[t].status = "completed" => reservation[job[t].ref] = "captured"
  /\ \A t, u \in Turns : job[t].ref = job[u].ref /\ job[t].ref # NoRef => t = u

\* A failed turn holds no credits, and credits are held only for a turn that
\* may still be answered, for a call that is about to use or return them, or
\* for a call that died between its transactions (finalizeFailure releases in
\* the transaction that closes the job; sendMessage and retryReply compensate).
HoldIsForPendingTurn ==
  /\ \A t \in Turns : job[t].status = "failed" => reservation[job[t].ref] = "released"
  /\ \A r \in Refs : reservation[r] = "reserved" =>
       \/ r \in lost
       \/ \E q \in Requests : request[q].ref = r
       \/ \E t \in Turns : Pending(t) /\ job[t].ref = r

\* Several workers never work on one conversation at a time: of all attempts
\* in flight no two belong to the same conversation (advisory lock and lease).
OneAttemptPerConversation ==
  \A v, w \in Workers : \A a \in worker[v].attempts, b \in worker[w].attempts :
    ConversationOf[a.turn] = ConversationOf[b.turn] => v = w /\ a = b

\* What an attempt in flight believes of its job is what the row says: the
\* result of a call is applied to the run it was made for.
AttemptsAreCurrent ==
  \A w \in Workers : \A a \in worker[w].attempts :
    /\ job[a.turn].status = "running"
    /\ job[a.turn].lease = "live"
    /\ <<a.ref, a.count, a.deadline>> =
         <<job[a.turn].ref, job[a.turn].attempts, job[a.turn].deadline>>

\* An answered turn is never reopened, and a failed one is reopened only by a
\* user's retry, which brings a hold of its own and a full allowance.
SettledTurnsStaySettled ==
  [][\A t \in Turns :
       /\ job[t].status = "completed" => job'[t].status = "completed"
       /\ job[t].status = "failed" /\ job'[t].status # "failed" =>
            /\ job'[t] = QueuedRun(job'[t].ref)
            /\ job'[t].ref # job[t].ref
            /\ reservation[job'[t].ref] = "reserved"]_vars

\* However late an attempt is, a capture and a stored reply go together:
\* complete() undoes the one when the other throws.
ReplyOrNoCharge ==
  \A r \in Refs : reservation[r] = "captured" <=> replies[r] > 0

\* However late an attempt is, it cannot charge what was given back, nor give
\* back what was charged (the guards of captureReservationInTx and
\* releaseReservationInTx; the worker's own guards do not ensure it).
SettledHoldsStaySettled ==
  [][\A r \in Refs : reservation[r] \in {"captured", "released"} =>
                       reservation'[r] = reservation[r]]_vars

\* Every accepted turn is answered or reported as failed, crashes included.
PendingTurnsSettle ==
  \A t \in Turns : Pending(t) ~> job[t].status \in {"completed", "failed"}

\* Held credits come back or are spent, unless the call that held them died.
HoldsSettle ==
  \A r \in Refs : reservation[r] = "reserved" ~> (reservation[r] # "reserved" \/ r \in lost)

\* The pipeline keeps the promise of TurnPromise: seen through the reply status
\* of each turn and the reservation of its latest run, every step is a step of
\* the promise or invisible.
toReplyStatus(status) == IF status \in {"queued", "running"} THEN "pending" ELSE status

Promise == INSTANCE TurnPromise WITH
  state <- [t \in Turns |-> toReplyStatus(job[t].status)],
  hold <- [t \in Turns |-> IF job[t].ref = NoRef THEN "none" ELSE reservation[job[t].ref]]

KeepsPromise == Promise!PromiseSpec

-----------------------------------------------------------------------------
(***************************************************************************)
(* The inductive invariant behind these properties, for a lease that       *)
(* outlasts its attempt                                                    *)
(***************************************************************************)

\* Every job that exists has a reservation of its own, in the state its status
\* calls for; every captured one belongs to a completed job.
JobsOwnRefs ==
  /\ \A t \in Turns : IF job[t].status = "none" THEN job[t] = NoJob
                      ELSE /\ job[t].ref \in Refs
                           /\ reservation[job[t].ref] =
                                CASE Pending(t) -> "reserved"
                                  [] job[t].status = "completed" -> "captured"
                                  [] OTHER -> "released"
  /\ \A t, u \in Turns : job[t].ref = job[u].ref /\ job[t].ref # NoRef => t = u

\* A call in flight holds a reservation that no job and no other call holds, and
\* knows a turn that nothing else will create.
OwnsRef(q) ==
  /\ request[q].pc = "idle" => request[q] = Idle
  /\ request[q].pc # "idle" => request[q].turn \in Turns
  /\ request[q].pc = "checked" => request[q].ref = NoRef
  /\ request[q].pc = "sending" => /\ job[request[q].turn].status = "none"
                                  /\ \A p \in Requests \ {q} : request[p].turn # request[q].turn
  /\ request[q].pc \in {"sending", "retrying", "undoing"} =>
       /\ request[q].ref \in Refs
       /\ reservation[request[q].ref] = "reserved"
       /\ \A t \in Turns : job[t].ref # request[q].ref
       /\ \A p \in Requests \ {q} : request[p].ref # request[q].ref

RequestsOwnRefs == \A q \in Requests : OwnsRef(q)

\* Between the read and the write of a claim nothing changes what was read, and
\* no other claim and no live attempt is in the conversation.
ExclusiveClaim(w, t) ==
  /\ t \in Turns
  /\ \/ job[t].status = "queued"
     \/ job[t].status = "running" /\ job[t].lease = "expired"
  /\ worker[w].read = job[t].deadline
  /\ \A u \in Turns : ConversationOf[u] = ConversationOf[t] =>
       ~(job[u].status = "running" /\ job[u].lease = "live")
  /\ \A v \in Workers \ {w} : worker[v].pc = "writing" =>
       ConversationOf[worker[v].claim] # ConversationOf[t]

ClaimsAreExclusive ==
  \A w \in Workers : worker[w].pc = "writing" => ExclusiveClaim(w, worker[w].claim)

ReplyInv ==
  /\ TypeOK
  /\ JobsOwnRefs
  /\ RequestsOwnRefs
  /\ ClaimsAreExclusive
  /\ AttemptsAreCurrent
  /\ OneAttemptPerConversation
  /\ ChargedOncePerReply
  /\ HoldIsForPendingTurn

-----------------------------------------------------------------------------
(***************************************************************************)
(* Promises of the documentation that the code does not keep               *)
(***************************************************************************)

\* message-reply.worker.ts, complete(): an attempt that comes back late does not
\* append a second reply.
NoSecondReply == \A r \in Refs : replies[r] < Twice

=============================================================================

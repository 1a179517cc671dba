# Verification of opod-service-backend

The repository is a NestJS service on PostgreSQL: users talk to AI characters and pay for the answers with
credits. This directory holds TLA+ models of the parts whose correctness depends on the order in which several
actors take their steps, the TLC instances that check them, and TLAPS proofs about several of them.
`PROJECT.json` lists components, runs, mutants, the lines every definition stands for, findings, hazards and
theorems. Paths below are relative to `src/src/` unless they begin with `docs/` (that is `src/docs/`).

## 1. Inventory

| Component | State | Operations | Talks to | What is hard | What makes it correct |
|---|---|---|---|---|---|
| Direct-message replies (`messages/`) | `message_reply_jobs`, `chat_messages`, conversations | `sendMessage`, `retryReply`, the worker's `runOnce` (claim, call, settle) | credits, the agent over HTTP | several worker processes, leases, calls of up to 5 minutes between two transactions, crashes, retries by the worker and by the user, back-off, deadline | one reply and one charge per answered turn; no credits held for a turn that is over; one turn of a conversation at a time, in order; every accepted turn ends |
| Credits (`credits/`) | `credit_ledger`, `credit_usage`, `credit_reservations` | grant, check in, spend, reserve, capture, release, recover | replies, purchases, accounts | the balance is derived from five tables; holds, locks of refunds, debts and expiry interact | nothing is spent twice; holds stay covered; paid and free credits are told apart |
| Purchases and refunds (`purchases/`) | `credit_purchases`, `payments`, `payment_ledger`, `payment_provider_events`, `credit_refund` | `createCheckout`, `verifyInApp`, `getByCheckoutId`, `requestRefund`, `applyProviderEvent` | credits, payment providers, notifications | provider calls between transactions; webhooks repeated, late and out of order; a reconciliation that stands in for them; timeouts with an unknown result | granted once and only for money; taken back once and only with money; no credit both used and refunded |
| Payment providers (`payments/`) | none | signatures, HTTP clients, event normalisation | Polar, Apple, Google | pure I/O | each webhook becomes the right event |
| Authentication and accounts (`auth/`) | `users`, `user_refresh_tokens`, `unsettled_credit_debts`, adult identity | register, log in, social login, refresh, revoke, change password, delete account, apply verified identity | credits, consents, storage | rotation against revocation, deletion against everything, debt that moves to another account | a session is refreshed by its latest token only; a deleted account stays deleted; a debt is neither lost nor doubled |
| Character social activities (`character-social/`) | `character_social_activity_jobs`, policies, views, likes, follows of characters | schedule, claim with a lease token, act, cancel, fail | posts, stories | a second job queue of several processes: leases that end while an activity is carried out, retries, midnight, characters that stop being allowed to act | one open activity per character; acts once per activity, within the limits of each day; every activity ends |
| Notifications, follows (`notifications/`, `follows/`) | notifications, follows with their watermarks | `syncFollowNotifications`, read, mark as read, follow, unfollow | posts, stories | a watermark against late commits, microseconds that a JavaScript `Date` drops, two syncs at once, a cap that truncates | each post is notified at most once, none is lost unless it is late, expired or truncated |
| Consents (`consents/`) | `user_consents`, `terms_documents` | agree with the registration, update, list | accounts | documents that take effect and other calls between the reads and the write | required consents stand; what was answered last counts |
| Inquiries (`inquiries/`) | `inquiries` | create, delete, list | opod-admin, which answers | a daily limit under concurrency, midnight, deletion against an answer | the limit holds; answered inquiries stay |
| Paged lists (`shared/utils/page.ts` and ten services) | the rows of ten lists | first page, next page by cursor | everything that writes to a list | rows that come, leave, return and move between two pages; a cursor that is gone; timestamps finer than the cursor | no row is missed that was there all along, none is shown twice |
| Posts, stories, feed, search, characters, reports, events, notices, FAQs | content rows | reads (their pages are above), single-row writes under unique constraints | | little | |
| Schema, startup (`core/`, `main.ts`) | | wiring, migrations | | | unique constraints and locks that the models rely on |

Interactions. A reply reserves its price when the message is sent, captures it in the transaction that stores
the answer and releases it in the transaction that gives up. A purchase grants credits in the transaction that
applies the payment event; a refund locks them in one transaction, asks the provider, and recovers them in
another. A refund is refused while any reservation of its user is active. Everything that changes the credits of
one user takes the same advisory lock; there are no in-process queues or shared memory apart from the worker's
set of running attempts, so processes interact through the database only. The social worker and the reply worker
run side by side and share no rows; the sync of notifications reads what opod-admin and, through it, characters
publish.

## 2. Modules

| Module | Models |
|---|---|
| `ReplyJobs` | the reply pipeline: calls, worker processes, jobs, reservations |
| `TurnPromise` | what the pipeline promises its user; `ReplyJobs` implements it |
| `ReplyJobsProofs` | TLAPS proofs about `ReplyJobs` |
| `CreditLedger` | the credits of one user, as operations without an environment |
| `CreditLedgerProofs` | lemmas on sums, balances and charges |
| `Purchases` | extends `CreditLedger` with purchases, refunds, webhooks and the provider: the composition of both |
| `PurchasePromise` | what a purchase promises; `Purchases` implements it |
| `PurchasesProofs` | TLAPS proofs about `Purchases` |
| `AuthSessions` | accounts, refresh tokens, withdrawal, adult identity |
| `SessionPromise` | what a session promises; `AuthSessions` implements it |
| `AuthSessionsProofs` | TLAPS proofs about `AuthSessions` |
| `SocialJobs` | the scheduler and the workers of the characters' activities |
| `ActivityPromise` | what activities promise; `SocialJobs` implements it |
| `SocialJobsProofs` | TLAPS proofs about `SocialJobs` |
| `DatabaseClock` | the clock of PostgreSQL in ticks, and the `Date` that drops them |
| `FollowNotifications` | the follows of a user and the sync that turns posts and stories into notifications |
| `Consents` | the answers of a user to versions of documents |
| `Inquiries` | the inquiries of a user |
| `ConsentsProofs`, `InquiriesProofs` | TLAPS proofs about the two |
| `PagedList` | a list that is read page by page while it changes, with a record for each list |
| `NotificationsProofs` | TLAPS proofs about `FollowNotifications` and `PagedList`: both sort finite sets and cut timestamps |
| `MCReplyJobs`, `MCPurchases`, `MCAuthSessions`, `MCSocialJobs` | the instances for TLC |
| `MCUserRecords` | the instance of `FollowNotifications`, `Consents`, `Inquiries` and `PagedList` together |

### ReplyJobs

One transaction of the code is one step. What happens between two transactions can be interleaved, and the
`UPDATE` of `claim()`, which names the row only, is a step apart from the `SELECT` it was decided on
(`ClaimReads`, `ClaimWrites`): under READ COMMITTED the advisory lock excludes other claims of the conversation
but not the transaction of a late attempt that settles the job.

* `job[t]` is the row of turn *t*; `ahead` the order of `ready_at`; `lease` and `ready` are what a comparison
  with the clock would say; a deadline is named by the run that stamped it, and `passed` holds those that are over.
* `request[q]` is an HTTP call between its transactions: `SendReserves`, `SendCommits` or `SendFails` and
  `RequestUndoes` (the compensation), or `RequestDies` (the process ends, or the compensation itself fails and
  its error is swallowed); `RetryReads`, `RetryReserves`, `RetryRequeues` or `RetryLosesRace` for `retryReply`.
* `worker[w]` is one process: the list that `findClaimable` returned (its window, its one row per conversation),
  the claim loop, the attempts in flight. `CallAgent`, `CompleteReply`, `RequeueAttempt`, `FinalizeFailure`,
  `AttemptTooLate` and `AttemptLost` are `process()` and its two outcomes. `WorkerStops` is a crash or restart.
* `LateAttempts` says whether a lease may end while its attempt runs. The defaults exclude it (lease 6 minutes,
  call aborted after 5), but both are environment variables and a paused process breaks it, so both settings are checked.
* The answer of the agent is a free choice between success, a retryable and a final error.

### CreditLedger and Purchases

`CreditLedger` computes balances as `grantState`, `balanceBreakdown` and `getPurchaseCreditSnapshotWithClient`
do: from the grants in order, `used` (`credit_usage`), `recovered` (`refund_recovery` rows), what pending refunds
lock, and the active reservations; sums are `SumFunctionOnSet`. `allocateUsage` walks the grants in spending order
and takes from each what is still missing; `Part` says what the walk takes from one grant: what is missing once the earlier grants of its
kind have given all they had, and no more than it has left. `Charge` joins the free and the paid walk, `Covered` is the check at their end.
Operations on one user's credits run under one advisory lock, hence one step each.

`Purchases` adds, for each purchase, its `credit_purchases` and `payments` rows (one record), the event inbox
(`processed`, `failed`), and the calls between their transactions: `call[k]` for `createCheckout` (row, claim,
provider lookup, provider creation, save), `refundCall[r]` for `requestRefund` (lock, ask, record the answer,
recover). A row of a payment is `recent` for the 30 seconds after its last update (`purchases.service.ts:1291`). The
provider's client has no timeout (`payments/polar-payment.provider.ts:42-45`), so `HalfMinutePasses` may end them whatever
calls are in progress; `late` is history and marks the calls that were in progress then. `applyEvent` is one transaction: `PaymentGrants`, `PaymentIsNoNews`, `RefundApplies`, `RefundConfirms`,
`RefundMismatch`, `ForceReversal` are its outcomes. An order is identified with the checkout that led to it.
The provider is external: `paid`, `back`, `psp` are its books, `sent` the events that exist. An event that is not
yet processed may be delivered at any time and any number of times; `Reconcile` adds the event that
`getByCheckoutId` builds from a lookup, under an ID of its own.
Amounts are real numbers of the code in small: a purchase of 4 credits for 40, a reply of 2 credits, 5 % fee,
so that halves, rounding of the fee and partial refunds occur.

### AuthSessions

`auth.service.ts` uses three kinds of advisory locks that exclude only themselves: `auth_sessions:<user>` (login,
refresh, change of the password), `<user>` with `adult_identity:<hash>` (withdrawal, verification), and, in other
services, `credits:<user>`. A call is therefore cut wherever another one that shares none of its locks can come in:

* `LoginReads`, `LoginChecks`, `IssueTokens`: the password is compared before the lock and the hash again under it;
  `Register` and `SocialLogin` end in the same `IssueTokens`, without a lock. `RefreshReads`, `RefreshRotates`.
  `ChangeReads`, `ChangeChecks`, `ChangeWrites`.
* `DeleteReads` (password and identity, before the transaction), `DeleteLocks` (locks, paid balance), `DeleteWrites`
  (pending payments, then the writes), `DeleteCommits`. Between the last two the row of the user is locked
  (`RowLocked`), because its UPDATE changes the e-mail, a key: UPDATEs and new tokens of the user wait.
* `VerifyIdentity` is `applyVerifiedAdultIdentity`, with its unique reference per identity. Its public entry is
  closed in production until a provider is configured.
* `account[u].password` counts passwords; a token remembers the session it belongs to and the password that began
  it. Access tokens are not modelled: `Authorized` lets any account act that is active and ever had a refresh token.
* `PurchaseStarts` ... `PurchaseIsReversed` reduce the credits of a user to one purchase of one credit.
* `CallEnds`: at any step a call may fail and roll back, by an error, a deadlock or the end of the process.

### SocialJobs

`CharacterSocialWorker.runOnce` is `ListDue`, one `Schedule` for each character that is due, then up to
`BatchSize` rounds of `ListCandidates`, `Claim...` and `Process...`. Every transaction is
`withActivityTransaction`, which holds the advisory lock `character_social:<id>`; the short ones are one step. The
transaction that acts is `ProcessReads` and then `ProcessCompletes` or `ProcessThrows`, because its lease and the day may
end while it is open; all that it writes shows when it commits.

* `job[j]` is a row: attempts, the token of its claim (named by the number of the attempt; the code draws a UUID),
  and what a comparison of its lease and back-off with the clock would say.
* `policy[c]` is whether the next activity is due, and whether the character may act now.
* `viewed`, `liked`, `followed` hold the day of each row, 0 for none, so that the daily counts of the code are
  cardinalities. What is viewed is determined (the newest that match), likes are diced, the order of the authors is free.
* `WorkerStops` is a crash, a restart, or an error that only the timer catches.
* `ActivityPromise` has no workers: an activity is opened, and is acted on once or dropped.

### FollowNotifications

`created_at` is the beginning of a transaction of opod-admin (`ItemBegins`), which may commit later (`ItemCommits`).
A sync is one transaction under READ COMMITTED and an advisory lock: `SyncReadsFollows`, `SyncReadsItems`,
`SyncCommits`. Follows and unfollows do not take the lock. `late` remembers what was committed when a window over it
had been read: the comment on `syncFollowNotifications` accepts that such an item is not notified.

### Consents and Inquiries

Both are models of one user. In `Consents` a call reads documents and latest answers in any order (`Promise.all`),
and others may write before it does; a registration has resolved its answers before its transaction. In `Inquiries` a
call that waits for the lock has taken its `CURRENT_TIMESTAMP` before, and counts for the day on which it gets the lock.

### PagedList

Ten services write the same keyset query. A list is a record: descending or ascending; whether rows leave,
return or move; what a cursor whose row is gone leads to (`refused`: "Invalid cursor"; `empty`: an empty page; `read`:
the cursor is looked up without the filter); how many rows a transaction inserts. Writers are transactions that
take their timestamp when they begin. A reader turns the pages of one list from the first; `reader.there`, `ends` and
`cut` are history for the properties. The `Date` of a cursor is cut to a millisecond, as the driver does.

### MCUserRecords

The four modules above share no variable but the clock, and no action of one reads a variable of another, so
their steps commute and a property of one sees only its own steps. The composition is therefore a choice of the part that
runs (`part`) and not the product of the parts: every behaviour of a part is a behaviour of the instance.

## 3. What the runs check

All runs finish in about a minute or less on two cores, `PurchaseCheckouts` and `UserRecords` in two to three. "Deadlock" is not checked:
calls, turns, purchases, activities and rows are finitely many, so the instances really come to rest.

| Run | Instance | Checks | Shows |
|---|---|---|---|
| `ReplyTimely` | 3 turns in 2 conversations, 1 caller, 2 workers, 3 references, 2 attempts, 1 crash | `TypeOK`, `ChargedOncePerReply`, `HoldIsForPendingTurn`, `OneAttemptPerConversation`, `AttemptsAreCurrent`, `SettledTurnsStaySettled`, `KeepsPromise` | with leases that outlast attempts the pipeline implements `TurnPromise` |
| `ReplyLate` | 1 turn, 2 callers, 2 workers, late attempts | `ReplyOrNoCharge`, `SettledHoldsStaySettled` | what the reservation guards alone ensure |
| `ReplyLive` | 2 turns, 1 caller, 2 workers, 1 crash | `ReplyInv`, `PendingTurnsSettle`, `HoldsSettle` | every accepted turn ends, every hold is spent or returned |
| `PurchaseRefunds` | 1 order, 2 user refunds, 2 merchant refunds, 1 reply, 1 free grant, 1 dead call | `PurchaseTypeOK`, `HoldsAreCovered`, `UsedOrRefunded`, `RecoveredOnce`, `BooksFollowProvider`, `NothingLeftAfterRefund`, `KeepsPromise` | refunds, webhooks and spending in any order |
| `PurchaseCheckouts` | 1 web purchase, 2 callers, 2 checkouts, 1 store purchase, right and wrong amounts, slow calls, 1 dead call | `OneCheckoutPerPurchase`, `KeepsPromise`, `PaidOrdersAreCredited` | races of checkouts: a second one is opened only after a call died or was slow; double and wrong payments; repeated proofs, revocation |
| `AuthSessions` | 1 account with a password, 1 social account, 3 tokens, 2 calls, 1 person, 2 passwords, 1 purchase | `AuthTypeOK`, `OneTokenPerSession`, `OldPasswordsAreOut`, `IdentityOfOneAccount`, `KeepsPromise` | sessions end for good, whatever meets what |
| `SocialActivities` | 2 characters, one that reads 2 posts of the other, 2 workers, 2 attempts, 2 activities, 2 days, 1 stop | `SocialTypeOK`, `LiveLeaseIsRespected`, `KeepsPromise`, `JobsSettle` | leases that end, retries and midnight leave one act per activity, within the limits of the day |
| `UserRecords` | the parts of `MCUserRecords`: 2 types of consent with 2 versions, 2 calls; 4 inquiries on 2 days, 2 calls, limit 2; 2 posts and a story of 2 characters, 2 syncs, limit 1; 3 rows in each of 8 lists, 2 writers, pages of 1 or 2 | `NotifyTypeOK`, `NotifiedOnce`, `NothingLost`, `RequiredConsentsStand`, `DailyLimitHolds`, `PagesCover`, `AnswersCount`, `AnsweredInquiriesStay`, `PagesGoOn` | what the records of one user ensure under concurrent calls and a clock of 2 ticks a millisecond |
| `ReplySecondReply`, `PurchaseReopened`, `AuthDebt`, `MessagePages` | as above | one property each, violated | section 6 |

Bounds. Two workers are enough for every race on a row, because each property relates at most two attempts;
three turns give two in one conversation and one outside. Three references allow two turns and one user's retry, or two racing
retries; two attempts exercise requeueing and the last attempt. One crash can hit any step; a second one only
repeats the recovery of the first. In `Purchases` two refunds are the least that let one follow a failed one, two
checkouts the least for a double payment, and amounts that divide unevenly make rounding visible. In
`PurchaseCheckouts` calls may be slow any number of times; all of a purchase is spent at once there, since `PurchaseRefunds` spends in parts.
`MerchantRefunds` holds one amount, half the price where the user may ask for refunds too and all of it where a checkout can be paid.
In `AuthSessions` two calls are one race; three tokens are a rotation and another session; the social account is
there to receive the debt and the identity of the other one, so only the other one buys (`Buyers`).
The sets of tokens and calls are symmetric there, those of references, workers and callers in the runs of the replies without liveness.
In `SocialActivities` limits of 1 and two posts make the second activity of a day come to a limit and the one of the next
day pass it; both posts must be liked to follow, so a follow needs two days. In `UserRecords` four ticks are two
milliseconds, so rows can share a tick, share a millisecond, or neither; three rows fill two pages with one that is
overtaken; the sync limit is 1 so that two items already truncate. Comments and stories are not among its `ReadLists`: they
change exactly as posts do.

`HoldsAreCovered` is stated for the time before a free grant expires or the provider takes credits back on its
own account: after either, the code lets the balance fall below the holds, and a capture may fail.
`RecoveredOnce` leaves out purchases with a reopened refund (section 6).

## 4. Fairness

* `ReplyJobs`: each worker's timer is a recursion that always arms itself again (`scheduleNextTick`, 482-500), so
  `FindClaimable` and the claim loop are weakly fair per worker; an agent call ends because of its
  `AbortSignal.timeout`, so each worker's attempts are weakly fair; time passes, so leases end and back-offs elapse;
  calls in flight run on unless they die. No fairness is assumed of users, crashes, or the agent's answer, and
  crashes are bounded: with unboundedly many a job ends by its deadline only.
* `SocialJobs`: the timer of a worker always arms itself again (`scheduleTick`, 58-72) and catches what a tick throws, so
  `RunOnce` is weakly fair per worker; leases end and back-offs elapse with time. Crashes are bounded; the agent is
  not involved. `JobsSettle` holds because a claim counts an attempt before it acts.
* `AuthSessions` and the parts of `UserRecords` have no liveness property and no fairness: nothing runs there unless a user calls.
* `Purchases`: only that the provider repeats the webhook of a payment until it is answered, 2xx meaning both
  processed and refused; reconciliation is not fair, it needs a user who looks.

## 5. What is proved

Every safety property and every refinement that a passing run checks is a theorem for all constants that satisfy the
`ASSUME`s of its module; so are the type invariants of `Consents`, `Inquiries` and `PagedList`, which no run repeats. What the `ASSUME`s leave open (how many users, workers, rows, attempts, crashes, days) is arbitrary.
Liveness is not proved: it is out of the prover's reach and stays with TLC (`PendingTurnsSettle`, `HoldsSettle`,
`PaidOrdersAreCredited`, `JobsSettle`), as do the four disagreements of section 6, which are counterexamples.

The properties are hardly ever inductive. Each proof therefore starts from an invariant that says more, shows that every
action keeps it (one lemma for each action or group of actions), and reads the properties off. Where one half of the state
moves without the other, frame lemmas say so.

### Replies (`ReplyJobsProofs`)

Without any hypothesis on leases:

* `TypeCorrect` (`TypeOK`), `NoChargeWithoutReply` (`ReplyOrNoCharge`), `HoldsSettledForGood` (`SettledHoldsStaySettled`).
  They need nothing but the types: the guards on the reservation alone keep them.

Under `~LateAttempts`, that is if no lease ends before the attempt it covers:

* `ReplyInvariant` (`ReplyInv`), and from it `ChargedOnce`, `HoldsAreUsed`, `AttemptsExclude`, `AttemptsCurrent`,
  `SettledForGood` and `PipelineKeepsPromise` (`Spec => Promise!PromiseSpec`).

That a turn is charged once needs to know that a reservation belongs to one
turn or one call (`JobsOwnRefs`, `RequestsOwnRefs`); that what an attempt believes is what the row says
(`AttemptsAreCurrent`) needs that no claim is about to overwrite the row, which is `ClaimsAreExclusive`: between
the read and the write of a claim nobody else is in the conversation. `ReplyInv` is the conjunction; `ReplyLive`
checks it with TLC. The proof splits it in two: `WorkersInv` (claims, attempts, exclusion) is preserved
without looking at credits, and `CreditsInv` (jobs, calls, reservations, replies) uses `WorkersInv` for
the attempts that settle a job. The refinement shows that a step moves at most one turn (`OneTurnMoves`) and that holds follow statuses
(`HoldsFollowStatus`). Without `~LateAttempts` the invariant is false: section 6.

### Credits and purchases (`CreditLedgerProofs`, `PurchasesProofs`)

`CreditLedgerProofs` has the lemmas on sums that everything about money rests on: a sum over a finite set is that of any member and
the rest, sums are monotonic, and what is taken from the terms is taken from the sum. `SumFunctionOnSet` is a recursive
function over subsets; the induction on the size of a set that they need is done with a set of natural numbers that has 0 and
all successors of its members (`CountingUp`), because the theorems of the library take an operator. On them rest the facts on the ledger:
what is left, locked and owed of a grant in plain arithmetic (`CreditFacts`), and what a charge takes of free and of paid
grants (`ChargeSums`).

* `PurchasesInvariant` (`PurchaseInv`) and from it `PurchasesTyped`, `UsedOrRefundedHolds`, `RecoveredOnceHolds`, `BooksFollow`
  and `NothingIsLeft`. `UsedOrRefunded` is not inductive: a refund can lock what is left only if no other refund of the purchase is active
  (`OneActive`), and the lock has to be exact (`LockOK`: used, recovered and locked are all of the purchase) until it becomes a recovery (`LedgerOK`).
  When the provider has paid a refund, its books must have room for it, which relates `psp`, `booked` and `back`. `RowOK`,
  `CreditsOK`, `WebOK` and `StoreOK` tie the two rows of a purchase to its grant, to what is used and recovered, and to its order; `EventOK` says
  that no event claims more than the provider has done. Most steps touch one purchase: `OnePurchaseAtATime` reduces what is to
  be shown to that one. A reopened refund (section 6) is in the invariant too, as the case that `NoneReopened` excludes.
* `HoldsCovered` (`HoldsAreCovered`). As long as nothing has expired and the provider has taken nothing back,
  no purchase owes anything, so the available balance is what all grants have left minus the holds (`BalanceIsTotal`). Most steps are
  `Quiet`: they take only what is not available any more (a recovery takes what its refund has locked before). A reservation, a capture,
  a release and spending are looked at one by one; a capture takes exactly what its hold has kept.
* `EachGrantedOnce`, `SpendingCovered`, `RepliesCharged` and `PaidIsUsedLast` are about charges, and no run repeats them. The balance
  is a sum, `allocateUsage` a walk over the grants: `PartsSum` shows that the walk takes the amount or all there is, by counting
  the grants one after the other, and needs that no grant is in the ledger twice (`NoRepeats`). So what the balances allow never
  fails in the walk (`CoveredIfEnough`), and paid credits are taken only when the free ones are gone (`FreeCreditsFirst`). A
  reply in progress can be charged under the condition of `HoldsAreCovered`.
* `OneCheckout` (`OneCheckoutPerPurchase`), without a hypothesis on how long calls take. `CheckoutsInv` has two parts. `OpenedInv`: what is
  saved, shown and paid was opened. As long as no call has died, `CheckoutOK`: a row is claimed once and its claimer ends
  only by saving (`ClaimOK`), so until then everybody else has to take over, and a call that may still open a second
  checkout, the claimer or one that found none before, is late (`LateOK`).
* `PurchasesKeepPromise` (`KeepsPromise`) under `Price > 1` and `FeePercent < 100`; the code sells for more and keeps 5 %. A refund
  completes only if it gives money back: it needs at least half of the credits, whose price is then more than the fee (`MoneyInv`).
  With a price of 1 rounding makes the amount 0, and credits would go without money.

### Sessions and accounts (`AuthSessionsProofs`)

* `AuthTypeCorrect`, `SessionsHaveOneToken`, `NoOldPasswords`, `IdentitiesAreUnique` and `AuthKeepsPromise`
  (`Spec => Promise!PromiseSpec`). That a rotation leaves one token needs that a
  session is named after a token that has its user (`TokensInv`); that no old password lives needs that the lock
  of the sessions has one holder and that what a login was checked against is current while it holds the lock (`LocksInv`),
  and that a registration, which issues its token without a lock, began with no password (`CallsInv`). The refinement
  maps a session to the tokens it has had: a rotation is a stutter, and a change of the password ends exactly
  the sessions whose live token belongs to its user.

### Social activities (`SocialJobsProofs`)

* `SocialTypeCorrect` (`SocialTypeOK`), `LeasesHold` (`LiveLeaseIsRespected`) and `SocialKeepsPromise`
  (`Spec => Promise!PromiseSpec`). The invariant `SocialInv` adds to the types that rows are numbered without gaps (so that
  a new row is a new number), that a row has a token and a lease exactly while it runs, that who has a claim has it of
  a row, and that no day of a character holds more than its limits. The refinement needs besides that the newest *n* of a
  finite set are *n* at most (`NewestAreFew`), whatever the day on which the transaction completes.

### Notifications and pages (`NotificationsProofs`)

Both sort: a sync selects the newest items of its window, a page takes the first rows beyond its cursor. An order on a finite
set gives each member a rank (how many precede it), ranks are unique and have no gaps (`EveryRank`), hence the first *n* exist and are *n*
(`FirstOfCounts`). The order is a set of pairs there, so that one set of lemmas serves all. The second ingredient is that
cutting a time to its millisecond is monotonic and idempotent.

* `NotifyInvariant` (`NotifyInv`), and from it `NotifyTyped`, `EachNotifiedOnce` (`NotifiedOnce`) and `NothingIsLost` (`NothingLost`). What
  was notified must be outside of every window to come: below the stored watermark, below the one that a sync with the lock has read, and not beyond
  its `syncedAt` (`NotifiedOK`). That needs `FollowOK` (a watermark is the time of the follow or the `Date` of a sync) and `WatermarkOK` (what a
  sync has read is not ahead of the follow, even if the character was unfollowed and followed since). For `NothingLost` two more parts:
  what a sync passes over has more newer items in its window than it may select (`PassedOver`, `Outnumbered`), and what lies below
  a watermark is settled: notified, late, expired or given up (`Due`, `Settled`).
* `PageInvariant` (`PageInv`), and from it `PageTyped`, `PagesMissNothing` (`PagesCover`) and `PagesAdvance` (`PagesGoOn`). `AheadOK`: what was there
  all along and has not been shown is ahead of the cursor, or has the millisecond of one. `ShownOK`: what was shown is not beyond the cursor;
  of ascending lists only the millisecond is known, because their next page begins with the millisecond of its cursor again
  (section 6), and that is also all that `PagesGoOn` promises of them.

### Consents and inquiries (`ConsentsProofs`, `InquiriesProofs`)

* `RequiredStand` (`RequiredConsentsStand`), `LatestAnswersCount` (`AnswersCount`) and `ConsentsTyped` (`ConsentTypeOK`). The invariant says what the
  validation of its input leaves of a call (`RequestOK`), that nothing is stored before the registration (`RowsInv`), and that a
  call which has not been overtaken has read the latest rows (`ReadsAreCurrent`). The type invariant says besides that nobody has agreed to a version
  before it took effect (`InForceInv`).
* `LimitHolds` (`DailyLimitHolds`), `AnswersStay` (`AnsweredInquiriesStay`) and `InquiriesTyped` (`InquiryTypeOK`). The limit is inductive with
  `LockKeepsPlace`: the lock has one holder, and the place it
  counted is still free, because nobody else inserts and statuses only make room.

## 6. Where code and documentation disagree

* `ReplySecondReply` (code bug, late attempts): `claim()` updates the row it read by ID only; a late attempt that
  completed the job in between is undone and the turn is answered twice.
* `PurchaseReopened` (code bug): the answer to `requestRefund` is written over a refund that the webhook has
  completed already. The refund then counts as locking for ever, its completion fails on the unique reference of
  the recovery, and later cumulative events take its credits back again.
* `AuthDebt` (code bug): a withdrawal takes the identity from before its transaction; if the user is verified
  in between, the debt is kept for nobody. `docs/credit-policy.md:183-184` has it kept with the identity.
* `MessagePages` (code bug): a page of messages begins with the message of its cursor again, because `sent_at` has
  microseconds and the `Date` it is read into has not (`messages.service.ts:267`); with `limit=1` no page goes on.
  `docs/06-architecture.md:99-100` polls for what is new after the cursor.

Seen in the models, without a run of their own:

* Replies. A turn that waits out its back-off is overtaken by the next one of its conversation (`message-reply.worker.ts:426`;
  `docs/06-architecture.md:116` says in order). An answer that comes after the 15-minute deadline is stored and charged (`:363`;
  `docs/06-architecture.md:140` has such runs released). Rows of a busy conversation can fill the window of
  `concurrency * 4` rows (`:158`). If the answer to the COMMIT of `sendMessage` is lost, the reservation of a stored turn is released (`messages.service.ts:162`).
* Purchases. A refund that the provider takes as pending and refuses later keeps its credits locked
  (`purchases.service.ts:456`; `docs/payment-refund-test-usecases.md`, LOCK-03, says they are unlocked). A call that is alive
  but slow is taken over after 30 seconds (`:1291`; nothing bounds the two calls of the provider at `:1279` and `:1295`): both open a
  checkout although nobody died. So do two calls that take over from a dead one. The payment of the second checkout is
  refused as `duplicate_capture` (`:606`). A refund event
  that comes while a larger refund is pending is answered and lost until the next event (`:776`). A reservation stranded by a
  dead call blocks all refunds of its user (`:1079`).
* Accounts. A login that was checked before a withdrawal inserts its token after it, and `refresh` does not look at
  `deletedAt` (`auth.service.ts:224`; `docs/account-support-policy.md:31` has the tokens deleted; access tokens are refused all
  the same). Two withdrawals of one account record its debt twice (`:543`). The reference `identity_debt:<hash>` is unique, so the
  debt of a person moves once (`:711`). Registration is three transactions: account, bonus, token (`:185`).
* Records of a user. A call that answers what was the latest row when it read leaves no row, although another answer
  came in between (`consents.service.ts:171-172` says both remain). An inquiry that waits over midnight is counted on
  the new day and stored on the old one, and a deleted inquiry frees its place (`docs/account-support-policy.md:59`: 10 a day).
  Descending pages skip rows of their cursor's millisecond (`notifications.service.ts:292`). With `unreadOnly` the next page is
  refused once the notification of the cursor was read; a list of inquiries ends early if its cursor was deleted; a late transaction moves a
  conversation back. IDs of one sync ascend from its newest item on, so a listing shows its oldest first.
  `notification-types.ts:20-21` speaks of `skipped`, the response says `truncated`.

## 7. What is not modelled, and the plan

Not modelled for good: the text sent to the agent and what it answers, formatting, signatures
and HTTP clients, the local payment provider (refused in production; the only source of `failed` events), reads
without effect, the score of the feed (its pages are sorted in memory by a score that changes between them), access tokens,
clocks that differ between instances (a watermark could move back), migrations and wiring.

Done: all modules of section 2, their runs, and the proofs of section 5. What is left, in this order:

1. Theorems beyond what the runs check: in `ReplyJobs`, what survives of `ReplyInv` when leases do end early.
2. A composition of replies with the ledger, for the holds that block refunds and for captures that fail.

---------------------------- MODULE AuthSessions ----------------------------
(***************************************************************************)
(* Accounts and their sessions (auth.service.ts): registration, logins,    *)
(* the rotation of refresh tokens, the change of a password, withdrawal,   *)
(* and the adult identity to which the debt of a withdrawn account sticks. *)
(*                                                                         *)
(* Three advisory locks are involved, and they exclude only their own      *)
(* kind: "auth_sessions:<user>" (login, refresh, password), "<user>" and   *)
(* "adult_identity:<hash>" (withdrawal, verification), and "credits:<user>"*)
(* of everything that changes credits.  A transaction is cut where another *)
(* one that holds none of its locks can come between two of its            *)
(* statements.  A call may end at any step with an error, which rolls back *)
(* what it has not committed.                                              *)
(***************************************************************************)
EXTENDS Integers, FiniteSets

CONSTANTS
  Users,          \* accounts that may exist
  SocialUsers,    \* those of a social provider, which have no password
  Buyers,         \* bound of the model: those that buy credits
  Tokens,         \* refresh tokens that may be issued
  Identities,     \* persons, as hashes of their adult identity
  Calls,          \* calls in flight
  NoUser, NoToken, NoIdentity,  \* "null"
  MaxPasswords    \* bound of the model: passwords a user may have

ASSUME SocialUsersType == SocialUsers \subseteq Users
ASSUME BuyersType == Buyers \subseteq Users
ASSUME NullsAreNull == NoUser \notin Users /\ NoToken \notin Tokens /\ NoIdentity \notin Identities
ASSUME MaxPasswordsType == MaxPasswords \in Nat \ {0}

VARIABLES
  account,      \* users
  token,        \* user_refresh_tokens
  call,         \* calls in flight
  purchase,     \* the one credit purchase of each user
  paid,         \* paid balance of each user
  kept,         \* unsettled_credit_debts
  transferred   \* identities whose debt has been moved (identity_debt rows)

creditVars == <<purchase, paid>>
debtVars == <<kept, transferred>>
vars == <<account, token, call, creditVars, debtVars>>

-----------------------------------------------------------------------------
(***************************************************************************)
(* Rows and records                                                        *)
(***************************************************************************)

\* password counts the passwords set so far; hash and salt are new with each.
\* A withdrawal sets the columns to null: the count is kept, and what asks for a
\* hash asks for an active account.
Account == [status: {"none", "active", "deleted"},
            password: 0..MaxPasswords,
            identity: Identities \cup {NoIdentity}]

NoAccount == [status |-> "none", password |-> 0, identity |-> NoIdentity]

\* session, the token the session began with, and password, the one that was
\* entered to begin it (0: none was), are history.
Token == [status: {"none", "live", "expired", "revoked", "deleted"},
          user: Users \cup {NoUser},
          session: Tokens \cup {NoToken},
          password: 0..MaxPasswords]

UnusedToken == [status |-> "none", user |-> NoUser, session |-> NoToken, password |-> 0]

Call == [pc: {"idle", "issuing", "login", "loginLocked", "refresh", "change", "changeLocked",
              "delete", "deleteLocked", "deleteWritten"},
         user: Users \cup {NoUser},
         token: Tokens \cup {NoToken},
         password: 0..MaxPasswords,
         identity: Identities \cup {NoIdentity},
         debt: Nat]

Idle == [pc |-> "idle", user |-> NoUser, token |-> NoToken, password |-> 0,
         identity |-> NoIdentity, debt |-> 0]

Active(u) == account[u].status = "active"
Unissued(t) == token[t].status = "none"
Owned(u) == {t \in Tokens : token[t].user = u}

\* userIdFromAuthorization: an access token comes with a refresh token and is not
\* revoked with it, but it is good for an active account only.  (Its 15 minutes
\* are not modelled.)
Authorized(u) == Active(u) /\ Owned(u) # {}

At(k, pc, u) == call[k].pc = pc /\ call[k].user = u

\* pg_advisory_xact_lock of auth_sessions:<user>
SessionsLocked(u) == \E k \in Calls : At(k, "loginLocked", u) \/ At(k, "changeLocked", u)

\* The UPDATE of a withdrawal sets the e-mail, a key of users, to null: the row
\* is locked against other UPDATEs and against the foreign key of a new token.
RowLocked(u) == \E k \in Calls : At(k, "deleteWritten", u)

\* pg_advisory_xact_lock of <user> and of adult_identity:<hash>
WithdrawalHolds(u, h) ==
  \E k \in Calls :
    /\ call[k].pc \in {"deleteLocked", "deleteWritten"}
    /\ call[k].user = u \/ (call[k].identity = h /\ h # NoIdentity)

-----------------------------------------------------------------------------
(***************************************************************************)
(* Registration and logins                                                 *)
(***************************************************************************)

NewToken(u, t, password) == [status |-> "live", user |-> u, session |-> t, password |-> password]

\* The token is issued after the signup bonus, without a lock.
Register(k, u) ==
  /\ call[k] = Idle
  /\ u \notin SocialUsers
  /\ account[u].status = "none"
  /\ account' = [account EXCEPT ![u] = [NoAccount EXCEPT !.status = "active", !.password = 1]]
  /\ call' = [call EXCEPT ![k] = [Idle EXCEPT !.pc = "issuing", !.user = u]]
  /\ UNCHANGED <<token, creditVars, debtVars>>

SocialLogin(k, u) ==
  /\ call[k] = Idle
  /\ u \in SocialUsers
  /\ account[u].status # "deleted"
  /\ account' = [account EXCEPT ![u].status = "active"]
  /\ call' = [call EXCEPT ![k] = [Idle EXCEPT !.pc = "issuing", !.user = u]]
  /\ UNCHANGED <<token, creditVars, debtVars>>

LoginReads(k, u) ==
  /\ call[k] = Idle
  /\ u \notin SocialUsers
  /\ Active(u)
  /\ call' = [call EXCEPT ![k] = [Idle EXCEPT !.pc = "login", !.user = u,
                                              !.password = account[u].password]]
  /\ UNCHANGED <<account, token, creditVars, debtVars>>

\* Mutant: the password is not looked at again under the lock.
StillExists(k, u) == Active(u)

StillMatches(k, u) == Active(u) /\ account[u].password = call[k].password

LoginChecks(k, u) ==
  /\ At(k, "login", u)
  /\ ~SessionsLocked(u)
  /\ StillMatches(k, u)
  /\ call' = [call EXCEPT ![k].pc = "loginLocked"]
  /\ UNCHANGED <<account, token, creditVars, debtVars>>

\* issueTokens at the end of register, socialLogin and login.
IssueTokens(k, u, t) ==
  /\ At(k, "issuing", u) \/ At(k, "loginLocked", u)
  /\ ~RowLocked(u)
  /\ Unissued(t)
  /\ token' = [token EXCEPT ![t] = NewToken(u, t, call[k].password)]
  /\ call' = [call EXCEPT ![k] = Idle]
  /\ UNCHANGED <<account, creditVars, debtVars>>

-----------------------------------------------------------------------------
(***************************************************************************)
(* Refresh tokens                                                          *)
(***************************************************************************)

RefreshReads(k, t) ==
  /\ call[k] = Idle
  /\ token[t].status = "live"
  /\ call' = [call EXCEPT ![k] = [Idle EXCEPT !.pc = "refresh", !.user = token[t].user,
                                              !.token = t]]
  /\ UNCHANGED <<account, token, creditVars, debtVars>>

\* Mutant: the UPDATE that revokes the token does not look whether it is revoked.
MayRotateTwice(t) == token[t].status \in {"live", "revoked"}

MayRotate(t) == token[t].status = "live"

\* While a withdrawal holds the row one of the two is aborted as a deadlock, or
\* the token is gone.
RefreshRotates(k, t, next) ==
  LET old == call[k].token
  IN
  /\ call[k].pc = "refresh"
  /\ old = t
  /\ ~SessionsLocked(token[old].user)
  /\ ~RowLocked(token[old].user)
  /\ MayRotate(old)
  /\ Unissued(next)
  /\ token' = [token EXCEPT ![old].status = "revoked",
                            ![next] = [token[old] EXCEPT !.status = "live"]]
  /\ call' = [call EXCEPT ![k] = Idle]
  /\ UNCHANGED <<account, creditVars, debtVars>>

RevokeRefreshToken(t) ==
  /\ token[t].status \in {"live", "expired"}
  /\ token' = [token EXCEPT ![t].status = "revoked"]
  /\ UNCHANGED <<account, call, creditVars, debtVars>>

TokenExpires(t) ==
  /\ token[t].status = "live"
  /\ token' = [token EXCEPT ![t].status = "expired"]
  /\ UNCHANGED <<account, call, creditVars, debtVars>>

-----------------------------------------------------------------------------
(***************************************************************************)
(* Changing the password                                                   *)
(***************************************************************************)

ChangeReads(k, u) ==
  /\ call[k] = Idle
  /\ u \notin SocialUsers
  /\ Authorized(u)
  /\ call' = [call EXCEPT ![k] = [Idle EXCEPT !.pc = "change", !.user = u,
                                              !.password = account[u].password]]
  /\ UNCHANGED <<account, token, creditVars, debtVars>>

ChangeChecks(k, u) ==
  /\ At(k, "change", u)
  /\ ~SessionsLocked(u)
  /\ StillMatches(k, u)
  /\ call' = [call EXCEPT ![k].pc = "changeLocked"]
  /\ UNCHANGED <<account, token, creditVars, debtVars>>

\* Mutant: only the tokens of the session that changes the password are revoked.
LoggedOutHere(u) == {t \in Owned(u) : t = token[t].session}

\* The call does not know which session it comes from.
LoggedOut(u) == Owned(u)

\* The UPDATE names the row only, so it is made even to a deleted account.
ChangeWrites(k, u, t) ==
  /\ At(k, "changeLocked", u)
  /\ ~RowLocked(u)
  /\ Unissued(t)
  /\ account[u].password < MaxPasswords
  /\ account' = [account EXCEPT ![u].password = @ + 1]
  /\ token' = [s \in Tokens |->
                 IF s = t THEN NewToken(u, t, account[u].password + 1)
                 ELSE IF s \in LoggedOut(u) /\ token[s].status \in {"live", "expired"}
                 THEN [token[s] EXCEPT !.status = "revoked"]
                 ELSE token[s]]
  /\ call' = [call EXCEPT ![k] = Idle]
  /\ UNCHANGED <<creditVars, debtVars>>

-----------------------------------------------------------------------------
(***************************************************************************)
(* Withdrawal and adult identity                                           *)
(***************************************************************************)

\* The access token and the password are checked and the identity is read
\* before the transaction.
DeleteReads(k, u) ==
  /\ call[k] = Idle
  /\ u \notin SocialUsers
  /\ Authorized(u)
  /\ call' = [call EXCEPT ![k] = [Idle EXCEPT !.pc = "delete", !.user = u,
                                              !.identity = account[u].identity]]
  /\ UNCHANGED <<account, token, creditVars, debtVars>>

Debt(u) == IF paid[u] < 0 THEN -paid[u] ELSE 0

\* Under its two locks, which nothing that changes credits or sessions takes.
DeleteLocks(k, u) ==
  /\ At(k, "delete", u)
  /\ ~WithdrawalHolds(u, call[k].identity)
  /\ paid[u] <= 0
  /\ call' = [call EXCEPT ![k].pc = "deleteLocked", ![k].debt = Debt(u)]
  /\ UNCHANGED <<account, token, creditVars, debtVars>>

\* The second query of the check: a refund in progress, of which there is none
\* here, refuses the withdrawal as a pending payment does.  Then the writes, which
\* show when they commit; the user itself is not looked at again.
DeleteWrites(k, u) ==
  /\ At(k, "deleteLocked", u)
  /\ purchase[u] # "pending"
  /\ call' = [call EXCEPT ![k].pc = "deleteWritten"]
  /\ UNCHANGED <<account, token, creditVars, debtVars>>

DeleteCommits(k, u) ==
  LET h == call[k].identity
  IN
  /\ At(k, "deleteWritten", u)
  /\ account' = [account EXCEPT ![u].status = "deleted", ![u].identity = NoIdentity]
  /\ token' = [t \in Tokens |-> IF t \in Owned(u) THEN [token[t] EXCEPT !.status = "deleted"]
                                ELSE token[t]]
  /\ kept' = IF h = NoIdentity THEN kept ELSE [kept EXCEPT ![h] = @ + call[k].debt]
  /\ call' = [call EXCEPT ![k] = Idle]
  /\ UNCHANGED <<creditVars, transferred>>

\* Mutant: the account is not looked at again under the locks.
MayVerifyAnyway(u, h) ==
  /\ account[u].status # "none"
  /\ \A v \in Users \ {u} : ~(Active(v) /\ account[v].identity = h)

MayVerify(u, h) ==
  /\ Active(u)
  /\ \A v \in Users \ {u} : ~(Active(v) /\ account[v].identity = h)

\* applyVerifiedAdultIdentity.  The reference identity_debt:<hash> is unique: a
\* second transfer of a debt of h fails.
VerifyIdentity(u, h) ==
  /\ Owned(u) # {}
  /\ ~WithdrawalHolds(u, h)
  /\ MayVerify(u, h)
  /\ kept[h] > 0 => h \notin transferred
  /\ account' = [account EXCEPT ![u].identity = h]
  /\ paid' = [paid EXCEPT ![u] = @ - kept[h]]
  /\ transferred' = IF kept[h] > 0 THEN transferred \cup {h} ELSE transferred
  /\ kept' = [kept EXCEPT ![h] = 0]
  /\ UNCHANGED <<token, call, purchase>>

-----------------------------------------------------------------------------
(***************************************************************************)
(* What changes the paid balance, in terms of one credit (see Purchases)   *)
(***************************************************************************)

PurchaseStarts(u) ==
  /\ u \in Buyers
  /\ Authorized(u)
  /\ purchase[u] = "none"
  /\ purchase' = [purchase EXCEPT ![u] = "pending"]
  /\ UNCHANGED <<account, token, call, paid, debtVars>>

PurchaseIsPaid(u) ==
  /\ purchase[u] = "pending"
  /\ purchase' = [purchase EXCEPT ![u] = "paid"]
  /\ paid' = [paid EXCEPT ![u] = @ + 1]
  /\ UNCHANGED <<account, token, call, debtVars>>

CreditIsSpent(u) ==
  /\ Active(u)
  /\ paid[u] > 0
  /\ paid' = [paid EXCEPT ![u] = @ - 1]
  /\ UNCHANGED <<account, token, call, purchase, debtVars>>

PurchaseIsReversed(u) ==
  /\ purchase[u] = "paid"
  /\ purchase' = [purchase EXCEPT ![u] = "reversed"]
  /\ paid' = [paid EXCEPT ![u] = @ - 1]
  /\ UNCHANGED <<account, token, call, debtVars>>

-----------------------------------------------------------------------------

\* Mutant: a call that fails does not let go of its locks.
EndedHolding(k) == [call[k] EXCEPT !.pc = "idle"]

Ended(k) == Idle

\* An error, a check that fails, a deadlock, or the process dies.
CallEnds(k) ==
  /\ call[k] # Idle
  /\ call' = [call EXCEPT ![k] = Ended(k)]
  /\ UNCHANGED <<account, token, creditVars, debtVars>>

Init ==
  /\ account = [u \in Users |-> NoAccount]
  /\ token = [t \in Tokens |-> UnusedToken]
  /\ call = [k \in Calls |-> Idle]
  /\ purchase = [u \in Users |-> "none"]
  /\ paid = [u \in Users |-> 0]
  /\ kept = [h \in Identities |-> 0]
  /\ transferred = {}

SessionStep(k) ==
  \/ \E u \in Users : \/ Register(k, u) \/ SocialLogin(k, u)
                      \/ LoginReads(k, u) \/ LoginChecks(k, u)
                      \/ ChangeReads(k, u) \/ ChangeChecks(k, u)
                      \/ \E t \in Tokens : IssueTokens(k, u, t) \/ ChangeWrites(k, u, t)
  \/ \E t \in Tokens : \/ RefreshReads(k, t)
                       \/ \E next \in Tokens : RefreshRotates(k, t, next)

WithdrawalStep(k) ==
  \E u \in Users : DeleteReads(k, u) \/ DeleteLocks(k, u) \/ DeleteWrites(k, u) \/ DeleteCommits(k, u)

CreditStep(u) == PurchaseStarts(u) \/ PurchaseIsPaid(u) \/ CreditIsSpent(u) \/ PurchaseIsReversed(u)

Next ==
  \/ \E k \in Calls : SessionStep(k) \/ WithdrawalStep(k) \/ CallEnds(k)
  \/ \E t \in Tokens : RevokeRefreshToken(t) \/ TokenExpires(t)
  \/ \E u \in Users : CreditStep(u) \/ \E h \in Identities : VerifyIdentity(u, h)

Spec == Init /\ [][Next]_vars

-----------------------------------------------------------------------------
(***************************************************************************)
(* Properties                                                              *)
(***************************************************************************)

\* Rows and calls have the shapes the code gives them; a call that is over holds
\* nothing.
AuthTypeOK ==
  /\ account \in [Users -> Account]
  /\ token \in [Tokens -> Token]
  /\ call \in [Calls -> Call]
  /\ \A k \in Calls : call[k].pc = "idle" => call[k] = Idle
  /\ purchase \in [Users -> {"none", "pending", "paid", "reversed"}]
  /\ paid \in [Users -> Int]
  /\ kept \in [Identities -> Nat]
  /\ transferred \subseteq Identities

SessionTokens(s) == {t \in Tokens : token[t].session = s}

Alive(s) == \E t \in SessionTokens(s) : token[t].status = "live"

\* However many calls present a token at once, a session has one valid token.
OneTokenPerSession ==
  \A s \in Tokens : \A t, u \in SessionTokens(s) :
    token[t].status = "live" /\ token[u].status = "live" => t = u

\* A session that was begun with a password is not alive under another one: a
\* login that was checked against the old password does not survive the change.
\* (The first session of an account, whose token register issues without a lock,
\* was begun with none.)
OldPasswordsAreOut ==
  \A t \in Tokens : token[t].status = "live" /\ token[t].password > 0 =>
    token[t].password = account[token[t].user].password

\* An adult identity belongs to one account, which has not been withdrawn, even
\* if the verification and the withdrawal meet.
IdentityOfOneAccount ==
  /\ \A u \in Users : account[u].identity # NoIdentity => Active(u)
  /\ \A u, v \in Users : account[u].identity = account[v].identity
                         /\ account[u].identity # NoIdentity => u = v

Promise == INSTANCE SessionPromise WITH
  Sessions <- Tokens,
  session <- [s \in Tokens |-> IF Alive(s) THEN "alive"
                               ELSE IF token[s].session = s THEN "over" ELSE "none"],
  owner <- [s \in Tokens |-> IF token[s].session = s THEN token[s].user ELSE NoUser],
  password <- [u \in Users |-> account[u].password]

\* Seen as sessions, tokens keep the promise of SessionPromise: a session that
\* was logged out, has expired or was ended by a change of the password is never
\* refreshed again, and the change of a password leaves only the session that
\* begins with it.
KeepsPromise == Promise!PromiseSpec

\* docs/credit-policy.md:182: the debt of a person who withdraws is kept with the
\* identity until it is paid.  Violated: a withdrawal keeps what was owed when it
\* looked, for the identity that was read before its transaction.
WithdrawalKeepsDebt ==
  [][\A u \in Users, h \in Identities :
       Active(u) /\ account[u].identity = h /\ account'[u].status = "deleted"
         => kept'[h] = kept[h] + Debt(u)]_vars

=============================================================================

------------------------- MODULE AuthSessionsProofs -------------------------
(***************************************************************************)
(* Proofs about AuthSessions, for any number of accounts, tokens, calls,   *)
(* passwords and identities.                                               *)
(***************************************************************************)
EXTENDS AuthSessions, TLAPS

-----------------------------------------------------------------------------
(***************************************************************************)
(* The invariant                                                           *)
(***************************************************************************)

Exists(u) == account[u].status # "none"

AccountsInv ==
  /\ account \in [Users -> Account]
  /\ \A u \in Users : ~Exists(u) => account[u] = NoAccount

\* A token that has been issued belongs to an account that exists and to a
\* session of that account, which is named after the token it began with.
TokensInv ==
  /\ token \in [Tokens -> Token]
  /\ \A t \in Tokens : Unissued(t) => token[t] = UnusedToken
  /\ \A t \in Tokens : ~Unissued(t) =>
       /\ token[t].user \in Users
       /\ token[t].session \in Tokens
       /\ token[token[t].session].session = token[t].session
       /\ token[token[t].session].user = token[t].user

OwnersExist == \A t \in Tokens : ~Unissued(t) => Exists(token[t].user)

SessionLock == {"loginLocked", "changeLocked"}

\* A call works for an account that exists.
CallsInv ==
  /\ call \in [Calls -> Call]
  /\ \A k \in Calls : /\ call[k].pc = "idle" => call[k] = Idle
                      /\ call[k].pc # "idle" => call[k].user \in Users
                      /\ call[k].pc = "issuing" => call[k].password = 0

UsersExist == \A k \in Calls : call[k].pc # "idle" => Exists(call[k].user)

\* The lock of the sessions of an account has one holder, and the password that
\* a login was checked against is current while it has the lock.
LocksInv ==
  /\ \A k, l \in Calls : /\ call[k].pc \in SessionLock /\ call[l].pc \in SessionLock
                         /\ call[k].user = call[l].user
                         => k = l
  /\ \A k \in Calls : call[k].pc = "loginLocked" => call[k].password = account[call[k].user].password

CreditsInv ==
  /\ purchase \in [Users -> {"none", "pending", "paid", "reversed"}]
  /\ paid \in [Users -> Int]
  /\ kept \in [Identities -> Nat]
  /\ transferred \subseteq Identities

AuthInv ==
  /\ AccountsInv /\ IdentityOfOneAccount
  /\ TokensInv /\ OwnersExist /\ OneTokenPerSession /\ OldPasswordsAreOut
  /\ CallsInv /\ UsersExist /\ LocksInv
  /\ CreditsInv

LEMMA InvariantTypes == AuthInv => AuthTypeOK
  BY DEF AuthInv, AccountsInv, TokensInv, CallsInv, CreditsInv, AuthTypeOK

LEMMA InvariantInit ==
  ASSUME Init
  PROVE  AuthInv
  <1>1. NoAccount \in Account /\ NoAccount.status = "none" /\ NoAccount.identity = NoIdentity
    BY MaxPasswordsType DEF NoAccount, Account
  <1>2. UnusedToken \in Token /\ UnusedToken.status = "none"
    BY MaxPasswordsType DEF UnusedToken, Token
  <1>3. Idle \in Call /\ Idle.pc = "idle"
    BY MaxPasswordsType DEF Idle, Call
  <1>4. AccountsInv /\ IdentityOfOneAccount
    BY <1>1 DEF Init, AccountsInv, IdentityOfOneAccount
  <1>5. TokensInv /\ OwnersExist /\ OneTokenPerSession /\ OldPasswordsAreOut
    BY <1>2 DEF Init, TokensInv, OwnersExist, Unissued, OneTokenPerSession, OldPasswordsAreOut, SessionTokens
  <1>6. CallsInv /\ UsersExist /\ LocksInv
    BY <1>3 DEF Init, CallsInv, UsersExist, LocksInv, SessionLock
  <1>7. CreditsInv
    BY DEF Init, CreditsInv
  <1>8. QED BY <1>4, <1>5, <1>6, <1>7 DEF AuthInv

-----------------------------------------------------------------------------
(***************************************************************************)
(* Accounts                                                                *)
(***************************************************************************)

\* The actions that write accounts, and those that write refresh tokens.
AccountWritten ==
  \/ \E k \in Calls, u \in Users : Register(k, u) \/ SocialLogin(k, u) \/ DeleteCommits(k, u)
  \/ \E k \in Calls, u \in Users, t \in Tokens : ChangeWrites(k, u, t)
  \/ \E u \in Users, h \in Identities : VerifyIdentity(u, h)

TokenWritten ==
  \/ \E k \in Calls, u \in Users, t \in Tokens : IssueTokens(k, u, t) \/ ChangeWrites(k, u, t)
  \/ \E k \in Calls, old, next \in Tokens : RefreshRotates(k, old, next)
  \/ \E k \in Calls, u \in Users : DeleteCommits(k, u)
  \/ \E t \in Tokens : RevokeRefreshToken(t) \/ TokenExpires(t)

\* Every other step leaves the table alone.
LEMMA WhoWrites ==
  ASSUME [Next]_vars
  PROVE  (UNCHANGED account \/ AccountWritten) /\ (UNCHANGED token \/ TokenWritten)
  <1>1. ASSUME NEW k \in Calls, NEW u \in Users,
               Register(k, u) \/ SocialLogin(k, u) \/ LoginReads(k, u) \/ LoginChecks(k, u)
        PROVE  (UNCHANGED account \/ AccountWritten) /\ UNCHANGED token
    BY <1>1 DEF AccountWritten, Register, SocialLogin, LoginReads, LoginChecks
  <1>2. ASSUME NEW k \in Calls, NEW u \in Users, ChangeReads(k, u) \/ ChangeChecks(k, u)
        PROVE  UNCHANGED account /\ UNCHANGED token
    BY <1>2 DEF ChangeReads, ChangeChecks
  <1>3. ASSUME NEW k \in Calls, NEW u \in Users, NEW t \in Tokens,
               IssueTokens(k, u, t) \/ ChangeWrites(k, u, t)
        PROVE  (UNCHANGED account \/ AccountWritten) /\ TokenWritten
    <2>1. IssueTokens(k, u, t) => UNCHANGED account
      BY DEF IssueTokens
    <2>2. QED BY <1>3, <2>1 DEF AccountWritten, TokenWritten
  <1>4. ASSUME NEW k \in Calls, NEW t \in Tokens, RefreshReads(k, t)
        PROVE  UNCHANGED account /\ UNCHANGED token
    BY <1>4 DEF RefreshReads
  <1>5. ASSUME NEW k \in Calls, NEW t \in Tokens, NEW next \in Tokens, RefreshRotates(k, t, next)
        PROVE  UNCHANGED account /\ TokenWritten
    <2>1. UNCHANGED account
      BY <1>5 DEF RefreshRotates
    <2>2. QED BY <1>5, <2>1 DEF TokenWritten
  <1>6. ASSUME NEW k \in Calls, SessionStep(k)
        PROVE  (UNCHANGED account \/ AccountWritten) /\ (UNCHANGED token \/ TokenWritten)
    BY <1>1, <1>2, <1>3, <1>4, <1>5, <1>6 DEF SessionStep
  <1>7. ASSUME NEW k \in Calls, NEW u \in Users,
               DeleteReads(k, u) \/ DeleteLocks(k, u) \/ DeleteWrites(k, u)
        PROVE  UNCHANGED account /\ UNCHANGED token
    BY <1>7 DEF DeleteReads, DeleteLocks, DeleteWrites
  <1>8. ASSUME NEW k \in Calls, WithdrawalStep(k)
        PROVE  (UNCHANGED account \/ AccountWritten) /\ (UNCHANGED token \/ TokenWritten)
    BY <1>7, <1>8 DEF WithdrawalStep, AccountWritten, TokenWritten
  <1>9. ASSUME NEW k \in Calls, CallEnds(k)
        PROVE  UNCHANGED account /\ UNCHANGED token
    BY <1>9 DEF CallEnds
  <1>10. ASSUME NEW t \in Tokens, RevokeRefreshToken(t) \/ TokenExpires(t)
         PROVE  UNCHANGED account /\ TokenWritten
    <2>1. UNCHANGED account
      BY <1>10 DEF RevokeRefreshToken, TokenExpires
    <2>2. QED BY <1>10, <2>1 DEF TokenWritten
  <1>11. ASSUME NEW u \in Users, CreditStep(u)
         PROVE  UNCHANGED account /\ UNCHANGED token
    BY <1>11 DEF CreditStep, PurchaseStarts, PurchaseIsPaid, CreditIsSpent, PurchaseIsReversed
  <1>12. ASSUME NEW u \in Users, NEW h \in Identities, VerifyIdentity(u, h)
         PROVE  AccountWritten /\ UNCHANGED token
    <2>1. UNCHANGED token
      BY <1>12 DEF VerifyIdentity
    <2>2. QED BY <1>12, <2>1 DEF AccountWritten
  <1>13. CASE UNCHANGED vars
    BY <1>13 DEF vars
  <1>14. QED BY <1>6, <1>8, <1>9, <1>10, <1>11, <1>12, <1>13 DEF Next

\* What a step may do to accounts: no account ceases to exist, and a password
\* changes only when the account is made or under the lock of its sessions.
AccountsGrow ==
  \A u \in Users :
    /\ Exists(u) => Exists(u)'
    /\ account'[u].password # account[u].password =>
         ~Exists(u) \/ \E k \in Calls, t \in Tokens : ChangeWrites(k, u, t)

LEMMA AccountsStep ==
  ASSUME AuthInv, [Next]_vars
  PROVE  AccountsInv' /\ IdentityOfOneAccount' /\ AccountsGrow
  <1> AccountsInv /\ IdentityOfOneAccount
    BY DEF AuthInv
  <1>1. ASSUME NEW k \in Calls, NEW u \in Users, Register(k, u)
        PROVE  AccountsInv' /\ IdentityOfOneAccount' /\ AccountsGrow
    <2> DEFINE a == [NoAccount EXCEPT !.status = "active", !.password = 1]
    <2>1. a \in Account /\ a.status = "active" /\ a.identity = NoIdentity
      <3>1. 1 \in 0..MaxPasswords
        BY MaxPasswordsType
      <3>2. QED BY <3>1 DEF Account, NoAccount
    <2>2. account' = [account EXCEPT ![u] = a] /\ ~Exists(u)
      BY <1>1 DEF Register, Exists
    <2> HIDE DEF a
    <2>3. AccountsInv'
      BY <2>1, <2>2 DEF AccountsInv, Exists
    <2>4. IdentityOfOneAccount'
      BY <2>1, <2>2 DEF AccountsInv, IdentityOfOneAccount, Active
    <2>5. AccountsGrow
      BY <2>1, <2>2 DEF AccountsInv, AccountsGrow, Exists
    <2>6. QED BY <2>3, <2>4, <2>5
  <1>2. ASSUME NEW k \in Calls, NEW u \in Users, SocialLogin(k, u)
        PROVE  AccountsInv' /\ IdentityOfOneAccount' /\ AccountsGrow
    <2> DEFINE a == [account[u] EXCEPT !.status = "active"]
    <2>1. /\ a \in Account /\ a.status = "active" /\ a.identity = account[u].identity
          /\ a.password = account[u].password
      BY DEF AccountsInv, Account
    <2>2. account' = [account EXCEPT ![u] = a]
      BY <1>2 DEF SocialLogin
    <2> HIDE DEF a
    <2>3. AccountsInv'
      BY <2>1, <2>2 DEF AccountsInv, Exists
    <2>4. IdentityOfOneAccount'
      BY <2>1, <2>2 DEF AccountsInv, IdentityOfOneAccount, Active
    <2>5. AccountsGrow
      BY <2>1, <2>2 DEF AccountsInv, AccountsGrow, Exists
    <2>6. QED BY <2>3, <2>4, <2>5
  <1>3. ASSUME NEW k \in Calls, NEW u \in Users, NEW t \in Tokens, ChangeWrites(k, u, t)
        PROVE  AccountsInv' /\ IdentityOfOneAccount' /\ AccountsGrow
    <2> DEFINE a == [account[u] EXCEPT !.password = account[u].password + 1]
    <2>1. account[u].password + 1 \in 0..MaxPasswords
      BY <1>3, MaxPasswordsType DEF ChangeWrites, AccountsInv, Account
    <2>2. a \in Account /\ a.status = account[u].status /\ a.identity = account[u].identity
      BY <2>1 DEF AccountsInv, Account
    <2>3. account' = [account EXCEPT ![u] = a]
      BY <1>3 DEF ChangeWrites
    <2>4. Exists(u)
      BY <1>3 DEF ChangeWrites, At, AuthInv, UsersExist
    <2> HIDE DEF a
    <2>5. AccountsInv'
      BY <2>2, <2>3, <2>4 DEF AccountsInv, Exists
    <2>6. IdentityOfOneAccount'
      BY <2>2, <2>3 DEF AccountsInv, IdentityOfOneAccount, Active
    <2>7. AccountsGrow
      BY <1>3, <2>2, <2>3 DEF AccountsInv, AccountsGrow, Exists
    <2>8. QED BY <2>5, <2>6, <2>7
  <1>4. ASSUME NEW k \in Calls, NEW u \in Users, DeleteCommits(k, u)
        PROVE  AccountsInv' /\ IdentityOfOneAccount' /\ AccountsGrow
    <2> DEFINE a == [account[u] EXCEPT !.status = "deleted", !.identity = NoIdentity]
    <2>1. /\ a \in Account /\ a.status = "deleted" /\ a.identity = NoIdentity
          /\ a.password = account[u].password
      BY DEF AccountsInv, Account
    <2>2. account' = [account EXCEPT ![u] = a]
      BY <1>4 DEF DeleteCommits
    <2> HIDE DEF a
    <2>3. AccountsInv'
      BY <2>1, <2>2 DEF AccountsInv, Exists
    <2>4. IdentityOfOneAccount'
      BY <2>1, <2>2 DEF AccountsInv, IdentityOfOneAccount, Active
    <2>5. AccountsGrow
      BY <2>1, <2>2 DEF AccountsInv, AccountsGrow, Exists
    <2>6. QED BY <2>3, <2>4, <2>5
  <1>5. ASSUME NEW u \in Users, NEW h \in Identities, VerifyIdentity(u, h)
        PROVE  AccountsInv' /\ IdentityOfOneAccount' /\ AccountsGrow
    <2> DEFINE a == [account[u] EXCEPT !.identity = h]
    <2>1. /\ a \in Account /\ a.status = account[u].status /\ a.identity = h
          /\ a.password = account[u].password
      BY DEF AccountsInv, Account
    <2>2. account' = [account EXCEPT ![u] = a]
      BY <1>5 DEF VerifyIdentity
    <2>3. Active(u) /\ \A v \in Users \ {u} : account[v].identity # h
      BY <1>5, NullsAreNull DEF VerifyIdentity, MayVerify, IdentityOfOneAccount
    <2> HIDE DEF a
    <2>4. AccountsInv'
      BY <2>1, <2>2, <2>3 DEF AccountsInv, Exists, Active
    <2>5. IdentityOfOneAccount'
      BY <2>1, <2>2, <2>3 DEF AccountsInv, IdentityOfOneAccount, Active
    <2>6. AccountsGrow
      BY <2>1, <2>2 DEF AccountsInv, AccountsGrow, Exists
    <2>7. QED BY <2>4, <2>5, <2>6
  <1>6. ASSUME UNCHANGED account
        PROVE  AccountsInv' /\ IdentityOfOneAccount' /\ AccountsGrow
    BY <1>6 DEF AccountsInv, IdentityOfOneAccount, AccountsGrow, Exists, Active
  <1>7. QED
    BY <1>1, <1>2, <1>3, <1>4, <1>5, <1>6, WhoWrites DEF AccountWritten

-----------------------------------------------------------------------------
(***************************************************************************)
(* Calls                                                                   *)
(***************************************************************************)

\* What a call is when it is not over.
CallOK(c) ==
  /\ c \in Call
  /\ c.pc = "idle" => c = Idle
  /\ c.pc # "idle" => c.user \in Users /\ account'[c.user].status # "none"
  /\ c.pc = "issuing" => c.password = 0

LEMMA ZeroPasswords == 0 \in 0..MaxPasswords
  BY MaxPasswordsType

LEMMA IdleOK == CallOK(Idle)
  BY MaxPasswordsType DEF CallOK, Idle, Call

LEMMA CallsKeptByMove ==
  ASSUME CallsInv, UsersExist, AccountsGrow, NEW k \in Calls, NEW c, CallOK(c),
         call' = [call EXCEPT ![k] = c]
  PROVE  CallsInv' /\ UsersExist'
  <1>1. call' \in [Calls -> Call]
    BY DEF CallsInv, CallOK
  <1>2. \A l \in Calls : CallOK(call'[l])
    BY DEF CallsInv, UsersExist, CallOK, AccountsGrow, Exists
  <1>3. QED BY <1>1, <1>2 DEF CallsInv, UsersExist, CallOK, Exists

LEMMA CallsStep ==
  ASSUME AuthInv, [Next]_vars
  PROVE  CallsInv' /\ UsersExist'
  <1> CallsInv /\ UsersExist /\ AccountsGrow
    BY AccountsStep DEF AuthInv
  <1>1. ASSUME NEW k \in Calls, NEW u \in Users, Register(k, u) \/ SocialLogin(k, u)
        PROVE  CallsInv' /\ UsersExist'
    <2> DEFINE c == [Idle EXCEPT !.pc = "issuing", !.user = u]
    <2>1. Exists(u)'
      BY <1>1 DEF Register, SocialLogin, Exists, AuthInv, AccountsInv, NoAccount, Account
    <2>2. CallOK(c)
      BY <2>1, ZeroPasswords DEF CallOK, Idle, Call, Exists
    <2>3. call' = [call EXCEPT ![k] = c]
      BY <1>1 DEF Register, SocialLogin
    <2> HIDE DEF c
    <2>4. QED BY <2>2, <2>3, CallsKeptByMove
  <1>2. ASSUME NEW k \in Calls, NEW u \in Users,
               LoginReads(k, u) \/ ChangeReads(k, u) \/ DeleteReads(k, u)
        PROVE  CallsInv' /\ UsersExist'
    <2>1. Exists(u)' /\ account[u] \in Account
      BY <1>2 DEF LoginReads, ChangeReads, DeleteReads, Authorized, Active, Exists, AuthInv, AccountsInv
    <2>2. /\ 0 \in 0..MaxPasswords /\ account[u].password \in 0..MaxPasswords
          /\ account[u].identity \in Identities \cup {NoIdentity}
      BY <2>1, ZeroPasswords DEF Account
    <2>3. CASE LoginReads(k, u)
      <3> DEFINE c == [Idle EXCEPT !.pc = "login", !.user = u, !.password = account[u].password]
      <3>1. CallOK(c)
        BY <2>1, <2>2 DEF CallOK, Idle, Call, Exists
      <3>2. call' = [call EXCEPT ![k] = c]
        BY <2>3 DEF LoginReads
      <3> HIDE DEF c
      <3>3. QED BY <3>1, <3>2, CallsKeptByMove
    <2>4. CASE ChangeReads(k, u)
      <3> DEFINE c == [Idle EXCEPT !.pc = "change", !.user = u, !.password = account[u].password]
      <3>1. CallOK(c)
        BY <2>1, <2>2 DEF CallOK, Idle, Call, Exists
      <3>2. call' = [call EXCEPT ![k] = c]
        BY <2>4 DEF ChangeReads
      <3> HIDE DEF c
      <3>3. QED BY <3>1, <3>2, CallsKeptByMove
    <2>5. CASE DeleteReads(k, u)
      <3> DEFINE c == [Idle EXCEPT !.pc = "delete", !.user = u, !.identity = account[u].identity]
      <3>1. CallOK(c)
        BY <2>1, <2>2 DEF CallOK, Idle, Call, Exists
      <3>2. call' = [call EXCEPT ![k] = c]
        BY <2>5 DEF DeleteReads
      <3> HIDE DEF c
      <3>3. QED BY <3>1, <3>2, CallsKeptByMove
    <2>6. QED BY <1>2, <2>3, <2>4, <2>5
  <1>3. ASSUME NEW k \in Calls, NEW t \in Tokens, RefreshReads(k, t)
        PROVE  CallsInv' /\ UsersExist'
    <2>1. PICK u \in Users : u = token[t].user /\ Exists(u)
      BY <1>3 DEF RefreshReads, AuthInv, TokensInv, OwnersExist, Unissued
    <2> DEFINE c == [Idle EXCEPT !.pc = "refresh", !.user = u, !.token = t]
    <2>2. CallOK(c)
      <3>1. account'[u].status # "none"
        BY <2>1 DEF AccountsGrow, Exists
      <3>2. QED BY <3>1, ZeroPasswords DEF CallOK, Idle, Call
    <2>3. call' = [call EXCEPT ![k] = c]
      BY <1>3, <2>1 DEF RefreshReads
    <2> HIDE DEF c
    <2>4. QED BY <2>2, <2>3, CallsKeptByMove
  <1>4. ASSUME NEW k \in Calls, NEW u \in Users,
               LoginChecks(k, u) \/ ChangeChecks(k, u) \/ DeleteLocks(k, u) \/ DeleteWrites(k, u)
        PROVE  CallsInv' /\ UsersExist'
    <2>1. call[k] \in Call /\ call[k].pc # "idle" /\ call[k].user = u /\ Exists(u)'
      BY <1>4 DEF LoginChecks, ChangeChecks, DeleteLocks, DeleteWrites, At, CallsInv, UsersExist, AccountsGrow
    <2>2. PICK pc \in {"loginLocked", "changeLocked", "deleteLocked", "deleteWritten"}, n \in Nat :
            call' = [call EXCEPT ![k] = [call[k] EXCEPT !.pc = pc, !.debt = n]]
      <3>1. Debt(u) \in Nat /\ call[k].debt \in Nat
        BY <2>1 DEF Debt, AuthInv, CreditsInv, Call
      <3>2. [call[k] EXCEPT !.debt = call[k].debt] = call[k]
        BY <2>1 DEF Call
      <3>3. CASE LoginChecks(k, u)
        BY <2>1, <3>1, <3>3 DEF LoginChecks, Call, CallsInv
      <3>4. CASE ChangeChecks(k, u)
        BY <2>1, <3>1, <3>4 DEF ChangeChecks, Call, CallsInv
      <3>5. CASE DeleteLocks(k, u)
        BY <2>1, <3>1, <3>5 DEF DeleteLocks, Call, CallsInv
      <3>6. CASE DeleteWrites(k, u)
        BY <2>1, <3>1, <3>6 DEF DeleteWrites, Call, CallsInv
      <3>7. QED BY <1>4, <3>3, <3>4, <3>5, <3>6
    <2> DEFINE c == [call[k] EXCEPT !.pc = pc, !.debt = n]
    <2>3. CallOK(c)
      BY <2>1 DEF CallOK, Call, Exists
    <2>4. call' = [call EXCEPT ![k] = c]
      BY <2>2
    <2> HIDE DEF c
    <2>5. QED BY <2>3, <2>4, CallsKeptByMove
  <1>5. ASSUME NEW k \in Calls, call' = [call EXCEPT ![k] = Idle]
        PROVE  CallsInv' /\ UsersExist'
    BY <1>5, IdleOK, CallsKeptByMove
  <1>6. ASSUME UNCHANGED call
        PROVE  CallsInv' /\ UsersExist'
    BY <1>6 DEF CallsInv, UsersExist, AccountsGrow
  <1>7. ASSUME NEW k \in Calls, SessionStep(k)
        PROVE  CallsInv' /\ UsersExist'
    BY <1>1, <1>2, <1>3, <1>4, <1>5, <1>7
    DEF SessionStep, IssueTokens, ChangeWrites, RefreshRotates
  <1>8. ASSUME NEW k \in Calls, WithdrawalStep(k) \/ CallEnds(k)
        PROVE  CallsInv' /\ UsersExist'
    BY <1>2, <1>4, <1>5, <1>8 DEF WithdrawalStep, DeleteCommits, CallEnds, Ended
  <1>9. QED
    BY <1>6, <1>7, <1>8
    DEF Next, vars, CreditStep, RevokeRefreshToken, TokenExpires, VerifyIdentity, PurchaseStarts,
        PurchaseIsPaid, CreditIsSpent, PurchaseIsReversed

-----------------------------------------------------------------------------
(***************************************************************************)
(* Locks                                                                   *)
(***************************************************************************)

\* A call that is moved, but not to a lock it has not had.
LEMMA LocksKeptByMove ==
  ASSUME AuthInv, AccountsGrow, NEW k \in Calls, NEW c,
         call' = [call EXCEPT ![k] = c], c.pc \notin SessionLock,
         \A u \in Users : Exists(u) =>
           \/ account'[u].password = account[u].password
           \/ At(k, "changeLocked", u)
  PROVE  LocksInv'
  <1>1. call \in [Calls -> Call] /\ UsersExist /\ LocksInv /\ CallsInv
    BY DEF AuthInv, CallsInv
  <1>2. \A l \in Calls : call'[l].pc \in SessionLock => l # k /\ call'[l] = call[l]
    BY <1>1
  <1>3. ASSUME NEW l \in Calls, NEW m \in Calls, call'[l].pc \in SessionLock,
               call'[m].pc \in SessionLock, call'[l].user = call'[m].user
        PROVE  l = m
    BY <1>1, <1>2, <1>3 DEF LocksInv
  <1>4. ASSUME NEW l \in Calls, call'[l].pc = "loginLocked"
        PROVE  call'[l].password = account'[call'[l].user].password
    <2>1. l # k /\ call'[l] = call[l]
      BY <1>2, <1>4 DEF SessionLock
    <2>2. call[l].pc = "loginLocked" /\ call[l].user \in Users /\ Exists(call[l].user)
      BY <1>1, <1>4, <2>1 DEF CallsInv, UsersExist
    <2>3. ~At(k, "changeLocked", call[l].user)
      BY <1>1, <2>1, <2>2 DEF At, LocksInv, SessionLock
    <2>4. QED BY <1>1, <2>1, <2>2, <2>3 DEF LocksInv
  <1>5. QED BY <1>3, <1>4 DEF LocksInv

\* A call that takes the lock when nobody has it.
LEMMA LocksKeptByLock ==
  ASSUME AuthInv, UNCHANGED account, NEW k \in Calls, NEW u \in Users,
         call[k].user = u, ~SessionsLocked(u),
         NEW pc \in SessionLock, call' = [call EXCEPT ![k].pc = pc],
         call[k].password = account[u].password
  PROVE  LocksInv'
  <1>1. call \in [Calls -> Call] /\ LocksInv
    BY DEF AuthInv, CallsInv
  <1>2. /\ call'[k].user = u /\ call'[k].password = account[u].password
        /\ \A l \in Calls \ {k} : call'[l] = call[l]
    BY <1>1 DEF Call
  <1>3. \A l \in Calls \ {k} : call'[l].pc \in SessionLock => call'[l].user # u
    BY <1>2 DEF SessionsLocked, At, SessionLock
  <1>4. QED BY <1>1, <1>2, <1>3 DEF LocksInv

LEMMA LocksStep ==
  ASSUME AuthInv, [Next]_vars
  PROVE  LocksInv'
  <1> AccountsGrow /\ CallsInv /\ UsersExist
    BY AccountsStep DEF AuthInv
  <1>1. ASSUME NEW k \in Calls, NEW u \in Users, LoginChecks(k, u) \/ ChangeChecks(k, u)
        PROVE  LocksInv'
    BY <1>1, LocksKeptByLock DEF LoginChecks, ChangeChecks, At, StillMatches, SessionLock
  <1>2. ASSUME NEW k \in Calls, NEW u \in Users, NEW t \in Tokens, ChangeWrites(k, u, t)
        PROVE  LocksInv'
    <2>1. \A v \in Users : v # u => account'[v] = account[v]
      BY <1>2 DEF ChangeWrites, AuthInv, AccountsInv
    <2>2. At(k, "changeLocked", u) /\ call' = [call EXCEPT ![k] = Idle]
      BY <1>2 DEF ChangeWrites
    <2>3. Idle.pc \notin SessionLock
      BY DEF Idle, SessionLock
    <2>4. QED BY <2>1, <2>2, <2>3, LocksKeptByMove
  <1>3. ASSUME \A u \in Users : Exists(u) => account'[u].password = account[u].password,
               NEW k \in Calls, NEW c, call' = [call EXCEPT ![k] = c], c.pc \notin SessionLock
        PROVE  LocksInv'
    BY <1>3, LocksKeptByMove
  <1>4. ASSUME \A u \in Users : Exists(u) => account'[u].password = account[u].password,
               UNCHANGED call
        PROVE  LocksInv'
    BY <1>4 DEF AuthInv, LocksInv, CallsInv, UsersExist, SessionLock
  <1>5. ASSUME \A k \in Calls, u \in Users, t \in Tokens : ~ChangeWrites(k, u, t)
        PROVE  \A u \in Users : Exists(u) => account'[u].password = account[u].password
    BY <1>5 DEF AccountsGrow
  <1>6. CASE \A k \in Calls, u \in Users, t \in Tokens : ~ChangeWrites(k, u, t)
    <2>1. \A u \in Users : Exists(u) => account'[u].password = account[u].password
      BY <1>5, <1>6
    <2>2. ASSUME NEW k \in Calls, NEW c, call' = [call EXCEPT ![k] = c], c.pc \notin SessionLock
          PROVE  LocksInv'
      BY <1>3, <2>1, <2>2
    <2>3. ASSUME NEW k \in Calls, NEW u \in Users,
                 \/ Register(k, u) \/ SocialLogin(k, u) \/ LoginReads(k, u) \/ ChangeReads(k, u)
                 \/ DeleteReads(k, u) \/ DeleteLocks(k, u) \/ DeleteWrites(k, u)
          PROVE  LocksInv'
      <3>1. PICK c : /\ call' = [call EXCEPT ![k] = c]
                     /\ c.pc \in {"issuing", "login", "change", "delete", "deleteLocked", "deleteWritten"}
        <4>1. call[k] \in Call
          BY DEF CallsInv
        <4>2. CASE Register(k, u) \/ SocialLogin(k, u)
          <5> DEFINE r == [Idle EXCEPT !.pc = "issuing", !.user = u]
          <5>1. call' = [call EXCEPT ![k] = r]
            BY <4>2 DEF Register, SocialLogin
          <5>2. r.pc = "issuing"
            BY DEF Idle
          <5> HIDE DEF r
          <5>3. QED BY <5>1, <5>2
        <4>3. CASE LoginReads(k, u)
          <5> DEFINE r == [Idle EXCEPT !.pc = "login", !.user = u, !.password = account[u].password]
          <5>1. call' = [call EXCEPT ![k] = r]
            BY <4>3 DEF LoginReads
          <5>2. r.pc = "login"
            BY DEF Idle
          <5> HIDE DEF r
          <5>3. QED BY <5>1, <5>2
        <4>4. CASE ChangeReads(k, u)
          <5> DEFINE r == [Idle EXCEPT !.pc = "change", !.user = u, !.password = account[u].password]
          <5>1. call' = [call EXCEPT ![k] = r]
            BY <4>4 DEF ChangeReads
          <5>2. r.pc = "change"
            BY DEF Idle
          <5> HIDE DEF r
          <5>3. QED BY <5>1, <5>2
        <4>5. CASE DeleteReads(k, u)
          <5> DEFINE r == [Idle EXCEPT !.pc = "delete", !.user = u, !.identity = account[u].identity]
          <5>1. call' = [call EXCEPT ![k] = r]
            BY <4>5 DEF DeleteReads
          <5>2. r.pc = "delete"
            BY DEF Idle
          <5> HIDE DEF r
          <5>3. QED BY <5>1, <5>2
        <4>6. CASE DeleteLocks(k, u)
          <5>1. call' = [call EXCEPT ![k] = [call[k] EXCEPT !.pc = "deleteLocked", !.debt = Debt(u)]]
            BY <4>6 DEF DeleteLocks, CallsInv
          <5>2. [call[k] EXCEPT !.pc = "deleteLocked", !.debt = Debt(u)].pc = "deleteLocked"
            BY <4>1 DEF Call
          <5>3. QED BY <5>1, <5>2
        <4>7. CASE DeleteWrites(k, u)
          <5>1. call' = [call EXCEPT ![k] = [call[k] EXCEPT !.pc = "deleteWritten"]]
            BY <4>7 DEF DeleteWrites, CallsInv
          <5>2. [call[k] EXCEPT !.pc = "deleteWritten"].pc = "deleteWritten"
            BY <4>1 DEF Call
          <5>3. QED BY <5>1, <5>2
        <4>8. QED BY <2>3, <4>2, <4>3, <4>4, <4>5, <4>6, <4>7
      <3>2. c.pc \notin SessionLock
        BY <3>1 DEF SessionLock
      <3>3. QED BY <2>2, <3>1, <3>2
    <2>4. ASSUME NEW k \in Calls, NEW t \in Tokens, RefreshReads(k, t)
          PROVE  LocksInv'
      <3> DEFINE c == [Idle EXCEPT !.pc = "refresh", !.user = token[t].user, !.token = t]
      <3>1. call' = [call EXCEPT ![k] = c] /\ c.pc \notin SessionLock
        BY <2>4 DEF RefreshReads, Idle, SessionLock
      <3> HIDE DEF c
      <3>2. QED BY <2>2, <3>1
    <2>5. ASSUME NEW k \in Calls, call' = [call EXCEPT ![k] = Idle]
          PROVE  LocksInv'
      BY <2>2, <2>5 DEF Idle, SessionLock
    <2>6. ASSUME UNCHANGED call PROVE LocksInv'
      BY <1>4, <2>1, <2>6
    <2>7. ASSUME NEW k \in Calls, SessionStep(k) PROVE LocksInv'
      BY <1>1, <1>6, <2>3, <2>4, <2>5, <2>7 DEF SessionStep, IssueTokens, RefreshRotates
    <2>8. ASSUME NEW k \in Calls, WithdrawalStep(k) \/ CallEnds(k) PROVE LocksInv'
      BY <2>3, <2>5, <2>8 DEF WithdrawalStep, DeleteCommits, CallEnds, Ended
    <2>9. QED
      BY <2>6, <2>7, <2>8
      DEF Next, vars, CreditStep, RevokeRefreshToken, TokenExpires, VerifyIdentity, PurchaseStarts,
          PurchaseIsPaid, CreditIsSpent, PurchaseIsReversed
  <1>7. QED BY <1>2, <1>6

-----------------------------------------------------------------------------
(***************************************************************************)
(* Tokens                                                                  *)
(***************************************************************************)

Over == {"expired", "revoked", "deleted"}

\* A step leaves a token alone, or ends it.
KeptOrEnded(t) ==
  \/ token'[t] = token[t]
  \/ /\ ~Unissued(t)
     /\ \E s \in Over : token'[t] = [token[t] EXCEPT !.status = s]

LEMMA EndedToken ==
  ASSUME TokensInv, NEW t \in Tokens, KeptOrEnded(t)
  PROVE  /\ token'[t] \in Token
         /\ token'[t].user = token[t].user
         /\ token'[t].session = token[t].session
         /\ token'[t].password = token[t].password
         /\ Unissued(t)' <=> Unissued(t)
         /\ Unissued(t) => token'[t] = token[t]
         /\ token'[t].status = "live" => token'[t] = token[t]
  BY DEF TokensInv, Token, KeptOrEnded, Unissued, Over

\* Tokens end: what is left of a session is what was there.
LEMMA TokensKeptByEnding ==
  ASSUME TokensInv, OneTokenPerSession, OwnersExist, AccountsGrow,
         token' = [t \in Tokens |-> token'[t]], \A t \in Tokens : KeptOrEnded(t)
  PROVE  TokensInv' /\ OneTokenPerSession' /\ OwnersExist'
  <1>1. token' \in [Tokens -> Token]
    BY EndedToken
  <1>2. TokensInv'
    BY <1>1, EndedToken DEF TokensInv, Unissued
  <1>3. OneTokenPerSession'
    BY EndedToken DEF OneTokenPerSession, SessionTokens
  <1>4. OwnersExist'
    BY EndedToken DEF TokensInv, OwnersExist, AccountsGrow, Unissued, Exists
  <1>5. QED BY <1>2, <1>3, <1>4

\* A new session begins with a token of its own while others may end.
LEMMA TokensKeptByNewSession ==
  ASSUME TokensInv, OneTokenPerSession, OwnersExist, AccountsGrow,
         NEW t \in Tokens, Unissued(t), NEW u \in Users, Exists(u), NEW p \in 0..MaxPasswords,
         token' = [x \in Tokens |-> token'[x]], token'[t] = NewToken(u, t, p),
         \A x \in Tokens \ {t} : KeptOrEnded(x)
  PROVE  TokensInv' /\ OneTokenPerSession' /\ OwnersExist'
  <1>1. /\ token'[t] \in Token /\ token'[t].status = "live" /\ token'[t].user = u
        /\ token'[t].session = t
    BY DEF NewToken, Token
  <1>2. token' \in [Tokens -> Token]
    BY <1>1, EndedToken
  <1>3. \A x \in Tokens \ {t} : token[x].session # t
    BY NullsAreNull DEF TokensInv, Unissued, UnusedToken
  <1>4. TokensInv'
    <2>1. ASSUME NEW x \in Tokens, ~(Unissued(x)')
          PROVE  /\ token'[x].user \in Users
                 /\ token'[x].session \in Tokens
                 /\ token'[token'[x].session].session = token'[x].session
                 /\ token'[token'[x].session].user = token'[x].user
      <3>1. CASE x = t
        BY <1>1, <3>1
      <3>2. CASE x # t
        <4>1. /\ ~Unissued(x) /\ token'[x].session = token[x].session
              /\ token'[x].user = token[x].user
          BY <2>1, <3>2, EndedToken
        <4>2. token[x].session \in Tokens \ {t}
          BY <1>3, <3>2, <4>1 DEF TokensInv
        <4>3. QED BY <4>1, <4>2, EndedToken DEF TokensInv
      <3>3. QED BY <3>1, <3>2
    <2>2. \A x \in Tokens : Unissued(x)' => token'[x] = UnusedToken
      BY <1>1, EndedToken DEF TokensInv, Unissued
    <2>3. QED BY <1>2, <2>1, <2>2 DEF TokensInv, Unissued
  <1>5. OneTokenPerSession'
    BY <1>1, <1>3, EndedToken DEF OneTokenPerSession, SessionTokens
  <1>6. OwnersExist'
    BY <1>1, EndedToken DEF TokensInv, OwnersExist, AccountsGrow, Unissued, Exists
  <1>7. QED BY <1>4, <1>5, <1>6

\* The next token of a session takes the place of the live one.
LEMMA TokensKeptByRotation ==
  ASSUME TokensInv, OneTokenPerSession, OwnersExist, AccountsGrow,
         NEW old \in Tokens, token[old].status = "live", NEW next \in Tokens, Unissued(next),
         token' = [token EXCEPT ![old].status = "revoked",
                                ![next] = [token[old] EXCEPT !.status = "live"]]
  PROVE  TokensInv' /\ OneTokenPerSession' /\ OwnersExist'
  <1>1. old # next /\ ~Unissued(old)
    BY DEF Unissued
  <1>2. token[old] \in Token
    BY DEF TokensInv
  <1>3. /\ token'[next] \in Token /\ token'[next].status = "live"
        /\ token'[next].user = token[old].user /\ token'[next].session = token[old].session
    BY <1>1, <1>2 DEF TokensInv, Token
  <1>4. /\ token'[old] = [token[old] EXCEPT !.status = "revoked"]
        /\ \A x \in Tokens \ {old, next} : token'[x] = token[x]
    BY <1>1 DEF TokensInv
  <1>5. \A x \in Tokens \ {next} : KeptOrEnded(x)
    BY <1>1, <1>4 DEF KeptOrEnded, Over
  <1>6. token' \in [Tokens -> Token]
    BY <1>3, <1>5, EndedToken DEF TokensInv
  <1>7. \A x \in Tokens : token[x].session # next
    BY NullsAreNull DEF TokensInv, Unissued, UnusedToken
  <1>8. TokensInv'
    <2>1. ASSUME NEW x \in Tokens, ~(Unissued(x)')
          PROVE  \E y \in Tokens : /\ ~Unissued(y)
                                   /\ token'[x].user = token[y].user
                                   /\ token'[x].session = token[y].session
      <3>1. CASE x = next
        BY <1>1, <1>3, <3>1
      <3>2. CASE x # next
        BY <1>5, <2>1, <3>2, EndedToken
      <3>3. QED BY <3>1, <3>2
    <2>2. ASSUME NEW y \in Tokens, ~Unissued(y)
          PROVE  /\ token[y].user \in Users
                 /\ token[y].session \in Tokens
                 /\ token'[token[y].session].session = token[y].session
                 /\ token'[token[y].session].user = token[y].user
      <3>1. token[y].session \in Tokens \ {next}
        BY <1>7, <2>2 DEF TokensInv
      <3>2. QED BY <1>5, <2>2, <3>1, EndedToken DEF TokensInv
    <2>3. \A x \in Tokens : Unissued(x)' => token'[x] = UnusedToken
      BY <1>3, <1>5, EndedToken DEF TokensInv, Unissued
    <2>4. ASSUME NEW x \in Tokens, ~(Unissued(x)')
          PROVE  /\ token'[x].user \in Users
                 /\ token'[x].session \in Tokens
                 /\ token'[token'[x].session].session = token'[x].session
                 /\ token'[token'[x].session].user = token'[x].user
      <3>1. PICK y \in Tokens : ~Unissued(y) /\ token'[x].user = token[y].user
                                /\ token'[x].session = token[y].session
        BY <2>1, <2>4
      <3>2. /\ token[y].user \in Users
            /\ token[y].session \in Tokens
            /\ token'[token[y].session].session = token[y].session
            /\ token'[token[y].session].user = token[y].user
        BY <2>2, <3>1
      <3>3. QED BY <3>1, <3>2
    <2>5. QED BY <1>6, <2>3, <2>4 DEF TokensInv, Unissued
  <1>9. OneTokenPerSession'
    <2> SUFFICES ASSUME NEW s \in Tokens, NEW x \in Tokens, NEW y \in Tokens,
                        token'[x].session = s, token'[y].session = s,
                        token'[x].status = "live", token'[y].status = "live"
                 PROVE  x = y
      BY DEF OneTokenPerSession, SessionTokens
    <2>1. token'[old].status = "revoked"
      BY <1>2, <1>4 DEF Token
    <2>2. x # old /\ y # old
      BY <2>1
    <2>3. token[old].session \in Tokens
      BY <1>1 DEF TokensInv
    <2>4. ASSUME NEW z \in Tokens \ {old, next}, token'[z].session = token[old].session
          PROVE  token'[z].status # "live"
      <3>1. token'[z] = token[z]
        BY <1>4, <2>4
      <3>2. z \in SessionTokens(token[old].session) /\ old \in SessionTokens(token[old].session)
        BY <2>4, <3>1 DEF SessionTokens
      <3>3. token[z].status # "live"
        BY <2>3, <3>2 DEF OneTokenPerSession
      <3>4. QED BY <3>1, <3>3
    <2>5. CASE x = next \/ y = next
      BY <1>3, <2>2, <2>4, <2>5
    <2>6. CASE x # next /\ y # next
      <3>1. token'[x] = token[x] /\ token'[y] = token[y]
        BY <1>4, <2>2, <2>6
      <3>2. x \in SessionTokens(s) /\ y \in SessionTokens(s)
        BY <3>1 DEF SessionTokens
      <3>3. QED BY <3>1, <3>2 DEF OneTokenPerSession
    <2>7. QED BY <2>5, <2>6
  <1>10. OwnersExist'
    <2>1. ASSUME NEW x \in Tokens, ~(Unissued(x)')
          PROVE  account'[token'[x].user].status # "none"
      <3>1. \E y \in Tokens : ~Unissued(y) /\ token'[x].user = token[y].user
        BY <1>1, <1>3, <1>5, <2>1, EndedToken
      <3>2. QED BY <3>1 DEF TokensInv, OwnersExist, AccountsGrow, Exists
    <2>2. QED BY <2>1 DEF OwnersExist, Exists
  <1>11. QED BY <1>8, <1>9, <1>10

LEMMA TokensStep ==
  ASSUME AuthInv, [Next]_vars
  PROVE  TokensInv' /\ OneTokenPerSession' /\ OwnersExist'
  <1> TokensInv /\ OneTokenPerSession /\ OwnersExist /\ AccountsGrow
    BY AccountsStep DEF AuthInv
  <1>1. ASSUME NEW k \in Calls, NEW u \in Users, NEW t \in Tokens, IssueTokens(k, u, t)
        PROVE  TokensInv' /\ OneTokenPerSession' /\ OwnersExist'
    <2>1. Unissued(t) /\ token' = [token EXCEPT ![t] = NewToken(u, t, call[k].password)]
      BY <1>1 DEF IssueTokens
    <2>2. Exists(u) /\ call[k].password \in 0..MaxPasswords
      BY <1>1 DEF IssueTokens, At, AuthInv, UsersExist, CallsInv, Call
    <2>3. /\ token' = [x \in Tokens |-> token'[x]]
          /\ token'[t] = NewToken(u, t, call[k].password)
          /\ \A x \in Tokens \ {t} : KeptOrEnded(x)
      BY <2>1 DEF TokensInv, KeptOrEnded
    <2>4. QED BY <2>1, <2>2, <2>3, TokensKeptByNewSession
  <1>2. ASSUME NEW k \in Calls, NEW old \in Tokens, NEW next \in Tokens, RefreshRotates(k, old, next)
        PROVE  TokensInv' /\ OneTokenPerSession' /\ OwnersExist'
    BY <1>2, TokensKeptByRotation DEF RefreshRotates, MayRotate
  <1>3. ASSUME NEW t \in Tokens, RevokeRefreshToken(t) \/ TokenExpires(t)
        PROVE  TokensInv' /\ OneTokenPerSession' /\ OwnersExist'
    <2>1. ~Unissued(t) /\ \E s \in Over : token' = [token EXCEPT ![t] = [token[t] EXCEPT !.status = s]]
      BY <1>3 DEF RevokeRefreshToken, TokenExpires, Unissued, Over, TokensInv
    <2>2. token' = [x \in Tokens |-> token'[x]] /\ \A x \in Tokens : KeptOrEnded(x)
      BY <2>1 DEF TokensInv, KeptOrEnded
    <2>3. QED BY <2>2, TokensKeptByEnding
  <1>4. ASSUME NEW k \in Calls, NEW u \in Users, NEW t \in Tokens, ChangeWrites(k, u, t)
        PROVE  TokensInv' /\ OneTokenPerSession' /\ OwnersExist'
    <2> DEFINE p == account[u].password + 1
    <2>1. Unissued(t) /\ Exists(u)
      BY <1>4 DEF ChangeWrites, At, AuthInv, UsersExist
    <2>2. p \in 0..MaxPasswords
      BY <1>4, MaxPasswordsType DEF ChangeWrites, AuthInv, AccountsInv, Account
    <2>3. /\ token' = [x \in Tokens |-> token'[x]]
          /\ token'[t] = NewToken(u, t, p)
          /\ \A x \in Tokens \ {t} : KeptOrEnded(x)
      BY <1>4 DEF ChangeWrites, KeptOrEnded, Unissued, Over
    <2> HIDE DEF p
    <2>4. QED BY <2>1, <2>2, <2>3, TokensKeptByNewSession
  <1>5. ASSUME NEW k \in Calls, NEW u \in Users, DeleteCommits(k, u)
        PROVE  TokensInv' /\ OneTokenPerSession' /\ OwnersExist'
    <2>1. \A x \in Owned(u) : ~Unissued(x)
      BY NullsAreNull DEF Owned, TokensInv, Unissued, UnusedToken
    <2>2. token' = [x \in Tokens |-> token'[x]] /\ \A x \in Tokens : KeptOrEnded(x)
      BY <1>5, <2>1 DEF DeleteCommits, KeptOrEnded, Over
    <2>3. QED BY <2>2, TokensKeptByEnding
  <1>6. ASSUME UNCHANGED token
        PROVE  TokensInv' /\ OneTokenPerSession' /\ OwnersExist'
    <2>1. token' = [x \in Tokens |-> token'[x]] /\ \A x \in Tokens : KeptOrEnded(x)
      BY <1>6 DEF TokensInv, KeptOrEnded
    <2>2. QED BY <2>1, TokensKeptByEnding
  <1>7. QED
    BY <1>1, <1>2, <1>3, <1>4, <1>5, <1>6, WhoWrites DEF TokenWritten

-----------------------------------------------------------------------------
(***************************************************************************)
(* Passwords                                                               *)
(***************************************************************************)

\* While passwords stay, a live token either was there or has a right of its own.
LEMMA PasswordsKept ==
  ASSUME AuthInv, AccountsGrow,
         \A u \in Users : Exists(u) => account'[u].password = account[u].password,
         NEW t \in Tokens,
         \E x \in Tokens : /\ token[x].status = "live"
                           /\ token'[t].user = token[x].user
                           /\ token'[t].password = token[x].password
  PROVE  token'[t].password > 0 => token'[t].password = account'[token'[t].user].password
  <1>1. PICK x \in Tokens : /\ token[x].status = "live"
                            /\ token'[t].user = token[x].user
                            /\ token'[t].password = token[x].password
    OBVIOUS
  <1>2. token[x].user \in Users /\ Exists(token[x].user)
    BY <1>1 DEF AuthInv, TokensInv, OwnersExist, Unissued
  <1>3. token[x].password > 0 => token[x].password = account[token[x].user].password
    BY <1>1 DEF AuthInv, OldPasswordsAreOut
  <1>4. QED BY <1>1, <1>2, <1>3

LEMMA PasswordsStep ==
  ASSUME AuthInv, [Next]_vars
  PROVE  OldPasswordsAreOut'
  <1> AccountsGrow /\ TokensInv
    BY AccountsStep DEF AuthInv
  <1> SUFFICES ASSUME NEW s \in Tokens, token'[s].status = "live", token'[s].password > 0
               PROVE  token'[s].password = account'[token'[s].user].password
    BY DEF OldPasswordsAreOut
  <1>1. ASSUME NEW k \in Calls, NEW u \in Users, NEW t \in Tokens, ChangeWrites(k, u, t)
        PROVE  token'[s].password = account'[token'[s].user].password
    <2>1. /\ account'[u].password = account[u].password + 1
          /\ \A v \in Users \ {u} : account'[v] = account[v]
      BY <1>1 DEF ChangeWrites, AuthInv, AccountsInv
    <2>2. CASE s = t
      BY <1>1, <2>1, <2>2 DEF ChangeWrites, NewToken
    <2>3. CASE s # t
      <3>1. token'[s] = token[s]
        <4>1. \/ token'[s] = token[s]
              \/ token'[s] = [token[s] EXCEPT !.status = "revoked"]
          BY <1>1, <2>3 DEF ChangeWrites
        <4>2. [token[s] EXCEPT !.status = "revoked"].status = "revoked"
          BY DEF TokensInv, Token
        <4>3. QED BY <4>1, <4>2
      <3>2. s \notin Owned(u)
        BY <1>1, <2>3, <3>1 DEF ChangeWrites, LoggedOut, TokensInv, Token
      <3>3. token[s].user \in Users \ {u}
        BY <3>1, <3>2 DEF Owned, TokensInv, Unissued
      <3>4. QED BY <2>1, <3>1, <3>3 DEF AuthInv, OldPasswordsAreOut
    <2>4. QED BY <2>2, <2>3
  <1>2. CASE \A k \in Calls, u \in Users, t \in Tokens : ~ChangeWrites(k, u, t)
    <2>1. \A u \in Users : Exists(u) => account'[u].password = account[u].password
      BY <1>2 DEF AccountsGrow
    <2>2. ASSUME NEW k \in Calls, NEW u \in Users, NEW t \in Tokens, IssueTokens(k, u, t)
          PROVE  token'[s].password = account'[token'[s].user].password
      <3>1. CASE s = t
        <4>1. token'[s] = NewToken(u, t, call[k].password) /\ call[k].user = u /\ account' = account
          BY <2>2, <3>1 DEF IssueTokens, TokensInv, At
        <4>2. call[k].pc = "issuing" \/ call[k].pc = "loginLocked"
          BY <2>2 DEF IssueTokens, At
        <4>3. CASE call[k].pc = "issuing"
          BY <4>1, <4>3 DEF NewToken, AuthInv, CallsInv
        <4>4. CASE call[k].pc = "loginLocked"
          BY <4>1, <4>4 DEF NewToken, AuthInv, LocksInv
        <4>5. QED BY <4>2, <4>3, <4>4
      <3>2. CASE s # t
        BY <2>1, <2>2, <3>2, PasswordsKept DEF IssueTokens, TokensInv
      <3>3. QED BY <3>1, <3>2
    <2>3. ASSUME NEW k \in Calls, NEW old \in Tokens, NEW next \in Tokens, RefreshRotates(k, old, next)
          PROVE  token'[s].password = account'[token'[s].user].password
      <3>1. token[old].status = "live" /\ token[old] \in Token
        BY <2>3 DEF RefreshRotates, MayRotate, TokensInv
      <3>2. CASE s = next
        <4>1. token'[s] = [token[old] EXCEPT !.status = "live"]
          BY <2>3, <3>2 DEF RefreshRotates, TokensInv
        <4>2. token'[s].user = token[old].user /\ token'[s].password = token[old].password
          BY <3>1, <4>1 DEF Token
        <4>3. QED BY <2>1, <3>1, <4>2, PasswordsKept
      <3>3. CASE s = old /\ s # next
        <4>1. token'[s] = [token[old] EXCEPT !.status = "revoked"]
          BY <2>3, <3>3 DEF RefreshRotates, TokensInv
        <4>2. QED BY <3>1, <4>1 DEF Token
      <3>4. CASE s # old /\ s # next
        <4>1. token'[s] = token[s]
          BY <2>3, <3>4 DEF RefreshRotates, TokensInv
        <4>2. QED BY <2>1, <4>1, PasswordsKept
      <3>5. QED BY <3>2, <3>3, <3>4
    <2>4. ASSUME KeptOrEnded(s)
          PROVE  token'[s].password = account'[token'[s].user].password
      BY <2>1, <2>4, EndedToken, PasswordsKept
    <2>5. ASSUME NEW t \in Tokens, RevokeRefreshToken(t) \/ TokenExpires(t)
          PROVE  KeptOrEnded(s)
      BY <2>5 DEF RevokeRefreshToken, TokenExpires, KeptOrEnded, Unissued, Over, TokensInv
    <2>6. ASSUME NEW k \in Calls, NEW u \in Users, DeleteCommits(k, u)
          PROVE  KeptOrEnded(s)
      <3>1. s \in Owned(u) => ~Unissued(s)
        BY NullsAreNull DEF Owned, TokensInv, Unissued, UnusedToken
      <3>2. QED BY <2>6, <3>1 DEF DeleteCommits, KeptOrEnded, Over
    <2>7. ASSUME UNCHANGED token
          PROVE  KeptOrEnded(s)
      BY <2>7 DEF KeptOrEnded
    <2>8. QED
      BY <1>2, <2>2, <2>3, <2>4, <2>5, <2>6, <2>7, WhoWrites DEF TokenWritten
  <1>3. QED BY <1>1, <1>2

-----------------------------------------------------------------------------
(***************************************************************************)
(* Every reachable state                                                   *)
(***************************************************************************)

LEMMA CreditsStep ==
  ASSUME AuthInv, [Next]_vars
  PROVE  CreditsInv'
  <1> CreditsInv
    BY DEF AuthInv
  <1>1. ASSUME NEW u \in Users, CreditStep(u) PROVE CreditsInv'
    BY <1>1 DEF CreditsInv, CreditStep, PurchaseStarts, PurchaseIsPaid, CreditIsSpent, PurchaseIsReversed,
                debtVars
  <1>2. ASSUME NEW u \in Users, NEW h \in Identities, VerifyIdentity(u, h) PROVE CreditsInv'
    BY <1>2 DEF CreditsInv, VerifyIdentity
  <1>3. ASSUME NEW k \in Calls, NEW u \in Users, DeleteCommits(k, u) PROVE CreditsInv'
    <2>1. call[k].debt \in Nat /\ call[k].identity \in Identities \cup {NoIdentity}
      BY DEF AuthInv, CallsInv, Call
    <2>2. QED BY <1>3, <2>1 DEF CreditsInv, DeleteCommits, creditVars
  <1>4. ASSUME UNCHANGED <<creditVars, debtVars>> PROVE CreditsInv'
    BY <1>4 DEF CreditsInv, creditVars, debtVars
  <1>5. ASSUME NEW k \in Calls, SessionStep(k) PROVE UNCHANGED <<creditVars, debtVars>>
    BY <1>5 DEF SessionStep, Register, SocialLogin, LoginReads, LoginChecks, ChangeReads, ChangeChecks,
                ChangeWrites, IssueTokens, RefreshReads, RefreshRotates
  <1>6. ASSUME NEW k \in Calls, WithdrawalStep(k) PROVE CreditsInv'
    <2>1. CASE \E u \in Users : DeleteCommits(k, u)
      BY <2>1, <1>3
    <2>2. CASE \E u \in Users : DeleteReads(k, u) \/ DeleteLocks(k, u) \/ DeleteWrites(k, u)
      BY <2>2, <1>4 DEF DeleteReads, DeleteLocks, DeleteWrites
    <2>3. QED BY <1>6, <2>1, <2>2 DEF WithdrawalStep
  <1>7. ASSUME NEW t \in Tokens, RevokeRefreshToken(t) \/ TokenExpires(t)
        PROVE  UNCHANGED <<creditVars, debtVars>>
    BY <1>7 DEF RevokeRefreshToken, TokenExpires
  <1>8. ASSUME NEW k \in Calls, CallEnds(k) PROVE UNCHANGED <<creditVars, debtVars>>
    BY <1>8 DEF CallEnds
  <1>9. CASE UNCHANGED vars
    BY <1>9, <1>4 DEF vars
  <1>10. QED
    BY <1>1, <1>2, <1>4, <1>5, <1>6, <1>7, <1>8, <1>9 DEF Next

LEMMA AuthStep ==
  ASSUME AuthInv, [Next]_vars
  PROVE  AuthInv'
  BY AccountsStep, CallsStep, LocksStep, TokensStep, PasswordsStep, CreditsStep DEF AuthInv

\* Accounts, tokens, calls and locks fit together in every reachable state: the
\* inductive invariant the other theorems rest on.
THEOREM AuthInvariant == Spec => []AuthInv
  BY InvariantInit, AuthStep, PTL DEF Spec

\* Rows and calls keep the shapes the code gives them, and a call that is over
\* holds nothing.
THEOREM AuthTypeCorrect == Spec => []AuthTypeOK
  BY AuthInvariant, InvariantTypes, PTL

\* However many calls present a refresh token at once, its session has one valid
\* token at most.
THEOREM SessionsHaveOneToken == Spec => []OneTokenPerSession
  <1>1. AuthInv => OneTokenPerSession
    BY DEF AuthInv
  <1>2. QED BY <1>1, AuthInvariant, PTL

\* No session that was begun with a password outlives the change of it.
THEOREM NoOldPasswords == Spec => []OldPasswordsAreOut
  <1>1. AuthInv => OldPasswordsAreOut
    BY DEF AuthInv
  <1>2. QED BY <1>1, AuthInvariant, PTL

\* No two accounts have one adult identity, and no withdrawn account has one.
THEOREM IdentitiesAreUnique == Spec => []IdentityOfOneAccount
  <1>1. AuthInv => IdentityOfOneAccount
    BY DEF AuthInv
  <1>2. QED BY <1>1, AuthInvariant, PTL

-----------------------------------------------------------------------------
(***************************************************************************)
(* The promise                                                             *)
(***************************************************************************)

\* session, owner and password of SessionPromise, as KeepsPromise substitutes
\* them.
Stage(s) == IF Alive(s) THEN "alive" ELSE IF token[s].session = s THEN "over" ELSE "none"

Stages == [s \in Tokens |-> Stage(s)]
Owners == [s \in Tokens |-> IF token[s].session = s THEN token[s].user ELSE NoUser]
Passwords == [u \in Users |-> account[u].password]

LEMMA PromiseStutters ==
  ASSUME Stages' = Stages, Owners' = Owners, Passwords' = Passwords
  PROVE  [Promise!PromiseNext]_(Promise!promiseVars)
  BY DEF Stages, Stage, Owners, Passwords, Promise!promiseVars

\* A session that is alive has begun.
LEMMA AliveHasBegun ==
  ASSUME TokensInv, NEW s \in Tokens, Alive(s)
  PROVE  token[s].session = s
  BY DEF TokensInv, Alive, SessionTokens, Unissued

\* Where no token is made, sessions may end and nothing else.
LEMMA EndingKeepsStages ==
  ASSUME TokensInv, \A t \in Tokens : KeptOrEnded(t), Passwords' = Passwords
  PROVE  Promise!PromiseNext
  <1>1. ASSUME NEW s \in Tokens
        PROVE  /\ Stage(s)' = Stage(s) \/ (Stage(s) = "alive" /\ Stage(s)' = "over")
               /\ Stage(s)' \in {"none", "alive", "over"}
    <2>1. Alive(s)' => Alive(s)
      BY EndedToken DEF Alive, SessionTokens
    <2>2. token'[s].session = token[s].session
      BY EndedToken
    <2>3. QED BY <2>1, <2>2, AliveHasBegun DEF Stage
  <1>2. Owners' = Owners
    BY EndedToken DEF Owners
  <1>3. Promise!End
    BY <1>1, <1>2 DEF Stages, Stage, Owners, Passwords, Promise!End
  <1>4. QED BY <1>3 DEF Promise!PromiseNext

\* The stages after a new session, which may end those of one user.
LEMMA NewSessionStages ==
  ASSUME TokensInv, NEW t \in Tokens, Unissued(t), NEW u \in Users, NEW p,
         token'[t] = NewToken(u, t, p), \A x \in Tokens \ {t} : KeptOrEnded(x)
  PROVE  /\ Owners[t] = NoUser
         /\ Owners' = [Owners EXCEPT ![t] = u]
         /\ Stage(t)' = "alive"
         /\ \A s, x \in Tokens : s # t => (x \in SessionTokens(s)' <=> x \in SessionTokens(s))
  <1>1. /\ token'[t].session = t /\ token'[t].user = u /\ token'[t].status = "live"
        /\ token[t].session = NoToken
    BY DEF NewToken, TokensInv, Unissued, UnusedToken
  <1>2. Owners[t] = NoUser
    BY <1>1, NullsAreNull DEF Owners
  <1>3. Owners' = [Owners EXCEPT ![t] = u]
    BY <1>1, EndedToken DEF Owners
  <1>4. Stage(t)' = "alive"
    BY <1>1 DEF Stage, Alive, SessionTokens
  <1>5. \A s, x \in Tokens : s # t => (x \in SessionTokens(s)' <=> x \in SessionTokens(s))
    BY <1>1, EndedToken, NullsAreNull DEF SessionTokens
  <1>6. QED BY <1>2, <1>3, <1>4, <1>5

\* A new session beside the others begins.
LEMMA IssueBegins ==
  ASSUME TokensInv, NEW t \in Tokens, Unissued(t), NEW u \in Users, NEW p,
         token' = [token EXCEPT ![t] = NewToken(u, t, p)], Passwords' = Passwords
  PROVE  Promise!PromiseNext
  <1>1. token'[t] = NewToken(u, t, p) /\ \A x \in Tokens \ {t} : token'[x] = token[x]
    BY DEF TokensInv
  <1>2. \A x \in Tokens \ {t} : KeptOrEnded(x)
    BY <1>1 DEF KeptOrEnded
  <1>3. ASSUME NEW s \in Tokens \ {t} PROVE Stage(s)' = Stage(s)
    <2>1. \A x \in Tokens : x \in SessionTokens(s)' <=> x \in SessionTokens(s)
      BY <1>1, <1>2, NewSessionStages
    <2>2. t \notin SessionTokens(s)
      BY NullsAreNull DEF TokensInv, Unissued, UnusedToken, SessionTokens
    <2>3. Alive(s)' <=> Alive(s)
      BY <1>1, <2>1, <2>2 DEF Alive, SessionTokens
    <2>4. QED BY <1>1, <2>3 DEF Stage
  <1>4. Stages' = [s \in Tokens |-> IF s = t THEN "alive" ELSE IF s \in {} THEN "over" ELSE Stages[s]]
    BY <1>1, <1>2, <1>3, NewSessionStages DEF Stages
  <1>5. Owners[t] = NoUser /\ Owners' = [Owners EXCEPT ![t] = u]
    BY <1>1, <1>2, NewSessionStages
  <1>6. Promise!Begin(t, u)
    BY <1>4, <1>5 DEF Stages, Stage, Owners, Passwords, Promise!Begin, Promise!Start
  <1>7. QED BY <1>6 DEF Promise!PromiseNext

\* A rotation does not show.
LEMMA RotationStutters ==
  ASSUME TokensInv, NEW old \in Tokens, token[old].status = "live", NEW next \in Tokens, Unissued(next),
         token' = [token EXCEPT ![old].status = "revoked",
                                ![next] = [token[old] EXCEPT !.status = "live"]],
         Passwords' = Passwords
  PROVE  [Promise!PromiseNext]_(Promise!promiseVars)
  <1>1. old # next /\ token[old] \in Token /\ token[next].session = NoToken
    BY DEF Unissued, TokensInv, UnusedToken
  <1>2. token[old].session \in Tokens /\ token[old].session # next
    BY <1>1, NullsAreNull DEF TokensInv, Unissued
  <1>3. /\ token'[next].status = "live" /\ token'[next].session = token[old].session
        /\ token'[old].session = token[old].session /\ token'[old].user = token[old].user
        /\ token'[old].status = "revoked"
        /\ \A x \in Tokens \ {old, next} : token'[x] = token[x]
    BY <1>1 DEF TokensInv, Token
  <1>4. ASSUME NEW s \in Tokens PROVE Stage(s)' = Stage(s)
    <2>1. CASE s = token[old].session
      <3>1. Alive(s) /\ Alive(s)'
        BY <1>3, <2>1 DEF Alive, SessionTokens
      <3>2. QED BY <3>1 DEF Stage
    <2>2. CASE s # token[old].session
      <3>1. \A x \in Tokens : /\ x \in SessionTokens(s)' <=> x \in SessionTokens(s)
                              /\ x \in SessionTokens(s) => token'[x] = token[x]
        BY <1>1, <1>3, <2>2, NullsAreNull DEF SessionTokens
      <3>2. Alive(s)' <=> Alive(s)
        BY <3>1 DEF Alive, SessionTokens
      <3>3. token'[s].session = s <=> token[s].session = s
        BY <1>1, <1>2, <1>3, <2>2, NullsAreNull
      <3>4. QED BY <3>2, <3>3 DEF Stage
    <2>3. QED BY <2>1, <2>2
  <1>5. Owners' = Owners
    <2>1. ASSUME NEW s \in Tokens
          PROVE  /\ token'[s].session = s <=> token[s].session = s
                 /\ token[s].session = s => token'[s].user = token[s].user
      <3>1. CASE s = next
        BY <1>1, <1>2, <1>3, <3>1, NullsAreNull
      <3>2. CASE s # next
        BY <1>3, <3>2
      <3>3. QED BY <3>1, <3>2
    <2>2. QED BY <2>1 DEF Owners
  <1>6. Stages' = Stages
    BY <1>4 DEF Stages
  <1>7. QED BY <1>5, <1>6, PromiseStutters

\* A change of the password begins a session and ends the others of its user.
LEMMA ChangeEndsOthers ==
  ASSUME AuthInv, NEW k \in Calls, NEW u \in Users, NEW t \in Tokens, ChangeWrites(k, u, t)
  PROVE  Promise!PromiseNext
  <1> DEFINE p == account[u].password + 1
             ended == Promise!OthersOf(u, t)
  <1> TokensInv
    BY DEF AuthInv
  <1>1. Unissued(t) /\ Passwords' = [Passwords EXCEPT ![u] = @ + 1]
    BY DEF ChangeWrites, Passwords, AuthInv, AccountsInv, Account
  <1>2. /\ token'[t] = NewToken(u, t, p)
        /\ \A x \in Tokens \ {t} : KeptOrEnded(x)
        /\ \A x \in Tokens \ {t} : token[x].user = u => token'[x].status # "live"
        /\ \A x \in Tokens \ {t} : token[x].user # u => token'[x] = token[x]
    BY DEF ChangeWrites, KeptOrEnded, Unissued, Over, LoggedOut, Owned, TokensInv, Token
  <1> HIDE DEF p
  <1>3. /\ Owners[t] = NoUser /\ Owners' = [Owners EXCEPT ![t] = u] /\ Stage(t)' = "alive"
        /\ \A s, x \in Tokens : s # t => (x \in SessionTokens(s)' <=> x \in SessionTokens(s))
    BY <1>1, <1>2, NewSessionStages
  <1>4. ended = {s \in Tokens \ {t} : Owners[s] = u /\ Stage(s) = "alive"}
    BY DEF Promise!OthersOf, Owners, Stage
  <1> HIDE DEF ended
  <1>5. t \notin ended
    BY <1>4
  <1>6. ASSUME NEW s \in Tokens \ {t}
        PROVE  Stage(s)' = IF s \in ended THEN "over" ELSE Stage(s)
    <2>1. \A x \in SessionTokens(s) : x # t
      BY NullsAreNull, <1>1 DEF TokensInv, Unissued, UnusedToken, SessionTokens
    <2>2. token'[s].session = token[s].session
      BY <1>2, EndedToken
    <2>3. CASE Alive(s)
      <3>1. token[s].session = s /\ Stage(s) = "alive"
        BY <2>3, AliveHasBegun DEF Stage
      <3>2. PICK y \in SessionTokens(s) : token[y].status = "live"
        BY <2>3 DEF Alive
      <3>3. \A x \in SessionTokens(s) : token[x].status = "live" => token[x].user = token[s].user
        BY DEF TokensInv, SessionTokens, Unissued
      <3>4. CASE token[s].user = u
        <4>1. s \in ended
          BY <1>4, <3>1, <3>4 DEF Owners
        <4>2. ASSUME NEW x \in SessionTokens(s) PROVE token'[x].status # "live"
          <5>1. x \in Tokens \ {t}
            BY <2>1 DEF SessionTokens
          <5>2. CASE token[x].status = "live"
            BY <1>2, <3>3, <3>4, <5>1, <5>2
          <5>3. CASE token[x].status # "live"
            BY <1>2, <5>1, <5>3, EndedToken
          <5>4. QED BY <5>2, <5>3
        <4>3. ~(Alive(s)')
          BY <1>3, <4>2 DEF Alive, SessionTokens
        <4>4. QED BY <2>2, <3>1, <4>1, <4>3 DEF Stage
      <3>5. CASE token[s].user # u
        <4>1. s \notin ended
          BY <1>4, <3>1, <3>5 DEF Owners
        <4>2. token'[y] = token[y] /\ y \in SessionTokens(s)'
          BY <1>2, <1>3, <2>1, <3>2, <3>3, <3>5 DEF SessionTokens
        <4>3. Alive(s)'
          BY <3>2, <4>2 DEF Alive
        <4>4. QED BY <3>1, <4>1, <4>3 DEF Stage
      <3>6. QED BY <3>4, <3>5
    <2>4. CASE ~Alive(s)
      <3>1. ~(Alive(s)')
        BY <1>2, <1>3, <2>1, <2>4, EndedToken DEF Alive, SessionTokens
      <3>2. s \notin ended
        BY <1>4, <2>4 DEF Stage
      <3>3. QED BY <2>2, <2>4, <3>1, <3>2 DEF Stage
    <2>5. QED BY <2>3, <2>4
  <1>7. Stages' = [s \in Tokens |-> IF s = t THEN "alive" ELSE IF s \in ended THEN "over" ELSE Stages[s]]
    BY <1>3, <1>6 DEF Stages
  <1>8. Promise!Start(t, u, ended)
    BY <1>3, <1>7 DEF Stages, Stage, Owners, Promise!Start
  <1>9. Promise!ChangePassword(t, u)
    BY <1>1, <1>8 DEF ended, Passwords, Promise!ChangePassword
  <1>10. QED BY <1>9 DEF Promise!PromiseNext

LEMMA PromiseStep ==
  ASSUME AuthInv, [Next]_vars
  PROVE  [Promise!PromiseNext]_(Promise!promiseVars)
  <1> TokensInv /\ AccountsInv
    BY DEF AuthInv
  <1>1. ASSUME UNCHANGED token, Passwords' = Passwords
        PROVE  [Promise!PromiseNext]_(Promise!promiseVars)
    BY <1>1, PromiseStutters DEF Stages, Stage, Owners, Alive, SessionTokens
  <1>2. ASSUME UNCHANGED <<account, token>>
        PROVE  [Promise!PromiseNext]_(Promise!promiseVars)
    BY <1>1, <1>2 DEF Passwords
  <1>3. ASSUME NEW k \in Calls, NEW u \in Users, Register(k, u)
        PROVE  [Promise!PromiseNext]_(Promise!promiseVars)
    <2>1. Passwords[u] = 0
      BY <1>3 DEF Register, Passwords, AccountsInv, Exists, NoAccount
    <2>2. Passwords' = [Passwords EXCEPT ![u] = 1]
      BY <1>3 DEF Register, Passwords, AccountsInv, NoAccount
    <2>3. Stages' = Stages /\ Owners' = Owners
      BY <1>3 DEF Register, Stages, Stage, Owners, Alive, SessionTokens
    <2>4. Promise!SetPassword(u)
      BY <2>1, <2>2, <2>3 DEF Stages, Stage, Owners, Passwords, Promise!SetPassword
    <2>5. QED BY <2>4 DEF Promise!PromiseNext
  <1>4. ASSUME NEW k \in Calls, NEW u \in Users, SocialLogin(k, u)
        PROVE  [Promise!PromiseNext]_(Promise!promiseVars)
    <2>1. Passwords' = Passwords
      BY <1>4 DEF SocialLogin, Passwords, AccountsInv, Account
    <2>2. QED BY <1>1, <1>4, <2>1 DEF SocialLogin
  <1>5. ASSUME NEW k \in Calls, NEW u \in Users, NEW t \in Tokens, IssueTokens(k, u, t)
        PROVE  [Promise!PromiseNext]_(Promise!promiseVars)
    <2>1. Passwords' = Passwords
      BY <1>5 DEF IssueTokens, Passwords
    <2>2. QED BY <1>5, <2>1, IssueBegins DEF IssueTokens
  <1>6. ASSUME NEW k \in Calls, NEW old \in Tokens, NEW next \in Tokens, RefreshRotates(k, old, next)
        PROVE  [Promise!PromiseNext]_(Promise!promiseVars)
    <2>1. Passwords' = Passwords
      BY <1>6 DEF RefreshRotates, Passwords
    <2>2. QED BY <1>6, <2>1, RotationStutters DEF RefreshRotates, MayRotate
  <1>7. ASSUME NEW t \in Tokens, RevokeRefreshToken(t) \/ TokenExpires(t)
        PROVE  [Promise!PromiseNext]_(Promise!promiseVars)
    <2>1. Passwords' = Passwords
      BY <1>7 DEF RevokeRefreshToken, TokenExpires, Passwords
    <2>2. \A x \in Tokens : KeptOrEnded(x)
      BY <1>7 DEF RevokeRefreshToken, TokenExpires, KeptOrEnded, Unissued, Over, TokensInv
    <2>3. QED BY <2>1, <2>2, EndingKeepsStages
  <1>8. ASSUME NEW k \in Calls, NEW u \in Users, DeleteCommits(k, u)
        PROVE  [Promise!PromiseNext]_(Promise!promiseVars)
    <2>1. Passwords' = Passwords
      BY <1>8 DEF DeleteCommits, Passwords, AccountsInv, Account
    <2>2. \A x \in Owned(u) : ~Unissued(x)
      BY NullsAreNull DEF Owned, TokensInv, Unissued, UnusedToken
    <2>3. \A x \in Tokens : KeptOrEnded(x)
      BY <1>8, <2>2 DEF DeleteCommits, KeptOrEnded, Over
    <2>4. QED BY <2>1, <2>3, EndingKeepsStages
  <1>9. ASSUME NEW u \in Users, NEW h \in Identities, VerifyIdentity(u, h)
        PROVE  [Promise!PromiseNext]_(Promise!promiseVars)
    <2>1. Passwords' = Passwords
      BY <1>9 DEF VerifyIdentity, Passwords, AccountsInv, Account
    <2>2. QED BY <1>1, <1>9, <2>1 DEF VerifyIdentity
  <1>10. ASSUME NEW k \in Calls, SessionStep(k)
         PROVE  [Promise!PromiseNext]_(Promise!promiseVars)
    <2>1. ASSUME NEW u \in Users, LoginReads(k, u) \/ LoginChecks(k, u) \/ ChangeReads(k, u)
                                  \/ ChangeChecks(k, u)
          PROVE  UNCHANGED <<account, token>>
      BY <2>1 DEF LoginReads, LoginChecks, ChangeReads, ChangeChecks
    <2>2. ASSUME NEW t \in Tokens, RefreshReads(k, t) PROVE UNCHANGED <<account, token>>
      BY <2>2 DEF RefreshReads
    <2>3. QED BY <1>2, <1>3, <1>4, <1>5, <1>6, <1>10, <2>1, <2>2, ChangeEndsOthers DEF SessionStep
  <1>11. ASSUME NEW k \in Calls, WithdrawalStep(k) \/ CallEnds(k)
         PROVE  [Promise!PromiseNext]_(Promise!promiseVars)
    <2>1. ASSUME NEW u \in Users, DeleteReads(k, u) \/ DeleteLocks(k, u) \/ DeleteWrites(k, u)
          PROVE  UNCHANGED <<account, token>>
      BY <2>1 DEF DeleteReads, DeleteLocks, DeleteWrites
    <2>2. CallEnds(k) => UNCHANGED <<account, token>>
      BY DEF CallEnds
    <2>3. QED BY <1>2, <1>8, <1>11, <2>1, <2>2 DEF WithdrawalStep
  <1>12. ASSUME NEW u \in Users, CreditStep(u) PROVE UNCHANGED <<account, token>>
    BY <1>12 DEF CreditStep, PurchaseStarts, PurchaseIsPaid, CreditIsSpent, PurchaseIsReversed
  <1>13. CASE UNCHANGED vars
    BY <1>2, <1>13 DEF vars
  <1>14. QED BY <1>2, <1>7, <1>9, <1>10, <1>11, <1>12, <1>13 DEF Next

\* Tokens implement the sessions of SessionPromise: none that is over is alive
\* again, and a change of the password leaves only the session it begins.
THEOREM AuthKeepsPromise == Spec => KeepsPromise
  <1>1. Init => Promise!PromiseInit
    <2> SUFFICES ASSUME Init PROVE Promise!PromiseInit
      OBVIOUS
    <2>1. \A t \in Tokens : token[t] = UnusedToken
      BY DEF Init
    <2>2. \A s \in Tokens : token[s].session # s /\ ~Alive(s)
      BY <2>1, NullsAreNull DEF UnusedToken, Alive, SessionTokens
    <2>3. \A u \in Users : account[u].password = 0
      BY DEF Init, NoAccount
    <2>4. QED BY <2>2, <2>3 DEF Promise!PromiseInit
  <1>2. AuthInv /\ [Next]_vars => [Promise!PromiseNext]_(Promise!promiseVars)
    BY PromiseStep
  <1>3. QED BY <1>1, <1>2, AuthInvariant, PTL DEF Spec, KeepsPromise, Promise!PromiseSpec

=============================================================================

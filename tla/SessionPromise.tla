--------------------------- MODULE SessionPromise ---------------------------
(***************************************************************************)
(* What logging in promises, without tokens or calls: a session is alive   *)
(* from its beginning to its end and never again, and a change of the      *)
(* password ends every session of its user in the same step.               *)
(***************************************************************************)
EXTENDS Naturals

CONSTANTS Sessions, Users, NoUser

VARIABLES
  session,   \* none, alive or over
  owner,     \* the user of a session
  password   \* number of passwords the user has had

promiseVars == <<session, owner, password>>

PromiseInit ==
  /\ session = [s \in Sessions |-> "none"]
  /\ owner = [s \in Sessions |-> NoUser]
  /\ password = [u \in Users |-> 0]

OthersOf(u, s) == {r \in Sessions \ {s} : owner[r] = u /\ session[r] = "alive"}

Start(s, u, ended) ==
  /\ owner[s] = NoUser
  /\ session' = [r \in Sessions |-> IF r = s THEN "alive" ELSE IF r \in ended THEN "over" ELSE session[r]]
  /\ owner' = [owner EXCEPT ![s] = u]

Begin(s, u) == UNCHANGED password /\ Start(s, u, {})

\* Logout, expiry and withdrawal may end several sessions, none begins again.
End ==
  /\ UNCHANGED <<owner, password>>
  /\ session' \in [Sessions -> {"none", "alive", "over"}]
  /\ \A s \in Sessions : session'[s] = session[s] \/ (session[s] = "alive" /\ session'[s] = "over")

ChangePassword(s, u) ==
  /\ Start(s, u, OthersOf(u, s))
  /\ password' = [password EXCEPT ![u] = @ + 1]

\* A new account has its first password before its first session.
SetPassword(u) ==
  /\ password[u] = 0
  /\ UNCHANGED <<session, owner>>
  /\ password' = [password EXCEPT ![u] = 1]

PromiseNext ==
  \/ End
  \/ \E u \in Users : SetPassword(u)
  \/ \E s \in Sessions, u \in Users : Begin(s, u) \/ ChangePassword(s, u)

PromiseSpec == PromiseInit /\ [][PromiseNext]_promiseVars

=============================================================================

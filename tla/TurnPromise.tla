----------------------------- MODULE TurnPromise -----------------------------
(***************************************************************************)
(* What the reply pipeline promises its user, without workers, leases or   *)
(* calls: a turn is pending until it is answered or reported as failed,    *)
(* the price of a reply is held exactly while the turn is pending, spent   *)
(* in the step that answers it and returned in the step that gives it up.  *)
(* (docs/06-architecture.md, the agreed contract of the DM sequence.)      *)
(***************************************************************************)
CONSTANT Turns

VARIABLES
  state,  \* what GET /messages reports of each turn (toReplyStatus)
  hold    \* what became of the credits of its latest run

promiseVars == <<state, hold>>

PromiseInit ==
  /\ state = [t \in Turns |-> "none"]
  /\ hold = [t \in Turns |-> "none"]

Move(t, from, to, h) ==
  /\ state[t] = from
  /\ state' = [state EXCEPT ![t] = to]
  /\ hold' = [hold EXCEPT ![t] = h]

Ask(t) == Move(t, "none", "pending", "reserved")
Answer(t) == Move(t, "pending", "completed", "captured")
GiveUp(t) == Move(t, "pending", "failed", "released")
AskAgain(t) == Move(t, "failed", "pending", "reserved")

PromiseNext == \E t \in Turns : Ask(t) \/ Answer(t) \/ GiveUp(t) \/ AskAgain(t)

PromiseSpec == PromiseInit /\ [][PromiseNext]_promiseVars

=============================================================================

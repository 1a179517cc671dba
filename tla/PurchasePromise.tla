--------------------------- MODULE PurchasePromise ---------------------------
(***************************************************************************)
(* What a purchase of credits promises: credits are granted once, and from *)
(* then on credits and money only go back together.                        *)
(***************************************************************************)
EXTENDS Integers

CONSTANTS Purchases, PaidAmount

VARIABLES
  state,    \* open, granted (and perhaps given back in part) or over
  credits,  \* credits granted and not taken back
  money     \* money given back

promiseVars == <<state, credits, money>>

PromiseInit ==
  /\ state = [p \in Purchases |-> "open"]
  /\ credits = [p \in Purchases |-> 0]
  /\ money = [p \in Purchases |-> 0]

Pay(p) ==
  /\ state[p] = "open"
  /\ state' = [state EXCEPT ![p] = "granted"]
  /\ credits' = [credits EXCEPT ![p] = PaidAmount]
  /\ UNCHANGED money

\* Whatever the reason, credits are not taken unless money is given back in the
\* same step, and a purchase that is over stays so.
GiveBack(p) ==
  /\ state[p] # "open"
  /\ \E s \in {"granted", "over"} :
       /\ state[p] = "over" => s = "over"
       /\ state' = [state EXCEPT ![p] = s]
  /\ credits'[p] <= credits[p]
  /\ money'[p] > money[p]
  /\ credits' = [credits EXCEPT ![p] = credits'[p]]
  /\ money' = [money EXCEPT ![p] = money'[p]]

PromiseNext == \E p \in Purchases : Pay(p) \/ GiveBack(p)

PromiseSpec == PromiseInit /\ [][PromiseNext]_promiseVars

=============================================================================

----------------------------- MODULE CreditLedger -----------------------------
(***************************************************************************)
(* The credits of one user (credits.service.ts).  Nothing stores a         *)
(* balance: it is computed from the grants of the ledger, from what was    *)
(* charged to each grant, from what refunds took back of each purchase,    *)
(* from what pending refunds lock, and from the reservations of replies    *)
(* that are still being written.                                           *)
(*                                                                         *)
(* Every operation but checkIn runs under the advisory lock of its user, so*)
(* one operation is one step and one user is enough.  A purchase has one   *)
(* grant of paid credits; nothing under src/ grants a promotion with it.   *)
(* Reservations of replies do not expire, and no other kind is made.       *)
(***************************************************************************)
EXTENDS Integers, FiniteSets, Sequences, SequencesExt

CONSTANTS
  Free,          \* grants of free credits: the signup bonus and check-ins
  Purchases,     \* purchases; each has at most one grant of paid credits
  Refunds,       \* refunds that the user may ask for
  Holds,         \* references of reservations
  FreeAmount,    \* credits of a free grant
  PaidAmount,    \* credits of a purchase
  ReplyPrice,    \* creditActionPrices.chat_reply
  SpendAmounts,  \* amounts that spendCredits is called with
  NoPurchase     \* "null"

ASSUME GrantsAreDistinct == Free \cap Purchases = {} /\ NoPurchase \notin Purchases
ASSUME LedgerIsFinite == IsFiniteSet(Free \cup Purchases) /\ IsFiniteSet(Refunds) /\ IsFiniteSet(Holds)
ASSUME AmountsArePositive == {FreeAmount, PaidAmount, ReplyPrice} \cup SpendAmounts \subseteq Nat \ {0}

VARIABLES
  granted,      \* grants in the order they were made
  expired,      \* free grants whose 30 days are over
  used,         \* credits charged to each grant (credit_usage)
  recovered,    \* credits taken back of each purchase (refund_recovery rows)
  refund,       \* rows of credit_refund that users asked for
  reservation   \* status of each reservation

creditVars == <<granted, expired, used, recovered, refund, reservation>>

-----------------------------------------------------------------------------

Grants == Free \cup Purchases

Amount(g) == IF g \in Free THEN FreeAmount ELSE PaidAmount

\* The statuses of a refund that lock its credits; no refund is ever "reserved".
Locking == {"payment_processing", "payment_succeeded"}

\* With no promotions the credits to refund, to lock and to recover are equal.
Refund == [status: {"none", "completed", "failed"} \cup Locking,
           purchase: Purchases \cup {NoPurchase},
           credits: Nat,
           money: Nat]

NoRefund == [status |-> "none", purchase |-> NoPurchase, credits |-> 0, money |-> 0]

CreditsOf == [r \in Refunds |-> refund[r].credits]

\* Mutant: only a refund that the provider has confirmed locks its credits.
LockedLate(p) ==
  SumFunctionOnSet(CreditsOf, {r \in Refunds : refund[r].purchase = p /\ refund[r].status = "payment_succeeded"})

Locked(p) ==
  SumFunctionOnSet(CreditsOf, {r \in Refunds : refund[r].purchase = p /\ refund[r].status \in Locking})

Smaller(m, n) == IF m < n THEN m ELSE n

\* grantState: what a grant has left before refunds, after what was taken back,
\* and after what pending refunds lock.
Unused(g) == IF g \in expired THEN 0 ELSE Max({0, Amount(g) - used[g]})
Unrecovered(p) == Unused(p) - Smaller(Unused(p), recovered[p])
Available(g) ==
  IF g \in Free THEN Unused(g)
  ELSE Unrecovered(g) - Smaller(Unrecovered(g), Locked(g))

\* What was taken back and is not there: the user has used it already.
Debt(p) == recovered[p] - Smaller(Unused(p), recovered[p])

Granted(S) == {g \in S : Contains(granted, g)}

Left == [g \in Grants |-> Available(g)]
Debts == [p \in Purchases |-> Debt(p)]

FreeBalance == SumFunctionOnSet(Left, Granted(Free))
PaidBalance == SumFunctionOnSet(Left, Granted(Purchases)) - SumFunctionOnSet(Debts, Granted(Purchases))

Reserved == {h \in Holds : reservation[h] = "reserved"}

AvailableBalance ==
  IF PaidBalance < 0 THEN PaidBalance
  ELSE PaidBalance + FreeBalance - ReplyPrice * Cardinality(Reserved)

\* f was granted before g.
Before(f, g) == \E i, j \in DOMAIN granted : i < j /\ granted[i] = f /\ granted[j] = g

\* allocateUsage takes from one grant after the other, free ones first and the
\* oldest of each kind first: a grant gives what is still missing of the amount
\* when it is its turn, and no more than it has left.
Part(g, kind, amount) ==
  LET missing == amount - SumFunctionOnSet(Left, {f \in Granted(kind) : Before(f, g)})
  IN  Smaller(Available(g), Max({0, missing}))

FreePart(amount) == [g \in Granted(Free) |-> Part(g, Free, amount)]

\* Paid grants give no more than the paid balance together.
Charge(amount) ==
  LET rest == amount - SumFunctionOnSet(FreePart(amount), Granted(Free))
      paidPart == Smaller(rest, Max({0, PaidBalance}))
  IN  [g \in Grants |-> IF g \in Granted(Free) THEN FreePart(amount)[g]
                        ELSE IF g \in Granted(Purchases) THEN Part(g, Purchases, paidPart)
                        ELSE 0]

\* No part of the amount is missing in the end.
Covered(amount) ==
  SumFunctionOnSet(Charge(amount), Granted(Free)) + SumFunctionOnSet(Charge(amount), Granted(Purchases)) = amount

ChargeGrants(amount) == used' = [g \in Grants |-> used[g] + Charge(amount)[g]]

-----------------------------------------------------------------------------
(***************************************************************************)
(* Operations                                                              *)
(***************************************************************************)

CreditInit ==
  /\ granted = <<>>
  /\ expired = {}
  /\ used = [g \in Grants |-> 0]
  /\ recovered = [p \in Purchases |-> 0]
  /\ refund = [r \in Refunds |-> NoRefund]
  /\ reservation = [h \in Holds |-> "none"]

\* grantCredits is idempotent by its external reference.
Grant(g) == granted' = IF Contains(granted, g) THEN granted ELSE Append(granted, g)

\* grantSignupBonus, checkIn (one a day, by the unique index of the day).
GrantFree(g) ==
  /\ ~Contains(granted, g)
  /\ Grant(g)
  /\ UNCHANGED <<expired, used, recovered, refund, reservation>>

\* All free grants last equally long.
FreeExpires(g) ==
  /\ g \in Granted(Free) \ expired
  /\ \A f \in Granted(Free) \ expired : f # g => Before(g, f)
  /\ expired' = expired \cup {g}
  /\ UNCHANGED <<granted, used, recovered, refund, reservation>>

Affordable(amount) == PaidBalance >= 0 /\ AvailableBalance >= amount

ReserveCredits(h) ==
  /\ reservation[h] = "none"
  /\ Affordable(ReplyPrice)
  /\ reservation' = [reservation EXCEPT ![h] = "reserved"]
  /\ UNCHANGED <<granted, expired, used, recovered, refund>>

\* captureReservation; InsufficientCredits rolls it back.
CaptureReservation(h) ==
  /\ reservation[h] = "reserved"
  /\ Covered(ReplyPrice)
  /\ ChargeGrants(ReplyPrice)
  /\ reservation' = [reservation EXCEPT ![h] = "captured"]
  /\ UNCHANGED <<granted, expired, recovered, refund>>

ReleaseReservation(h) ==
  /\ reservation[h] = "reserved"
  /\ reservation' = [reservation EXCEPT ![h] = "released"]
  /\ UNCHANGED <<granted, expired, used, recovered, refund>>

SpendCredits(amount) ==
  /\ Affordable(amount)
  /\ Covered(amount)
  /\ ChargeGrants(amount)
  /\ UNCHANGED <<granted, expired, recovered, refund, reservation>>

CreditStep ==
  \/ \E g \in Free : GrantFree(g) \/ FreeExpires(g)
  \/ \E h \in Holds : ReserveCredits(h) \/ CaptureReservation(h) \/ ReleaseReservation(h)
  \/ \E n \in SpendAmounts : SpendCredits(n)

-----------------------------------------------------------------------------

CreditTypeOK ==
  /\ granted \in Seq(Grants)
  /\ expired \subseteq Free
  /\ used \in [Grants -> Nat]
  /\ recovered \in [Purchases -> Nat]
  /\ refund \in [Refunds -> Refund]
  /\ reservation \in [Holds -> {"none", "reserved", "captured", "released"}]

=============================================================================

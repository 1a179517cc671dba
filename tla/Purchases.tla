------------------------------ MODULE Purchases ------------------------------
(***************************************************************************)
(* Purchases of credits and their refunds (purchases.service.ts): the      *)
(* checkout of a web purchase, the webhooks of the payment provider and    *)
(* the reconciliation that stands in for a late one, the refund a user     *)
(* asks for, the refunds and reversals the provider decides on, and the    *)
(* purchases of the app stores.  Polar is the web provider; the local one, *)
(* which moves no money and is refused in production, is left out.         *)
(*                                                                         *)
(* Every transaction and every call to the provider is one step.  What the *)
(* provider does is modelled by what src/ takes it to do (external).  Its  *)
(* webhooks may be late, repeated and out of order; they are delivered     *)
(* until they are answered, and a webhook that failProviderEvent refuses   *)
(* is answered like any other.                                             *)
(***************************************************************************)
EXTENDS CreditLedger

CONSTANTS
  StorePurchases,   \* the purchases made in an app store, paid at once
  Checkouts,        \* checkouts the provider may open; each becomes an order
  NoCheckout,       \* "null"
  Calls,            \* calls of createCheckout
  Price,            \* net amount of an order
  FeePercent,       \* what the user pays for a refund
  MerchantRefunds,  \* amounts the provider may refund on its own account
  Charges,          \* amounts the provider may charge for an order
  MaxStops          \* bound of the model: calls that die between two steps

WebPurchases == Purchases \ StorePurchases

ASSUME StorePurchasesType == StorePurchases \subseteq Purchases
ASSUME NoCheckoutType == NoCheckout \notin Checkouts
ASSUME PriceType == Price \in Nat \ {0} /\ FeePercent \in 0..100
ASSUME MerchantRefundsType == MerchantRefunds \subseteq 1..Price
ASSUME ChargesType == Charges \subseteq Nat \ {0}
ASSUME BoundsType == MaxStops \in Nat

VARIABLES
  purchase,   \* credit_purchases and payments: one row of each
  processed,  \* payment_provider_events that were processed
  failed,     \* and those that failProviderEvent has refused last
  taken,      \* credits taken back by refunds the provider decided on
  ledgered,   \* refunds whose refund_recovery row exists
  refundCall, \* how far requestRefund is with each refund
  call,       \* how far each createCheckout is
  opened,     \* checkouts the provider has opened for each purchase, in order
  shown,      \* checkouts whose URL the user has
  paid,       \* what the provider has charged for each order, 0 before
  back,       \* money the provider has given back of each order
  psp,        \* what the provider makes of each refund
  sent,       \* events there are
  verified,   \* store purchases whose proof a call of verifyInApp has checked
  revoked,    \* store purchases the store has taken back
  stops       \* calls that died so far

serviceVars == <<purchase, processed, failed, taken, ledgered, refundCall, call>>
providerVars == <<opened, shown, paid, back, psp, sent, verified, revoked>>
vars == <<creditVars, serviceVars, providerVars, stops>>

-----------------------------------------------------------------------------
(***************************************************************************)
(* Rows and records                                                        *)
(***************************************************************************)

\* recent: the row was updated within the last 30 seconds; booked: refunds in
\* payment_ledger.
Purchase == [status: {"none", "pending", "completed", "refunded", "reversed"},
             payment: {"none", "pending", "processing", "paid", "partially_refunded",
                       "refunded", "reversed"},
             checkout: Checkouts \cup {NoCheckout},
             order: Checkouts \cup {NoCheckout},
             recent: BOOLEAN,
             booked: Nat]

NoRow == [status |-> "none", payment |-> "none", checkout |-> NoCheckout,
          order |-> NoCheckout, recent |-> FALSE, booked |-> 0]

NewRow == [NoRow EXCEPT !.status = "pending", !.payment = "pending", !.recent = TRUE]

Unpaid(p) == purchase[p].payment \in {"pending", "processing"}

\* A call of createCheckout: "found" has the row, "asking" has claimed it or
\* not, "missing" knows the provider has no checkout for it, "saving" has one.
\* late is history, which nothing in the code depends on: since the call tried to
\* claim the row, a moment came when the row had not changed for 30 seconds.
Call == [pc: {"idle", "found", "asking", "missing", "saving"},
         purchase: Purchases \cup {NoPurchase},
         claimed: BOOLEAN,
         checkout: Checkouts \cup {NoCheckout},
         late: BOOLEAN]

IdleCall == [pc |-> "idle", purchase |-> NoPurchase, claimed |-> FALSE, checkout |-> NoCheckout, late |-> FALSE]

\* An event names its order by what the provider put into it.
Event == [type: {"paid", "reconciled"}, order: Checkouts, amount: Charges]
         \cup [type: {"refunded"}, order: Checkouts, amount: Nat]
         \cup [type: {"reversed"}, order: StorePurchases, amount: {Price}]

OrderEvent(type, c, amount) == [type |-> type, order |-> c, amount |-> amount]

\* Mutant: the purchase is found by the checkout that its row has.
PurchaseOfSaved(c) ==
  IF \E p \in WebPurchases : purchase[p].checkout = c
  THEN CHOOSE p \in WebPurchases : purchase[p].checkout = c
  ELSE NoPurchase

\* The metadata of a checkout names its purchase.
PurchaseOf(c) == CHOOSE p \in WebPurchases : Contains(opened[p], c)

-----------------------------------------------------------------------------
(***************************************************************************)
(* createCheckout and ensureCheckout                                       *)
(***************************************************************************)

\* The row is there or is inserted; a row that has its checkout is the answer.
CreateCheckout(k, p) ==
  /\ call[k].pc = "idle"
  /\ purchase[p].checkout = NoCheckout
  /\ purchase' = [purchase EXCEPT ![p] = IF @ = NoRow THEN NewRow ELSE @]
  /\ call' = [call EXCEPT ![k] = [IdleCall EXCEPT !.pc = "found", !.purchase = p]]
  /\ UNCHANGED <<creditVars, processed, failed, taken, ledgered, refundCall, providerVars, stops>>

Claimable(p) == purchase[p].payment = "pending" /\ purchase[p].checkout = NoCheckout

ClaimCheckout(k, p) ==
  /\ call[k].pc = "found"
  /\ call[k].purchase = p
  /\ call' = [call EXCEPT ![k].pc = "asking", ![k].claimed = Claimable(p), ![k].late = FALSE]
  /\ purchase' = IF Claimable(p)
                 THEN [purchase EXCEPT ![p].payment = "processing", ![p].recent = TRUE]
                 ELSE purchase
  /\ UNCHANGED <<creditVars, processed, failed, taken, ledgered, refundCall, providerVars, stops>>

\* The provider's newest checkout of the purchase, if it has one.
FindCheckout(k, p) ==
  /\ call[k].pc = "asking"
  /\ call[k].purchase = p
  /\ call' = [call EXCEPT ![k] = IF opened[p] = <<>> THEN [@ EXCEPT !.pc = "missing"]
                                 ELSE [@ EXCEPT !.pc = "saving", !.checkout = Last(opened[p])]]
  /\ UNCHANGED <<creditVars, purchase, processed, failed, taken, ledgered, refundCall, providerVars, stops>>

\* Mutant: nobody waits for the call that claimed the row.
MayOpenAnyway(k, p) == TRUE

\* Another call holds the claim unless it is 30 seconds old.
MayOpen(k, p) == call[k].claimed \/ ~purchase[p].recent

CheckoutRefused(k, p) ==
  /\ call[k].pc = "missing"
  /\ call[k].purchase = p
  /\ ~MayOpen(k, p)
  /\ call' = [call EXCEPT ![k] = IdleCall]
  /\ UNCHANGED <<creditVars, purchase, processed, failed, taken, ledgered, refundCall, providerVars, stops>>

OpenCheckout(k, p, c) ==
  /\ call[k].pc = "missing"
  /\ call[k].purchase = p
  /\ MayOpen(k, p)
  /\ \A q \in WebPurchases : ~Contains(opened[q], c)
  /\ opened' = [opened EXCEPT ![p] = Append(@, c)]
  /\ call' = [call EXCEPT ![k].pc = "saving", ![k].checkout = c]
  /\ UNCHANGED <<creditVars, purchase, processed, failed, taken, ledgered, refundCall,
                 shown, paid, back, psp, sent, verified, revoked, stops>>

SaveCheckout(k, p) ==
  /\ call[k].pc = "saving"
  /\ call[k].purchase = p
  /\ purchase' = [purchase EXCEPT ![p] =
       [@ EXCEPT !.checkout = call[k].checkout, !.recent = TRUE,
                 !.payment = IF purchase[p].payment = "processing" THEN "pending" ELSE purchase[p].payment]]
  /\ shown' = shown \cup {call[k].checkout}
  /\ call' = [call EXCEPT ![k] = IdleCall]
  /\ UNCHANGED <<creditVars, processed, failed, taken, ledgered, refundCall,
                 opened, paid, back, psp, sent, verified, revoked, stops>>

\* The process dies or the provider's answer is lost.
CheckoutDies(k) ==
  /\ call[k].pc # "idle"
  /\ stops < MaxStops
  /\ stops' = stops + 1
  /\ call' = [call EXCEPT ![k] = IdleCall]
  /\ UNCHANGED <<creditVars, purchase, processed, failed, taken, ledgered, refundCall, providerVars>>

\* The row has not changed for 30 seconds, which calls that are in progress may
\* well outlast: no timeout is set for their requests to the provider.  Left out
\* where nobody can look at the row any more.
MayLook(k, p) == call[k].purchase = p /\ call[k].pc # "saving" /\ ~call[k].claimed

HalfMinutePasses(p) ==
  /\ purchase[p].payment = "processing" \/ \E k \in Calls : MayLook(k, p)
  /\ purchase[p].recent
  /\ purchase' = [purchase EXCEPT ![p].recent = FALSE]
  /\ call' = [k \in Calls |-> IF call[k].purchase = p THEN [call[k] EXCEPT !.late = TRUE] ELSE call[k]]
  /\ UNCHANGED <<creditVars, processed, failed, taken, ledgered, refundCall, providerVars, stops>>

-----------------------------------------------------------------------------
(***************************************************************************)
(* applyEvent                                                              *)
(***************************************************************************)

Processed(e) == processed' = processed \cup {e} /\ failed' = failed \ {e}
Failed(e) == failed' = failed \cup {e} /\ UNCHANGED processed

\* getByCheckoutId asks the provider for the order of an open purchase; an
\* order that is paid, and not refunded since, is applied like a webhook, with an
\* event ID of its own.
Reconcile(p, c) ==
  /\ purchase[p].status = "pending"
  /\ Unpaid(p)
  /\ purchase[p].checkout = c
  /\ paid[c] > 0 /\ back[c] = 0
  /\ sent' = sent \cup {OrderEvent("reconciled", c, paid[c])}
  /\ UNCHANGED <<creditVars, serviceVars, opened, shown, paid, back, psp, verified, revoked, stops>>

\* Mutant: an order that was refunded can be paid again.
MayBePaidAgain(p) == purchase[p].payment # "none"

MayBePaid(p) == Unpaid(p)

\* Product, amounts and currency are what the purchase was made for.
Matches(e) == e.amount = Price

\* The order is paid: the purchase is granted.
PaymentGrants(e, p) ==
  /\ e \in sent /\ e.type \in {"paid", "reconciled"} /\ e \notin processed
  /\ p = PurchaseOf(e.order)
  /\ Matches(e)
  /\ MayBePaid(p)
  /\ purchase' = [purchase EXCEPT ![p] =
       [@ EXCEPT !.status = "completed", !.payment = "paid", !.order = e.order, !.recent = TRUE]]
  /\ Grant(p)
  /\ Processed(e)
  /\ UNCHANGED <<expired, used, recovered, refund, reservation, taken, ledgered, refundCall,
                 call, providerVars, stops>>

\* A replay of the order that was paid is processed; a payment of the wrong
\* amount and any other payment of the purchase (duplicate_capture,
\* invalid_transition) fails.
PaymentIsNoNews(e, p) ==
  /\ e \in sent /\ e.type \in {"paid", "reconciled"} /\ e \notin processed
  /\ p = PurchaseOf(e.order)
  /\ ~(Matches(e) /\ MayBePaid(p))
  /\ IF Matches(e) /\ purchase[p].payment = "paid" /\ purchase[p].order = e.order THEN Processed(e) ELSE Failed(e)
  /\ UNCHANGED <<creditVars, purchase, taken, ledgered, refundCall, call, providerVars, stops>>

Pending(p) == {r \in Refunds : refund[r].purchase = p /\ refund[r].status \in Locking}

\* Credits that completed refunds have taken back of p.
TakenBack(p) ==
  taken[p] + SumFunctionOnSet(CreditsOf, {r \in Refunds : refund[r].purchase = p /\ refund[r].status = "completed"})

\* applyCumulativeRefund, for what the cumulative amount of the event leaves
\* after a pending refund of the user: that refund is completed, and the rest
\* of the money takes back its share of the credits.
Mismatch(e, p) ==
  \/ e.amount < purchase[p].booked
  \/ \E r \in Pending(p) : e.amount - purchase[p].booked < refund[r].money

\* Mutant: each event takes back its own share, whatever was taken before.
ShareUncounted(p, amount, before) == (PaidAmount * amount) \div Price

\* Mutant: the cumulative amount of the event is taken for the increase.
ShareOfRest(p, amount, before) ==
  Max({0, (PaidAmount * (amount - purchase[p].booked)) \div Price - before})

Share(p, amount, before) == Max({0, (PaidAmount * amount) \div Price - before})

RefundMismatch(e, p) ==
  /\ e \in sent /\ e.type = "refunded" /\ e \notin processed
  /\ purchase[p].order = e.order
  /\ Mismatch(e, p)
  /\ Failed(e)
  /\ UNCHANGED <<creditVars, purchase, taken, ledgered, refundCall, call, providerVars, stops>>

AfterRefund(status, amount, partly) ==
  IF status = "refunded" THEN "refunded" ELSE IF amount = Price THEN "reversed" ELSE partly

\* No refund of the user is pending.
RefundApplies(e, p) ==
  LET share == Share(p, e.amount, TakenBack(p))
  IN
  /\ e \in sent /\ e.type = "refunded" /\ e \notin processed
  /\ purchase[p].order = e.order
  /\ Pending(p) = {}
  /\ ~Mismatch(e, p)
  /\ IF e.amount = purchase[p].booked
     THEN UNCHANGED <<purchase, recovered, taken>>
     ELSE /\ recovered' = [recovered EXCEPT ![p] = @ + share]
          /\ taken' = [taken EXCEPT ![p] = @ + share]
          /\ purchase' = [purchase EXCEPT ![p] =
               [@ EXCEPT !.booked = e.amount, !.recent = TRUE,
                         !.payment = AfterRefund(purchase[p].payment, e.amount, "partially_refunded"),
                         !.status = AfterRefund(purchase[p].status, e.amount, "completed")]]
  /\ Processed(e)
  /\ UNCHANGED <<granted, expired, used, refund, reservation, ledgered, refundCall, call,
                 providerVars, stops>>

\* The event confirms the user's refund, and perhaps some more.  The unique
\* reference of the recovery row aborts the second completion of a refund.
RefundConfirms(e, p, r) ==
  LET before == TakenBack(p) + refund[r].credits
      share == IF e.amount = purchase[p].booked + refund[r].money THEN 0
               ELSE Share(p, e.amount, before)
  IN
  /\ e \in sent /\ e.type = "refunded" /\ e \notin processed
  /\ purchase[p].order = e.order
  /\ r \in Pending(p)
  /\ ~Mismatch(e, p)
  /\ r \notin ledgered
  /\ ledgered' = ledgered \cup {r}
  /\ refund' = [refund EXCEPT ![r].status = "completed"]
  /\ recovered' = [recovered EXCEPT ![p] = @ + refund[r].credits + share]
  /\ taken' = [taken EXCEPT ![p] = @ + share]
  /\ purchase' = [purchase EXCEPT ![p] =
       [@ EXCEPT !.status = "refunded", !.payment = "refunded", !.recent = TRUE, !.booked = e.amount]]
  /\ Processed(e)
  /\ UNCHANGED <<granted, expired, used, reservation, refundCall, call, providerVars, stops>>

-----------------------------------------------------------------------------
(***************************************************************************)
(* requestRefund: lock the credits in one transaction, ask the provider,   *)
(* record its answer, and take the credits back in another transaction     *)
(***************************************************************************)

\* Mutant: replies in progress do not matter.
RefundableAnyway(p) ==
  /\ purchase[p].status = "completed"
  /\ Locked(p) = 0
  /\ 2 * Unrecovered(p) >= PaidAmount

\* refundQuote: at least half of the credits are left, nothing else is going on.
Refundable(p) ==
  /\ Reserved = {}
  /\ purchase[p].status = "completed"
  /\ Locked(p) = 0
  /\ 2 * Unrecovered(p) >= PaidAmount

Gross(p) == (Price * Unrecovered(p)) \div PaidAmount
Fee(p) == (Gross(p) * FeePercent) \div 100

RequestRefund(r, p) ==
  /\ refund[r] = NoRefund
  /\ Refundable(p)
  /\ refund' = [refund EXCEPT ![r] = [status |-> "payment_processing", purchase |-> p,
                                      credits |-> Unrecovered(p), money |-> Gross(p) - Fee(p)]]
  /\ refundCall' = [refundCall EXCEPT ![r] = "asking"]
  /\ UNCHANGED <<granted, expired, used, recovered, reservation, purchase, processed, failed, taken, ledgered,
                 call, providerVars, stops>>

\* The answer is on its way: what it says may be out of date when it arrives.
RefundAnswers(r) ==
  /\ refundCall[r] = "asking"
  /\ psp[r] # "none"
  /\ refundCall' = [refundCall EXCEPT ![r] = psp[r]]
  /\ UNCHANGED <<creditVars, purchase, processed, failed, taken, ledgered, call, providerVars, stops>>

\* Mutant: the answer of the provider is stored as it is.
RefundStatusRaw(answer) == answer

\* "canceled" counts as "failed".
RefundStatus(answer) ==
  CASE answer = "succeeded" -> "payment_succeeded"
    [] answer = "pending" -> "payment_processing"
    [] answer = "failed" -> "failed"

\* Mutant: a refund that is not refused is completed.
NextStageEager(answer) == IF answer = "failed" THEN "idle" ELSE "finishing"

NextStage(answer) == IF answer = "succeeded" THEN "finishing" ELSE "idle"

\* The UPDATE names the row only, not the status it should have.
RecordAnswer(r) ==
  /\ refundCall[r] \in {"pending", "succeeded", "failed"}
  /\ refund' = [refund EXCEPT ![r].status = RefundStatus(refundCall[r])]
  /\ refundCall' = [refundCall EXCEPT ![r] = NextStage(@)]
  /\ UNCHANGED <<granted, expired, used, recovered, reservation, purchase, processed, failed, taken, ledgered,
                 call, providerVars, stops>>

\* completeRefund of a refund that is not completed yet.
CompleteRefund(r, p) ==
  /\ refundCall[r] = "finishing"
  /\ refund[r].purchase = p
  /\ refund[r].status # "completed"
  /\ r \notin ledgered
  /\ ledgered' = ledgered \cup {r}
  /\ refund' = [refund EXCEPT ![r].status = "completed"]
  /\ recovered' = [recovered EXCEPT ![p] = @ + refund[r].credits]
  /\ purchase' = [purchase EXCEPT ![p] =
       [@ EXCEPT !.status = "refunded", !.payment = "refunded", !.recent = TRUE,
                 !.booked = purchase[p].booked + refund[r].money]]
  /\ refundCall' = [refundCall EXCEPT ![r] = "idle"]
  /\ UNCHANGED <<granted, expired, used, reservation, processed, failed, taken, call, providerVars, stops>>

\* It is completed, or its recovery row exists and the transaction aborts.
CompletedAlready(r) ==
  /\ refundCall[r] = "finishing"
  /\ refund[r].status = "completed" \/ r \in ledgered
  /\ refundCall' = [refundCall EXCEPT ![r] = "idle"]
  /\ UNCHANGED <<creditVars, purchase, processed, failed, taken, ledgered, call, providerVars, stops>>

\* The user repeats the request: only what the provider has confirmed goes on.
RepeatRefund(r) ==
  /\ refundCall[r] = "idle"
  /\ refund[r].status = "payment_succeeded"
  /\ refundCall' = [refundCall EXCEPT ![r] = "finishing"]
  /\ UNCHANGED <<creditVars, purchase, processed, failed, taken, ledgered, call, providerVars, stops>>

\* The process dies, or the provider times out or throws: the refund stays as it
\* is.
RefundDies(r) ==
  /\ refundCall[r] # "idle"
  /\ stops < MaxStops
  /\ stops' = stops + 1
  /\ refundCall' = [refundCall EXCEPT ![r] = "idle"]
  /\ UNCHANGED <<creditVars, purchase, processed, failed, taken, ledgered, call, providerVars>>

-----------------------------------------------------------------------------
(***************************************************************************)
(* verifyInApp, and forceReversal for what the store takes back            *)
(***************************************************************************)

VerifyProof(p) ==
  /\ p \notin verified \cup revoked
  /\ verified' = verified \cup {p}
  /\ UNCHANGED <<creditVars, serviceVars, opened, shown, paid, back, psp, sent, revoked, stops>>

\* Mutant: only a purchase in force counts as the row of a transaction.
FirstProofInForce(p) == purchase[p].status # "completed"

FirstProof(p) == purchase[p] = NoRow

\* Only the first call with a transaction finds no row of it.
VerifyInApp(p) ==
  /\ p \in verified
  /\ verified' = verified \ {p}
  /\ IF FirstProof(p)
     THEN /\ purchase' = [purchase EXCEPT ![p] = [NewRow EXCEPT !.status = "completed", !.payment = "paid"]]
          /\ Grant(p)
     ELSE UNCHANGED <<purchase, granted>>
  /\ UNCHANGED <<expired, used, recovered, refund, reservation, processed, failed, taken, ledgered, refundCall, call,
                 opened, shown, paid, back, psp, sent, revoked, stops>>

\* A purchase that is not there yet is "not found", and the event comes again.
ForceReversal(e, p) ==
  /\ e \in sent /\ e.type = "reversed" /\ e \notin processed
  /\ p = e.order
  /\ purchase[p] # NoRow
  /\ IF purchase[p].payment \in {"reversed", "refunded"}
     THEN UNCHANGED <<purchase, recovered, taken>>
     ELSE /\ recovered' = [recovered EXCEPT ![p] = @ + PaidAmount]
          /\ taken' = [taken EXCEPT ![p] = @ + PaidAmount]
          /\ purchase' = [purchase EXCEPT ![p] =
               [@ EXCEPT !.status = "reversed", !.payment = "reversed", !.recent = TRUE, !.booked = Price]]
  /\ Processed(e)
  /\ UNCHANGED <<granted, expired, used, refund, reservation, ledgered, refundCall, call,
                 providerVars, stops>>

-----------------------------------------------------------------------------
(***************************************************************************)
(* The provider and the stores (external)                                  *)
(***************************************************************************)

PayCheckout(c, amount) ==
  /\ c \in shown
  /\ paid[c] = 0
  /\ paid' = [paid EXCEPT ![c] = amount]
  /\ sent' = sent \cup {OrderEvent("paid", c, amount)}
  /\ UNCHANGED <<creditVars, serviceVars, opened, shown, back, psp, verified, revoked, stops>>

GivesBack(c, amount) ==
  /\ back[c] + amount <= paid[c]
  /\ back' = [back EXCEPT ![c] = @ + amount]
  /\ sent' = sent \cup {OrderEvent("refunded", c, back[c] + amount)}

MerchantRefund(c, amount) ==
  /\ paid[c] > 0
  /\ GivesBack(c, amount)
  /\ UNCHANGED <<creditVars, serviceVars, opened, shown, paid, psp, verified, revoked, stops>>

OrderOf(r) == purchase[refund[r].purchase].order

ProviderTakesRefund(r) ==
  /\ refundCall[r] = "asking"
  /\ psp[r] = "none"
  /\ psp' = [psp EXCEPT ![r] = "pending"]
  /\ UNCHANGED <<creditVars, serviceVars, opened, shown, paid, back, sent, verified, revoked, stops>>

ProviderRefunds(r) ==
  /\ psp[r] = "pending"
  /\ GivesBack(OrderOf(r), refund[r].money)
  /\ psp' = [psp EXCEPT ![r] = "succeeded"]
  /\ UNCHANGED <<creditVars, serviceVars, opened, shown, paid, verified, revoked, stops>>

ProviderRefuses(r) ==
  /\ psp[r] = "pending"
  /\ psp' = [psp EXCEPT ![r] = "failed"]
  /\ UNCHANGED <<creditVars, serviceVars, opened, shown, paid, back, sent, verified, revoked, stops>>

StoreRevokes(p) ==
  /\ p \notin revoked
  /\ p \in verified \/ purchase[p] # NoRow
  /\ revoked' = revoked \cup {p}
  /\ sent' = sent \cup {OrderEvent("reversed", p, Price)}
  /\ UNCHANGED <<creditVars, serviceVars, opened, shown, paid, back, psp, verified, stops>>

-----------------------------------------------------------------------------

Init ==
  /\ CreditInit
  /\ purchase = [p \in Purchases |-> NoRow]
  /\ processed = {}
  /\ failed = {}
  /\ taken = [p \in Purchases |-> 0]
  /\ ledgered = {}
  /\ refundCall = [r \in Refunds |-> "idle"]
  /\ call = [k \in Calls |-> IdleCall]
  /\ opened = [p \in WebPurchases |-> <<>>]
  /\ shown = {}
  /\ paid = [c \in Checkouts |-> 0]
  /\ back = [c \in Checkouts |-> 0]
  /\ psp = [r \in Refunds |-> "none"]
  /\ sent = {}
  /\ verified = {}
  /\ revoked = {}
  /\ stops = 0

CheckoutStep(k) ==
  \/ CheckoutDies(k)
  \/ \E p \in WebPurchases :
       \/ CreateCheckout(k, p) \/ ClaimCheckout(k, p) \/ FindCheckout(k, p)
       \/ CheckoutRefused(k, p) \/ SaveCheckout(k, p)
       \/ \E c \in Checkouts : OpenCheckout(k, p, c)

EventStep(e) ==
  \/ \E p \in WebPurchases :
       \/ PaymentGrants(e, p) \/ PaymentIsNoNews(e, p)
       \/ RefundMismatch(e, p) \/ RefundApplies(e, p)
       \/ \E r \in Refunds : RefundConfirms(e, p, r)
  \/ \E p \in StorePurchases : ForceReversal(e, p)

RefundStep(r) ==
  \/ \E p \in WebPurchases : RequestRefund(r, p) \/ CompleteRefund(r, p)
  \/ RefundAnswers(r) \/ RecordAnswer(r) \/ CompletedAlready(r)
  \/ RepeatRefund(r) \/ RefundDies(r)

ProviderStep ==
  \/ \E c \in Checkouts : \/ \E n \in Charges : PayCheckout(c, n)
                        \/ \E n \in MerchantRefunds : MerchantRefund(c, n)
  \/ \E r \in Refunds : ProviderTakesRefund(r) \/ ProviderRefunds(r) \/ ProviderRefuses(r)
  \/ \E p \in StorePurchases : StoreRevokes(p)

Next ==
  \/ CreditStep /\ UNCHANGED <<serviceVars, providerVars, stops>>
  \/ \E k \in Calls : CheckoutStep(k)
  \/ \E p \in WebPurchases : HalfMinutePasses(p) \/ \E c \in Checkouts : Reconcile(p, c)
  \/ \E e \in sent : EventStep(e)
  \/ \E r \in Refunds : RefundStep(r)
  \/ \E p \in StorePurchases : VerifyProof(p) \/ VerifyInApp(p)
  \/ ProviderStep

Spec == Init /\ [][Next]_vars

(***************************************************************************)
(* The provider repeats a webhook until it is answered.                    *)
(***************************************************************************)
PaidWebhook(c) ==
  \E e \in sent \ failed, p \in WebPurchases :
    /\ e.type = "paid" /\ e.order = c
    /\ PaymentGrants(e, p) \/ PaymentIsNoNews(e, p)

LiveSpec == Spec /\ \A c \in Checkouts : WF_vars(PaidWebhook(c))

-----------------------------------------------------------------------------
(***************************************************************************)
(* Properties                                                              *)
(***************************************************************************)

\* The rows, the calls and the events have the shapes the code gives them; a
\* webhook is processed or refused, not both.
PurchaseTypeOK ==
  /\ CreditTypeOK
  /\ purchase \in [Purchases -> Purchase]
  /\ sent \subseteq Event
  /\ processed \subseteq sent /\ failed \subseteq sent \ processed
  /\ taken \in [Purchases -> Nat]
  /\ ledgered \subseteq Refunds
  /\ refundCall \in [Refunds -> {"idle", "asking", "pending", "succeeded", "failed", "finishing"}]
  /\ call \in [Calls -> Call]
  /\ opened \in [WebPurchases -> Seq(Checkouts)]
  /\ shown \subseteq Checkouts
  /\ paid \in [Checkouts -> Charges \cup {0}]
  /\ back \in [Checkouts -> Nat]
  /\ psp \in [Refunds -> {"none", "pending", "succeeded", "failed"}]
  /\ verified \subseteq StorePurchases /\ revoked \subseteq StorePurchases
  /\ stops \in 0..MaxStops

\* As long as no free grant has expired and the provider has taken nothing back
\* on its own, the credits cover every reply that is being written: a refund
\* never locks what a reservation has promised, and no spending takes it.
HoldsAreCovered ==
  expired = {} /\ (\A p \in Purchases : taken[p] = 0) => AvailableBalance >= 0

RefundsOf(p) == {r \in Refunds : refund[r].purchase = p}

\* No credit of a purchase is both used and refunded to the user: what was
\* charged to it and what its refunds lock or have recovered fit into it.
UsedOrRefunded ==
  \A p \in Purchases :
    used[p] + SumFunctionOnSet(CreditsOf, {r \in RefundsOf(p) : r \in ledgered \/ refund[r].status \in Locking})
      <= PaidAmount

Reopened(r) == r \in ledgered /\ refund[r].status # "completed"

\* Whatever order the user's refund, its webhook and refunds of the merchant
\* come in, the credits of a purchase are taken back no more than once.  (Not
\* when the late answer to requestRefund has reopened a refund.)
RecoveredOnce ==
  \A p \in Purchases : (\A r \in RefundsOf(p) : ~Reopened(r)) =>
    recovered[p] <= PaidAmount /\ recovered[p] = TakenBack(p)

\* Credits are granted with the order that paid for them and only then, and the
\* payment ledger never books more refunds of it than the provider has made.
BooksFollowProvider ==
  \A p \in WebPurchases :
     /\ Contains(granted, p) <=> purchase[p].order # NoCheckout
     /\ purchase[p].order # NoCheckout => purchase[p].booked <= back[purchase[p].order]

\* Once a purchase is refunded or reversed the user cannot spend any of it.
NothingLeftAfterRefund ==
  \A p \in Purchases : purchase[p].status \in {"refunded", "reversed"} => Unrecovered(p) = 0

\* However many calls ask for the checkout of a purchase at once, a second one,
\* which could be paid as well, is opened only after a call has died, or because
\* one is slow: the call that claimed the row or the one that opens the checkout
\* takes so long that the row has been left alone for 30 seconds.
OneCheckoutPerPurchase ==
  [][\A p \in WebPurchases : opened[p] # <<>> /\ opened'[p] # opened[p] =>
       stops > 0 \/ \E k \in Calls :
                      /\ call[k].purchase = p /\ call[k].late
                      /\ call[k].claimed \/ call'[k] # call[k]]_vars

\* An order that is paid in full is credited in the end, even if nobody
\* reconciles it: the webhook does it.
PaidOrdersAreCredited ==
  \A c \in Checkouts :
    paid[c] = Price ~> \E p \in WebPurchases : Contains(opened[p], c) /\ Contains(granted, p)

Promise == INSTANCE PurchasePromise WITH
  state <- [p \in Purchases |-> CASE purchase[p].status \in {"none", "pending"} -> "open"
                                  [] purchase[p].status = "completed" -> "granted"
                                  [] OTHER -> "over"],
  credits <- [p \in Purchases |-> IF Contains(granted, p) THEN PaidAmount - recovered[p] ELSE 0],
  money <- [p \in Purchases |-> purchase[p].booked]

\* Credits are granted once; from then on they are taken back only with money
\* that is given back in the same step, and a purchase that is over stays so.
KeepsPromise == Promise!PromiseSpec

-----------------------------------------------------------------------------
(***************************************************************************)
(* Promises of the documentation that the code does not keep               *)
(***************************************************************************)

\* docs/credit-policy.md, section on refunds: in payment_succeeded only the
\* recovery of the credits is left to do, and a repeated request does it.
SucceededAwaitsRecovery ==
  \A r \in Refunds : refund[r].status = "payment_succeeded" => r \notin ledgered

=============================================================================

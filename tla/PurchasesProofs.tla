--------------------------- MODULE PurchasesProofs ---------------------------
(***************************************************************************)
(* Proofs about Purchases, for every set of purchases, refunds, checkouts, *)
(* calls and grants and every price.                                       *)
(***************************************************************************)
EXTENDS Purchases, CreditLedgerProofs, SequenceTheorems

-----------------------------------------------------------------------------
(***************************************************************************)
(* The invariant                                                           *)
(***************************************************************************)

\* A refund that has been recovered, or that still locks its credits.
Active(r) == r \in ledgered \/ refund[r].status \in Locking

\* What the row of a refund says agrees with the call that works on it and with
\* what the provider makes of it.
RefundOK(r) ==
  /\ refund[r].status = "none" =>
       refund[r] = NoRefund /\ refundCall[r] = "idle" /\ psp[r] = "none" /\ r \notin ledgered
  /\ refund[r].status # "none" =>
       /\ refund[r].purchase \in WebPurchases
       /\ purchase[refund[r].purchase].order # NoCheckout
       /\ refund[r].credits > 0
  /\ refund[r].status = "completed" => r \in ledgered
  /\ refundCall[r] # "idle" => Active(r)
  /\ refundCall[r] \in {"succeeded", "finishing"} => psp[r] = "succeeded"
  /\ refund[r].status = "payment_succeeded" => psp[r] = "succeeded"

RefundsInv == \A r \in Refunds : RefundOK(r)

OneActive ==
  \A r, s \in Refunds : Active(r) /\ Active(s) /\ refund[r].purchase = refund[s].purchase => r = s

\* A refund in progress locks all that is left of its purchase; once the
\* provider has paid it, the payment ledger has room for it.
LockOK(r, p) ==
  refund[r].purchase = p /\ refund[r].status \in Locking /\ r \notin ledgered =>
    /\ used[p] + recovered[p] + refund[r].credits = PaidAmount
    /\ recovered[p] = taken[p]
    /\ psp[r] = "succeeded" => purchase[p].booked + refund[r].money <= back[purchase[p].order]

\* A refund that was recovered is the only one that was.
LedgerOK(r, p) ==
  refund[r].purchase = p /\ r \in ledgered =>
    /\ purchase[p].status = "refunded"
    /\ used[p] + refund[r].credits <= PaidAmount
    /\ recovered[p] = taken[p] + refund[r].credits

LocksInv == \A r \in Refunds, p \in Purchases : LockOK(r, p) /\ LedgerOK(r, p)

NothingLedgered(p) == \A r \in Refunds : refund[r].purchase = p => r \notin ledgered
NoneReopened(p) == \A r \in RefundsOf(p) : ~Reopened(r)

Open == {"none", "pending"}
OpenPayment == {"none", "pending", "processing"}

\* The row of a purchase agrees with its credits,
RowOK(p) ==
  /\ purchase[p].status = "none" => purchase[p] = NoRow
  /\ purchase[p].status \in Open <=> purchase[p].payment \in OpenPayment
  /\ purchase[p].status = "refunded" <=> purchase[p].payment = "refunded"
  /\ purchase[p].status = "reversed" => purchase[p].booked = Price
  /\ purchase[p].status \in Open => purchase[p].booked = 0 /\ recovered[p] = 0
  /\ Contains(granted, p) <=> purchase[p].status \notin Open

\* which are used, left or taken back,
CreditsOK(p) ==
  /\ used[p] <= PaidAmount
  /\ NothingLedgered(p) => recovered[p] = taken[p]
  /\ NoneReopened(p) => recovered[p] <= PaidAmount
  /\ purchase[p].status \in {"refunded", "reversed"} => used[p] + recovered[p] >= PaidAmount

\* and with the order that paid for it
WebOK(p) ==
  /\ purchase[p].order # NoCheckout <=> purchase[p].status \notin Open
  /\ purchase[p].order # NoCheckout =>
       paid[purchase[p].order] = Price /\ purchase[p].booked <= back[purchase[p].order]

\* or with what its store has done.
StoreOK(p) ==
  /\ purchase[p].status \in {"none", "completed", "reversed"}
  /\ purchase[p].status = "reversed" <=> purchase[p].payment = "reversed"
  /\ purchase[p].status = "completed" => purchase[p].booked = 0 /\ recovered[p] = 0
  /\ NothingLedgered(p)

RowsInv ==
  /\ \A p \in Purchases : RowOK(p) /\ CreditsOK(p)
  /\ \A p \in WebPurchases : WebOK(p)
  /\ \A p \in StorePurchases : StoreOK(p)

\* No event says more than the provider has done.
EventOK(e) ==
  /\ e.type \in {"paid", "reconciled"} => e.amount = paid[e.order]
  /\ e.type = "refunded" => e.order \in Checkouts /\ e.amount <= back[e.order]

EventsInv ==
  /\ \A e \in sent : EventOK(e)
  /\ \A c \in Checkouts : back[c] <= paid[c]

\* The call that saves a checkout has one, and a purchase with a call has a row.
CallOK(k) ==
  /\ call[k].pc = "saving" => call[k].checkout \in Checkouts
  /\ \A p \in WebPurchases : call[k].purchase = p => purchase[p].status # "none"

CallsInv == \A k \in Calls : CallOK(k)

PurchaseInv == PurchaseTypeOK /\ CallsInv /\ RefundsInv /\ OneActive /\ LocksInv /\ RowsInv /\ EventsInv

moneyVars == <<granted, used, recovered, refund, purchase, taken, ledgered, refundCall, psp, paid, back>>

LEMMA ConstantTypes ==
  /\ PaidAmount \in Nat \ {0} /\ Price \in Nat \ {0} /\ FeePercent \in 0..100
  /\ Charges \subseteq Nat \ {0} /\ MerchantRefunds \subseteq 1..Price
  /\ StorePurchases \subseteq Purchases /\ NoPurchase \notin Purchases
  /\ NoCheckout \notin Checkouts
  BY AmountsAreNat, PriceType, ChargesType, MerchantRefundsType, StorePurchasesType,
     NoCheckoutType, GrantsAreDistinct

LEMMA InitHolds == Init => PurchaseInv
  <1> SUFFICES ASSUME Init PROVE PurchaseInv
    OBVIOUS
  <1> USE ConstantTypes
  <1>1. CreditTypeOK
    <2>1. NoRefund \in Refund
      BY DEF NoRefund, Refund, Locking
    <2>2. <<>> \in Seq(Grants)
      BY EmptySeq
    <2>3. QED BY <2>1, <2>2 DEF Init, CreditInit, CreditTypeOK, Grants
  <1>2. PurchaseTypeOK /\ CallsInv
    <2>1. NoRow \in Purchase /\ IdleCall \in Call
      BY DEF NoRow, Purchase, IdleCall, Call
    <2>2. \A p \in WebPurchases : opened[p] \in Seq(Checkouts)
      BY DEF Init
    <2>3. 0 \in 0..MaxStops
      BY BoundsType
    <2>4. QED BY <1>1, <2>1, <2>2, <2>3 DEF Init, PurchaseTypeOK, IdleCall, CallsInv, CallOK, WebPurchases
  <1>3. RefundsInv /\ OneActive /\ LocksInv
    BY DEF Init, CreditInit, RefundsInv, RefundOK, OneActive, LocksInv, LockOK, LedgerOK, Active,
           NoRefund, Locking, WebPurchases
  <1>4. \A p \in Purchases : ~Contains(granted, p)
    BY DEF Init, CreditInit, Contains
  <1>5. RowsInv
    BY <1>4 DEF Init, CreditInit, RowsInv, RowOK, CreditsOK, WebOK, StoreOK, NoRow, Open, OpenPayment,
       NothingLedgered, WebPurchases, Grants
  <1>6. EventsInv
    BY DEF Init, EventsInv
  <1>7. QED BY <1>2, <1>3, <1>5, <1>6 DEF PurchaseInv

-----------------------------------------------------------------------------
(***************************************************************************)
(* Steps that leave parts of the invariant alone                           *)
(***************************************************************************)

\* Calls and reservations can change without the invariant on rows and refunds noticing.
LEMMA MoneyStays ==
  ASSUME PurchaseInv, UNCHANGED moneyVars
  PROVE  RefundsInv' /\ OneActive' /\ LocksInv' /\ RowsInv'
  <1>1. RefundsInv' /\ OneActive'
    BY DEF moneyVars, PurchaseInv, RefundsInv, RefundOK, OneActive, Active
  <1>2. LocksInv'
    BY DEF moneyVars, PurchaseInv, LocksInv, LockOK, LedgerOK
  <1>3. RowsInv'
    BY DEF moneyVars, PurchaseInv, RowsInv, RowOK, CreditsOK, WebOK, StoreOK, NothingLedgered, NoneReopened,
           RefundsOf, Reopened
  <1>4. QED BY <1>1, <1>2, <1>3

\* Events stay true while neither they nor the books of the provider change.
LEMMA EventsStay ==
  ASSUME PurchaseInv, UNCHANGED <<sent, paid, back>>
  PROVE  EventsInv'
  BY DEF PurchaseInv, EventsInv, EventOK

LEMMA CreditTypesStay ==
  ASSUME PurchaseInv, UNCHANGED creditVars
  PROVE  CreditTypeOK'
  BY DEF PurchaseInv, PurchaseTypeOK, creditVars, CreditTypeOK

\* A step of a checkout changes what is not about money of one open purchase.
Unbilled(p) ==
  \E row \in Purchase :
    /\ purchase' = [purchase EXCEPT ![p] = row]
    /\ row.status \in Open <=> purchase[p].status \in Open
    /\ row.status \in Open <=> row.payment \in OpenPayment
    /\ row.status # "none"
    /\ row.status = purchase[p].status \/ purchase[p].status = "none"
    /\ row.payment = purchase[p].payment \/ row.payment \in OpenPayment
    /\ row.order = purchase[p].order /\ row.booked = purchase[p].booked

\* No row is deleted.
StillThere == \A q \in WebPurchases : purchase[q].status # "none" => purchase'[q].status # "none"

\* A purchase whose row is open may change its row as long as nobody has paid.
LEMMA UnbilledKeepsMoney ==
  ASSUME PurchaseInv, NEW p \in WebPurchases, Unbilled(p),
         UNCHANGED <<granted, used, recovered, refund, taken, ledgered, refundCall, psp, paid, back>>
  PROVE  /\ RefundsInv' /\ OneActive' /\ LocksInv' /\ RowsInv'
         /\ purchase' \in [Purchases -> Purchase]
         /\ purchase'[p].status # "none" /\ StillThere
  <1>0. PICK row \in Purchase :
          /\ purchase' = [purchase EXCEPT ![p] = row]
          /\ row.status \in Open <=> purchase[p].status \in Open
          /\ row.status \in Open <=> row.payment \in OpenPayment
          /\ row.status # "none"
          /\ row.status = purchase[p].status \/ purchase[p].status = "none"
          /\ row.payment = purchase[p].payment \/ row.payment \in OpenPayment
          /\ row.order = purchase[p].order /\ row.booked = purchase[p].booked
    BY DEF Unbilled
  <1>1. p \in Purchases /\ purchase \in [Purchases -> Purchase]
    BY DEF PurchaseInv, PurchaseTypeOK, WebPurchases
  <1>2. \A q \in Purchases :
          /\ q # p => purchase'[q] = purchase[q]
          /\ purchase'[q].order = purchase[q].order
          /\ purchase'[q].booked = purchase[q].booked
          /\ purchase'[q].status \in Open <=> purchase[q].status \in Open
          /\ purchase'[q].status \notin Open => purchase'[q].status = purchase[q].status
    BY <1>0, <1>1 DEF Open
  <1>3. RefundsInv'
    BY <1>2, ConstantTypes DEF PurchaseInv, RefundsInv, RefundOK, Active, WebPurchases
  <1>4. OneActive'
    BY DEF PurchaseInv, OneActive, Active
  <1>5. LocksInv'
    BY <1>2 DEF PurchaseInv, LocksInv, LockOK, LedgerOK, Open
  <1>6. RowsInv'
    <2>1. ASSUME NEW q \in Purchases PROVE RowOK(q)'
      <3>1. CASE q = p
        <4>1. purchase'[p] = row
          BY <1>0, <1>1
        <4>2. RowOK(p)
          BY <1>1 DEF PurchaseInv, RowsInv
        <4>3. QED BY <1>0, <3>1, <4>1, <4>2 DEF RowOK, Open, OpenPayment
      <3>2. CASE q # p
        BY <1>2, <3>2 DEF PurchaseInv, RowsInv, RowOK
      <3>3. QED BY <3>1, <3>2
    <2>2. ASSUME NEW q \in Purchases PROVE CreditsOK(q)'
      BY <1>2 DEF PurchaseInv, RowsInv, CreditsOK, NothingLedgered, NoneReopened, RefundsOf, Reopened, Open
    <2>3. ASSUME NEW q \in WebPurchases PROVE WebOK(q)'
      <3>1. q \in Purchases
        BY DEF WebPurchases
      <3>2. QED BY <1>2, <3>1 DEF PurchaseInv, RowsInv, WebOK
    <2>4. ASSUME NEW q \in StorePurchases PROVE StoreOK(q)'
      <3>1. q \in Purchases /\ q # p
        BY ConstantTypes DEF WebPurchases
      <3>2. QED BY <1>2, <3>1 DEF PurchaseInv, RowsInv, StoreOK, NothingLedgered
    <2>5. QED BY <2>1, <2>2, <2>3, <2>4 DEF RowsInv
  <1>7. purchase'[p].status # "none" /\ StillThere
    BY <1>0, <1>1 DEF StillThere, WebPurchases
  <1>8. QED BY <1>0, <1>1, <1>3, <1>4, <1>5, <1>6, <1>7


-----------------------------------------------------------------------------
(***************************************************************************)
(* createCheckout                                                          *)
(***************************************************************************)

\* Calls that are not part of the step stay as they are.
LEMMA CallsStay ==
  ASSUME PurchaseInv, UNCHANGED call,
         StillThere
  PROVE  CallsInv'
  BY DEF PurchaseInv, CallsInv, CallOK, StillThere

LEMMA OtherCallsStay ==
  ASSUME PurchaseInv, NEW k \in Calls, NEW after \in Call, call' = [call EXCEPT ![k] = after],
         StillThere,
         after.pc = "saving" => after.checkout \in Checkouts,
         \A p \in WebPurchases : after.purchase = p => purchase'[p].status # "none"
  PROVE  CallsInv' /\ call' \in [Calls -> Call]
  BY DEF PurchaseInv, PurchaseTypeOK, CallsInv, CallOK, StillThere

LEMMA CallEnds ==
  ASSUME PurchaseInv, NEW k \in Calls, call' = [call EXCEPT ![k] = IdleCall],
         StillThere
  PROVE  CallsInv' /\ call' \in [Calls -> Call]
  <1>1. IdleCall \in Call /\ IdleCall.pc = "idle" /\ \A p \in WebPurchases : IdleCall.purchase # p
    BY ConstantTypes DEF IdleCall, Call, WebPurchases
  <1>2. QED BY <1>1, OtherCallsStay

LEMMA CreateCheckoutStep ==
  ASSUME PurchaseInv, NEW k \in Calls, NEW p \in WebPurchases, CreateCheckout(k, p)
  PROVE  PurchaseInv'
  <1>1. p \in Purchases /\ purchase \in [Purchases -> Purchase] /\ RowOK(p)
    BY DEF PurchaseInv, RowsInv, PurchaseTypeOK, WebPurchases
  <1>2. Unbilled(p)
    <2> DEFINE row == IF purchase[p] = NoRow THEN NewRow ELSE purchase[p]
    <2>1. /\ NewRow \in Purchase /\ NewRow.status = "pending" /\ NewRow.payment = "pending"
          /\ NewRow.order = NoRow.order /\ NewRow.booked = NoRow.booked
          /\ NoRow.status = "none"
      BY DEF NewRow, NoRow, Purchase
    <2>2. row \in Purchase
      BY <1>1, <2>1
    <2>3. purchase' = [purchase EXCEPT ![p] = row]
      BY DEF CreateCheckout
    <2>4. CASE purchase[p] = NoRow
      <3>1. row = NewRow
        BY <2>4
      <3> HIDE DEF row
      <3>2. QED BY <2>1, <2>2, <2>3, <2>4, <3>1 DEF Unbilled, Open, OpenPayment
    <2>5. CASE purchase[p] # NoRow
      <3>1. row = purchase[p]
        BY <2>5
      <3> HIDE DEF row
      <3>2. QED BY <1>1, <2>2, <2>3, <2>5, <3>1 DEF Unbilled, RowOK
    <2>6. QED BY <2>4, <2>5
  <1>3. /\ RefundsInv' /\ OneActive' /\ LocksInv' /\ RowsInv' /\ purchase' \in [Purchases -> Purchase]
        /\ purchase'[p].status # "none" /\ StillThere
    BY <1>2, UnbilledKeepsMoney DEF CreateCheckout, creditVars, providerVars
  <1> DEFINE after == [IdleCall EXCEPT !.pc = "found", !.purchase = p]
  <1>4. after \in Call /\ after.pc = "found" /\ after.purchase = p /\ call' = [call EXCEPT ![k] = after]
    BY <1>1 DEF IdleCall, Call, CreateCheckout
  <1> HIDE DEF after
  <1>5. PurchaseTypeOK' /\ CallsInv'
    <2>1. CreditTypeOK'
      BY CreditTypesStay DEF CreateCheckout
    <2>2. call' \in [Calls -> Call] /\ CallsInv'
      BY <1>3, <1>4, OtherCallsStay
    <2>3. QED
      BY <1>3, <2>1, <2>2 DEF CreateCheckout, PurchaseInv, PurchaseTypeOK, providerVars
  <1>6. EventsInv'
    BY EventsStay DEF CreateCheckout, providerVars
  <1>7. QED BY <1>3, <1>5, <1>6 DEF PurchaseInv

\* The UPDATE that claims the row for one call.
LEMMA ClaimCheckoutStep ==
  ASSUME PurchaseInv, NEW k \in Calls, NEW p \in WebPurchases, ClaimCheckout(k, p)
  PROVE  PurchaseInv'
  <1>1. p \in Purchases /\ purchase \in [Purchases -> Purchase] /\ RowOK(p) /\ call \in [Calls -> Call]
    BY DEF PurchaseInv, RowsInv, PurchaseTypeOK, WebPurchases
  <1>2. /\ RefundsInv' /\ OneActive' /\ LocksInv' /\ RowsInv' /\ purchase' \in [Purchases -> Purchase]
        /\ StillThere
    <2>1. CASE Claimable(p)
      <3> DEFINE row == [purchase[p] EXCEPT !.payment = "processing", !.recent = TRUE]
      <3>1. row \in Purchase
        BY <1>1 DEF Purchase
      <3>2. purchase' = [purchase EXCEPT ![p] = row]
        BY <2>1 DEF ClaimCheckout
      <3>3. row.status = purchase[p].status /\ row.payment = "processing"
            /\ row.order = purchase[p].order /\ row.booked = purchase[p].booked
        BY <1>1 DEF Purchase
      <3>4. purchase[p].status \in Open /\ purchase[p].status # "none"
        BY <1>1, <2>1 DEF RowOK, Claimable, OpenPayment, NoRow
      <3> HIDE DEF row
      <3>5. Unbilled(p)
        BY <3>1, <3>2, <3>3, <3>4 DEF Unbilled, OpenPayment
      <3>6. QED
        BY <3>5, UnbilledKeepsMoney DEF ClaimCheckout, creditVars, providerVars
    <2>2. CASE ~Claimable(p)
      <3>1. UNCHANGED moneyVars
        BY <2>2 DEF ClaimCheckout, creditVars, providerVars, moneyVars
      <3>2. QED BY <1>1, <3>1, MoneyStays DEF moneyVars, StillThere
    <2>3. QED BY <2>1, <2>2
  <1> DEFINE after == [call[k] EXCEPT !.pc = "asking", !.claimed = Claimable(p), !.late = FALSE]
  <1>3. after \in Call /\ after.pc = "asking" /\ after.purchase = p
    BY <1>1 DEF Call, Claimable, ClaimCheckout
  <1>4. call' = [call EXCEPT ![k] = after]
    BY <1>1 DEF ClaimCheckout
  <1> HIDE DEF after
  <1>5. purchase[p].status # "none"
    BY DEF ClaimCheckout, PurchaseInv, CallsInv, CallOK
  <1>6. \A q \in WebPurchases : after.purchase = q => purchase'[q].status # "none"
    BY <1>2, <1>3, <1>5 DEF StillThere
  <1>7. PurchaseTypeOK' /\ CallsInv'
    <2>1. CreditTypeOK'
      BY CreditTypesStay DEF ClaimCheckout
    <2>2. call' \in [Calls -> Call] /\ CallsInv'
      BY <1>2, <1>3, <1>4, <1>6, OtherCallsStay
    <2>3. QED
      BY <1>2, <2>1, <2>2 DEF ClaimCheckout, PurchaseInv, PurchaseTypeOK, providerVars
  <1>8. EventsInv'
    BY EventsStay DEF ClaimCheckout, providerVars
  <1>9. QED BY <1>2, <1>7, <1>8 DEF PurchaseInv

LEMMA CheckoutFound ==
  ASSUME PurchaseInv, NEW p \in WebPurchases, opened[p] # <<>>
  PROVE  Last(opened[p]) \in Checkouts
  <1>1. opened[p] \in Seq(Checkouts)
    BY DEF PurchaseInv, PurchaseTypeOK
  <1>2. Len(opened[p]) \in 1..Len(opened[p])
    BY <1>1, EmptySeq, LenProperties
  <1>3. QED BY <1>1, <1>2, ElementOfSeq DEF Last

\* The lookup at the provider before a checkout is opened.
LEMMA FindCheckoutStep ==
  ASSUME PurchaseInv, NEW k \in Calls, NEW p \in WebPurchases, FindCheckout(k, p)
  PROVE  PurchaseInv'
  <1>1. call \in [Calls -> Call]
    BY DEF PurchaseInv, PurchaseTypeOK
  <1>2. UNCHANGED moneyVars /\ UNCHANGED <<sent, paid, back>>
    BY DEF FindCheckout, creditVars, providerVars, moneyVars
  <1> DEFINE after == IF opened[p] = <<>> THEN [call[k] EXCEPT !.pc = "missing"]
                      ELSE [call[k] EXCEPT !.pc = "saving", !.checkout = Last(opened[p])]
  <1>3. call' = [call EXCEPT ![k] = after]
    BY DEF FindCheckout
  <1>4. after \in Call /\ after.purchase = p /\ (after.pc = "saving" => after.checkout \in Checkouts)
    <2>1. CASE opened[p] = <<>>
      BY <1>1, <2>1 DEF Call, FindCheckout
    <2>2. CASE opened[p] # <<>>
      BY <1>1, <2>2, CheckoutFound DEF Call, FindCheckout
    <2>3. QED BY <2>1, <2>2
  <1> HIDE DEF after
  <1>5. call' \in [Calls -> Call] /\ CallsInv'
    <2>1. StillThere
      BY <1>2 DEF StillThere, moneyVars
    <2>2. \A q \in WebPurchases : after.purchase = q => purchase'[q].status # "none"
      BY <1>2, <1>4, <2>1 DEF FindCheckout, PurchaseInv, CallsInv, CallOK, StillThere
    <2>3. QED BY <1>3, <1>4, <2>1, <2>2, OtherCallsStay
  <1>6. PurchaseTypeOK'
    <2>1. CreditTypeOK'
      BY CreditTypesStay DEF FindCheckout
    <2>2. QED
      BY <1>5, <2>1 DEF FindCheckout, PurchaseInv, PurchaseTypeOK, providerVars
  <1>7. QED BY <1>2, <1>5, <1>6, MoneyStays, EventsStay DEF PurchaseInv

LEMMA CheckoutRefusedStep ==
  ASSUME PurchaseInv, NEW k \in Calls, NEW p \in WebPurchases, CheckoutRefused(k, p)
  PROVE  PurchaseInv'
  <1>1. UNCHANGED moneyVars /\ UNCHANGED <<sent, paid, back>>
    BY DEF CheckoutRefused, creditVars, providerVars, moneyVars
  <1>2. call' \in [Calls -> Call] /\ CallsInv'
    BY CallEnds DEF CheckoutRefused, StillThere
  <1>3. CreditTypeOK'
    BY CreditTypesStay DEF CheckoutRefused
  <1>4. PurchaseTypeOK'
    BY <1>2, <1>3 DEF CheckoutRefused, PurchaseInv, PurchaseTypeOK, providerVars
  <1>5. QED BY <1>1, <1>2, <1>4, MoneyStays, EventsStay DEF PurchaseInv

\* The provider opens a checkout for a call that has found none.
LEMMA OpenCheckoutStep ==
  ASSUME PurchaseInv, NEW k \in Calls, NEW p \in WebPurchases, NEW c \in Checkouts, OpenCheckout(k, p, c)
  PROVE  PurchaseInv'
  <1>1. UNCHANGED moneyVars /\ UNCHANGED <<sent, paid, back>>
    BY DEF OpenCheckout, creditVars, moneyVars
  <1>2. call' \in [Calls -> Call] /\ CallsInv'
    <2> DEFINE after == [call[k] EXCEPT !.pc = "saving", !.checkout = c]
    <2>1. call \in [Calls -> Call]
      BY DEF PurchaseInv, PurchaseTypeOK
    <2>2. after \in Call /\ after.checkout \in Checkouts /\ after.purchase = p
      BY <2>1 DEF OpenCheckout, Call
    <2>3. call' = [call EXCEPT ![k] = after]
      BY <2>1 DEF OpenCheckout
    <2> HIDE DEF after
    <2>4. StillThere
      BY DEF OpenCheckout, StillThere
    <2>5. \A q \in WebPurchases : after.purchase = q => purchase'[q].status # "none"
      BY <2>2, <2>4 DEF OpenCheckout, PurchaseInv, CallsInv, CallOK, StillThere
    <2>6. QED BY <2>2, <2>3, <2>4, <2>5, OtherCallsStay
  <1>3. opened' \in [WebPurchases -> Seq(Checkouts)]
    <2>1. Append(opened[p], c) \in Seq(Checkouts)
      BY AppendProperties DEF PurchaseInv, PurchaseTypeOK
    <2>2. QED BY <2>1 DEF OpenCheckout, PurchaseInv, PurchaseTypeOK
  <1>4. CreditTypeOK'
    BY CreditTypesStay DEF OpenCheckout
  <1>5. PurchaseTypeOK'
    BY <1>2, <1>3, <1>4 DEF OpenCheckout, PurchaseInv, PurchaseTypeOK
  <1>6. QED BY <1>1, <1>2, <1>5, MoneyStays, EventsStay DEF PurchaseInv

\* The checkout that is saved.
LEMMA SaveCheckoutStep ==
  ASSUME PurchaseInv, NEW k \in Calls, NEW p \in WebPurchases, SaveCheckout(k, p)
  PROVE  PurchaseInv'
  <1>1. /\ p \in Purchases /\ purchase \in [Purchases -> Purchase] /\ RowOK(p) /\ call[k].checkout \in Checkouts
        /\ purchase[p].status # "none"
    BY DEF CallsInv, CallOK, PurchaseInv, RowsInv, PurchaseTypeOK, WebPurchases, SaveCheckout
  <1> DEFINE row == [purchase[p] EXCEPT !.checkout = call[k].checkout, !.recent = TRUE,
                       !.payment = IF purchase[p].payment = "processing" THEN "pending"
                                   ELSE purchase[p].payment]
  <1>2. row \in Purchase
    BY <1>1 DEF Purchase
  <1>3. purchase' = [purchase EXCEPT ![p] = row]
    BY DEF SaveCheckout
  <1>4. row.status = purchase[p].status /\ row.order = purchase[p].order /\ row.booked = purchase[p].booked
        /\ row.payment = IF purchase[p].payment = "processing" THEN "pending" ELSE purchase[p].payment
    BY <1>1 DEF Purchase
  <1> HIDE DEF row
  <1>5. Unbilled(p)
    BY <1>1, <1>2, <1>3, <1>4 DEF Unbilled, RowOK, OpenPayment
  <1>6. /\ RefundsInv' /\ OneActive' /\ LocksInv' /\ RowsInv' /\ purchase' \in [Purchases -> Purchase]
        /\ StillThere
    BY <1>5, UnbilledKeepsMoney DEF SaveCheckout, creditVars
  <1>7. call' \in [Calls -> Call] /\ CallsInv'
    BY <1>6, CallEnds DEF SaveCheckout
  <1>8. CreditTypeOK'
    BY CreditTypesStay DEF SaveCheckout
  <1>9. PurchaseTypeOK'
    BY <1>1, <1>6, <1>7, <1>8 DEF SaveCheckout, PurchaseInv, PurchaseTypeOK
  <1>10. EventsInv'
    BY EventsStay DEF SaveCheckout
  <1>11. QED BY <1>6, <1>7, <1>9, <1>10 DEF PurchaseInv

LEMMA CheckoutDiesStep ==
  ASSUME PurchaseInv, NEW k \in Calls, CheckoutDies(k)
  PROVE  PurchaseInv'
  <1>1. UNCHANGED moneyVars /\ UNCHANGED <<sent, paid, back>>
    BY DEF CheckoutDies, creditVars, providerVars, moneyVars
  <1>2. call' \in [Calls -> Call] /\ CallsInv'
    BY CallEnds DEF CheckoutDies, StillThere
  <1>3. CreditTypeOK'
    BY CreditTypesStay DEF CheckoutDies
  <1>4. stops' \in 0..MaxStops
    BY BoundsType DEF CheckoutDies, PurchaseInv, PurchaseTypeOK
  <1>5. PurchaseTypeOK'
    BY <1>2, <1>3, <1>4 DEF CheckoutDies, PurchaseInv, PurchaseTypeOK, providerVars
  <1>6. QED BY <1>1, <1>2, <1>5, MoneyStays, EventsStay DEF PurchaseInv

SameButLate(k) ==
  /\ call'[k].pc = call[k].pc /\ call'[k].purchase = call[k].purchase
  /\ call'[k].claimed = call[k].claimed /\ call'[k].checkout = call[k].checkout

\* When half a minute has passed, the calls of the purchase are late.
LEMMA HalfMinuteCalls ==
  ASSUME PurchaseInv, NEW p \in WebPurchases, HalfMinutePasses(p), NEW k \in Calls
  PROVE  /\ call'[k] \in Call /\ SameButLate(k)
         /\ call[k].purchase = p => call'[k].late
         /\ call[k].purchase # p => call'[k] = call[k]
  <1>1. call[k] \in Call
    BY DEF PurchaseInv, PurchaseTypeOK
  <1> DEFINE after == [call[k] EXCEPT !.late = TRUE]
  <1>2. /\ after \in Call /\ after.late /\ after.pc = call[k].pc /\ after.purchase = call[k].purchase
        /\ after.claimed = call[k].claimed /\ after.checkout = call[k].checkout
    BY <1>1 DEF Call
  <1>3. call'[k] = IF call[k].purchase = p THEN after ELSE call[k]
    BY DEF HalfMinutePasses
  <1> HIDE DEF after
  <1>4. QED BY <1>1, <1>2, <1>3 DEF SameButLate

LEMMA HalfMinuteStep ==
  ASSUME PurchaseInv, NEW p \in WebPurchases, HalfMinutePasses(p)
  PROVE  PurchaseInv'
  <1>1. p \in Purchases /\ purchase \in [Purchases -> Purchase] /\ RowOK(p)
    BY DEF PurchaseInv, RowsInv, PurchaseTypeOK, WebPurchases
  <1> DEFINE row == [purchase[p] EXCEPT !.recent = FALSE]
  <1>2. row \in Purchase
    BY <1>1 DEF Purchase
  <1>3. purchase' = [purchase EXCEPT ![p] = row]
    BY DEF HalfMinutePasses
  <1>4. row.status = purchase[p].status /\ row.order = purchase[p].order /\ row.booked = purchase[p].booked
        /\ row.payment = purchase[p].payment
    BY <1>1 DEF Purchase
  <1>5. purchase[p].status # "none"
    <2>1. \A k \in Calls : MayLook(k, p) => purchase[p].status # "none"
      BY DEF MayLook, PurchaseInv, CallsInv, CallOK
    <2>2. QED BY <1>1, <2>1 DEF RowOK, NoRow, HalfMinutePasses
  <1> HIDE DEF row
  <1>6. Unbilled(p)
    BY <1>1, <1>2, <1>3, <1>4, <1>5 DEF Unbilled, RowOK
  <1>7. /\ RefundsInv' /\ OneActive' /\ LocksInv' /\ RowsInv' /\ purchase' \in [Purchases -> Purchase]
        /\ StillThere
    BY <1>6, UnbilledKeepsMoney DEF HalfMinutePasses, creditVars, providerVars
  <1>8. CreditTypeOK'
    BY CreditTypesStay DEF HalfMinutePasses
  <1>9. PurchaseTypeOK' /\ CallsInv'
    <2>1. \A k \in Calls : call'[k] \in Call /\ SameButLate(k)
      BY <1>1, HalfMinuteCalls
    <2>2. call' \in [Calls -> Call]
      BY <2>1 DEF HalfMinutePasses
    <2>3. CallsInv'
      BY <1>7, <2>1 DEF SameButLate, PurchaseInv, CallsInv, CallOK, StillThere
    <2>4. QED BY <1>7, <1>8, <2>2, <2>3 DEF HalfMinutePasses, PurchaseInv, PurchaseTypeOK, providerVars
  <1>10. EventsInv'
    BY EventsStay DEF HalfMinutePasses, providerVars
  <1>11. QED BY <1>7, <1>9, <1>10 DEF PurchaseInv


-----------------------------------------------------------------------------
(***************************************************************************)
(* The invariant, one purchase at a time                                   *)
(***************************************************************************)

OfPurchase(p) ==
  /\ RowOK(p) /\ CreditsOK(p)
  /\ p \in WebPurchases => WebOK(p)
  /\ p \in StorePurchases => StoreOK(p)
  /\ \A r \in RefundsOf(p) : RefundOK(r) /\ LockOK(r, p) /\ LedgerOK(r, p)
  /\ \A r, s \in RefundsOf(p) : Active(r) /\ Active(s) => r = s

\* Refunds that nobody has asked for.
NotAsked == \A r \in Refunds : refund[r].purchase \notin Purchases => RefundOK(r)

EachPurchase == NotAsked /\ \A p \in Purchases : OfPurchase(p)

\* The invariant says something of each purchase and its refunds,
LEMMA ByPurchase == PurchaseInv => EachPurchase
  <1> SUFFICES ASSUME PurchaseInv PROVE EachPurchase
    OBVIOUS
  <1>1. NotAsked
    BY DEF PurchaseInv, NotAsked, RefundsInv
  <1>2. ASSUME NEW p \in Purchases PROVE OfPurchase(p)
    <2>1. RowOK(p) /\ CreditsOK(p) /\ (p \in WebPurchases => WebOK(p)) /\ (p \in StorePurchases => StoreOK(p))
      BY DEF PurchaseInv, RowsInv
    <2>2. \A r \in RefundsOf(p) : RefundOK(r) /\ LockOK(r, p) /\ LedgerOK(r, p)
      BY DEF PurchaseInv, RefundsInv, LocksInv, RefundsOf
    <2>3. \A r, s \in RefundsOf(p) : Active(r) /\ Active(s) => r = s
      BY DEF PurchaseInv, OneActive, RefundsOf
    <2>4. QED BY <2>1, <2>2, <2>3 DEF OfPurchase
  <1>3. QED BY <1>1, <1>2 DEF EachPurchase

\* and what it says of each is all it says.
LEMMA TogetherAgain == EachPurchase => RefundsInv /\ OneActive /\ LocksInv /\ RowsInv
  <1> SUFFICES ASSUME EachPurchase PROVE RefundsInv /\ OneActive /\ LocksInv /\ RowsInv
    OBVIOUS
  <1>1. ASSUME NEW r \in Refunds PROVE RefundOK(r)
    BY DEF EachPurchase, NotAsked, OfPurchase, RefundsOf
  <1>2. ASSUME NEW r \in Refunds, Active(r) PROVE refund[r].purchase \in Purchases
    BY <1>1, <1>2 DEF RefundOK, Active, WebPurchases, Locking
  <1>3. OneActive
    BY <1>2 DEF EachPurchase, OfPurchase, OneActive, RefundsOf
  <1>4. ASSUME NEW r \in Refunds, NEW p \in Purchases PROVE LockOK(r, p) /\ LedgerOK(r, p)
    <2>1. CASE refund[r].purchase = p
      BY <2>1 DEF EachPurchase, OfPurchase, RefundsOf
    <2>2. CASE refund[r].purchase # p
      BY <2>2 DEF LockOK, LedgerOK
    <2>3. QED BY <2>1, <2>2
  <1>5. RowsInv
    BY ConstantTypes DEF EachPurchase, OfPurchase, RowsInv, WebPurchases
  <1>6. QED BY <1>1, <1>3, <1>4, <1>5 DEF RefundsInv, LocksInv

\* What an order was paid stays paid, and money given back stays given.
OrdersGoOn ==
  \A c \in Checkouts : (paid[c] > 0 => paid'[c] = paid[c]) /\ back'[c] >= back[c]

\* A step that changes no purchase and no refund but p and its own.
OnlyOf(p) ==
  /\ \A q \in Purchases \ {p} :
       /\ purchase'[q] = purchase[q] /\ used'[q] = used[q]
       /\ recovered'[q] = recovered[q] /\ taken'[q] = taken[q]
       /\ Contains(granted', q) <=> Contains(granted, q)
  /\ \A r \in Refunds :
       /\ refund'[r].purchase = p \/ refund'[r].purchase = refund[r].purchase
       /\ refund'[r].purchase # p =>
            /\ refund'[r] = refund[r] /\ (r \in ledgered' <=> r \in ledgered)
            /\ refundCall'[r] = refundCall[r] /\ psp'[r] = psp[r]
  /\ \A r \in Refunds : refund[r].purchase \in Purchases => refund'[r].purchase = refund[r].purchase
  /\ OrdersGoOn

\* A step that touches one purchase leaves what is said of the others,
LEMMA OthersStay ==
  ASSUME PurchaseInv, NEW p \in Purchases, OnlyOf(p), EachPurchase,
         NEW q \in Purchases \ {p}, back' \in [Checkouts -> Nat]
  PROVE  OfPurchase(q)'
  <1>1. /\ purchase'[q] = purchase[q] /\ used'[q] = used[q]
        /\ recovered'[q] = recovered[q] /\ taken'[q] = taken[q]
        /\ Contains(granted', q) <=> Contains(granted, q)
    BY DEF OnlyOf
  <1>2. RefundsOf(q)' = RefundsOf(q)
    BY DEF OnlyOf, RefundsOf
  <1>3. \A r \in RefundsOf(q) :
          /\ refund'[r] = refund[r] /\ (r \in ledgered' <=> r \in ledgered)
          /\ refundCall'[r] = refundCall[r] /\ psp'[r] = psp[r]
    BY <1>2 DEF OnlyOf, RefundsOf
  <1>4. purchase[q] \in Purchase /\ back \in [Checkouts -> Nat]
    BY DEF PurchaseInv, PurchaseTypeOK
  <1>5. ASSUME purchase[q].order # NoCheckout
        PROVE  /\ paid[purchase[q].order] > 0 => paid'[purchase[q].order] = paid[purchase[q].order]
               /\ back'[purchase[q].order] >= back[purchase[q].order]
               /\ back'[purchase[q].order] \in Nat /\ back[purchase[q].order] \in Nat
    BY <1>4, <1>5 DEF OnlyOf, OrdersGoOn, Purchase
  <1>6. OfPurchase(q)
    BY DEF EachPurchase
  <1>7. NothingLedgered(q)' <=> NothingLedgered(q)
    BY <1>2, <1>3 DEF NothingLedgered, RefundsOf
  <1>8. RowOK(q)' /\ CreditsOK(q)' /\ (q \in StorePurchases => StoreOK(q)')
    <2>1. NoneReopened(q)' <=> NoneReopened(q)
      BY <1>2, <1>3 DEF NoneReopened, Reopened
    <2>2. QED BY <1>1, <1>6, <1>7, <2>1 DEF OfPurchase, RowOK, CreditsOK, StoreOK
  <1>9. ASSUME q \in WebPurchases PROVE WebOK(q)'
    <2>1. WebOK(q) /\ purchase[q].booked \in Nat
      BY <1>4, <1>6, <1>9 DEF OfPurchase, Purchase
    <2>2. QED BY <1>1, <1>5, <2>1, ConstantTypes DEF WebOK
  <1>10. ASSUME NEW r \in RefundsOf(q) PROVE RefundOK(r)' /\ LockOK(r, q)' /\ LedgerOK(r, q)'
    <2>1. RefundOK(r) /\ LockOK(r, q) /\ LedgerOK(r, q) /\ refund[r].purchase = q
      BY <1>6 DEF OfPurchase, RefundsOf
    <2>2. RefundOK(r)'
      BY <1>1, <1>3, <2>1 DEF RefundOK, Active
    <2>3. LedgerOK(r, q)'
      BY <1>1, <1>3, <2>1 DEF LedgerOK
    <2>4. ASSUME refund[r].status \in Locking PROVE purchase[q].order # NoCheckout
      BY <2>1, <2>4 DEF RefundOK, Locking
    <2>5. purchase[q].booked \in Nat /\ refund[r].money \in Nat
      BY <1>4 DEF Purchase, PurchaseInv, PurchaseTypeOK, CreditTypeOK, Refund, RefundsOf
    <2>6. LockOK(r, q)'
      BY <1>1, <1>3, <1>5, <2>1, <2>4, <2>5 DEF LockOK
    <2>7. QED BY <2>2, <2>3, <2>6
  <1>11. \A r, s \in RefundsOf(q)' : Active(r)' /\ Active(s)' => r = s
    BY <1>2, <1>3, <1>6 DEF OfPurchase, Active
  <1>12. QED BY <1>2, <1>8, <1>9, <1>10, <1>11 DEF OfPurchase

\* so that only that one has to be looked at.
LEMMA OnePurchaseAtATime ==
  ASSUME PurchaseInv, NEW p \in Purchases, OnlyOf(p), OfPurchase(p)', back' \in [Checkouts -> Nat]
  PROVE  RefundsInv' /\ OneActive' /\ LocksInv' /\ RowsInv'
  <1>1. EachPurchase
    BY ByPurchase
  <1>2. ASSUME NEW q \in Purchases PROVE OfPurchase(q)'
    <2>1. CASE q = p
      BY <2>1
    <2>2. CASE q # p
      BY <1>1, <2>2, OthersStay
    <2>3. QED BY <2>1, <2>2
  <1>3. NotAsked'
    <2>1. ASSUME NEW r \in Refunds, refund'[r].purchase \notin Purchases PROVE RefundOK(r)'
      <3>1. /\ refund'[r] = refund[r] /\ (r \in ledgered' <=> r \in ledgered)
            /\ refundCall'[r] = refundCall[r] /\ psp'[r] = psp[r]
        BY <2>1 DEF OnlyOf
      <3>2. RefundOK(r) /\ refund[r].purchase \notin WebPurchases
        BY <1>1, <2>1, <3>1 DEF EachPurchase, NotAsked, WebPurchases
      <3>3. QED BY <3>1, <3>2 DEF RefundOK, Active
    <2>2. QED BY <2>1 DEF NotAsked
  <1>4. EachPurchase'
    BY <1>2, <1>3 DEF EachPurchase
  <1>5. (EachPurchase => RefundsInv /\ OneActive /\ LocksInv /\ RowsInv)'
    BY TogetherAgain, PTL
  <1>6. QED BY <1>4, <1>5


-----------------------------------------------------------------------------
(***************************************************************************)
(* Steps of the credit ledger                                              *)
(***************************************************************************)

otherVars == <<serviceVars, providerVars, stops>>

LEMMA OthersUnchanged ==
  ASSUME PurchaseInv, UNCHANGED otherVars, CreditTypeOK'
  PROVE  PurchaseTypeOK' /\ CallsInv' /\ EventsInv'
  <1>1. PurchaseTypeOK'
    BY DEF otherVars, serviceVars, providerVars, PurchaseInv, PurchaseTypeOK
  <1>2. CallsInv' /\ EventsInv'
    BY CallsStay, EventsStay DEF otherVars, serviceVars, providerVars, StillThere
  <1>3. QED BY <1>1, <1>2

\* A grant adds one element to what was granted.
LEMMA ContainsAfterGrant ==
  ASSUME CreditTypeOK, NEW g \in Grants, Grant(g)
  PROVE  /\ granted' \in Seq(Grants)
         /\ Contains(granted', g)
         /\ \A f : f # g => (Contains(granted', f) <=> Contains(granted, f))
  <1>1. granted \in Seq(Grants)
    BY DEF CreditTypeOK
  <1>2. CASE Contains(granted, g)
    BY <1>1, <1>2 DEF Grant
  <1>3. CASE ~Contains(granted, g)
    <2>1. granted' = Append(granted, g)
      BY <1>3 DEF Grant
    <2>2. Append(granted, g) \in Seq(Grants)
      BY <1>1, AppendProperties
    <2>3. ASSUME NEW f PROVE Contains(Append(granted, g), f) <=> Contains(granted, f) \/ f = g
      <3>1. Len(granted) \in Nat /\ Len(Append(granted, g)) = Len(granted) + 1
        BY <1>1, AppendProperties, LenProperties
      <3>2. \A i \in 1..Len(granted) : Append(granted, g)[i] = granted[i]
        BY <1>1, AppendProperties
      <3>3. Append(granted, g)[Len(granted) + 1] = g
        BY <1>1, AppendProperties
      <3>4. DOMAIN Append(granted, g) = 1..(Len(granted) + 1) /\ DOMAIN granted = 1..Len(granted)
        BY <1>1, <2>2, <3>1, LenProperties
      <3>5. 1..(Len(granted) + 1) = (1..Len(granted)) \cup {Len(granted) + 1}
        BY <3>1
      <3>6. Contains(Append(granted, g), f)
              <=> \E i \in (1..Len(granted)) \cup {Len(granted) + 1} : Append(granted, g)[i] = f
        BY <3>4, <3>5, <3>1 DEF Contains
      <3>7. Contains(granted, f) <=> \E i \in 1..Len(granted) : granted[i] = f
        BY <3>4 DEF Contains
      <3>8. QED BY <3>2, <3>3, <3>6, <3>7
    <2>4. QED BY <2>1, <2>2, <2>3
  <1>4. QED BY <1>2, <1>3

LEMMA FreeGrantsKeepMoney ==
  ASSUME PurchaseInv, \A p \in Purchases : Contains(granted', p) <=> Contains(granted, p),
         UNCHANGED <<used, recovered, refund, purchase, taken, ledgered, refundCall, psp, paid, back>>
  PROVE  RefundsInv' /\ OneActive' /\ LocksInv' /\ RowsInv'
  <1>1. RefundsInv' /\ OneActive'
    BY DEF PurchaseInv, RefundsInv, RefundOK, OneActive, Active
  <1>2. LocksInv'
    BY DEF PurchaseInv, LocksInv, LockOK, LedgerOK
  <1>3. RowsInv'
    BY DEF PurchaseInv, RowsInv, RowOK, CreditsOK, WebOK, StoreOK, NothingLedgered, NoneReopened,
           RefundsOf, Reopened
  <1>4. QED BY <1>1, <1>2, <1>3

LEMMA GrantFreeStep ==
  ASSUME PurchaseInv, NEW g \in Free, GrantFree(g), UNCHANGED otherVars
  PROVE  PurchaseInv'
  <1>1. CreditTypeOK /\ g \in Grants /\ g \notin Purchases
    BY GrantsAreDistinct DEF PurchaseInv, PurchaseTypeOK, Grants
  <1>2. /\ granted' \in Seq(Grants)
        /\ \A p \in Purchases : Contains(granted', p) <=> Contains(granted, p)
    BY <1>1, ContainsAfterGrant DEF GrantFree
  <1>3. CreditTypeOK'
    BY <1>1, <1>2 DEF GrantFree, CreditTypeOK
  <1>4. RefundsInv' /\ OneActive' /\ LocksInv' /\ RowsInv'
    BY <1>2, FreeGrantsKeepMoney DEF GrantFree, otherVars, serviceVars, providerVars
  <1>5. QED BY <1>3, <1>4, OthersUnchanged DEF PurchaseInv

\* A step that only expires a grant or ends a reservation.
LEMMA NoMoneyMovesStep ==
  ASSUME PurchaseInv, UNCHANGED <<granted, used, recovered, refund>>, UNCHANGED otherVars,
         expired' \subseteq Free,
         reservation' \in [Holds -> {"none", "reserved", "captured", "released"}]
  PROVE  PurchaseInv'
  <1>1. CreditTypeOK'
    BY DEF PurchaseInv, PurchaseTypeOK, CreditTypeOK
  <1>2. UNCHANGED moneyVars
    BY DEF otherVars, serviceVars, providerVars, moneyVars
  <1>3. QED BY <1>1, <1>2, MoneyStays, OthersUnchanged DEF PurchaseInv

LEMMA FreeExpiresStep ==
  ASSUME PurchaseInv, NEW g \in Free, FreeExpires(g), UNCHANGED otherVars
  PROVE  PurchaseInv'
  <1>1. expired' \subseteq Free
    BY DEF FreeExpires, PurchaseInv, PurchaseTypeOK, CreditTypeOK
  <1>2. QED BY <1>1, NoMoneyMovesStep DEF FreeExpires, PurchaseInv, PurchaseTypeOK, CreditTypeOK

LEMMA ReserveStep ==
  ASSUME PurchaseInv, NEW h \in Holds, ReserveCredits(h) \/ ReleaseReservation(h), UNCHANGED otherVars
  PROVE  PurchaseInv'
  BY NoMoneyMovesStep DEF ReserveCredits, ReleaseReservation, PurchaseInv, PurchaseTypeOK, CreditTypeOK

\* What is charged was left: a purchase whose credits a refund has locked or
\* taken back gives nothing.
LEMMA NothingLeft ==
  ASSUME PurchaseInv, CreditFacts, NEW p \in Purchases, NEW r \in RefundsOf(p), Active(r)
  PROVE  Available(p) = 0
  <1>1. /\ CreditTypeOK /\ PurchaseCredits(p) /\ LockOK(r, p) /\ LedgerOK(r, p) /\ CreditsOK(p)
        /\ r \in Refunds /\ refund[r].purchase = p
    BY DEF PurchaseInv, PurchaseTypeOK, CreditFacts, LocksInv, RowsInv, RefundsOf
  <1>2. /\ used[p] \in Nat /\ recovered[p] \in Nat /\ PaidAmount \in Nat /\ refund[r].credits \in Nat
        /\ Locked(p) \in Nat
    BY <1>1, AmountsAreNat DEF CreditTypeOK, Grants, Refund, PurchaseCredits
  <1>3. CASE r \in ledgered
    <2>1. used[p] + recovered[p] >= PaidAmount
      BY <1>1, <1>3 DEF LedgerOK, CreditsOK
    <2>2. QED BY <1>1, <1>2, <2>1 DEF PurchaseCredits, NotBelowZero
  <1>4. CASE r \notin ledgered
    <2>1. refund[r].status \in Locking
      BY <1>4 DEF Active
    <2>2. refund[r].credits <= Locked(p)
      BY <1>1, <2>1, LockedAtLeast DEF Having
    <2>3. used[p] + recovered[p] + refund[r].credits = PaidAmount
      BY <1>1, <1>4, <2>1 DEF LockOK
    <2>4. QED BY <1>1, <1>2, <2>2, <2>3 DEF PurchaseCredits, NotBelowZero
  <1>5. QED BY <1>3, <1>4

\* A charge takes what refunds have not locked.
LEMMA ChargeKeepsMoney ==
  ASSUME PurchaseInv, CreditFacts, NEW n \in Int, ChargeGrants(n),
         UNCHANGED <<granted, recovered, refund, purchase, taken, ledgered, refundCall, psp, paid, back>>
  PROVE  /\ RefundsInv' /\ OneActive' /\ LocksInv' /\ RowsInv'
         /\ used' \in [Grants -> Nat]
  <1>1. ASSUME NEW g \in Grants
        PROVE  /\ used'[g] \in Nat
               /\ used'[g] >= used[g] /\ used'[g] <= used[g] + Available(g)
    <2>1. used'[g] = used[g] + Charge(n)[g]
      BY DEF ChargeGrants
    <2>2. Charge(n)[g] \in 0..Available(g)
      BY ChargeBounded
    <2>3. used[g] \in Nat /\ Available(g) \in Nat
      BY LeftIsNat DEF PurchaseInv, PurchaseTypeOK, CreditTypeOK
    <2>4. QED BY <2>1, <2>2, <2>3
  <1>2. used' \in [Grants -> Nat]
    BY <1>1 DEF ChargeGrants
  <1>3. ASSUME NEW p \in Purchases
        PROVE  /\ used'[p] \in Nat /\ used[p] \in Nat /\ recovered[p] \in Nat /\ PaidAmount \in Nat
               /\ used'[p] >= used[p] /\ used'[p] <= used[p] + Available(p)
               /\ Available(p) <= NotBelowZero(PaidAmount - used[p] - recovered[p]) /\ Available(p) \in Nat
    <2>1. PurchaseCredits(p)
      BY DEF CreditFacts
    <2>2. used[p] \in Nat /\ recovered[p] \in Nat /\ PaidAmount \in Nat /\ p \in Grants
      BY AmountsAreNat DEF PurchaseInv, PurchaseTypeOK, CreditTypeOK, Grants
    <2>3. Available(p) <= NotBelowZero(PaidAmount - used[p] - recovered[p]) /\ Available(p) \in Nat
      BY <2>1, <2>2 DEF PurchaseCredits, NotBelowZero
    <2>4. QED BY <1>1, <2>2, <2>3
  <1>4. RefundsInv' /\ OneActive'
    BY DEF PurchaseInv, RefundsInv, RefundOK, OneActive, Active
  <1>5. LocksInv'
    <2>1. ASSUME NEW r \in Refunds, NEW p \in Purchases, refund[r].purchase = p, Active(r)
          PROVE  used'[p] = used[p]
      <3>1. Available(p) = 0
        BY <2>1, NothingLeft DEF RefundsOf
      <3>2. QED BY <1>3, <3>1
    <2>2. \A r \in Refunds, p \in Purchases : LockOK(r, p) /\ LedgerOK(r, p)
      BY DEF PurchaseInv, LocksInv
    <2>3. ASSUME NEW r \in Refunds, NEW p \in Purchases PROVE LockOK(r, p)' /\ LedgerOK(r, p)'
      BY <2>1, <2>2 DEF LockOK, LedgerOK, Active
    <2>4. QED BY <2>3 DEF LocksInv
  <1>6. RowsInv'
    <2>1. ASSUME NEW p \in Purchases PROVE CreditsOK(p)'
      <3>1. CreditsOK(p)
        BY DEF PurchaseInv, RowsInv
      <3>2. (NothingLedgered(p)' <=> NothingLedgered(p)) /\ (NoneReopened(p)' <=> NoneReopened(p))
        BY DEF NothingLedgered, NoneReopened, RefundsOf, Reopened
      <3>3. used'[p] <= PaidAmount
        BY <1>3, <3>1 DEF CreditsOK, NotBelowZero
      <3>4. ASSUME purchase[p].status \in {"refunded", "reversed"} PROVE used'[p] + recovered[p] >= PaidAmount
        BY <1>3, <3>1, <3>4 DEF CreditsOK
      <3>5. QED BY <3>1, <3>2, <3>3, <3>4 DEF CreditsOK
    <2>2. \A p \in Purchases : RowOK(p)'
      BY DEF PurchaseInv, RowsInv, RowOK
    <2>3. (\A p \in WebPurchases : WebOK(p)') /\ \A p \in StorePurchases : StoreOK(p)'
      BY DEF PurchaseInv, RowsInv, WebOK, StoreOK, NothingLedgered
    <2>4. QED BY <2>1, <2>2, <2>3 DEF RowsInv
  <1>7. QED BY <1>2, <1>4, <1>5, <1>6

LEMMA SpendStep ==
  ASSUME PurchaseInv, NEW n \in SpendAmounts, SpendCredits(n), UNCHANGED otherVars
  PROVE  PurchaseInv'
  <1>1. CreditTypeOK /\ CreditFacts /\ n \in Int
    BY TypesGiveFacts, AmountsArePositive DEF PurchaseInv, PurchaseTypeOK
  <1>2. /\ RefundsInv' /\ OneActive' /\ LocksInv' /\ RowsInv'
        /\ used' \in [Grants -> Nat]
    BY <1>1, ChargeKeepsMoney DEF SpendCredits, otherVars, serviceVars, providerVars
  <1>3. CreditTypeOK'
    BY <1>1, <1>2 DEF SpendCredits, CreditTypeOK
  <1>4. QED BY <1>2, <1>3, OthersUnchanged DEF PurchaseInv

LEMMA CaptureStep ==
  ASSUME PurchaseInv, NEW h \in Holds, CaptureReservation(h), UNCHANGED otherVars
  PROVE  PurchaseInv'
  <1>1. CreditTypeOK /\ CreditFacts /\ ReplyPrice \in Int
    BY TypesGiveFacts, AmountsAreNat DEF PurchaseInv, PurchaseTypeOK
  <1>2. /\ RefundsInv' /\ OneActive' /\ LocksInv' /\ RowsInv'
        /\ used' \in [Grants -> Nat]
    BY <1>1, ChargeKeepsMoney DEF CaptureReservation, otherVars, serviceVars, providerVars
  <1>3. CreditTypeOK'
    BY <1>1, <1>2 DEF CaptureReservation, CreditTypeOK
  <1>4. QED BY <1>2, <1>3, OthersUnchanged DEF PurchaseInv


-----------------------------------------------------------------------------
(***************************************************************************)
(* Events, orders and stores                                               *)
(***************************************************************************)

LEMMA EventShapes ==
  ASSUME NEW e \in Event
  PROVE  /\ e.type \in {"paid", "reconciled", "refunded", "reversed"}
         /\ e.type \in {"paid", "reconciled"} => e.order \in Checkouts /\ e.amount \in Charges
         /\ e.type = "refunded" => e.order \in Checkouts /\ e.amount \in Nat
         /\ e.type = "reversed" => e.order \in StorePurchases /\ e.amount = Price
  BY DEF Event

LEMMA OrderEventFields ==
  ASSUME NEW type, NEW c, NEW n
  PROVE  /\ OrderEvent(type, c, n).type = type
         /\ OrderEvent(type, c, n).order = c
         /\ OrderEvent(type, c, n).amount = n
  BY DEF OrderEvent

LEMMA OrderEvents ==
  ASSUME NEW c \in Checkouts
  PROVE  /\ \A n \in Charges : OrderEvent("paid", c, n) \in Event
         /\ \A n \in Charges : OrderEvent("reconciled", c, n) \in Event
         /\ \A n \in Nat : OrderEvent("refunded", c, n) \in Event
  BY DEF OrderEvent, Event

\* What an event says stays true.
LEMMA EventsGrow ==
  ASSUME PurchaseInv, OrdersGoOn, back' \in [Checkouts -> Nat],
         \A e \in sent' : e \in sent \/ EventOK(e)',
         \A c \in Checkouts : back'[c] <= paid'[c]
  PROVE  EventsInv'
  <1>1. back \in [Checkouts -> Nat] /\ sent \subseteq Event /\ \A e \in sent : EventOK(e)
    BY DEF PurchaseInv, PurchaseTypeOK, EventsInv
  <1>2. ASSUME NEW e \in sent PROVE EventOK(e)'
    <2>1. EventOK(e) /\ e \in Event
      BY <1>1
    <2>2. ASSUME e.type \in {"paid", "reconciled"} PROVE e.amount = paid'[e.order]
      <3>1. e.order \in Checkouts /\ e.amount \in Charges /\ e.amount = paid[e.order]
        BY <2>1, <2>2, EventShapes DEF EventOK
      <3>2. e.amount > 0
        BY <3>1, ConstantTypes
      <3>3. QED BY <3>1, <3>2 DEF OrdersGoOn
    <2>3. ASSUME e.type = "refunded" PROVE e.order \in Checkouts /\ e.amount <= back'[e.order]
      <3>1. e.order \in Checkouts /\ e.amount \in Nat /\ e.amount <= back[e.order]
        BY <2>1, <2>3, EventShapes DEF EventOK
      <3>2. back'[e.order] \in Nat /\ back[e.order] \in Nat /\ back'[e.order] >= back[e.order]
        BY <1>1, <3>1 DEF OrdersGoOn
      <3>3. QED BY <3>1, <3>2
    <2>4. QED BY <2>2, <2>3 DEF EventOK
  <1>3. QED BY <1>2 DEF EventsInv

LEMMA OnlyEventsStep ==
  ASSUME PurchaseInv, UNCHANGED moneyVars, UNCHANGED <<creditVars, call, opened, shown, stops>>,
         sent' \subseteq Event, processed' \subseteq sent', failed' \subseteq sent' \ processed',
         verified' \subseteq StorePurchases, revoked' \subseteq StorePurchases,
         \A e \in sent' : e \in sent \/ EventOK(e)'
  PROVE  PurchaseInv'
  <1>1. RefundsInv' /\ OneActive' /\ LocksInv' /\ RowsInv' /\ CreditTypeOK'
    BY MoneyStays, CreditTypesStay
  <1>2. PurchaseTypeOK'
    BY <1>1 DEF PurchaseInv, PurchaseTypeOK, moneyVars
  <1>3. CallsInv'
    BY CallsStay DEF StillThere, moneyVars
  <1>4. EventsInv'
    <2>1. OrdersGoOn /\ back' \in [Checkouts -> Nat]
      BY DEF moneyVars, OrdersGoOn, PurchaseInv, PurchaseTypeOK
    <2>2. \A c \in Checkouts : back'[c] <= paid'[c]
      BY DEF moneyVars, PurchaseInv, EventsInv
    <2>3. QED BY <2>1, <2>2, EventsGrow
  <1>5. QED BY <1>1, <1>2, <1>3, <1>4 DEF PurchaseInv

LEMMA EventSets ==
  ASSUME PurchaseInv
  PROVE  /\ sent \subseteq Event /\ processed \subseteq sent /\ failed \subseteq sent \ processed
         /\ verified \subseteq StorePurchases /\ revoked \subseteq StorePurchases
         /\ paid \in [Checkouts -> Charges \cup {0}] /\ back \in [Checkouts -> Nat]
  BY DEF PurchaseInv, PurchaseTypeOK

LEMMA ReconcileStep ==
  ASSUME PurchaseInv, NEW p \in WebPurchases, NEW c \in Checkouts, Reconcile(p, c)
  PROVE  PurchaseInv'
  <1>1. paid[c] \in Charges
    BY EventSets, ConstantTypes DEF Reconcile
  <1>2. OrderEvent("reconciled", c, paid[c]) \in Event
    BY <1>1, OrderEvents
  <1>3. PICK e \in Event : e = OrderEvent("reconciled", c, paid[c]) /\ sent' = sent \cup {e}
    BY <1>2 DEF Reconcile
  <1>4. UNCHANGED moneyVars /\ UNCHANGED <<creditVars, call, opened, shown, stops>>
        /\ UNCHANGED <<processed, failed, verified, revoked>>
    BY DEF Reconcile, moneyVars, creditVars, serviceVars
  <1>5. EventOK(e)'
    BY <1>3, <1>4, OrderEventFields DEF EventOK, moneyVars
  <1>6. sent' \subseteq Event /\ processed' \subseteq sent' /\ failed' \subseteq sent' \ processed'
    BY <1>3, <1>4, EventSets
  <1>7. \A f \in sent' : f \in sent \/ EventOK(f)'
    BY <1>3, <1>5
  <1>8. QED BY <1>4, <1>6, <1>7, EventSets, OnlyEventsStep

LEMMA EventHandled ==
  ASSUME PurchaseInv, NEW e \in sent, Processed(e) \/ (e \notin processed /\ Failed(e)), UNCHANGED sent
  PROVE  processed' \subseteq sent' /\ failed' \subseteq sent' \ processed' /\ sent' \subseteq Event
  BY EventSets DEF Processed, Failed

LEMMA NoNewsStep ==
  ASSUME PurchaseInv, NEW e \in sent, NEW p \in WebPurchases,
         PaymentIsNoNews(e, p) \/ RefundMismatch(e, p)
  PROVE  PurchaseInv'
  <1>1. Processed(e) \/ (e \notin processed /\ Failed(e))
    BY DEF PaymentIsNoNews, RefundMismatch
  <1>2. UNCHANGED moneyVars /\ UNCHANGED <<creditVars, call, opened, shown, stops>>
        /\ UNCHANGED <<sent, verified, revoked>>
    BY DEF PaymentIsNoNews, RefundMismatch, moneyVars, creditVars, providerVars
  <1>3. processed' \subseteq sent' /\ failed' \subseteq sent' \ processed' /\ sent' \subseteq Event
    BY <1>1, <1>2, EventHandled
  <1>4. QED BY <1>2, <1>3, EventSets, OnlyEventsStep

LEMMA VerifyProofStep ==
  ASSUME PurchaseInv, NEW p \in StorePurchases, VerifyProof(p)
  PROVE  PurchaseInv'
  <1>1. UNCHANGED moneyVars /\ UNCHANGED <<creditVars, call, opened, shown, stops>>
        /\ UNCHANGED <<sent, processed, failed, revoked>>
    BY DEF VerifyProof, moneyVars, creditVars, serviceVars
  <1>2. verified' \subseteq StorePurchases
    BY EventSets DEF VerifyProof
  <1>3. QED BY <1>1, <1>2, EventSets, OnlyEventsStep

LEMMA StoreRevokesStep ==
  ASSUME PurchaseInv, NEW p \in StorePurchases, StoreRevokes(p)
  PROVE  PurchaseInv'
  <1>0. OrderEvent("reversed", p, Price) \in Event
    BY DEF OrderEvent, Event
  <1>1. PICK e \in Event :
          e = OrderEvent("reversed", p, Price) /\ sent' = sent \cup {e} /\ revoked' = revoked \cup {p}
    BY <1>0 DEF StoreRevokes
  <1>2. e.type = "reversed"
    BY <1>1, OrderEventFields
  <1>3. UNCHANGED moneyVars /\ UNCHANGED <<creditVars, call, opened, shown, stops>>
        /\ UNCHANGED <<processed, failed, verified>>
    BY DEF StoreRevokes, moneyVars, creditVars, serviceVars
  <1>4. EventOK(e)'
    BY <1>2 DEF EventOK
  <1>5. sent' \subseteq Event /\ processed' \subseteq sent' /\ failed' \subseteq sent' \ processed'
        /\ revoked' \subseteq StorePurchases
    BY <1>1, <1>2, <1>3, EventSets
  <1>6. QED BY <1>1, <1>3, <1>4, <1>5, EventSets, OnlyEventsStep

\* Orders that are paid, or refunded by the merchant.
LEMMA OrdersMove ==
  ASSUME PurchaseInv, OrdersGoOn, back' \in [Checkouts -> Nat],
         UNCHANGED <<creditVars, serviceVars, psp>>
  PROVE  RefundsInv' /\ OneActive' /\ LocksInv' /\ RowsInv' /\ CreditTypeOK' /\ CallsInv'
  <1>1. UNCHANGED <<granted, used, recovered, refund, purchase, taken, ledgered, refundCall, call, psp>>
    BY DEF creditVars, serviceVars
  <1>2. CreditTypeOK' /\ CallsInv'
    BY <1>1, CreditTypesStay, CallsStay DEF StillThere
  <1>3. RefundsInv' /\ OneActive'
    BY <1>1 DEF PurchaseInv, RefundsInv, RefundOK, OneActive, Active
  <1>4. \A p \in Purchases :
          /\ purchase[p].order # NoCheckout => purchase[p].order \in Checkouts
          /\ purchase[p].booked \in Nat
    BY DEF PurchaseInv, PurchaseTypeOK, Purchase
  <1>5. \A c \in Checkouts : back[c] \in Nat /\ back'[c] \in Nat /\ back'[c] >= back[c]
    BY EventSets DEF OrdersGoOn
  <1>6. LocksInv'
    <2>1. ASSUME NEW r \in Refunds, NEW p \in Purchases PROVE LockOK(r, p)' /\ LedgerOK(r, p)'
      <3>1. LockOK(r, p) /\ LedgerOK(r, p) /\ RefundOK(r) /\ refund[r].money \in Nat
        BY DEF PurchaseInv, LocksInv, RefundsInv, PurchaseTypeOK, CreditTypeOK, Refund
      <3>2. LedgerOK(r, p)'
        BY <1>1, <3>1 DEF LedgerOK
      <3>3. refund[r].purchase = p /\ refund[r].status \in Locking => purchase[p].order \in Checkouts
        BY <1>4, <3>1 DEF RefundOK, Locking
      <3>4. LockOK(r, p)'
        BY <1>1, <1>4, <1>5, <3>1, <3>3 DEF LockOK
      <3>5. QED BY <3>2, <3>4
    <2>2. QED BY <2>1 DEF LocksInv
  <1>7. RowsInv'
    <2>1. \A p \in Purchases : RowOK(p)' /\ CreditsOK(p)'
      BY <1>1 DEF PurchaseInv, RowsInv, RowOK, CreditsOK, NothingLedgered, NoneReopened, RefundsOf, Reopened
    <2>2. \A p \in StorePurchases : StoreOK(p)'
      BY <1>1 DEF PurchaseInv, RowsInv, StoreOK, NothingLedgered
    <2>3. ASSUME NEW p \in WebPurchases PROVE WebOK(p)'
      <3>1. WebOK(p) /\ p \in Purchases
        BY DEF PurchaseInv, RowsInv, WebPurchases
      <3>2. QED BY <1>1, <1>4, <1>5, <3>1, ConstantTypes DEF WebOK, OrdersGoOn
    <2>4. QED BY <2>1, <2>2, <2>3 DEF RowsInv
  <1>8. QED BY <1>2, <1>3, <1>6, <1>7

LEMMA PayCheckoutStep ==
  ASSUME PurchaseInv, NEW c \in Checkouts, NEW n \in Charges, PayCheckout(c, n)
  PROVE  PurchaseInv'
  <1>1. paid' = [paid EXCEPT ![c] = n] /\ paid[c] = 0 /\ UNCHANGED back
    BY DEF PayCheckout
  <1>2. paid' \in [Checkouts -> Charges \cup {0}] /\ n \in Nat /\ n > 0
    BY <1>1, EventSets, ConstantTypes
  <1>3. OrdersGoOn /\ back' \in [Checkouts -> Nat]
    BY <1>1, EventSets DEF OrdersGoOn
  <1>4. RefundsInv' /\ OneActive' /\ LocksInv' /\ RowsInv' /\ CreditTypeOK' /\ CallsInv'
    BY <1>3, OrdersMove DEF PayCheckout
  <1>5. PICK e \in Event : e = OrderEvent("paid", c, n) /\ sent' = sent \cup {e}
    BY OrderEvents DEF PayCheckout
  <1>6. EventOK(e)'
    BY <1>1, <1>5, EventSets, OrderEventFields DEF EventOK
  <1>7. EventsInv'
    <2>1. ASSUME NEW d \in Checkouts PROVE back'[d] <= paid'[d]
      <3>1. back[d] <= paid[d] /\ back[d] \in Nat
        BY EventSets DEF PurchaseInv, EventsInv
      <3>2. QED BY <1>1, <1>2, <3>1, EventSets
    <2>2. QED BY <1>3, <1>5, <1>6, <2>1, EventsGrow
  <1>8. PurchaseTypeOK'
    <2>1. sent' \subseteq Event /\ processed' \subseteq sent' /\ failed' \subseteq sent' \ processed'
      BY <1>5, EventSets DEF PayCheckout, serviceVars
    <2>2. QED BY <1>2, <1>3, <1>4, <2>1 DEF PayCheckout, serviceVars, PurchaseInv, PurchaseTypeOK
  <1>9. QED BY <1>4, <1>7, <1>8 DEF PurchaseInv

\* Money that the provider gives back.
LEMMA GivesBackFacts ==
  ASSUME PurchaseInv, NEW c \in Checkouts, NEW n \in Nat, GivesBack(c, n), UNCHANGED paid
  PROVE  /\ OrdersGoOn /\ back' \in [Checkouts -> Nat] /\ back'[c] = back[c] + n
         /\ sent' \subseteq Event /\ sent \subseteq sent' /\ EventsInv'
  <1>1. back' = [back EXCEPT ![c] = back[c] + n] /\ back[c] + n <= paid[c] /\ back[c] \in Nat
    BY EventSets DEF GivesBack
  <1>2. back' \in [Checkouts -> Nat] /\ back'[c] = back[c] + n
    BY <1>1, EventSets
  <1>3. OrdersGoOn
    BY <1>1, EventSets DEF OrdersGoOn
  <1>4. PICK e \in Event : e = OrderEvent("refunded", c, back[c] + n) /\ sent' = sent \cup {e}
    BY <1>1, OrderEvents DEF GivesBack
  <1>5. EventOK(e)'
    <2>1. e.type = "refunded" /\ e.order = c /\ e.amount = back'[c] /\ back'[c] \in Nat
      BY <1>2, <1>4, OrderEventFields
    <2>2. QED BY <2>1 DEF EventOK
  <1>6. ASSUME NEW d \in Checkouts PROVE back'[d] <= paid'[d]
    <2>1. back[d] <= paid[d] /\ back'[d] = (IF d = c THEN back[c] + n ELSE back[d]) /\ paid' = paid
      BY <1>1, EventSets DEF PurchaseInv, EventsInv
    <2>2. QED BY <1>1, <2>1
  <1>7. EventsInv'
    BY <1>2, <1>3, <1>4, <1>5, <1>6, EventsGrow
  <1>8. QED BY <1>2, <1>3, <1>4, <1>7, EventSets

LEMMA MerchantRefundStep ==
  ASSUME PurchaseInv, NEW c \in Checkouts, NEW n \in MerchantRefunds, MerchantRefund(c, n)
  PROVE  PurchaseInv'
  <1>1. n \in Nat /\ GivesBack(c, n) /\ UNCHANGED paid
    BY ConstantTypes DEF MerchantRefund
  <1>2. /\ OrdersGoOn /\ back' \in [Checkouts -> Nat]
        /\ sent' \subseteq Event /\ sent \subseteq sent' /\ EventsInv'
    BY <1>1, GivesBackFacts
  <1>3. RefundsInv' /\ OneActive' /\ LocksInv' /\ RowsInv' /\ CreditTypeOK' /\ CallsInv'
    BY <1>2, OrdersMove DEF MerchantRefund
  <1>4. PurchaseTypeOK'
    BY <1>2, <1>3 DEF MerchantRefund, serviceVars, PurchaseInv, PurchaseTypeOK
  <1>5. QED BY <1>2, <1>3, <1>4 DEF PurchaseInv


-----------------------------------------------------------------------------
(***************************************************************************)
(* A refund between its request and its completion                         *)
(***************************************************************************)

\* A refund that was asked for belongs to a paid web purchase.
LEMMA AskedFor ==
  ASSUME PurchaseInv, NEW r \in Refunds, refund[r].status # "none" \/ refundCall[r] # "idle" \/ psp[r] # "none"
  PROVE  /\ refund[r].status # "none"
         /\ refund[r].purchase \in WebPurchases /\ refund[r].purchase \in Purchases
         /\ OrderOf(r) \in Checkouts
         /\ refund[r].money \in Nat /\ refund[r].credits \in Nat
  <1>1. RefundOK(r)
    BY DEF PurchaseInv, RefundsInv
  <1>2. refund[r].status # "none"
    BY <1>1 DEF RefundOK
  <1>3. refund[r].purchase \in WebPurchases /\ refund[r].purchase \in Purchases
    BY <1>1, <1>2 DEF RefundOK, WebPurchases
  <1>4. OrderOf(r) \in Checkouts
    BY <1>1, <1>2, <1>3 DEF RefundOK, OrderOf, PurchaseInv, PurchaseTypeOK, Purchase
  <1>5. refund[r].money \in Nat /\ refund[r].credits \in Nat
    BY DEF PurchaseInv, PurchaseTypeOK, CreditTypeOK, Refund
  <1>6. QED BY <1>2, <1>3, <1>4, <1>5

\* A step of one refund that moves no credits.
RefundMoves(r) ==
  /\ UNCHANGED <<granted, used, recovered, purchase, taken, ledgered, paid>>
  /\ \A s \in Refunds \ {r} :
       refund'[s] = refund[s] /\ refundCall'[s] = refundCall[s] /\ psp'[s] = psp[s]
  /\ refund'[r].purchase = refund[r].purchase
  /\ refund'[r].status = refund[r].status \/ refund'[r].status # "completed"
  /\ Active(r)' => Active(r)

\* A refund that changes its status and nothing else keeps the invariant.
LEMMA RefundMovesOnly ==
  ASSUME PurchaseInv, NEW r \in Refunds, refund[r].status # "none", RefundMoves(r),
         RefundOK(r)', \A p \in Purchases : LockOK(r, p)' /\ LedgerOK(r, p)',
         back' \in [Checkouts -> Nat], OrdersGoOn
  PROVE  RefundsInv' /\ OneActive' /\ LocksInv' /\ RowsInv'
  <1>1. PICK p \in Purchases : p = refund[r].purchase /\ p \in WebPurchases
    BY AskedFor
  <1>2. OnlyOf(p)
    BY <1>1, ConstantTypes DEF OnlyOf, RefundMoves
  <1>3. OfPurchase(p)
    BY ByPurchase DEF EachPurchase
  <1>4. RefundsOf(p)' = RefundsOf(p) /\ r \in RefundsOf(p)
    BY <1>1 DEF RefundsOf, RefundMoves
  <1>5. OfPurchase(p)'
    <2>1. RowOK(p)'
      BY <1>3 DEF OfPurchase, RowOK, RefundMoves
    <2>2. CreditsOK(p)'
      <3>1. NothingLedgered(p)' <=> NothingLedgered(p)
        BY <1>1 DEF NothingLedgered, RefundMoves
      <3>2. NoneReopened(p)' => NoneReopened(p)
        <4>1. \A s \in RefundsOf(p) : Reopened(s) => Reopened(s)'
          BY DEF Reopened, RefundMoves, RefundsOf
        <4>2. QED BY <1>4, <4>1 DEF NoneReopened
      <3>3. QED BY <1>3, <3>1, <3>2 DEF OfPurchase, CreditsOK, RefundMoves
    <2>3. purchase[p].order # NoCheckout =>
            /\ purchase[p].order \in Checkouts /\ purchase[p].booked \in Nat
            /\ back[purchase[p].order] \in Nat /\ back'[purchase[p].order] \in Nat
            /\ back'[purchase[p].order] >= back[purchase[p].order]
      BY EventSets DEF PurchaseInv, PurchaseTypeOK, Purchase, OrdersGoOn
    <2>4. WebOK(p)'
      BY <1>1, <1>3, <2>3 DEF OfPurchase, WebOK, RefundMoves
    <2>5. ASSUME NEW s \in RefundsOf(p) PROVE RefundOK(s)' /\ LockOK(s, p)' /\ LedgerOK(s, p)'
      <3>1. CASE s = r
        BY <3>1
      <3>2. CASE s # r
        <4>1. RefundOK(s) /\ LockOK(s, p) /\ LedgerOK(s, p) /\ s \in Refunds /\ refund[s].purchase = p
          BY <1>3 DEF OfPurchase, RefundsOf
        <4>2. refund'[s] = refund[s] /\ refundCall'[s] = refundCall[s] /\ psp'[s] = psp[s]
          BY <3>2, <4>1 DEF RefundMoves
        <4>3. RefundOK(s)' /\ LedgerOK(s, p)'
          BY <4>1, <4>2 DEF RefundOK, LedgerOK, Active, RefundMoves
        <4>4. refund[s].status \in Locking => purchase[p].order # NoCheckout
          BY <4>1 DEF RefundOK, Locking
        <4>5. refund[s].money \in Nat
          BY <4>1 DEF PurchaseInv, PurchaseTypeOK, CreditTypeOK, Refund
        <4>6. LockOK(s, p)'
          BY <2>3, <4>1, <4>2, <4>4, <4>5 DEF LockOK, RefundMoves
        <4>7. QED BY <4>3, <4>6
      <3>3. QED BY <3>1, <3>2
    <2>6. \A s, t \in RefundsOf(p) : Active(s)' /\ Active(t)' => s = t
      <3>1. \A s \in RefundsOf(p) : Active(s)' => Active(s)
        BY DEF RefundsOf, RefundMoves, Active
      <3>2. QED BY <1>3, <3>1 DEF OfPurchase
    <2>7. p \notin StorePurchases
      BY <1>1 DEF WebPurchases
    <2>8. QED BY <1>4, <2>1, <2>2, <2>4, <2>5, <2>6, <2>7 DEF OfPurchase
  <1>6. QED BY <1>2, <1>5, OnePurchaseAtATime

LEMMA RefundFacts ==
  ASSUME PurchaseInv, NEW r \in Refunds
  PROVE  /\ RefundOK(r)
         /\ \A p \in Purchases : LockOK(r, p) /\ LedgerOK(r, p)
         /\ refund \in [Refunds -> Refund]
         /\ refundCall \in [Refunds -> {"idle", "asking", "pending", "succeeded", "failed", "finishing"}]
         /\ psp \in [Refunds -> {"none", "pending", "succeeded", "failed"}]
         /\ CreditTypeOK
  BY DEF PurchaseInv, RefundsInv, LocksInv, PurchaseTypeOK, CreditTypeOK

\* Only the call moves: it learns, ends, dies, or starts again.
LEMMA OnlyCallMoves ==
  ASSUME PurchaseInv, NEW r \in Refunds, refund[r].status # "none",
         NEW stage \in {"idle", "pending", "succeeded", "failed", "finishing"},
         refundCall' = [refundCall EXCEPT ![r] = stage],
         UNCHANGED <<creditVars, purchase, processed, failed, taken, ledgered, call, providerVars>>,
         stops' \in 0..MaxStops,
         stage # "idle" => Active(r),
         stage \in {"succeeded", "finishing"} => psp[r] = "succeeded"
  PROVE  PurchaseInv'
  <1>1. RefundMoves(r)
    BY DEF creditVars, providerVars, RefundMoves, Active
  <1>3. RefundOK(r)'
    BY RefundFacts DEF RefundOK, Active, creditVars, providerVars
  <1>4. \A p \in Purchases : LockOK(r, p)' /\ LedgerOK(r, p)'
    BY RefundFacts DEF LockOK, LedgerOK, creditVars, providerVars
  <1>5. OrdersGoOn /\ back' \in [Checkouts -> Nat]
    BY EventSets DEF providerVars, OrdersGoOn
  <1>6. RefundsInv' /\ OneActive' /\ LocksInv' /\ RowsInv'
    BY <1>1, <1>3, <1>4, <1>5, RefundMovesOnly
  <1>7. CreditTypeOK' /\ CallsInv' /\ EventsInv'
    BY CreditTypesStay, CallsStay, EventsStay DEF StillThere, providerVars
  <1>8. PurchaseTypeOK'
    BY <1>7, RefundFacts DEF PurchaseInv, PurchaseTypeOK, providerVars
  <1>9. QED BY <1>6, <1>7, <1>8 DEF PurchaseInv

\* What requestRefund does with the answer of the provider, and the other ways it ends.
LEMMA RefundCallStep ==
  ASSUME PurchaseInv, NEW r \in Refunds,
         RefundAnswers(r) \/ CompletedAlready(r) \/ RepeatRefund(r) \/ RefundDies(r)
  PROVE  PurchaseInv'
  <1>0. RefundOK(r) /\ stops \in 0..MaxStops
    BY RefundFacts DEF PurchaseInv, PurchaseTypeOK
  <1>1. CASE RefundAnswers(r)
    <2>1. psp[r] \in {"pending", "succeeded", "failed"}
      BY <1>1, RefundFacts DEF RefundAnswers
    <2>2. refund[r].status # "none" /\ Active(r)
      BY <1>0, <1>1 DEF RefundAnswers, RefundOK
    <2>3. QED BY <1>0, <1>1, <2>1, <2>2, OnlyCallMoves DEF RefundAnswers
  <1>2. CASE CompletedAlready(r)
    BY <1>0, <1>2, AskedFor, OnlyCallMoves DEF CompletedAlready
  <1>3. CASE RepeatRefund(r)
    <2>1. Active(r) /\ psp[r] = "succeeded" /\ refund[r].status # "none"
      BY <1>0, <1>3 DEF RepeatRefund, RefundOK, Active, Locking
    <2>2. QED BY <1>0, <1>3, <2>1, OnlyCallMoves DEF RepeatRefund
  <1>4. CASE RefundDies(r)
    <2>1. stops' \in 0..MaxStops
      BY <1>0, <1>4, BoundsType DEF RefundDies
    <2>2. refund[r].status # "none"
      BY <1>0, <1>4 DEF RefundDies, RefundOK
    <2>3. QED BY <1>4, <2>1, <2>2, OnlyCallMoves DEF RefundDies
  <1>5. QED BY <1>1, <1>2, <1>3, <1>4

\* The answer of the provider is recorded, whatever the row says by now.
LEMMA RecordAnswerStep ==
  ASSUME PurchaseInv, NEW r \in Refunds, RecordAnswer(r)
  PROVE  PurchaseInv'
  <1>1. RefundOK(r) /\ refund \in [Refunds -> Refund] /\ CreditTypeOK
    BY RefundFacts
  <1>2. refundCall[r] \in {"pending", "succeeded", "failed"} /\ refund[r].status # "none" /\ Active(r)
    BY <1>1 DEF RecordAnswer, RefundOK
  <1> DEFINE status == RefundStatus(refundCall[r])
             stage == NextStage(refundCall[r])
  <1>4. /\ status \in {"payment_processing", "payment_succeeded", "failed"}
        /\ stage \in {"idle", "finishing"}
        /\ stage = "finishing" => status = "payment_succeeded"
        /\ status = "payment_succeeded" => refundCall[r] = "succeeded"
    BY <1>2 DEF RefundStatus, NextStage
  <1>5. refund' = [refund EXCEPT ![r].status = status] /\ refundCall' = [refundCall EXCEPT ![r] = stage]
    BY DEF RecordAnswer
  <1> HIDE DEF status, stage
  <1>6. refund' \in [Refunds -> Refund]
    BY <1>1, <1>4, <1>5 DEF Refund, Locking
  <1>7. /\ refund'[r].status = status /\ refund'[r].purchase = refund[r].purchase
        /\ refund'[r].credits = refund[r].credits /\ refund'[r].money = refund[r].money
        /\ refundCall'[r] = stage
    BY <1>1, <1>5, RefundFacts DEF Refund
  <1>8. RefundMoves(r)
    <2>1. UNCHANGED <<granted, used, recovered, purchase, taken, ledgered, paid>>
      BY DEF RecordAnswer, providerVars
    <2>2. \A s \in Refunds \ {r} :
            refund'[s] = refund[s] /\ refundCall'[s] = refundCall[s] /\ psp'[s] = psp[s]
      BY <1>5 DEF RecordAnswer, providerVars
    <2>3. QED BY <1>2, <1>4, <1>7, <2>1, <2>2 DEF RefundMoves
  <1>9. RefundOK(r)'
    <2>1. psp' = psp /\ purchase' = purchase
      BY DEF RecordAnswer, providerVars
    <2>2. status = "payment_succeeded" => psp[r] = "succeeded"
      BY <1>1, <1>4 DEF RefundOK
    <2>3. QED BY <1>1, <1>2, <1>4, <1>7, <2>1, <2>2 DEF RefundOK, Active, Locking
  <1>10. \A p \in Purchases : LockOK(r, p)' /\ LedgerOK(r, p)'
    BY <1>2, <1>7, RefundFacts DEF LockOK, LedgerOK, Active, RecordAnswer, providerVars
  <1>11. OrdersGoOn /\ back' \in [Checkouts -> Nat]
    BY EventSets DEF RecordAnswer, providerVars, OrdersGoOn
  <1>12. RefundsInv' /\ OneActive' /\ LocksInv' /\ RowsInv'
    BY <1>2, <1>8, <1>9, <1>10, <1>11, RefundMovesOnly
  <1>13. CreditTypeOK'
    BY <1>1, <1>6 DEF RecordAnswer, CreditTypeOK
  <1>14. CallsInv' /\ EventsInv'
    BY CallsStay, EventsStay DEF StillThere, providerVars, RecordAnswer
  <1>15. refundCall' \in [Refunds -> {"idle", "asking", "pending", "succeeded", "failed", "finishing"}]
    BY <1>4, <1>5, RefundFacts
  <1>16. PurchaseTypeOK'
    BY <1>13, <1>15 DEF PurchaseInv, PurchaseTypeOK, providerVars, RecordAnswer
  <1>17. QED BY <1>12, <1>14, <1>16 DEF PurchaseInv

\* The provider takes the refund, refuses it or pays it.
LEMMA ProviderStepOfRefund ==
  ASSUME PurchaseInv, NEW r \in Refunds, refund[r].status # "none", psp[r] \in {"none", "pending"},
         NEW answer \in {"pending", "succeeded", "failed"}, psp' = [psp EXCEPT ![r] = answer],
         UNCHANGED <<creditVars, serviceVars, paid>>,
         back' \in [Checkouts -> Nat], OrdersGoOn,
         answer = "succeeded" => back'[OrderOf(r)] = back[OrderOf(r)] + refund[r].money
  PROVE  RefundsInv' /\ OneActive' /\ LocksInv' /\ RowsInv'
  <1>1. RefundMoves(r)
    BY DEF creditVars, serviceVars, RefundMoves, Active
  <1>2. PICK p \in Purchases : p = refund[r].purchase /\ p \in WebPurchases
    BY AskedFor
  <1>3. RefundOK(r)'
    BY RefundFacts DEF RefundOK, Active, creditVars, serviceVars
  <1>4. WebOK(p) /\ purchase[p] \in Purchase /\ OrderOf(r) = purchase[p].order
    BY <1>2 DEF PurchaseInv, RowsInv, OrderOf, PurchaseTypeOK
  <1>5. OrderOf(r) \in Checkouts /\ refund[r].money \in Nat
    BY AskedFor
  <1>6. LockOK(r, p)'
    <2>1. purchase[p].booked \in Nat /\ back[purchase[p].order] \in Nat
      BY <1>4, <1>5, EventSets DEF Purchase
    <2>2. purchase[p].booked <= back[purchase[p].order]
      BY <1>4, <1>5, ConstantTypes DEF WebOK
    <2>3. psp'[r] = "succeeded" => purchase[p].booked + refund[r].money <= back'[purchase[p].order]
      BY <1>4, <1>5, <2>1, <2>2, RefundFacts
    <2>4. LockOK(r, p)
      BY RefundFacts
    <2>5. QED BY <2>3, <2>4 DEF LockOK, creditVars, serviceVars
  <1>7. \A q \in Purchases : LedgerOK(r, q)'
    BY RefundFacts DEF LedgerOK, creditVars, serviceVars
  <1>8. \A q \in Purchases : LockOK(r, q)'
    BY <1>2, <1>6 DEF LockOK, creditVars, serviceVars
  <1>9. QED BY <1>1, <1>3, <1>8, <1>7, RefundMovesOnly

LEMMA ProviderAnswersStep ==
  ASSUME PurchaseInv, NEW r \in Refunds, ProviderTakesRefund(r) \/ ProviderRefuses(r)
  PROVE  PurchaseInv'
  <1>1. refund[r].status # "none" /\ psp[r] \in {"none", "pending"}
    BY AskedFor DEF ProviderTakesRefund, ProviderRefuses
  <1>2. PICK answer \in {"pending", "failed"} : psp' = [psp EXCEPT ![r] = answer]
    BY DEF ProviderTakesRefund, ProviderRefuses
  <1>3. UNCHANGED <<creditVars, serviceVars, paid, back, sent>>
    BY DEF ProviderTakesRefund, ProviderRefuses
  <1>4. OrdersGoOn /\ back' \in [Checkouts -> Nat]
    BY <1>3, EventSets DEF OrdersGoOn
  <1>5. RefundsInv' /\ OneActive' /\ LocksInv' /\ RowsInv'
    BY <1>1, <1>2, <1>3, <1>4, ProviderStepOfRefund
  <1>6. CreditTypeOK' /\ CallsInv' /\ EventsInv'
    BY <1>3, CreditTypesStay, CallsStay, EventsStay DEF StillThere, serviceVars
  <1>7. PurchaseTypeOK'
    BY <1>2, <1>3, <1>6, RefundFacts
    DEF ProviderTakesRefund, ProviderRefuses, serviceVars, PurchaseInv, PurchaseTypeOK
  <1>8. QED BY <1>5, <1>6, <1>7 DEF PurchaseInv

LEMMA ProviderRefundsStep ==
  ASSUME PurchaseInv, NEW r \in Refunds, ProviderRefunds(r)
  PROVE  PurchaseInv'
  <1>1. refund[r].status # "none" /\ psp[r] = "pending" /\ OrderOf(r) \in Checkouts /\ refund[r].money \in Nat
    BY AskedFor DEF ProviderRefunds
  <1>2. /\ OrdersGoOn /\ back' \in [Checkouts -> Nat]
        /\ back'[OrderOf(r)] = back[OrderOf(r)] + refund[r].money
        /\ sent' \subseteq Event /\ sent \subseteq sent' /\ EventsInv'
    BY <1>1, GivesBackFacts DEF ProviderRefunds
  <1>3. psp' = [psp EXCEPT ![r] = "succeeded"] /\ UNCHANGED <<creditVars, serviceVars, paid>>
    BY DEF ProviderRefunds
  <1>4. RefundsInv' /\ OneActive' /\ LocksInv' /\ RowsInv'
    BY <1>1, <1>2, <1>3, ProviderStepOfRefund
  <1>5. CreditTypeOK' /\ CallsInv'
    BY <1>3, CreditTypesStay, CallsStay DEF StillThere, serviceVars
  <1>6. PurchaseTypeOK'
    BY <1>2, <1>3, <1>5, RefundFacts DEF ProviderRefunds, serviceVars, PurchaseInv, PurchaseTypeOK
  <1>7. QED BY <1>2, <1>4, <1>5, <1>6 DEF PurchaseInv


-----------------------------------------------------------------------------
(***************************************************************************)
(* Amounts                                                                 *)
(***************************************************************************)

\* The share of credits that a partial refund takes back lies between nothing and all of them.
LEMMA Proportion ==
  ASSUME NEW a \in Nat, NEW b \in Nat \ {0}, NEW n \in Nat, n <= b
  PROVE  /\ (a * n) \div b \in Nat /\ (a * n) \div b <= a
         /\ n = b => (a * n) \div b = a
  <1>1. (a * n) \div b \in Nat /\ (a * n) \div b <= a
    OBVIOUS
  <1>2. (a * b) \div b = a
    OBVIOUS
  <1>3. QED BY <1>1, <1>2

\* What an event takes back for its money is what is missing, at the most; the
\* whole price takes back all that is left.
LEMMA ShareBounded ==
  ASSUME NEW p \in Purchases, NEW n \in Nat, n <= Price, NEW before \in Nat
  PROVE  /\ Share(p, n, before) \in Nat
         /\ Share(p, n, before) <= NotBelowZero(PaidAmount - before)
         /\ n = Price => Share(p, n, before) = NotBelowZero(PaidAmount - before)
  <1> DEFINE share == (PaidAmount * n) \div Price
  <1>1. share \in Nat /\ share <= PaidAmount /\ (n = Price => share = PaidAmount)
    BY Proportion, ConstantTypes
  <1>2. Share(p, n, before) = Max({0, share - before})
    BY DEF Share
  <1> HIDE DEF share
  <1>3. Share(p, n, before) = NotBelowZero(share - before)
    BY <1>1, <1>2, MaxOfZero
  <1>4. QED BY <1>1, <1>3, ConstantTypes DEF NotBelowZero

\* A refund gives back some money, and no more than the price, after the fee.
LEMMA RefundMoney ==
  ASSUME NEW p \in Purchases, Unrecovered(p) \in Nat
  PROVE  Gross(p) \in Nat /\ Fee(p) \in Nat /\ Fee(p) <= Gross(p)
  <1> DEFINE left == Unrecovered(p)
  <1>1. (Price * left) \div PaidAmount \in Nat
    <2> HIDE DEF left
    <2>1. left \in Nat
      BY DEF left
    <2>2. QED BY <2>1, ConstantTypes
  <1> DEFINE gross == Gross(p)
  <1>2. gross \in Nat
    BY <1>1 DEF Gross
  <1>3. Fee(p) = (gross * FeePercent) \div 100
    BY DEF Fee
  <1> HIDE DEF gross
  <1>4. (gross * FeePercent) \div 100 \in Nat /\ (gross * FeePercent) \div 100 <= gross
    BY <1>2, ConstantTypes
  <1>5. QED BY <1>2, <1>3, <1>4 DEF gross

\* What was taken back of a purchase is what the books say, unless a refund was
\* reopened.
LEMMA TakenBackFacts ==
  ASSUME PurchaseInv, NEW p \in Purchases
  PROVE  /\ TakenBack(p) \in Nat
         /\ NothingLedgered(p) => TakenBack(p) = taken[p]
         /\ NoneReopened(p) => TakenBack(p) = recovered[p]
  <1> DEFINE S == {r \in Refunds : refund[r].purchase = p /\ refund[r].status = "completed"}
  <1>1. TakenBack(p) = taken[p] + SumFunctionOnSet(CreditsOf, S)
    BY DEF TakenBack
  <1>2. S \in SUBSET Refunds /\ CreditTypeOK /\ taken[p] \in Nat /\ recovered[p] \in Nat
    BY DEF PurchaseInv, PurchaseTypeOK, CreditTypeOK
  <1>3. ASSUME NEW r \in S
        PROVE  /\ r \in Refunds /\ r \in ledgered /\ Active(r) /\ refund[r].purchase = p
               /\ recovered[p] = taken[p] + refund[r].credits
    <2>1. r \in ledgered /\ refund[r].purchase = p /\ r \in Refunds
      BY DEF PurchaseInv, RefundsInv, RefundOK
    <2>2. LedgerOK(r, p)
      BY <2>1 DEF PurchaseInv, LocksInv
    <2>3. QED BY <2>1, <2>2 DEF LedgerOK, Active
  <1>4. \A r, s \in S : r = s
    BY <1>3 DEF PurchaseInv, OneActive
  <1>5. NothingLedgered(p) => S = {}
    BY <1>3 DEF NothingLedgered
  <1>6. S = {} /\ NoneReopened(p) => NothingLedgered(p)
    BY DEF NoneReopened, NothingLedgered, Reopened, RefundsOf
  <1>7. NothingLedgered(p) => recovered[p] = taken[p]
    BY DEF PurchaseInv, RowsInv, CreditsOK
  <1> HIDE DEF S
  <1>8. CASE S = {}
    <2>1. SumFunctionOnSet(CreditsOf, S) = 0
      BY <1>8, SumEmpty
    <2>2. TakenBack(p) = taken[p]
      BY <1>1, <1>2, <2>1
    <2>3. QED BY <1>2, <1>6, <1>7, <1>8, <2>2
  <1>9. CASE S # {}
    <2>1. PICK r \in S : TRUE
      BY <1>9
    <2>2. S = {r}
      BY <1>4, <2>1
    <2>3. CreditsOf[r] = refund[r].credits /\ CreditsOf[r] \in Nat
      BY <1>2, <2>1, RefundSets
    <2>4. SumFunctionOnSet(CreditsOf, {r}) = CreditsOf[r]
      BY <2>3, SumSingle
    <2>5. SumFunctionOnSet(CreditsOf, S) = refund[r].credits
      BY <2>2, <2>3, <2>4
    <2>6. recovered[p] = taken[p] + refund[r].credits
      BY <1>3, <2>1
    <2>7. QED BY <1>1, <1>2, <1>5, <1>9, <2>3, <2>5, <2>6
  <1>10. QED BY <1>8, <1>9

-----------------------------------------------------------------------------
(***************************************************************************)
(* Payments and what the stores do                                         *)
(***************************************************************************)

\* Only what is paid is refunded.
LEMMA NoRefundYet ==
  ASSUME PurchaseInv, NEW p \in Purchases, purchase[p].status \in Open \/ p \in StorePurchases
  PROVE  RefundsOf(p) = {} /\ NothingLedgered(p)
  <1>1. ASSUME NEW r \in RefundsOf(p) PROVE FALSE
    <2>1. r \in Refunds /\ refund[r].purchase = p /\ RefundOK(r)
      BY DEF RefundsOf, PurchaseInv, RefundsInv
    <2>2. refund[r].status # "none"
      BY <2>1, ConstantTypes DEF RefundOK, NoRefund
    <2>3. p \in WebPurchases /\ purchase[p].order # NoCheckout
      BY <2>1, <2>2 DEF RefundOK
    <2>4. QED BY <2>3 DEF WebPurchases, PurchaseInv, RowsInv, WebOK
  <1>2. QED BY <1>1 DEF RefundsOf, NothingLedgered

\* The numbers of a purchase, for arithmetic.
LEMMA PurchaseFacts ==
  ASSUME PurchaseInv, NEW p \in Purchases
  PROVE  /\ RowOK(p) /\ CreditsOK(p)
         /\ p \in WebPurchases => WebOK(p)
         /\ p \in StorePurchases => StoreOK(p)
         /\ purchase \in [Purchases -> Purchase] /\ purchase[p] \in Purchase /\ purchase[p].booked \in Nat
         /\ recovered \in [Purchases -> Nat] /\ recovered[p] \in Nat
         /\ taken \in [Purchases -> Nat] /\ taken[p] \in Nat
         /\ used[p] \in Nat /\ PaidAmount \in Nat \ {0} /\ CreditTypeOK /\ p \in Grants
  BY AmountsAreNat DEF PurchaseInv, RowsInv, PurchaseTypeOK, CreditTypeOK, Grants, Purchase

\* What a refund or a reversal makes of a row is a row.
LEMMA RowAfter ==
  ASSUME NEW old \in Purchase, NEW status \in {"refunded", "reversed"}, NEW n \in Nat
  PROVE  [old EXCEPT !.status = status, !.payment = status, !.recent = TRUE, !.booked = n] \in Purchase
  BY DEF Purchase

LEMMA PaymentGrantsStep ==
  ASSUME PurchaseInv, NEW e \in sent, NEW p \in WebPurchases, PaymentGrants(e, p)
  PROVE  PurchaseInv'
  <1>1. p \in Purchases /\ p \notin StorePurchases
    BY DEF WebPurchases
  <1>2. purchase[p].status = "pending" /\ RefundsOf(p) = {} /\ NothingLedgered(p)
    <2>1. purchase[p].payment \in {"pending", "processing"}
      BY DEF PaymentGrants, MayBePaid, Unpaid
    <2>2. purchase[p].status \in Open /\ purchase[p].status # "none"
      BY <1>1, <2>1, PurchaseFacts DEF RowOK, OpenPayment, NoRow
    <2>3. QED BY <1>1, <2>2, NoRefundYet DEF Open
  <1>3. e \in Event /\ e.order \in Checkouts /\ e.amount = Price /\ paid[e.order] = Price
    <2>1. e \in Event /\ EventOK(e)
      BY EventSets DEF PurchaseInv, EventsInv
    <2>2. QED BY <2>1, EventShapes DEF PaymentGrants, Matches, EventOK
  <1>4. e.order # NoCheckout /\ back[e.order] \in Nat
    BY <1>3, ConstantTypes, EventSets
  <1> DEFINE row == [purchase[p] EXCEPT !.status = "completed", !.payment = "paid", !.order = e.order, !.recent = TRUE]
  <1>5. /\ row \in Purchase /\ row.status = "completed" /\ row.payment = "paid" /\ row.order = e.order
        /\ row.booked = purchase[p].booked
    BY <1>1, <1>3, PurchaseFacts DEF Purchase
  <1>6. purchase' = [purchase EXCEPT ![p] = row]
    BY DEF PaymentGrants
  <1> HIDE DEF row
  <1>7. purchase' \in [Purchases -> Purchase] /\ purchase'[p] = row
    BY <1>1, <1>5, <1>6, PurchaseFacts
  <1>8. /\ granted' \in Seq(Grants) /\ Contains(granted', p)
        /\ \A f : f # p => (Contains(granted', f) <=> Contains(granted, f))
    BY <1>1, PurchaseFacts, ContainsAfterGrant DEF PaymentGrants
  <1>9. UNCHANGED <<used, recovered, taken, refund, ledgered, refundCall, psp, paid, back, sent>>
    BY DEF PaymentGrants, providerVars
  <1>10. OnlyOf(p)
    <2>1. OrdersGoOn
      BY <1>9, EventSets DEF OrdersGoOn
    <2>2. \A q \in Purchases \ {p} : purchase'[q] = purchase[q]
      BY <1>6
    <2>3. QED BY <1>8, <1>9, <2>1, <2>2 DEF OnlyOf
  <1>11. OfPurchase(p)'
    <2>1. RefundsOf(p)' = {} /\ NothingLedgered(p)'
      BY <1>2, <1>9 DEF RefundsOf, NothingLedgered
    <2>2. purchase[p].booked = 0 /\ recovered[p] = 0
      BY <1>1, <1>2, PurchaseFacts DEF RowOK, Open
    <2>3. RowOK(p)'
      BY <1>5, <1>7, <1>8, <2>2 DEF RowOK, Open, OpenPayment
    <2>4. CreditsOK(p)'
      BY <1>1, <1>2, <1>5, <1>7, <1>9, <2>2, PurchaseFacts DEF CreditsOK
    <2>5. WebOK(p)'
      BY <1>3, <1>4, <1>5, <1>7, <1>9, <2>2 DEF WebOK, Open
    <2>6. QED BY <1>1, <2>1, <2>3, <2>4, <2>5 DEF OfPurchase
  <1>12. RefundsInv' /\ OneActive' /\ LocksInv' /\ RowsInv'
    BY <1>1, <1>9, <1>10, <1>11, EventSets, OnePurchaseAtATime
  <1>13. CallsInv' /\ EventsInv'
    BY <1>2, <1>5, <1>6, <1>7, CallsStay, EventsStay DEF StillThere, PaymentGrants, providerVars, WebPurchases
  <1>14. processed' \subseteq sent' /\ failed' \subseteq sent' \ processed' /\ sent' \subseteq Event
    BY <1>9, EventHandled DEF PaymentGrants
  <1>15. CreditTypeOK'
    BY <1>1, <1>8, PurchaseFacts DEF PaymentGrants, CreditTypeOK
  <1>16. PurchaseTypeOK'
    BY <1>7, <1>14, <1>15 DEF PaymentGrants, PurchaseInv, PurchaseTypeOK, providerVars
  <1>17. QED BY <1>12, <1>13, <1>16 DEF PurchaseInv

\* A purchase of a store is granted,
LEMMA VerifyInAppStep ==
  ASSUME PurchaseInv, NEW p \in StorePurchases, VerifyInApp(p)
  PROVE  PurchaseInv'
  <1>1. p \in Purchases /\ p \notin WebPurchases
    BY ConstantTypes DEF WebPurchases
  <1>2. UNCHANGED <<used, recovered, taken, refund, ledgered, refundCall, psp, paid, back, sent,
                    expired, reservation, processed, failed, call, opened, shown, revoked, stops>>
    BY DEF VerifyInApp
  <1>3. verified' \subseteq StorePurchases
    BY EventSets DEF VerifyInApp
  <1>4. CASE ~FirstProof(p)
    <2>1. UNCHANGED moneyVars /\ UNCHANGED <<creditVars, call, opened, shown, stops>>
      BY <1>2, <1>4 DEF VerifyInApp, moneyVars, creditVars
    <2>2. QED BY <1>2, <1>3, <2>1, EventSets, OnlyEventsStep
  <1>5. CASE FirstProof(p)
    <2> DEFINE row == [NewRow EXCEPT !.status = "completed", !.payment = "paid"]
    <2>1. /\ row \in Purchase /\ row.status = "completed" /\ row.payment = "paid" /\ row.booked = 0
      BY DEF NewRow, NoRow, Purchase
    <2>2. purchase' = [purchase EXCEPT ![p] = row] /\ Grant(p)
      BY <1>5 DEF VerifyInApp
    <2> HIDE DEF row
    <2>3. purchase' \in [Purchases -> Purchase] /\ purchase'[p] = row
      BY <1>1, <2>1, <2>2, PurchaseFacts
    <2>4. /\ granted' \in Seq(Grants) /\ Contains(granted', p)
          /\ \A f : f # p => (Contains(granted', f) <=> Contains(granted, f))
      BY <1>1, <2>2, PurchaseFacts, ContainsAfterGrant
    <2>5. OnlyOf(p)
      <3>1. OrdersGoOn
        BY <1>2, EventSets DEF OrdersGoOn
      <3>2. \A q \in Purchases \ {p} : purchase'[q] = purchase[q]
        BY <2>2
      <3>3. QED BY <1>2, <2>4, <3>1, <3>2 DEF OnlyOf
    <2>6. OfPurchase(p)'
      <3>1. RefundsOf(p)' = {} /\ NothingLedgered(p)'
        BY <1>1, <1>2, NoRefundYet DEF RefundsOf, NothingLedgered
      <3>2. recovered[p] = 0
        BY <1>1, <1>5, PurchaseFacts DEF RowOK, Open, FirstProof, NoRow
      <3>3. RowOK(p)'
        BY <2>1, <2>3, <2>4 DEF RowOK, Open, OpenPayment
      <3>4. CreditsOK(p)'
        BY <1>1, <1>2, <2>1, <2>3, <3>1, <3>2, NoRefundYet, PurchaseFacts DEF CreditsOK
      <3>5. StoreOK(p)'
        BY <1>2, <2>1, <2>3, <3>1, <3>2 DEF StoreOK
      <3>6. QED BY <1>1, <3>1, <3>3, <3>4, <3>5 DEF OfPurchase
    <2>7. RefundsInv' /\ OneActive' /\ LocksInv' /\ RowsInv'
      BY <1>1, <1>2, <2>5, <2>6, EventSets, OnePurchaseAtATime
    <2>8. CallsInv' /\ EventsInv'
      BY <1>1, <1>2, <2>2, CallsStay, EventsStay DEF StillThere, WebPurchases
    <2>9. CreditTypeOK'
      BY <1>1, <1>2, <2>4, PurchaseFacts DEF CreditTypeOK
    <2>10. PurchaseTypeOK'
      BY <1>2, <1>3, <2>3, <2>9 DEF PurchaseInv, PurchaseTypeOK
    <2>11. QED BY <2>7, <2>8, <2>10 DEF PurchaseInv
  <1>6. QED BY <1>4, <1>5

\* and taken back.
LEMMA ForceReversalStep ==
  ASSUME PurchaseInv, NEW e \in sent, NEW p \in StorePurchases, ForceReversal(e, p)
  PROVE  PurchaseInv'
  <1>1. p \in Purchases /\ p \notin WebPurchases
    BY ConstantTypes DEF WebPurchases
  <1>2. UNCHANGED <<granted, expired, used, refund, reservation, ledgered, refundCall, call,
                    opened, shown, paid, back, psp, sent, verified, revoked, stops>>
    BY DEF ForceReversal, providerVars
  <1>3. processed' \subseteq sent' /\ failed' \subseteq sent' \ processed' /\ sent' \subseteq Event
    BY <1>2, EventHandled DEF ForceReversal
  <1>4. CASE purchase[p].payment \in {"reversed", "refunded"}
    <2>1. UNCHANGED moneyVars /\ UNCHANGED <<creditVars, call, opened, shown, stops>>
      BY <1>2, <1>4 DEF ForceReversal, moneyVars, creditVars
    <2>2. QED BY <1>2, <1>3, <2>1, EventSets, OnlyEventsStep
  <1>5. CASE purchase[p].payment \notin {"reversed", "refunded"}
    <2> DEFINE row == [purchase[p] EXCEPT !.status = "reversed", !.payment = "reversed", !.recent = TRUE, !.booked = Price]
    <2>1. row \in Purchase /\ row.status = "reversed" /\ row.payment = "reversed" /\ row.booked = Price
      <3>1. purchase[p] \in Purchase /\ Price \in Nat
        BY <1>1, ConstantTypes, PurchaseFacts
      <3>2. row \in Purchase
        BY <3>1, RowAfter
      <3>3. row.status = "reversed" /\ row.payment = "reversed" /\ row.booked = Price
        BY <3>1 DEF Purchase
      <3>4. QED BY <3>2, <3>3
    <2>2. /\ purchase' = [purchase EXCEPT ![p] = row]
          /\ recovered' = [recovered EXCEPT ![p] = recovered[p] + PaidAmount]
          /\ taken' = [taken EXCEPT ![p] = taken[p] + PaidAmount]
      BY <1>5 DEF ForceReversal
    <2> HIDE DEF row
    <2>3. /\ purchase' \in [Purchases -> Purchase] /\ purchase'[p] = row
          /\ recovered' \in [Purchases -> Nat] /\ recovered'[p] = recovered[p] + PaidAmount
          /\ taken' \in [Purchases -> Nat] /\ taken'[p] = taken[p] + PaidAmount
      BY <1>1, <2>1, <2>2, PurchaseFacts
    <2>4. RefundsOf(p) = {} /\ NothingLedgered(p)
      BY <1>1, NoRefundYet
    <2>5. purchase[p].status = "completed" /\ recovered[p] = 0 /\ Contains(granted, p) /\ taken[p] = 0
      <3>1. purchase[p].status = "completed"
        BY <1>1, <1>5, PurchaseFacts DEF RowOK, StoreOK, ForceReversal
      <3>2. QED BY <1>1, <2>4, <3>1, PurchaseFacts DEF RowOK, StoreOK, CreditsOK, Open
    <2>6. OnlyOf(p)
      <3>1. OrdersGoOn
        BY <1>2, EventSets DEF OrdersGoOn
      <3>2. \A q \in Purchases \ {p} :
              purchase'[q] = purchase[q] /\ recovered'[q] = recovered[q] /\ taken'[q] = taken[q]
        BY <2>2
      <3>3. QED BY <1>2, <3>1, <3>2 DEF OnlyOf
    <2>7. OfPurchase(p)'
      <3>1. RefundsOf(p)' = {} /\ NothingLedgered(p)'
        BY <1>2, <2>4 DEF RefundsOf, NothingLedgered
      <3>2. RowOK(p)'
        BY <1>2, <2>1, <2>3, <2>5 DEF RowOK, Open, OpenPayment
      <3>3. CreditsOK(p)'
        BY <1>1, <1>2, <2>1, <2>3, <2>5, PurchaseFacts DEF CreditsOK
      <3>4. StoreOK(p)'
        BY <2>1, <2>3, <3>1 DEF StoreOK
      <3>5. QED BY <1>1, <3>1, <3>2, <3>3, <3>4 DEF OfPurchase
    <2>8. RefundsInv' /\ OneActive' /\ LocksInv' /\ RowsInv'
      BY <1>1, <1>2, <2>6, <2>7, EventSets, OnePurchaseAtATime
    <2>9. CallsInv' /\ EventsInv'
      BY <1>1, <1>2, <2>2, CallsStay, EventsStay DEF StillThere, WebPurchases
    <2>10. CreditTypeOK'
      BY <1>1, <1>2, <2>3, PurchaseFacts DEF CreditTypeOK
    <2>11. PurchaseTypeOK'
      BY <1>2, <1>3, <2>3, <2>10 DEF PurchaseInv, PurchaseTypeOK
    <2>12. QED BY <2>8, <2>9, <2>11 DEF PurchaseInv
  <1>6. QED BY <1>4, <1>5


-----------------------------------------------------------------------------
(***************************************************************************)
(* Refunds that are asked for, completed, or decided by the provider       *)
(***************************************************************************)

\* A refund that the merchant has made is applied.
LEMMA RefundAppliesStep ==
  ASSUME PurchaseInv, NEW e \in sent, NEW p \in WebPurchases, RefundApplies(e, p)
  PROVE  PurchaseInv'
  <1>1. p \in Purchases /\ p \notin StorePurchases
    BY DEF WebPurchases
  <1>2. UNCHANGED <<granted, expired, used, refund, reservation, ledgered, refundCall, call,
                    opened, shown, paid, back, psp, sent, verified, revoked, stops>>
    BY DEF RefundApplies, providerVars
  <1>3. processed' \subseteq sent' /\ failed' \subseteq sent' \ processed' /\ sent' \subseteq Event
    BY <1>2, EventHandled DEF RefundApplies
  <1> DEFINE n == e.amount
             share == Share(p, n, TakenBack(p))
             booked == purchase[p].booked
  <1>4. CASE n = booked
    <2>1. UNCHANGED moneyVars /\ UNCHANGED <<creditVars, call, opened, shown, stops>>
      BY <1>2, <1>4 DEF RefundApplies, moneyVars, creditVars
    <2>2. QED BY <1>2, <1>3, <2>1, EventSets, OnlyEventsStep
  <1>5. CASE n # booked
    <2>1. /\ e.type = "refunded" /\ e.order \in Checkouts /\ n \in Nat /\ n <= back[e.order]
          /\ purchase[p].order = e.order
      <3>1. e \in Event /\ EventOK(e)
        BY EventSets DEF PurchaseInv, EventsInv
      <3>2. QED BY <3>1, EventShapes DEF RefundApplies, EventOK
    <2>2. /\ purchase[p].order # NoCheckout /\ purchase[p].status \notin Open
          /\ back[e.order] \in Nat /\ back[e.order] <= paid[e.order] /\ paid[e.order] = Price
      BY <1>1, <2>1, ConstantTypes, PurchaseFacts, EventSets DEF WebOK, PurchaseInv, EventsInv
    <2>3. n <= Price /\ booked \in Nat /\ Price \in Nat
      BY <1>1, <2>1, <2>2, ConstantTypes, PurchaseFacts
    <2>4. TakenBack(p) \in Nat
      BY <1>1, TakenBackFacts
    <2>5. /\ share \in Nat /\ share <= NotBelowZero(PaidAmount - TakenBack(p))
          /\ n = Price => share = NotBelowZero(PaidAmount - TakenBack(p))
      BY <1>1, <2>1, <2>3, <2>4, ShareBounded
    <2> DEFINE row == [purchase[p] EXCEPT !.booked = n, !.recent = TRUE,
                         !.payment = AfterRefund(purchase[p].payment, n, "partially_refunded"),
                         !.status = AfterRefund(purchase[p].status, n, "completed")]
    <2>6. /\ purchase' = [purchase EXCEPT ![p] = row]
          /\ recovered' = [recovered EXCEPT ![p] = recovered[p] + share]
          /\ taken' = [taken EXCEPT ![p] = taken[p] + share]
      BY <1>5 DEF RefundApplies
    <2>7. /\ row \in Purchase /\ row.booked = n /\ row.order = purchase[p].order
          /\ row.payment = AfterRefund(purchase[p].payment, n, "partially_refunded")
          /\ row.status = AfterRefund(purchase[p].status, n, "completed")
      BY <1>1, <2>1, PurchaseFacts DEF Purchase, AfterRefund
    <2> HIDE DEF row, share, n, booked
    <2>8. /\ purchase' \in [Purchases -> Purchase] /\ purchase'[p] = row
          /\ recovered' \in [Purchases -> Nat] /\ recovered'[p] = recovered[p] + share
          /\ taken' \in [Purchases -> Nat] /\ taken'[p] = taken[p] + share
      BY <1>1, <2>5, <2>6, <2>7, PurchaseFacts
    <2>9. OnlyOf(p)
      <3>1. OrdersGoOn
        BY <1>2, EventSets DEF OrdersGoOn
      <3>2. \A q \in Purchases \ {p} :
              purchase'[q] = purchase[q] /\ recovered'[q] = recovered[q] /\ taken'[q] = taken[q]
        BY <2>6
      <3>3. QED BY <1>2, <3>1, <3>2 DEF OnlyOf
    <2>10. OfPurchase(p)'
      <3>0. /\ RefundsOf(p)' = RefundsOf(p)
            /\ (NothingLedgered(p)' <=> NothingLedgered(p)) /\ (NoneReopened(p)' <=> NoneReopened(p))
        BY <1>2 DEF RefundsOf, NothingLedgered, NoneReopened, Reopened
      <3>1. RowOK(p)'
        BY <1>1, <1>2, <2>2, <2>7, <2>8, PurchaseFacts DEF RowOK, AfterRefund, Open, OpenPayment
      <3>2. CreditsOK(p)'
        <4>1. used'[p] <= PaidAmount
          BY <1>1, <1>2, PurchaseFacts DEF CreditsOK
        <4>2. NothingLedgered(p)' => recovered'[p] = taken'[p]
          BY <1>1, <2>8, <3>0, PurchaseFacts DEF CreditsOK
        <4>3. NoneReopened(p)' => recovered'[p] <= PaidAmount
          BY <1>1, <2>4, <2>5, <2>8, <3>0, PurchaseFacts, TakenBackFacts DEF CreditsOK, NotBelowZero
        <4>4. ASSUME row.status \in {"refunded", "reversed"} PROVE used[p] + recovered'[p] >= PaidAmount
          <5>1. CASE purchase[p].status = "refunded"
            BY <1>1, <2>5, <2>8, <5>1, PurchaseFacts DEF CreditsOK
          <5>2. CASE purchase[p].status # "refunded"
            <6>1. n = Price
              BY <2>7, <4>4, <5>2 DEF AfterRefund
            <6>2. NothingLedgered(p)
              BY <1>1, <5>2 DEF NothingLedgered, PurchaseInv, LocksInv, LedgerOK
            <6>3. TakenBack(p) = recovered[p]
              BY <1>1, <6>2, TakenBackFacts, PurchaseFacts DEF CreditsOK
            <6>4. QED BY <1>1, <2>5, <2>8, <6>1, <6>3, PurchaseFacts DEF NotBelowZero
          <5>3. QED BY <5>1, <5>2
        <4>5. QED BY <1>2, <2>8, <4>1, <4>2, <4>3, <4>4 DEF CreditsOK
      <3>3. WebOK(p)'
        BY <1>1, <1>2, <2>1, <2>2, <2>7, <2>8 DEF WebOK, AfterRefund, Open
      <3>4. ASSUME NEW r \in RefundsOf(p) PROVE RefundOK(r)' /\ LockOK(r, p)' /\ LedgerOK(r, p)'
        <4>1. r \in Refunds /\ refund[r].purchase = p /\ RefundOK(r) /\ LedgerOK(r, p)
          BY <1>1, RefundFacts DEF RefundsOf
        <4>2. RefundOK(r)'
          BY <1>2, <2>7, <2>8, <4>1 DEF RefundOK, Active
        <4>3. LockOK(r, p)'
          BY <1>2, <4>1 DEF LockOK, RefundApplies, Pending
        <4>4. ASSUME r \in ledgered PROVE recovered'[p] = taken'[p] + refund[r].credits
          <5>1. refund[r].credits \in Nat
            BY <4>1, RefundFacts DEF Refund
          <5>2. QED BY <1>1, <2>5, <2>8, <4>1, <4>4, <5>1, PurchaseFacts DEF LedgerOK
        <4>5. LedgerOK(r, p)'
          BY <1>2, <2>7, <2>8, <4>1, <4>4 DEF LedgerOK, AfterRefund
        <4>6. QED BY <4>2, <4>3, <4>5
      <3>5. \A r, s \in RefundsOf(p) : Active(r)' /\ Active(s)' => r = s
        BY <1>2 DEF RefundsOf, Active, PurchaseInv, OneActive
      <3>6. QED BY <1>1, <3>0, <3>1, <3>2, <3>3, <3>4, <3>5 DEF OfPurchase
    <2>11. RefundsInv' /\ OneActive' /\ LocksInv' /\ RowsInv'
      BY <1>1, <1>2, <2>9, <2>10, EventSets, OnePurchaseAtATime
    <2>12. CallsInv' /\ EventsInv'
      <3>1. purchase'[p].status # "none"
        BY <2>2, <2>7, <2>8 DEF AfterRefund
      <3>2. StillThere
        BY <1>1, <2>6, <3>1, PurchaseFacts DEF StillThere, WebPurchases
      <3>3. QED BY <1>2, <3>2, CallsStay, EventsStay
    <2>13. CreditTypeOK'
      BY <1>1, <1>2, <2>8, PurchaseFacts DEF CreditTypeOK
    <2>14. PurchaseTypeOK'
      BY <1>2, <1>3, <2>8, <2>13 DEF PurchaseInv, PurchaseTypeOK
    <2>15. QED BY <2>11, <2>12, <2>14 DEF PurchaseInv
  <1>6. QED BY <1>4, <1>5


\* A refund of the user is completed, by the call or by a webhook, once; the
\* webhook may take back more.
RefundCompletes(r, p, share, n) ==
  /\ ledgered' = ledgered \cup {r}
  /\ refund' = [refund EXCEPT ![r].status = "completed"]
  /\ recovered' = [recovered EXCEPT ![p] = recovered[p] + refund[r].credits + share]
  /\ taken' = [taken EXCEPT ![p] = taken[p] + share]
  /\ purchase' = [purchase EXCEPT ![p] =
       [purchase[p] EXCEPT !.status = "refunded", !.payment = "refunded", !.recent = TRUE, !.booked = n]]
  /\ UNCHANGED <<granted, expired, used, reservation, call, psp, paid, back, sent>>
  /\ refundCall'[r] = refundCall[r] \/ refundCall'[r] = "idle"
  /\ \A s \in Refunds \ {r} : refundCall'[s] = refundCall[s]

\* The recovery of a refund takes what its lock has kept.
LEMMA RefundCompletesKeeps ==
  ASSUME PurchaseInv, NEW r \in Refunds, NEW p \in WebPurchases, NEW share \in Nat, NEW n \in Nat,
         RefundCompletes(r, p, share, n),
         refund[r].purchase = p, refund[r].status \in Locking, r \notin ledgered,
         share <= used[p], n <= back[purchase[p].order]
  PROVE  /\ RefundsInv' /\ OneActive' /\ LocksInv' /\ RowsInv' /\ CallsInv' /\ EventsInv' /\ CreditTypeOK'
         /\ purchase' \in [Purchases -> Purchase] /\ taken' \in [Purchases -> Nat]
         /\ ledgered' \subseteq Refunds
  <1>1. p \in Purchases /\ p \notin StorePurchases
    BY DEF WebPurchases
  <1>2. UNCHANGED <<granted, expired, used, reservation, call, psp, paid, back, sent>>
    BY DEF RefundCompletes
  <1>3. /\ refund \in [Refunds -> Refund] /\ RefundOK(r) /\ LockOK(r, p)
        /\ refund[r].credits \in Nat
    BY <1>1, RefundFacts DEF Refund
  <1> DEFINE credits == refund[r].credits
  <1>4. /\ used[p] + recovered[p] + credits = PaidAmount /\ recovered[p] = taken[p]
        /\ purchase[p].order # NoCheckout
    BY <1>3 DEF LockOK, RefundOK, Locking
  <1>5. \A s \in RefundsOf(p) : Active(s) => s = r
    BY DEF PurchaseInv, OneActive, Active, RefundsOf
  <1> DEFINE row == [purchase[p] EXCEPT !.status = "refunded", !.payment = "refunded", !.recent = TRUE, !.booked = n]
  <1>6. purchase' = [purchase EXCEPT ![p] = row]
    BY DEF RefundCompletes
  <1>7. /\ row \in Purchase /\ row.status = "refunded" /\ row.payment = "refunded"
        /\ row.order = purchase[p].order /\ row.booked = n
    <2>1. purchase[p] \in Purchase
      BY <1>1, PurchaseFacts
    <2>2. row \in Purchase
      BY <2>1, RowAfter
    <2>3. /\ row.status = "refunded" /\ row.payment = "refunded"
          /\ row.order = purchase[p].order /\ row.booked = n
      BY <2>1 DEF Purchase
    <2>4. QED BY <2>2, <2>3
  <1> HIDE DEF row
  <1>8. purchase' \in [Purchases -> Purchase] /\ purchase'[p] = row
    BY <1>1, <1>6, <1>7, PurchaseFacts
  <1>9. /\ recovered' \in [Purchases -> Nat] /\ recovered'[p] = recovered[p] + credits + share
        /\ taken' \in [Purchases -> Nat] /\ taken'[p] = taken[p] + share
        /\ \A q \in Purchases \ {p} : recovered'[q] = recovered[q] /\ taken'[q] = taken[q]
    BY <1>1, <1>3, PurchaseFacts DEF RefundCompletes
  <1>10. /\ refund' \in [Refunds -> Refund] /\ refund'[r].status = "completed"
         /\ refund'[r].purchase = p /\ refund'[r].credits = credits
         /\ \A s \in Refunds \ {r} : refund'[s] = refund[s]
    BY <1>3 DEF RefundCompletes, Refund
  <1>11. r \in ledgered' /\ \A s \in Refunds \ {r} : s \in ledgered' <=> s \in ledgered
    BY DEF RefundCompletes
  <1>12. \A s \in Refunds \ {r} : refundCall'[s] = refundCall[s]
    BY DEF RefundCompletes
  <1>13. OnlyOf(p)
    <2>1. OrdersGoOn
      BY <1>2, EventSets DEF OrdersGoOn
    <2>2. \A q \in Purchases \ {p} : purchase'[q] = purchase[q]
      BY <1>6
    <2>3. \A s \in Refunds : refund'[s].purchase = refund[s].purchase
      BY <1>10
    <2>4. \A s \in Refunds : refund'[s].purchase # p => s # r
      BY <1>10
    <2>5. QED BY <1>2, <1>9, <1>10, <1>11, <1>12, <2>1, <2>2, <2>3, <2>4 DEF OnlyOf
  <1>14. OfPurchase(p)'
    <2>1. RefundsOf(p)' = RefundsOf(p) /\ r \in RefundsOf(p)
      BY <1>10 DEF RefundsOf
    <2>2. RowOK(p)'
      <3>1. purchase[p].status \notin Open
        BY <1>1, <1>4, PurchaseFacts DEF WebOK
      <3>2. QED BY <1>1, <1>2, <1>7, <1>8, <3>1, PurchaseFacts DEF RowOK, Open, OpenPayment
    <2>3. CreditsOK(p)'
      <3>1. ~NothingLedgered(p)'
        BY <1>10, <1>11 DEF NothingLedgered
      <3>2. used[p] \in Nat /\ recovered[p] \in Nat /\ PaidAmount \in Nat /\ used[p] <= PaidAmount
        BY <1>1, PurchaseFacts DEF CreditsOK
      <3>3. used[p] + recovered'[p] >= PaidAmount /\ recovered'[p] <= PaidAmount
        BY <1>3, <1>4, <1>9, <3>2
      <3>4. QED BY <1>2, <3>1, <3>2, <3>3 DEF CreditsOK
    <2>4. WebOK(p)'
      BY <1>1, <1>2, <1>4, <1>7, <1>8, PurchaseFacts DEF WebOK, Open
    <2>5. ASSUME NEW s \in RefundsOf(p) PROVE RefundOK(s)' /\ LockOK(s, p)' /\ LedgerOK(s, p)'
      <3>1. CASE s = r
        <4>1. RefundOK(r)'
          BY <1>2, <1>3, <1>4, <1>7, <1>8, <1>10, <1>11 DEF RefundOK, Active, RefundCompletes, Locking
        <4>2. LockOK(r, p)'
          BY <1>11 DEF LockOK
        <4>3. used[p] \in Nat /\ recovered[p] \in Nat /\ taken[p] \in Nat /\ PaidAmount \in Nat
          BY <1>1, PurchaseFacts
        <4>4. used[p] + credits <= PaidAmount /\ recovered'[p] = taken'[p] + credits
          BY <1>3, <1>4, <1>9, <4>3
        <4>5. LedgerOK(r, p)'
          BY <1>2, <1>7, <1>8, <1>10, <4>4 DEF LedgerOK
        <4>6. QED BY <3>1, <4>1, <4>2, <4>5
      <3>2. CASE s # r
        <4>1. s \in Refunds /\ refund[s].purchase = p /\ RefundOK(s) /\ ~Active(s)
          BY <1>5, <3>2, RefundFacts DEF RefundsOf
        <4>2. /\ refund'[s] = refund[s] /\ (s \in ledgered' <=> s \in ledgered) /\ refundCall'[s] = refundCall[s]
          BY <1>10, <1>11, <1>12, <3>2, <4>1
        <4>3. LockOK(s, p)' /\ LedgerOK(s, p)'
          BY <4>1, <4>2 DEF LockOK, LedgerOK, Active
        <4>4. RefundOK(s)'
          BY <1>2, <1>7, <1>8, <4>1, <4>2 DEF RefundOK, Active
        <4>5. QED BY <4>3, <4>4
      <3>3. QED BY <3>1, <3>2
    <2>6. \A s, t \in RefundsOf(p) : Active(s)' /\ Active(t)' => s = t
      <3>1. \A s \in RefundsOf(p) : Active(s)' => s = r
        BY <1>5, <1>10, <1>11 DEF RefundsOf, Active
      <3>2. QED BY <3>1
    <2>7. QED BY <1>1, <2>1, <2>2, <2>3, <2>4, <2>5, <2>6 DEF OfPurchase
  <1>15. RefundsInv' /\ OneActive' /\ LocksInv' /\ RowsInv'
    BY <1>1, <1>2, <1>13, <1>14, EventSets, OnePurchaseAtATime
  <1>16. CallsInv' /\ EventsInv'
    <2>1. StillThere
      BY <1>1, <1>6, <1>7, <1>8 DEF StillThere, WebPurchases
    <2>2. QED BY <1>2, <2>1, CallsStay, EventsStay
  <1>17. CreditTypeOK'
    BY <1>1, <1>2, <1>9, <1>10, PurchaseFacts DEF CreditTypeOK
  <1>18. ledgered' \subseteq Refunds
    BY DEF RefundCompletes, PurchaseInv, PurchaseTypeOK
  <1>19. QED BY <1>8, <1>9, <1>15, <1>16, <1>17, <1>18

LEMMA CompleteRefundStep ==
  ASSUME PurchaseInv, NEW r \in Refunds, NEW p \in WebPurchases, CompleteRefund(r, p)
  PROVE  PurchaseInv'
  <1>1. p \in Purchases /\ RefundOK(r) /\ LockOK(r, p) /\ refund[r].money \in Nat /\ refund[r].credits \in Nat
    BY RefundFacts DEF WebPurchases, Refund
  <1>2. refund[r].purchase = p /\ refund[r].status \in Locking /\ r \notin ledgered /\ psp[r] = "succeeded"
    BY <1>1 DEF CompleteRefund, RefundOK, Active
  <1>3. purchase[p].booked + refund[r].money <= back[purchase[p].order]
    BY <1>1, <1>2 DEF LockOK
  <1>4. RefundCompletes(r, p, 0, purchase[p].booked + refund[r].money)
    <2>0. /\ recovered[p] + refund[r].credits + 0 = recovered[p] + refund[r].credits
          /\ taken[p] + 0 = taken[p]
      BY <1>1, PurchaseFacts
    <2>1. recovered' = [recovered EXCEPT ![p] = recovered[p] + refund[r].credits + 0]
      BY <2>0 DEF CompleteRefund
    <2>2. taken' = [taken EXCEPT ![p] = taken[p] + 0]
      BY <1>1, <2>0, PurchaseFacts DEF CompleteRefund
    <2>3. \A s \in Refunds : refundCall'[s] = IF s = r THEN "idle" ELSE refundCall[s]
      BY RefundFacts DEF CompleteRefund
    <2>4. QED BY <2>1, <2>2, <2>3 DEF CompleteRefund, RefundCompletes, providerVars
  <1>5. purchase[p].booked + refund[r].money \in Nat /\ 0 <= used[p]
    BY <1>1, PurchaseFacts
  <1> DEFINE n == purchase[p].booked + refund[r].money
  <1>6. n \in Nat /\ n <= back[purchase[p].order] /\ RefundCompletes(r, p, 0, n)
    BY <1>3, <1>4, <1>5
  <1> HIDE DEF n
  <1>7. /\ RefundsInv' /\ OneActive' /\ LocksInv' /\ RowsInv' /\ CallsInv' /\ EventsInv' /\ CreditTypeOK'
        /\ purchase' \in [Purchases -> Purchase] /\ taken' \in [Purchases -> Nat]
        /\ ledgered' \subseteq Refunds
    BY <1>2, <1>5, <1>6, RefundCompletesKeeps
  <1>8. refundCall' \in [Refunds -> {"idle", "asking", "pending", "succeeded", "failed", "finishing"}]
    BY RefundFacts DEF CompleteRefund
  <1>9. PurchaseTypeOK'
    BY <1>7, <1>8 DEF CompleteRefund, providerVars, PurchaseInv, PurchaseTypeOK
  <1>10. QED BY <1>7, <1>9 DEF PurchaseInv

LEMMA RefundConfirmsStep ==
  ASSUME PurchaseInv, NEW e \in sent, NEW p \in WebPurchases, NEW r \in Refunds, RefundConfirms(e, p, r)
  PROVE  PurchaseInv'
  <1>1. p \in Purchases /\ LockOK(r, p) /\ refund[r].money \in Nat /\ refund[r].credits \in Nat
    BY RefundFacts DEF WebPurchases, Refund
  <1>2. refund[r].purchase = p /\ refund[r].status \in Locking /\ r \notin ledgered
    BY DEF RefundConfirms, Pending
  <1> DEFINE n == e.amount
             before == TakenBack(p) + refund[r].credits
             share == IF n = purchase[p].booked + refund[r].money THEN 0 ELSE Share(p, n, before)
  <1>3. /\ n \in Nat /\ n <= back[purchase[p].order] /\ n <= Price
    <2>1. e \in Event /\ EventOK(e)
      BY EventSets DEF PurchaseInv, EventsInv
    <2>2. e.order \in Checkouts /\ n \in Nat /\ n <= back[e.order] /\ purchase[p].order = e.order
      BY <2>1, EventShapes DEF RefundConfirms, EventOK
    <2>3. back[e.order] \in Nat /\ back[e.order] <= paid[e.order] /\ paid[e.order] = Price /\ Price \in Nat
      BY <1>1, <2>2, ConstantTypes, PurchaseFacts, EventSets DEF WebOK, PurchaseInv, EventsInv
    <2>4. QED BY <2>2, <2>3
  <1>4. before \in Nat /\ used[p] = PaidAmount - before /\ used[p] \in Nat
    <2>1. NothingLedgered(p)
      BY <1>2 DEF NothingLedgered, PurchaseInv, OneActive, Active
    <2>2. TakenBack(p) = taken[p]
      BY <1>1, <2>1, TakenBackFacts
    <2>3. used[p] + recovered[p] + refund[r].credits = PaidAmount /\ recovered[p] = taken[p]
      BY <1>1, <1>2 DEF LockOK
    <2>4. QED BY <1>1, <2>2, <2>3, PurchaseFacts
  <1>5. RefundCompletes(r, p, share, n)
    BY DEF RefundConfirms, RefundCompletes, providerVars
  <1> HIDE DEF n, before
  <1>6. share \in Nat /\ share <= used[p]
    <2>1. /\ Share(p, n, before) \in Nat
          /\ Share(p, n, before) <= NotBelowZero(PaidAmount - before)
      BY <1>1, <1>3, <1>4, ShareBounded
    <2>2. QED BY <1>4, <2>1 DEF NotBelowZero
  <1> HIDE DEF share
  <1>7. /\ RefundsInv' /\ OneActive' /\ LocksInv' /\ RowsInv' /\ CallsInv' /\ EventsInv' /\ CreditTypeOK'
        /\ purchase' \in [Purchases -> Purchase] /\ taken' \in [Purchases -> Nat]
        /\ ledgered' \subseteq Refunds
    BY <1>2, <1>3, <1>5, <1>6, RefundCompletesKeeps
  <1>8. processed' \subseteq sent' /\ failed' \subseteq sent' \ processed' /\ sent' \subseteq Event
    BY EventHandled DEF RefundConfirms, providerVars
  <1>9. PurchaseTypeOK'
    BY <1>7, <1>8 DEF RefundConfirms, providerVars, PurchaseInv, PurchaseTypeOK
  <1>10. QED BY <1>7, <1>9 DEF PurchaseInv

\* The refund of a purchase that has none in progress locks what is left of it.
LEMMA RequestRefundStep ==
  ASSUME PurchaseInv, NEW r \in Refunds, NEW p \in WebPurchases, RequestRefund(r, p)
  PROVE  PurchaseInv'
  <1>1. /\ p \in Purchases /\ p \notin StorePurchases
        /\ RefundOK(r) /\ refund \in [Refunds -> Refund] /\ CreditTypeOK /\ refund[r] = NoRefund
    BY RefundFacts DEF WebPurchases, RequestRefund
  <1>2. PurchaseCredits(p)
    BY <1>1, TypesGiveFacts DEF CreditFacts
  <1>3. purchase[p].status = "completed" /\ Locked(p) = 0 /\ 2 * Unrecovered(p) >= PaidAmount
    BY DEF RequestRefund, Refundable
  <1>4. /\ refundCall[r] = "idle" /\ psp[r] = "none" /\ r \notin ledgered /\ ~Active(r)
        /\ refund[r].purchase = NoPurchase /\ NoPurchase # p
    BY <1>1, ConstantTypes DEF RefundOK, NoRefund, Active, Locking
  <1>5. ASSUME NEW s \in RefundsOf(p) PROVE ~Active(s)
    <2>1. s \in Refunds /\ refund[s].purchase = p /\ LedgerOK(s, p) /\ RefundOK(s) /\ refund[s].credits \in Nat
      BY <1>1, RefundFacts DEF RefundsOf, Refund
    <2>2. s \notin ledgered
      BY <1>3, <2>1 DEF LedgerOK
    <2>3. refund[s].status \notin Locking
      <3>1. ASSUME refund[s].status \in Locking PROVE FALSE
        <4>1. refund[s].credits <= Locked(p)
          BY <1>1, <2>1, <3>1, LockedAtLeast DEF Having
        <4>2. refund[s].credits > 0
          BY <2>1, <3>1 DEF RefundOK, Locking
        <4>3. QED BY <1>3, <2>1, <4>1, <4>2
      <3>2. QED BY <3>1
    <2>4. QED BY <2>2, <2>3 DEF Active
  <1>6. NothingLedgered(p)
    BY <1>5 DEF NothingLedgered, Active, RefundsOf
  <1>7. /\ Unrecovered(p) \in Nat /\ Unrecovered(p) > 0
        /\ used[p] + recovered[p] + Unrecovered(p) = PaidAmount /\ recovered[p] = taken[p]
    <2>1. Unrecovered(p) = NotBelowZero(PaidAmount - used[p] - recovered[p])
      BY <1>2 DEF PurchaseCredits
    <2>2. /\ used[p] \in Nat /\ recovered[p] \in Nat /\ PaidAmount \in Nat /\ PaidAmount > 0
          /\ recovered[p] = taken[p]
      BY <1>1, <1>6, PurchaseFacts DEF CreditsOK
    <2>3. QED BY <1>3, <2>1, <2>2 DEF NotBelowZero
  <1> DEFINE money == Gross(p) - Fee(p)
             credits == Unrecovered(p)
  <1>8. money \in Nat
    BY <1>1, <1>7, RefundMoney
  <1>9. credits \in Nat /\ credits > 0 /\ used[p] + recovered[p] + credits = PaidAmount
    BY <1>7
  <1> DEFINE new == [status |-> "payment_processing", purchase |-> p, credits |-> credits, money |-> money]
  <1>10. refund' = [refund EXCEPT ![r] = new]
    BY DEF RequestRefund
  <1> HIDE DEF money, credits
  <1>11. new \in Refund
    BY <1>1, <1>8, <1>9 DEF Refund, Locking
  <1>12. /\ refund' \in [Refunds -> Refund] /\ refund'[r].status = "payment_processing"
         /\ refund'[r].purchase = p /\ refund'[r].credits = credits
         /\ \A s \in Refunds \ {r} : refund'[s] = refund[s]
    BY <1>1, <1>10, <1>11
  <1> HIDE DEF new
  <1>13. UNCHANGED <<granted, expired, used, recovered, reservation, purchase, taken, ledgered, call, psp,
                     paid, back, sent>>
    BY DEF RequestRefund, providerVars
  <1>14. /\ refundCall' \in [Refunds -> {"idle", "asking", "pending", "succeeded", "failed", "finishing"}]
         /\ refundCall'[r] = "asking" /\ \A s \in Refunds \ {r} : refundCall'[s] = refundCall[s]
    BY RefundFacts DEF RequestRefund
  <1>15. OnlyOf(p)
    <2>1. OrdersGoOn
      BY <1>13, EventSets DEF OrdersGoOn
    <2>2. \A s \in Refunds : refund'[s].purchase = p \/ refund'[s].purchase = refund[s].purchase
      BY <1>12
    <2>3. \A s \in Refunds : refund[s].purchase \in Purchases => refund'[s].purchase = refund[s].purchase
      BY <1>4, <1>12, ConstantTypes
    <2>4. \A s \in Refunds : refund'[s].purchase # p => s # r
      BY <1>12
    <2>5. QED BY <1>12, <1>13, <1>14, <2>1, <2>2, <2>3, <2>4 DEF OnlyOf
  <1>16. OfPurchase(p)'
    <2>1. RefundsOf(p)' = RefundsOf(p) \cup {r} /\ r \notin RefundsOf(p)
      BY <1>4, <1>12 DEF RefundsOf
    <2>2. purchase[p].order # NoCheckout
      BY <1>1, <1>3, PurchaseFacts DEF WebOK, Open
    <2>3. NothingLedgered(p)'
      BY <1>4, <1>6, <1>12, <1>13 DEF NothingLedgered
    <2>4. RowOK(p)' /\ WebOK(p)'
      BY <1>1, <1>13, PurchaseFacts DEF RowOK, WebOK
    <2>5. CreditsOK(p)'
      BY <1>1, <1>3, <1>6, <1>7, <1>9, <1>13, <2>3, PurchaseFacts DEF CreditsOK
    <2>6. ASSUME NEW s \in RefundsOf(p) PROVE RefundOK(s)' /\ LockOK(s, p)' /\ LedgerOK(s, p)'
      <3>1. s \in Refunds \ {r} /\ RefundOK(s) /\ ~Active(s)
        BY <1>5, <2>1, RefundFacts DEF RefundsOf
      <3>2. refund'[s] = refund[s] /\ refundCall'[s] = refundCall[s]
        BY <1>12, <1>14, <3>1
      <3>3. QED BY <1>13, <3>1, <3>2 DEF RefundOK, LockOK, LedgerOK, Active
    <2>7. RefundOK(r)'
      BY <1>4, <1>9, <1>12, <1>13, <1>14, <2>2 DEF RefundOK, Active, Locking
    <2>8. LockOK(r, p)' /\ LedgerOK(r, p)'
      BY <1>4, <1>7, <1>9, <1>12, <1>13 DEF LockOK, LedgerOK
    <2>9. \A s, t \in RefundsOf(p)' : Active(s)' /\ Active(t)' => s = t
      <3>1. \A s \in RefundsOf(p) : ~Active(s)'
        BY <1>5, <1>12, <1>13, <2>1 DEF RefundsOf, Active
      <3>2. QED BY <2>1, <3>1
    <2>10. QED BY <1>1, <2>1, <2>4, <2>5, <2>6, <2>7, <2>8, <2>9 DEF OfPurchase
  <1>17. RefundsInv' /\ OneActive' /\ LocksInv' /\ RowsInv'
    BY <1>1, <1>13, <1>15, <1>16, EventSets, OnePurchaseAtATime
  <1>18. CallsInv' /\ EventsInv'
    BY <1>13, CallsStay, EventsStay DEF StillThere
  <1>19. CreditTypeOK'
    BY <1>1, <1>12, <1>13 DEF CreditTypeOK
  <1>20. PurchaseTypeOK'
    BY <1>14, <1>19 DEF RequestRefund, providerVars, PurchaseInv, PurchaseTypeOK
  <1>21. QED BY <1>17, <1>18, <1>20 DEF PurchaseInv


-----------------------------------------------------------------------------
(***************************************************************************)
(* The invariant, and what follows from it                                 *)
(***************************************************************************)

\* Every part survives a step in which nothing happens to it.
LEMMA StutterHolds ==
  ASSUME PurchaseInv, UNCHANGED vars
  PROVE  PurchaseInv'
  <1>1. UNCHANGED moneyVars /\ UNCHANGED <<creditVars, call, opened, shown, stops>>
        /\ UNCHANGED <<sent, processed, failed, verified, revoked>>
    BY DEF vars, creditVars, serviceVars, providerVars, moneyVars
  <1>2. QED BY <1>1, EventSets, OnlyEventsStep

LEMMA CreditStepHolds ==
  ASSUME PurchaseInv, CreditStep, UNCHANGED otherVars
  PROVE  PurchaseInv'
  BY GrantFreeStep, FreeExpiresStep, ReserveStep, CaptureStep, SpendStep DEF CreditStep

LEMMA CheckoutStepHolds ==
  ASSUME PurchaseInv, NEW k \in Calls, CheckoutStep(k)
  PROVE  PurchaseInv'
  BY CreateCheckoutStep, ClaimCheckoutStep, FindCheckoutStep, CheckoutRefusedStep, OpenCheckoutStep,
     SaveCheckoutStep, CheckoutDiesStep DEF CheckoutStep

LEMMA EventStepHolds ==
  ASSUME PurchaseInv, NEW e \in sent, EventStep(e)
  PROVE  PurchaseInv'
  BY PaymentGrantsStep, NoNewsStep, RefundAppliesStep, RefundConfirmsStep, ForceReversalStep DEF EventStep

LEMMA RefundStepHolds ==
  ASSUME PurchaseInv, NEW r \in Refunds, RefundStep(r)
  PROVE  PurchaseInv'
  BY RequestRefundStep, CompleteRefundStep, RefundCallStep, RecordAnswerStep DEF RefundStep

LEMMA ProviderStepHolds ==
  ASSUME PurchaseInv, ProviderStep
  PROVE  PurchaseInv'
  BY PayCheckoutStep, MerchantRefundStep, ProviderAnswersStep, ProviderRefundsStep, StoreRevokesStep
  DEF ProviderStep

\* The invariant is inductive.
LEMMA StepHolds == PurchaseInv /\ [Next]_vars => PurchaseInv'
  <1> SUFFICES ASSUME PurchaseInv, [Next]_vars PROVE PurchaseInv'
    OBVIOUS
  <1>1. CASE CreditStep /\ UNCHANGED otherVars
    BY <1>1, CreditStepHolds
  <1>2. CASE \E k \in Calls : CheckoutStep(k)
    BY <1>2, CheckoutStepHolds
  <1>3. CASE \E p \in WebPurchases : HalfMinutePasses(p) \/ \E c \in Checkouts : Reconcile(p, c)
    BY <1>3, HalfMinuteStep, ReconcileStep
  <1>4. CASE \E e \in sent : EventStep(e)
    BY <1>4, EventStepHolds
  <1>5. CASE \E r \in Refunds : RefundStep(r)
    BY <1>5, RefundStepHolds
  <1>6. CASE \E p \in StorePurchases : VerifyProof(p) \/ VerifyInApp(p)
    BY <1>6, VerifyProofStep, VerifyInAppStep
  <1>7. CASE ProviderStep
    BY <1>7, ProviderStepHolds
  <1>8. CASE UNCHANGED vars
    BY <1>8, StutterHolds
  <1>9. QED BY <1>1, <1>2, <1>3, <1>4, <1>5, <1>6, <1>7, <1>8 DEF Next, otherVars

\* Rows, calls, refunds, orders and events agree in every reachable state.
THEOREM PurchasesInvariant == Spec => []PurchaseInv
  BY InitHolds, StepHolds, PTL DEF Spec

\* The rows, the calls and the events have the shapes the code gives them.
THEOREM PurchasesTyped == Spec => []PurchaseTypeOK
  <1>1. PurchaseInv => PurchaseTypeOK
    BY DEF PurchaseInv
  <1>2. QED BY <1>1, PurchasesInvariant, PTL

\* The refunds of a purchase that lock its credits or have recovered them are
\* at most one.
LEMMA ActiveSum ==
  ASSUME PurchaseInv, NEW p \in Purchases, NEW S \in SUBSET {r \in RefundsOf(p) : Active(r)}
  PROVE  \/ S = {} /\ SumFunctionOnSet(CreditsOf, S) = 0
         \/ \E r \in RefundsOf(p) :
              Active(r) /\ S = {r} /\ SumFunctionOnSet(CreditsOf, S) = refund[r].credits
  <1>1. CASE S = {}
    BY <1>1, SumEmpty
  <1>2. CASE S # {}
    <2>1. PICK r \in S : TRUE
      BY <1>2
    <2>2. r \in RefundsOf(p) /\ Active(r) /\ r \in Refunds
      BY <2>1 DEF RefundsOf
    <2>3. S = {r}
      BY <2>1, <2>2 DEF PurchaseInv, OneActive, RefundsOf
    <2>4. CreditsOf[r] = refund[r].credits /\ CreditsOf[r] \in Nat
      <3>1. S \in SUBSET Refunds
        BY DEF RefundsOf
      <3>2. QED BY <2>1, <3>1, RefundSets DEF PurchaseInv, PurchaseTypeOK
    <2>5. SumFunctionOnSet(CreditsOf, {r}) = CreditsOf[r]
      BY <2>4, SumSingle
    <2>6. QED BY <2>2, <2>3, <2>4, <2>5
  <1>3. QED BY <1>1, <1>2

\* No credit of a purchase is both used and refunded to the user.
THEOREM UsedOrRefundedHolds == Spec => []UsedOrRefunded
  <1>1. ASSUME PurchaseInv PROVE UsedOrRefunded
    <2>1. ASSUME NEW p \in Purchases
          PROVE  used[p] + SumFunctionOnSet(CreditsOf,
                   {r \in RefundsOf(p) : r \in ledgered \/ refund[r].status \in Locking}) <= PaidAmount
      <3> DEFINE S == {r \in RefundsOf(p) : r \in ledgered \/ refund[r].status \in Locking}
      <3>1. S \in SUBSET {r \in RefundsOf(p) : Active(r)}
        BY DEF Active
      <3> HIDE DEF S
      <3>2. /\ used[p] \in Nat /\ recovered[p] \in Nat /\ PaidAmount \in Nat
            /\ used[p] <= PaidAmount
        BY PurchaseFacts, <1>1 DEF CreditsOK
      <3>3. CASE SumFunctionOnSet(CreditsOf, S) = 0
        BY <3>2, <3>3 DEF S
      <3>4. ASSUME NEW r \in RefundsOf(p), Active(r), SumFunctionOnSet(CreditsOf, S) = refund[r].credits
            PROVE  used[p] + SumFunctionOnSet(CreditsOf, S) <= PaidAmount
        <4>1. r \in Refunds /\ refund[r].purchase = p /\ LockOK(r, p) /\ LedgerOK(r, p)
              /\ refund[r].credits \in Nat
          BY <1>1, RefundFacts DEF RefundsOf, Refund
        <4>2. used[p] + refund[r].credits <= PaidAmount
          BY <3>2, <3>4, <4>1 DEF LockOK, LedgerOK, Active
        <4>3. QED BY <3>4, <4>2
      <3>5. QED BY <1>1, <3>1, <3>3, <3>4, ActiveSum DEF S
    <2>2. QED BY <2>1 DEF UsedOrRefunded
  <1>2. QED BY <1>1, PurchasesInvariant, PTL

\* Credits of a purchase are taken back once, whoever decides on the refund.
THEOREM RecoveredOnceHolds == Spec => []RecoveredOnce
  <1>1. ASSUME PurchaseInv PROVE RecoveredOnce
    <2>1. ASSUME NEW p \in Purchases, NoneReopened(p)
          PROVE  recovered[p] <= PaidAmount /\ recovered[p] = TakenBack(p)
      BY <1>1, <2>1, PurchaseFacts, TakenBackFacts DEF CreditsOK
    <2>2. QED BY <2>1 DEF RecoveredOnce, NoneReopened
  <1>2. QED BY <1>1, PurchasesInvariant, PTL

\* Credits come with the order that paid for them, and no more refunds are
\* booked than the provider has made.
THEOREM BooksFollow == Spec => []BooksFollowProvider
  <1>1. ASSUME PurchaseInv PROVE BooksFollowProvider
    <2>1. ASSUME NEW p \in WebPurchases
          PROVE  /\ Contains(granted, p) <=> purchase[p].order # NoCheckout
                 /\ purchase[p].order # NoCheckout => purchase[p].booked <= back[purchase[p].order]
      <3>1. p \in Purchases
        BY DEF WebPurchases
      <3>2. QED BY <1>1, <3>1, PurchaseFacts DEF RowOK, WebOK
    <2>2. QED BY <2>1 DEF BooksFollowProvider
  <1>2. QED BY <1>1, PurchasesInvariant, PTL

\* Nothing of a refunded or reversed purchase can be spent.
THEOREM NothingIsLeft == Spec => []NothingLeftAfterRefund
  <1>1. ASSUME PurchaseInv PROVE NothingLeftAfterRefund
    <2>1. ASSUME NEW p \in Purchases, purchase[p].status \in {"refunded", "reversed"}
          PROVE  Unrecovered(p) = 0
      <3>1. PurchaseCredits(p)
        BY <1>1, TypesGiveFacts, PurchaseFacts DEF CreditFacts
      <3>2. /\ used[p] + recovered[p] >= PaidAmount
            /\ used[p] \in Nat /\ recovered[p] \in Nat /\ PaidAmount \in Nat
        BY <1>1, <2>1, PurchaseFacts DEF CreditsOK
      <3>3. QED BY <3>1, <3>2 DEF PurchaseCredits, NotBelowZero
    <2>2. QED BY <2>1 DEF NothingLeftAfterRefund
  <1>2. QED BY <1>1, PurchasesInvariant, PTL


-----------------------------------------------------------------------------
(***************************************************************************)
(* Replies in progress stay covered                                        *)
(***************************************************************************)

NothingTaken == \A p \in Purchases : taken[p] = 0

\* All the credits that are left.
Total == SumFunctionOnSet(Left, Granted(Purchases)) + SumFunctionOnSet(Left, Granted(Free))

BalanceIsTotal ==
  /\ CreditFacts
  /\ PaidBalance >= 0 /\ PaidBalance \in Int
  /\ AvailableBalance = Total - ReplyPrice * Cardinality(Reserved)
  /\ Total \in Nat /\ IsFiniteSet(Reserved) /\ Cardinality(Reserved) \in Nat /\ ReplyPrice \in Nat

\* A user owes nothing unless the provider took something back on its own.
LEMMA NoDebts == PurchaseInv /\ NothingTaken => BalanceIsTotal
  <1> SUFFICES ASSUME PurchaseInv, NothingTaken PROVE BalanceIsTotal
    OBVIOUS
  <1>1. CreditTypeOK /\ CreditFacts
    BY TypesGiveFacts DEF PurchaseInv, PurchaseTypeOK
  <1>2. ASSUME NEW p \in Purchases PROVE Debts[p] = 0
    <2>1. PurchaseCredits(p)
      BY <1>1 DEF CreditFacts
    <2>2. /\ used[p] \in Nat /\ recovered[p] \in Nat /\ PaidAmount \in Nat /\ used[p] <= PaidAmount
          /\ taken[p] = 0
      BY PurchaseFacts DEF CreditsOK, NothingTaken
    <2>3. used[p] + recovered[p] <= PaidAmount
      <3>1. CASE NothingLedgered(p)
        BY <2>2, <3>1, PurchaseFacts DEF CreditsOK
      <3>2. CASE ~NothingLedgered(p)
        <4>1. PICK r \in Refunds : refund[r].purchase = p /\ r \in ledgered
          BY <3>2 DEF NothingLedgered
        <4>2. LedgerOK(r, p) /\ refund[r].credits \in Nat
          BY RefundFacts DEF Refund
        <4>3. QED BY <2>2, <4>1, <4>2 DEF LedgerOK
      <3>3. QED BY <3>1, <3>2
    <2>4. QED BY <2>1, <2>2, <2>3 DEF PurchaseCredits, NotBelowZero
  <1>3. /\ Granted(Free) \in SUBSET Grants
        /\ Granted(Purchases) \in SUBSET Purchases /\ IsFiniteSet(Granted(Purchases))
    BY GrantedSets DEF Grants
  <1> DEFINE debts == SumFunctionOnSet(Debts, Granted(Purchases))
             lefts == SumFunctionOnSet(Left, Granted(Purchases))
             price == ReplyPrice * Cardinality(Reserved)
  <1>4. debts = 0
    BY <1>2, <1>3, SumZero
  <1>5. FreeBalance \in Nat /\ lefts \in Nat
    BY <1>1, BalancesAreInt
  <1>6. IsFiniteSet(Reserved) /\ Cardinality(Reserved) \in Nat /\ ReplyPrice \in Nat
    <2>1. Reserved \in SUBSET Holds
      BY DEF Reserved
    <2>2. IsFiniteSet(Reserved)
      BY <2>1, LedgerIsFinite, FS_Subset
    <2>3. QED BY <2>2, AmountsAreNat, FS_CardinalityType
  <1>7. PaidBalance = lefts - debts
    BY DEF PaidBalance
  <1>8. Total = lefts + FreeBalance
    BY DEF Total, FreeBalance
  <1>9. AvailableBalance = IF PaidBalance < 0 THEN PaidBalance ELSE PaidBalance + FreeBalance - price
    BY DEF AvailableBalance
  <1>10. price \in Int
    BY <1>6
  <1>11. price = ReplyPrice * Cardinality(Reserved)
    OBVIOUS
  <1> HIDE DEF debts, lefts, price
  <1>12. PaidBalance = lefts
    BY <1>4, <1>5, <1>7
  <1>13. PaidBalance >= 0 /\ PaidBalance \in Int /\ AvailableBalance = Total - price /\ Total \in Nat
    BY <1>5, <1>8, <1>9, <1>10, <1>12
  <1>14. QED BY <1>1, <1>6, <1>11, <1>13 DEF BalanceIsTotal

\* More is left when grants are added and each grant has at least as much left.
LEMMA MoreLeft ==
  ASSUME CreditFacts, CreditFacts',
         \A g \in Grants : Contains(granted, g) => Contains(granted', g),
         \A g \in Grants : Left'[g] >= Left[g]
  PROVE  Total' >= Total
  <1>1. ASSUME NEW K \in SUBSET Grants
        PROVE  /\ SumFunctionOnSet(Left', Granted(K)') >= SumFunctionOnSet(Left, Granted(K))
               /\ SumFunctionOnSet(Left', Granted(K)') \in Int
               /\ SumFunctionOnSet(Left, Granted(K)) \in Int
    <2> DEFINE S == Granted(K)
               T == {g \in K : Contains(granted', g)}
    <2>1. T = Granted(K)' /\ S \in SUBSET T /\ S \in SUBSET Grants /\ T \in SUBSET Grants
      BY DEF Granted
    <2>2. IsFiniteSet(S) /\ IsFiniteSet(T)
      BY <2>1, LedgerIsFinite, FS_Subset DEF Grants
    <2>3. \A g \in Grants : Left[g] \in Nat
      BY LeftIsNat
    <2>4. \A g \in Grants : Left'[g] \in Nat
      BY DEF CreditFacts, PurchaseCredits, FreeCredits, Grants
    <2> HIDE DEF S, T
    <2> DEFINE left == Left'
    <2>5. \A g \in T : left[g] \in Nat
      BY <2>1, <2>4
    <2>6. \A g \in S : Left[g] \in Int /\ left[g] \in Int /\ Left[g] <= left[g]
      BY <2>1, <2>3, <2>4
    <2>7. Left' = left
      OBVIOUS
    <2> HIDE DEF left
    <2>8. SumFunctionOnSet(Left, S) <= SumFunctionOnSet(left, S)
      BY <2>2, <2>6, SumLeq
    <2>9. SumFunctionOnSet(left, S) <= SumFunctionOnSet(left, T)
      BY <2>1, <2>2, <2>5, SumGrows
    <2>10. SumFunctionOnSet(Left, S) \in Int /\ SumFunctionOnSet(left, S) \in Int
           /\ SumFunctionOnSet(left, T) \in Int
      BY <2>1, <2>2, <2>5, <2>6, SumInt
    <2>11. SumFunctionOnSet(left, T) >= SumFunctionOnSet(Left, S)
      BY <2>8, <2>9, <2>10
    <2>12. QED BY <2>1, <2>7, <2>10, <2>11 DEF S
  <1>2. Free \in SUBSET Grants /\ Purchases \in SUBSET Grants
    BY DEF Grants
  <1>3. QED BY <1>1, <1>2 DEF Total


\* A charge that is covered leaves that much less.
LEMMA LessLeft ==
  ASSUME CreditFacts, CreditFacts', UNCHANGED granted, NEW n \in Nat, Covered(n),
         \A g \in Grants : Left'[g] = Left[g] - Charge(n)[g]
  PROVE  Total' = Total - n
  <1>1. ASSUME NEW K \in SUBSET Grants
        PROVE  /\ SumFunctionOnSet(Left', Granted(K)')
                    = SumFunctionOnSet(Left, Granted(K)) - SumFunctionOnSet(Charge(n), Granted(K))
               /\ SumFunctionOnSet(Left, Granted(K)) \in Int
               /\ SumFunctionOnSet(Charge(n), Granted(K)) \in Int
    <2> DEFINE S == Granted(K)
               left == Left'
               charge == Charge(n)
    <2>1. S = Granted(K)' /\ S \in SUBSET Grants
      BY DEF Granted
    <2>2. IsFiniteSet(S)
      BY <2>1, LedgerIsFinite, FS_Subset DEF Grants
    <2>3. \A g \in Grants : Left[g] \in Nat
      BY LeftIsNat
    <2>4. \A g \in Grants : charge[g] \in Int
      <3>1. ASSUME NEW g \in Grants PROVE charge[g] \in Int
        <4>1. Charge(n)[g] \in 0..Available(g)
          BY ChargeBounded
        <4>2. QED BY <4>1
      <3>2. QED BY <3>1
    <2>5. \A g \in Grants : left[g] = Left[g] - charge[g]
      OBVIOUS
    <2>6. Left' = left
      OBVIOUS
    <2>7. charge = Charge(n)
      OBVIOUS
    <2> HIDE DEF left, charge, S
    <2>8. \A g \in S : Left[g] \in Int /\ charge[g] \in Int /\ left[g] = Left[g] - charge[g]
      BY <2>1, <2>3, <2>4, <2>5
    <2>9. SumFunctionOnSet(left, S) = SumFunctionOnSet(Left, S) - SumFunctionOnSet(charge, S)
      BY <2>2, <2>8, SumMinus
    <2>10. SumFunctionOnSet(Left, S) \in Int /\ SumFunctionOnSet(charge, S) \in Int
      BY <2>2, <2>8, SumInt
    <2>11. QED BY <2>1, <2>6, <2>7, <2>9, <2>10 DEF S
  <1>2. Free \in SUBSET Grants /\ Purchases \in SUBSET Grants
    BY DEF Grants
  <1>3. SumFunctionOnSet(Charge(n), Granted(Free)) + SumFunctionOnSet(Charge(n), Granted(Purchases)) = n
    BY DEF Covered
  <1>4. QED BY <1>1, <1>2, <1>3 DEF Total

\* What a grant gives to a charge it has no longer.
LEMMA LeftAfterCharge ==
  ASSUME CreditTypeOK, CreditTypeOK', NEW n \in Nat, ChargeGrants(n),
         UNCHANGED <<expired, recovered, refund>>, expired = {}, NEW g \in Grants
  PROVE  Left'[g] = Left[g] - Charge(n)[g]
  <1>1. CreditFacts /\ (CreditTypeOK => CreditFacts)'
    BY TypesGiveFacts, PTL
  <1>2. CreditFacts'
    BY <1>1
  <1> DEFINE charge == Charge(n)[g]
  <1>3. used'[g] = used[g] + charge
    BY DEF ChargeGrants
  <1>4. charge \in 0..Available(g)
    BY <1>1, ChargeBounded
  <1>5. used[g] \in Nat /\ FreeAmount \in Nat /\ PaidAmount \in Nat
    BY AmountsAreNat DEF CreditTypeOK
  <1> HIDE DEF charge
  <1>6. CASE g \in Free
    <2>1. /\ Left[g] = Available(g) /\ Available(g) = Unused(g) /\ Unused(g) \in Nat
          /\ Left'[g] = Unused(g)'
      BY <1>1, <1>2, <1>6 DEF CreditFacts, FreeCredits
    <2>2. Unused(g) = Max({0, FreeAmount - used[g]}) /\ Unused(g)' = Max({0, FreeAmount - used'[g]})
      BY <1>6 DEF Unused, Amount
    <2>3. FreeAmount - used[g] \in Int /\ FreeAmount - used'[g] \in Int /\ charge \in Nat
      BY <1>3, <1>4, <1>5, <2>1
    <2>4. Unused(g) = NotBelowZero(FreeAmount - used[g]) /\ Unused(g)' = NotBelowZero(FreeAmount - used'[g])
      BY <2>2, <2>3, MaxOfZero
    <2>5. Left'[g] = Left[g] - charge
      BY <1>3, <1>4, <1>5, <2>1, <2>3, <2>4 DEF NotBelowZero
    <2>6. QED BY <2>5 DEF charge
  <1>7. CASE g \notin Free
    <2>1. g \in Purchases
      BY <1>7 DEF Grants
    <2>2. PurchaseCredits(g) /\ PurchaseCredits(g)'
      BY <1>1, <1>2, <2>1 DEF CreditFacts
    <2>3. Locked(g)' = Locked(g) /\ recovered'[g] = recovered[g]
      BY DEF Locked, CreditsOf
    <2> DEFINE lock == Locked(g)
               rest == PaidAmount - used[g] - recovered[g] - lock
    <2>4. lock \in Nat /\ recovered[g] \in Nat
      BY <2>1, <2>2 DEF PurchaseCredits, CreditTypeOK
    <2>5. /\ Left[g] = Available(g) /\ Available(g) = NotBelowZero(PaidAmount - used[g] - recovered[g] - lock)
          /\ Left'[g] = NotBelowZero(PaidAmount - used'[g] - recovered[g] - lock) /\ Available(g) \in Nat
      BY <2>2, <2>3 DEF PurchaseCredits
    <2> HIDE DEF lock
    <2>6. Left'[g] = Left[g] - charge
      BY <1>3, <1>4, <1>5, <2>4, <2>5 DEF NotBelowZero
    <2>7. QED BY <2>6 DEF charge
  <1>8. QED BY <1>6, <1>7

\* A step that takes nothing but what nobody has any more.
Quiet ==
  /\ UNCHANGED <<used, expired, reservation>>
  /\ \A g \in Grants : Contains(granted, g) => Contains(granted', g)
  /\ \A p \in Purchases : taken'[p] >= taken[p]
  /\ \A p \in Purchases : taken'[p] = taken[p] =>
       Available(p) = 0 \/ (recovered'[p] = recovered[p] /\ Locked(p)' = Locked(p))

\* Nothing was taken before if nothing is taken after.
LEMMA TakenBefore ==
  ASSUME PurchaseInv, NothingTaken', \A p \in Purchases : taken'[p] >= taken[p]
  PROVE  NothingTaken
  <1>1. ASSUME NEW p \in Purchases PROVE taken[p] = 0
    <2>1. taken[p] \in Nat /\ taken'[p] = 0 /\ taken'[p] >= taken[p]
      BY PurchaseFacts DEF NothingTaken
    <2>2. QED BY <2>1
  <1>2. QED BY <1>1 DEF NothingTaken

HoldsAre == (expired = {} /\ NothingTaken) => AvailableBalance >= 0

\* A quiet step leaves the balance where it is, or higher.
LEMMA QuietCovers ==
  ASSUME PurchaseInv, PurchaseInv', HoldsAre, Quiet
  PROVE  HoldsAre'
  <1> SUFFICES ASSUME expired' = {}, NothingTaken' PROVE AvailableBalance' >= 0
    BY DEF HoldsAre
  <1>1. expired = {} /\ NothingTaken
    BY TakenBefore DEF Quiet
  <1>2. AvailableBalance >= 0 /\ BalanceIsTotal
    BY <1>1, NoDebts DEF HoldsAre
  <1>3. (PurchaseInv /\ NothingTaken => BalanceIsTotal)'
    BY NoDebts, PTL
  <1>4. BalanceIsTotal'
    BY <1>3
  <1>5. ASSUME NEW g \in Grants PROVE Left'[g] >= Left[g]
    <2>1. CASE g \in Free
      <3>1. Left[g] = Unused(g) /\ Left'[g] = Unused(g)' /\ Left[g] \in Nat
        BY <1>2, <1>4, <2>1 DEF BalanceIsTotal, CreditFacts, FreeCredits
      <3>2. Unused(g)' = Unused(g)
        BY DEF Quiet, Unused
      <3>3. QED BY <3>1, <3>2
    <2>2. CASE g \notin Free
      <3>1. g \in Purchases /\ taken'[g] = taken[g]
        BY <1>1, <2>2 DEF Grants, NothingTaken
      <3>2. PurchaseCredits(g) /\ PurchaseCredits(g)'
        BY <1>2, <1>4, <3>1 DEF BalanceIsTotal, CreditFacts
      <3>3. Left[g] = Available(g) /\ Left'[g] = Available(g)' /\ Available(g) \in Nat /\ Available(g)' \in Nat
        BY <3>2 DEF PurchaseCredits
      <3>4. CASE Available(g) = 0
        BY <3>3, <3>4
      <3>5. CASE recovered'[g] = recovered[g] /\ Locked(g)' = Locked(g)
        <4>1. Available(g)' = Available(g)
          BY <3>2, <3>5 DEF PurchaseCredits, Quiet
        <4>2. QED BY <3>3, <4>1
      <3>6. QED BY <3>1, <3>4, <3>5 DEF Quiet
    <2>3. QED BY <2>1, <2>2
  <1>6. Total' >= Total
    BY <1>2, <1>4, <1>5, MoreLeft DEF BalanceIsTotal, Quiet
  <1>7. Reserved' = Reserved
    BY DEF Reserved, Quiet
  <1> DEFINE price == ReplyPrice * Cardinality(Reserved)
  <1>8. AvailableBalance' = Total' - price /\ AvailableBalance = Total - price /\ Total \in Nat /\ Total' \in Nat
    BY <1>2, <1>4, <1>7 DEF BalanceIsTotal
  <1>9. price \in Int
    BY <1>2 DEF BalanceIsTotal
  <1> HIDE DEF price
  <1>10. Total - price >= 0
    BY <1>2, <1>8
  <1>11. Total' - price >= 0
    <2>1. \A m, n, c \in Int : m - c >= 0 /\ n >= m => n - c >= 0
      OBVIOUS
    <2>2. Total' \in Int /\ Total \in Int
      BY <1>8
    <2>3. QED BY <1>6, <1>9, <1>10, <2>1, <2>2
  <1>12. QED BY <1>8, <1>11


LEMMA LockedStays ==
  ASSUME UNCHANGED refund, NEW p
  PROVE  Locked(p)' = Locked(p)
  BY DEF Locked, CreditsOf

\* A step that leaves the credits alone is quiet.
LEMMA CreditsStayQuiet ==
  ASSUME PurchaseInv, UNCHANGED <<expired, used, recovered, refund, reservation, taken>>,
         \A g \in Grants : Contains(granted, g) => Contains(granted', g)
  PROVE  Quiet
  <1>1. \A p \in Purchases : Locked(p)' = Locked(p)
    BY LockedStays
  <1>2. \A p \in Purchases : taken[p] \in Nat
    BY PurchaseFacts
  <1>3. QED BY <1>1, <1>2 DEF Quiet

\* A call of createCheckout touches neither credits nor refunds, and nothing the
\* provider does touches what the service stores.
LEMMA CheckoutFrame ==
  ASSUME NEW k \in Calls, CheckoutStep(k)
  PROVE  UNCHANGED creditVars /\ UNCHANGED taken
  <1>1. CASE CheckoutDies(k)
    BY <1>1 DEF CheckoutDies
  <1>2. ASSUME NEW p \in WebPurchases,
               CreateCheckout(k, p) \/ ClaimCheckout(k, p) \/ FindCheckout(k, p)
        PROVE  UNCHANGED creditVars /\ UNCHANGED taken
    BY <1>2 DEF CreateCheckout, ClaimCheckout, FindCheckout
  <1>3. ASSUME NEW p \in WebPurchases, CheckoutRefused(k, p) \/ SaveCheckout(k, p)
        PROVE  UNCHANGED creditVars /\ UNCHANGED taken
    BY <1>3 DEF CheckoutRefused, SaveCheckout
  <1>4. ASSUME NEW p \in WebPurchases, NEW c \in Checkouts, OpenCheckout(k, p, c)
        PROVE  UNCHANGED creditVars /\ UNCHANGED taken
    BY <1>4 DEF OpenCheckout
  <1>5. QED BY <1>1, <1>2, <1>3, <1>4 DEF CheckoutStep

LEMMA ProviderFrame ==
  ASSUME ProviderStep
  PROVE  UNCHANGED creditVars /\ UNCHANGED serviceVars
  <1>1. ASSUME NEW c \in Checkouts, NEW n, PayCheckout(c, n) \/ MerchantRefund(c, n)
        PROVE  UNCHANGED creditVars /\ UNCHANGED serviceVars
    BY <1>1 DEF PayCheckout, MerchantRefund
  <1>2. ASSUME NEW r \in Refunds, ProviderTakesRefund(r) \/ ProviderRefunds(r) \/ ProviderRefuses(r)
        PROVE  UNCHANGED creditVars /\ UNCHANGED serviceVars
    BY <1>2 DEF ProviderTakesRefund, ProviderRefunds, ProviderRefuses
  <1>3. ASSUME NEW p \in StorePurchases, StoreRevokes(p)
        PROVE  UNCHANGED creditVars /\ UNCHANGED serviceVars
    BY <1>3 DEF StoreRevokes
  <1>4. QED BY <1>1, <1>2, <1>3 DEF ProviderStep

LEMMA ReconcileFrame ==
  ASSUME NEW p \in WebPurchases,
         HalfMinutePasses(p) \/ \E c \in Checkouts : Reconcile(p, c)
  PROVE  UNCHANGED creditVars /\ UNCHANGED taken
  <1>1. CASE HalfMinutePasses(p)
    BY <1>1 DEF HalfMinutePasses
  <1>2. ASSUME NEW c \in Checkouts, Reconcile(p, c)
        PROVE  UNCHANGED creditVars /\ UNCHANGED taken
    BY <1>2 DEF Reconcile, serviceVars
  <1>3. QED BY <1>1, <1>2

LEMMA CheckoutsAreQuiet ==
  ASSUME PurchaseInv,
         \/ \E k \in Calls : CheckoutStep(k)
         \/ \E p \in WebPurchases : HalfMinutePasses(p) \/ \E c \in Checkouts : Reconcile(p, c)
         \/ \E p \in StorePurchases : VerifyProof(p)
         \/ ProviderStep
  PROVE  Quiet
  <1>1. UNCHANGED creditVars /\ UNCHANGED taken
    <2>1. ASSUME NEW p \in StorePurchases, VerifyProof(p)
          PROVE  UNCHANGED creditVars /\ UNCHANGED taken
      BY <2>1 DEF VerifyProof, serviceVars
    <2>2. ProviderStep => UNCHANGED creditVars /\ UNCHANGED taken
      BY ProviderFrame DEF serviceVars
    <2>3. QED BY <2>1, <2>2, CheckoutFrame, ReconcileFrame
  <1>2. QED BY <1>1, CreditsStayQuiet DEF creditVars

LEMMA GrantsAreQuiet ==
  ASSUME PurchaseInv, NEW g \in Grants, Grant(g), UNCHANGED <<expired, used, recovered, refund, reservation, taken>>
  PROVE  Quiet
  <1>1. CreditTypeOK
    BY DEF PurchaseInv, PurchaseTypeOK
  <1>2. \A f \in Grants : Contains(granted, f) => Contains(granted', f)
    BY <1>1, ContainsAfterGrant
  <1>3. QED BY <1>2, CreditsStayQuiet

LEMMA VerifyInAppIsQuiet ==
  ASSUME PurchaseInv, NEW p \in StorePurchases, VerifyInApp(p)
  PROVE  Quiet
  <1>1. CASE FirstProof(p)
    BY <1>1, ConstantTypes, GrantsAreQuiet DEF VerifyInApp, Grants
  <1>2. CASE ~FirstProof(p)
    BY <1>2, CreditsStayQuiet DEF VerifyInApp
  <1>3. QED BY <1>1, <1>2

\* What a refund that is under way takes was locked already.
LEMMA UnderWayIsQuiet ==
  ASSUME PurchaseInv, NEW r \in Refunds, NEW p \in Purchases, refund[r].purchase = p, Active(r),
         UNCHANGED <<granted, used, expired, reservation>>,
         refund' \in [Refunds -> Refund],
         \A s \in Refunds : refund'[s].purchase = refund[s].purchase /\ refund'[s].credits = refund[s].credits,
         \A s \in Refunds \ {r} : refund'[s] = refund[s],
         \A q \in Purchases \ {p} : recovered'[q] = recovered[q],
         \A q \in Purchases : taken'[q] >= taken[q]
  PROVE  Quiet
  <1>1. Available(p) = 0
    <2>1. CreditFacts
      BY TypesGiveFacts DEF PurchaseInv, PurchaseTypeOK
    <2>2. r \in RefundsOf(p)
      BY DEF RefundsOf
    <2>3. QED BY <2>1, <2>2, NothingLeft
  <1>2. ASSUME NEW q \in Purchases \ {p} PROVE Locked(q)' = Locked(q)
    <2>1. CreditsOf' = CreditsOf
      BY DEF CreditsOf
    <2>2. {s \in Refunds : refund'[s].purchase = q /\ refund'[s].status \in Locking}
            = {s \in Refunds : refund[s].purchase = q /\ refund[s].status \in Locking}
      OBVIOUS
    <2>3. QED BY <2>1, <2>2 DEF Locked
  <1>3. QED BY <1>1, <1>2 DEF Quiet

LEMMA RecordIsQuiet ==
  ASSUME PurchaseInv, NEW r \in Refunds, RecordAnswer(r)
  PROVE  Quiet
  <1>1. refund \in [Refunds -> Refund] /\ RefundOK(r) /\ CreditTypeOK
    BY RefundFacts
  <1>2. Active(r) /\ refund[r].purchase \in Purchases
    BY <1>1, AskedFor DEF RecordAnswer, RefundOK
  <1> DEFINE status == RefundStatus(refundCall[r])
  <1>3. refund' = [refund EXCEPT ![r].status = status] /\ status \in {"payment_processing", "payment_succeeded", "failed"}
    BY DEF RecordAnswer, RefundStatus
  <1> HIDE DEF status
  <1>4. /\ refund' \in [Refunds -> Refund]
        /\ \A s \in Refunds : refund'[s].purchase = refund[s].purchase /\ refund'[s].credits = refund[s].credits
        /\ \A s \in Refunds \ {r} : refund'[s] = refund[s]
    BY <1>1, <1>3 DEF Refund, Locking
  <1>5. \A q \in Purchases : taken'[q] >= taken[q]
    BY PurchaseFacts DEF RecordAnswer
  <1>6. QED BY <1>2, <1>4, <1>5, UnderWayIsQuiet DEF RecordAnswer

\* What a refund recovers was locked already.
LEMMA CompletionIsQuiet ==
  ASSUME PurchaseInv, NEW r \in Refunds, NEW p \in Purchases, refund[r].purchase = p, Active(r),
         UNCHANGED <<granted, used, expired, reservation>>,
         refund' = [refund EXCEPT ![r].status = "completed"],
         NEW n \in Nat, recovered' = [recovered EXCEPT ![p] = n],
         \A q \in Purchases : taken'[q] >= taken[q]
  PROVE  Quiet
  <1>1. refund \in [Refunds -> Refund]
    BY RefundFacts
  <1>2. /\ refund' \in [Refunds -> Refund]
        /\ \A s \in Refunds : refund'[s].purchase = refund[s].purchase /\ refund'[s].credits = refund[s].credits
        /\ \A s \in Refunds \ {r} : refund'[s] = refund[s]
    BY <1>1 DEF Refund
  <1>3. \A q \in Purchases \ {p} : recovered'[q] = recovered[q]
    BY PurchaseFacts
  <1>4. QED BY <1>2, <1>3, UnderWayIsQuiet

\* An increase of what was taken.
LEMMA TakenGrows ==
  ASSUME PurchaseInv, NEW p \in Purchases, NEW n \in Nat, taken' = [taken EXCEPT ![p] = taken[p] + n]
  PROVE  \A q \in Purchases : taken'[q] >= taken[q]
  <1>1. \A q \in Purchases : taken[q] \in Nat /\ taken \in [Purchases -> Nat]
    BY PurchaseFacts
  <1>2. ASSUME NEW q \in Purchases PROVE taken'[q] >= taken[q]
    BY <1>1
  <1>3. QED BY <1>2

LEMMA ShareIsNat ==
  ASSUME NEW p \in Purchases, NEW n \in Nat, NEW before \in Nat
  PROVE  Share(p, n, before) \in Nat
  <1> DEFINE share == (PaidAmount * n) \div Price
  <1>1. share \in Nat
    BY ConstantTypes
  <1>2. Share(p, n, before) = Max({0, share - before})
    BY DEF Share
  <1> HIDE DEF share
  <1>3. QED BY <1>1, <1>2, MaxOfZero DEF NotBelowZero

LEMMA RefundEventAmount ==
  ASSUME PurchaseInv, NEW e \in sent, e.type = "refunded"
  PROVE  e.amount \in Nat
  BY EventSets, EventShapes

\* What a refund by the merchant takes back counts as taken.
LEMMA RefundAppliesIsQuiet ==
  ASSUME PurchaseInv, NEW e \in sent, NEW p \in WebPurchases, RefundApplies(e, p)
  PROVE  Quiet
  <1>1. p \in Purchases
    BY DEF WebPurchases
  <1>2. UNCHANGED <<granted, used, expired, reservation, refund>>
    BY DEF RefundApplies
  <1> DEFINE share == Share(p, e.amount, TakenBack(p))
  <1>3. share \in Nat
    BY <1>1, RefundEventAmount, TakenBackFacts, ShareIsNat DEF RefundApplies
  <1>4. \/ UNCHANGED <<recovered, taken>>
        \/ /\ recovered' = [recovered EXCEPT ![p] = recovered[p] + share]
           /\ taken' = [taken EXCEPT ![p] = taken[p] + share]
    BY DEF RefundApplies
  <1> HIDE DEF share
  <1>5. CASE UNCHANGED <<recovered, taken>>
    BY <1>2, <1>5, CreditsStayQuiet
  <1>6. CASE /\ recovered' = [recovered EXCEPT ![p] = recovered[p] + share]
             /\ taken' = [taken EXCEPT ![p] = taken[p] + share]
    <2>1. \A q \in Purchases : taken'[q] >= taken[q]
      BY <1>1, <1>3, <1>6, TakenGrows
    <2>2. \A q \in Purchases : Locked(q)' = Locked(q)
      BY <1>2, LockedStays
    <2>3. ASSUME NEW q \in Purchases, taken'[q] = taken[q] PROVE recovered'[q] = recovered[q]
      <3>1. recovered \in [Purchases -> Nat] /\ taken \in [Purchases -> Nat] /\ recovered[q] \in Nat
        BY PurchaseFacts
      <3>2. CASE q = p
        <4>1. share = 0
          BY <1>1, <1>3, <1>6, <2>3, <3>1, <3>2
        <4>2. QED BY <1>1, <1>6, <3>1, <3>2, <4>1
      <3>3. CASE q # p
        BY <1>1, <1>6, <3>1, <3>3
      <3>4. QED BY <3>2, <3>3
    <2>4. QED BY <1>2, <2>1, <2>2, <2>3 DEF Quiet
  <1>7. QED BY <1>4, <1>5, <1>6

LEMMA RefundConfirmsIsQuiet ==
  ASSUME PurchaseInv, NEW e \in sent, NEW p \in WebPurchases, NEW r \in Refunds, RefundConfirms(e, p, r)
  PROVE  Quiet
  <1>1. p \in Purchases /\ refund[r].credits \in Nat /\ refund[r].purchase = p /\ Active(r)
    BY RefundFacts DEF WebPurchases, Refund, RefundConfirms, Pending, Active
  <1> DEFINE before == TakenBack(p) + refund[r].credits
             share == IF e.amount = purchase[p].booked + refund[r].money THEN 0 ELSE Share(p, e.amount, before)
             n == recovered[p] + refund[r].credits + share
  <1>2. before \in Nat
    BY <1>1, TakenBackFacts
  <1>3. /\ taken' = [taken EXCEPT ![p] = taken[p] + share]
        /\ recovered' = [recovered EXCEPT ![p] = n]
        /\ refund' = [refund EXCEPT ![r].status = "completed"]
        /\ UNCHANGED <<granted, used, expired, reservation>>
    BY DEF RefundConfirms
  <1> HIDE DEF before
  <1>4. share \in Nat
    BY <1>1, <1>2, RefundEventAmount, ShareIsNat DEF RefundConfirms
  <1> HIDE DEF share
  <1>5. n \in Nat
    BY <1>1, <1>4, PurchaseFacts
  <1> HIDE DEF n
  <1>6. \A q \in Purchases : taken'[q] >= taken[q]
    BY <1>1, <1>3, <1>4, TakenGrows
  <1>7. QED BY <1>1, <1>3, <1>5, <1>6, CompletionIsQuiet

LEMMA CompleteRefundIsQuiet ==
  ASSUME PurchaseInv, NEW r \in Refunds, NEW p \in WebPurchases, CompleteRefund(r, p)
  PROVE  Quiet
  <1>1. p \in Purchases /\ refund[r].credits \in Nat /\ refund[r].purchase = p /\ Active(r)
    BY RefundFacts DEF WebPurchases, Refund, CompleteRefund, RefundOK
  <1> DEFINE n == recovered[p] + refund[r].credits
  <1>2. /\ recovered' = [recovered EXCEPT ![p] = n]
        /\ refund' = [refund EXCEPT ![r].status = "completed"]
        /\ UNCHANGED <<granted, used, expired, reservation, taken>>
    BY DEF CompleteRefund
  <1>3. n \in Nat
    BY <1>1, PurchaseFacts
  <1> HIDE DEF n
  <1>4. \A q \in Purchases : taken'[q] >= taken[q]
    BY <1>2, PurchaseFacts
  <1>5. QED BY <1>1, <1>2, <1>3, <1>4, CompletionIsQuiet

LEMMA ForceReversalIsQuiet ==
  ASSUME PurchaseInv, NEW e \in sent, NEW p \in StorePurchases, ForceReversal(e, p)
  PROVE  Quiet
  <1>1. p \in Purchases /\ PaidAmount \in Nat \ {0}
    BY ConstantTypes
  <1>2. UNCHANGED <<granted, used, expired, reservation, refund>>
    BY DEF ForceReversal
  <1>3. CASE UNCHANGED <<recovered, taken>>
    BY <1>2, <1>3, CreditsStayQuiet
  <1>4. CASE /\ recovered' = [recovered EXCEPT ![p] = recovered[p] + PaidAmount]
             /\ taken' = [taken EXCEPT ![p] = taken[p] + PaidAmount]
    <2>1. \A q \in Purchases : taken'[q] >= taken[q]
      BY <1>1, <1>4, TakenGrows
    <2>2. \A q \in Purchases : Locked(q)' = Locked(q)
      BY <1>2, LockedStays
    <2>3. ASSUME NEW q \in Purchases, taken'[q] = taken[q] PROVE recovered'[q] = recovered[q]
      BY <1>1, <1>4, <2>3, PurchaseFacts
    <2>4. QED BY <1>2, <2>1, <2>2, <2>3 DEF Quiet
  <1>5. QED BY <1>3, <1>4 DEF ForceReversal

LEMMA EventsAreQuiet ==
  ASSUME PurchaseInv, NEW e \in sent, EventStep(e)
  PROVE  Quiet
  <1>1. ASSUME NEW p \in WebPurchases, PaymentGrants(e, p) PROVE Quiet
    BY <1>1, GrantsAreQuiet DEF PaymentGrants, Grants, WebPurchases
  <1>2. ASSUME NEW p \in WebPurchases, PaymentIsNoNews(e, p) \/ RefundMismatch(e, p) PROVE Quiet
    BY <1>2, CreditsStayQuiet DEF PaymentIsNoNews, RefundMismatch, creditVars
  <1>3. QED
    BY <1>1, <1>2, RefundAppliesIsQuiet, RefundConfirmsIsQuiet, ForceReversalIsQuiet DEF EventStep

LEMMA RefundsAreQuiet ==
  ASSUME PurchaseInv, NEW r \in Refunds, RefundStep(r)
  PROVE  Quiet \/ \E p \in WebPurchases : RequestRefund(r, p)
  <1>1. ASSUME RefundAnswers(r) \/ CompletedAlready(r) \/ RepeatRefund(r) \/ RefundDies(r) PROVE Quiet
    BY <1>1, CreditsStayQuiet DEF RefundAnswers, CompletedAlready, RepeatRefund, RefundDies, creditVars
  <1>2. QED BY <1>1, RecordIsQuiet, CompleteRefundIsQuiet DEF RefundStep


\* A balance that stays a balance.
LEMMA BalanceAfter ==
  ASSUME PurchaseInv, PurchaseInv', HoldsAre, UNCHANGED taken, expired \subseteq expired',
         expired' = {}, NothingTaken'
  PROVE  /\ expired = {} /\ AvailableBalance >= 0 /\ AvailableBalance \in Int
         /\ BalanceIsTotal /\ BalanceIsTotal'
  <1>1. expired = {} /\ NothingTaken
    BY DEF NothingTaken
  <1>2. AvailableBalance >= 0 /\ BalanceIsTotal
    BY <1>1, NoDebts DEF HoldsAre
  <1>3. (PurchaseInv /\ NothingTaken => BalanceIsTotal)'
    BY NoDebts, PTL
  <1>4. AvailableBalance \in Int
    <2> DEFINE price == ReplyPrice * Cardinality(Reserved)
    <2>1. AvailableBalance = Total - price /\ Total \in Nat /\ price \in Int
      BY <1>2 DEF BalanceIsTotal
    <2> HIDE DEF price
    <2>2. QED BY <2>1
  <1>5. QED BY <1>1, <1>2, <1>3, <1>4

\* The total does not depend on reservations.
LEMMA TotalStays ==
  ASSUME UNCHANGED <<granted, expired, used, recovered, refund>>
  PROVE  Total' = Total
  <1>1. Left' = Left
    BY DEF Left, Available, Unused, Unrecovered, Locked, CreditsOf
  <1>2. QED BY <1>1 DEF Total, Granted

\* A reservation takes what is there,
LEMMA ReserveCovers ==
  ASSUME PurchaseInv, PurchaseInv', HoldsAre, NEW h \in Holds, ReserveCredits(h), UNCHANGED taken
  PROVE  HoldsAre'
  <1> SUFFICES ASSUME expired' = {}, NothingTaken' PROVE AvailableBalance' >= 0
    BY DEF HoldsAre
  <1>1. AvailableBalance \in Int /\ BalanceIsTotal /\ BalanceIsTotal'
    BY BalanceAfter DEF ReserveCredits
  <1>2. Total' = Total
    BY TotalStays DEF ReserveCredits
  <1>3. Reserved' = Reserved \cup {h} /\ h \notin Reserved
    BY DEF ReserveCredits, Reserved, PurchaseInv, PurchaseTypeOK, CreditTypeOK
  <1> DEFINE holds == Cardinality(Reserved)
             holdsAfter == Cardinality(Reserved')
  <1>4. holdsAfter = holds + 1
    BY <1>1, <1>3, FS_AddElement DEF BalanceIsTotal
  <1>5. /\ AvailableBalance' = Total - ReplyPrice * holdsAfter
        /\ AvailableBalance = Total - ReplyPrice * holds
        /\ Total \in Nat /\ holds \in Nat /\ ReplyPrice \in Nat
    BY <1>1, <1>2 DEF BalanceIsTotal
  <1>6. AvailableBalance >= ReplyPrice
    BY DEF ReserveCredits, Affordable
  <1> HIDE DEF holds, holdsAfter
  <1>7. ReplyPrice * holdsAfter = ReplyPrice * holds + ReplyPrice /\ ReplyPrice * holds \in Int
    BY <1>4, <1>5
  <1>8. AvailableBalance' = AvailableBalance - ReplyPrice
    BY <1>5, <1>7
  <1>9. QED BY <1>1, <1>5, <1>6, <1>8

\* and gives it back, or pays with it.
LEMMA ReservedWithout ==
  ASSUME PurchaseInv, NEW h \in Holds, reservation[h] = "reserved", NEW s \in {"captured", "released"},
         reservation' = [reservation EXCEPT ![h] = s], IsFiniteSet(Reserved)
  PROVE  Cardinality(Reserved') = Cardinality(Reserved) - 1
  <1>1. Reserved' = Reserved \ {h} /\ h \in Reserved
    BY DEF Reserved, PurchaseInv, PurchaseTypeOK, CreditTypeOK
  <1>2. QED BY <1>1, FS_RemoveElement

LEMMA ReleaseCovers ==
  ASSUME PurchaseInv, PurchaseInv', HoldsAre, NEW h \in Holds, ReleaseReservation(h), UNCHANGED taken
  PROVE  HoldsAre'
  <1> SUFFICES ASSUME expired' = {}, NothingTaken' PROVE AvailableBalance' >= 0
    BY DEF HoldsAre
  <1>1. AvailableBalance >= 0 /\ AvailableBalance \in Int /\ BalanceIsTotal /\ BalanceIsTotal'
    BY BalanceAfter DEF ReleaseReservation
  <1>2. Total' = Total
    BY TotalStays DEF ReleaseReservation
  <1> DEFINE holds == Cardinality(Reserved)
             holdsAfter == Cardinality(Reserved')
  <1>3. holdsAfter = holds - 1
    BY <1>1, ReservedWithout DEF BalanceIsTotal, ReleaseReservation
  <1>4. /\ AvailableBalance' = Total - ReplyPrice * holdsAfter
        /\ AvailableBalance = Total - ReplyPrice * holds
        /\ Total \in Nat /\ holds \in Nat /\ ReplyPrice \in Nat
    BY <1>1, <1>2 DEF BalanceIsTotal
  <1> HIDE DEF holds, holdsAfter
  <1>5. ReplyPrice * holdsAfter = ReplyPrice * holds - ReplyPrice /\ ReplyPrice * holds \in Int
    BY <1>3, <1>4
  <1>6. AvailableBalance' = AvailableBalance + ReplyPrice
    BY <1>4, <1>5
  <1>7. QED BY <1>1, <1>4, <1>6

\* A charge that is covered takes its amount, and a capture ends a reservation of it.
LEMMA TotalAfterCharge ==
  ASSUME PurchaseInv, PurchaseInv', NEW n \in Nat, Covered(n), ChargeGrants(n), expired = {},
         UNCHANGED <<granted, expired, recovered, refund>>
  PROVE  Total' = Total - n
  <1>1. CreditTypeOK /\ CreditTypeOK'
    BY DEF PurchaseInv, PurchaseTypeOK
  <1>2. CreditFacts /\ (CreditTypeOK => CreditFacts)'
    BY <1>1, TypesGiveFacts, PTL
  <1>3. \A g \in Grants : Left'[g] = Left[g] - Charge(n)[g]
    BY <1>1, LeftAfterCharge
  <1>4. QED BY <1>1, <1>2, <1>3, LessLeft

\* A capture takes the price of one reply and ends one hold.
LEMMA CaptureCovers ==
  ASSUME PurchaseInv, PurchaseInv', HoldsAre, NEW h \in Holds, CaptureReservation(h), UNCHANGED taken
  PROVE  HoldsAre'
  <1> SUFFICES ASSUME expired' = {}, NothingTaken' PROVE AvailableBalance' >= 0
    BY DEF HoldsAre
  <1>1. /\ expired = {} /\ AvailableBalance >= 0 /\ AvailableBalance \in Int
        /\ BalanceIsTotal /\ BalanceIsTotal'
    BY BalanceAfter DEF CaptureReservation
  <1> DEFINE holds == Cardinality(Reserved)
             holdsAfter == Cardinality(Reserved')
  <1>2. holdsAfter = holds - 1
    BY <1>1, ReservedWithout DEF BalanceIsTotal, CaptureReservation
  <1>3. /\ AvailableBalance' = Total' - ReplyPrice * holdsAfter
        /\ AvailableBalance = Total - ReplyPrice * holds
        /\ Total \in Nat /\ holds \in Nat /\ ReplyPrice \in Nat
    BY <1>1 DEF BalanceIsTotal
  <1>4. Total' = Total - ReplyPrice
    BY <1>1, <1>3, TotalAfterCharge DEF CaptureReservation
  <1> HIDE DEF holds, holdsAfter
  <1>5. ReplyPrice * holdsAfter = ReplyPrice * holds - ReplyPrice /\ ReplyPrice * holds \in Int
    BY <1>2, <1>3
  <1>6. AvailableBalance' = AvailableBalance
    BY <1>3, <1>4, <1>5
  <1>7. QED BY <1>1, <1>6

\* Spending takes no more than is available.
LEMMA SpendCovers ==
  ASSUME PurchaseInv, PurchaseInv', HoldsAre, NEW n \in SpendAmounts, SpendCredits(n), UNCHANGED taken
  PROVE  HoldsAre'
  <1> SUFFICES ASSUME expired' = {}, NothingTaken' PROVE AvailableBalance' >= 0
    BY DEF HoldsAre
  <1>1. expired = {} /\ AvailableBalance \in Int /\ BalanceIsTotal /\ BalanceIsTotal'
    BY BalanceAfter DEF SpendCredits
  <1>2. n \in Nat /\ AvailableBalance >= n
    BY AmountsArePositive DEF SpendCredits, Affordable
  <1>3. Total' = Total - n
    BY <1>1, <1>2, TotalAfterCharge DEF SpendCredits
  <1>4. Reserved' = Reserved
    BY DEF SpendCredits, Reserved
  <1> DEFINE price == ReplyPrice * Cardinality(Reserved)
  <1>5. /\ AvailableBalance' = Total' - price /\ AvailableBalance = Total - price
        /\ Total \in Nat /\ price \in Int
    BY <1>1, <1>4 DEF BalanceIsTotal
  <1> HIDE DEF price
  <1>6. AvailableBalance' = AvailableBalance - n
    BY <1>2, <1>3, <1>5
  <1>7. QED BY <1>1, <1>2, <1>6

\* A refund is only asked for when nothing is reserved.
LEMMA RequestCovers ==
  ASSUME PurchaseInv, PurchaseInv', NEW r \in Refunds, NEW p \in WebPurchases, RequestRefund(r, p)
  PROVE  HoldsAre'
  <1> SUFFICES ASSUME expired' = {}, NothingTaken' PROVE AvailableBalance' >= 0
    BY DEF HoldsAre
  <1>1. (PurchaseInv /\ NothingTaken => BalanceIsTotal)'
    BY NoDebts, PTL
  <1>2. Reserved' = {}
    BY DEF RequestRefund, Refundable, Reserved
  <1>3. Cardinality(Reserved') = 0
    BY <1>2, FS_EmptySet
  <1> DEFINE holdsAfter == Cardinality(Reserved')
  <1>4. AvailableBalance' = Total' - ReplyPrice * holdsAfter /\ Total' \in Nat /\ ReplyPrice \in Nat
    BY <1>1 DEF BalanceIsTotal
  <1>5. holdsAfter = 0
    BY <1>3
  <1> HIDE DEF holdsAfter
  <1>6. ReplyPrice * holdsAfter = 0
    BY <1>4, <1>5
  <1>7. \A n \in Nat : n - 0 >= 0
    OBVIOUS
  <1>8. Total' - 0 >= 0
    BY <1>4, <1>7
  <1>9. QED BY <1>4, <1>6, <1>8

\* Every step keeps replies in progress covered.
LEMMA HoldsStep == PurchaseInv /\ PurchaseInv' /\ HoldsAre /\ [Next]_vars => HoldsAre'
  <1> SUFFICES ASSUME PurchaseInv, PurchaseInv', HoldsAre, [Next]_vars PROVE HoldsAre'
    OBVIOUS
  <1>1. CASE CreditStep /\ UNCHANGED otherVars
    <2>1. UNCHANGED taken
      BY <1>1 DEF otherVars, serviceVars
    <2>2. ASSUME NEW g \in Free, GrantFree(g) PROVE HoldsAre'
      BY <2>1, <2>2, GrantsAreQuiet, QuietCovers DEF GrantFree, Grants
    <2>3. ASSUME NEW g \in Free, FreeExpires(g) PROVE HoldsAre'
      BY <2>3 DEF FreeExpires, HoldsAre
    <2>4. QED
      BY <1>1, <2>1, <2>2, <2>3, ReserveCovers, ReleaseCovers, CaptureCovers, SpendCovers DEF CreditStep
  <1>2. CASE \/ \E k \in Calls : CheckoutStep(k)
             \/ \E p \in WebPurchases : HalfMinutePasses(p) \/ \E c \in Checkouts : Reconcile(p, c)
             \/ \E p \in StorePurchases : VerifyProof(p)
             \/ ProviderStep
    BY <1>2, CheckoutsAreQuiet, QuietCovers
  <1>3. CASE \E e \in sent : EventStep(e)
    BY <1>3, EventsAreQuiet, QuietCovers
  <1>4. CASE \E r \in Refunds : RefundStep(r)
    BY <1>4, RefundsAreQuiet, QuietCovers, RequestCovers
  <1>5. CASE \E p \in StorePurchases : VerifyInApp(p)
    BY <1>5, VerifyInAppIsQuiet, QuietCovers
  <1>6. CASE UNCHANGED vars
    <2>1. UNCHANGED <<creditVars, taken>>
      BY <1>6 DEF vars, serviceVars
    <2>2. QED BY <2>1, CreditsStayQuiet, QuietCovers DEF creditVars
  <1>7. QED BY <1>1, <1>2, <1>3, <1>4, <1>5, <1>6 DEF Next, otherVars

\* As long as no free grant has expired and the provider has taken nothing back
\* on its own, the credits cover every reply that is being written.
THEOREM HoldsCovered == Spec => []HoldsAreCovered
  <1>1. HoldsAre <=> HoldsAreCovered
    BY DEF HoldsAre, HoldsAreCovered, NothingTaken
  <1>2. Init => HoldsAre
    <2> SUFFICES ASSUME Init PROVE AvailableBalance >= 0
      BY DEF HoldsAre
    <2>1. BalanceIsTotal
      BY InitHolds, NoDebts DEF NothingTaken, Init
    <2>2. Reserved = {}
      BY DEF Init, CreditInit, Reserved
    <2>3. Cardinality(Reserved) = 0
      BY <2>2, FS_EmptySet
    <2> DEFINE holds == Cardinality(Reserved)
    <2>4. AvailableBalance = Total - ReplyPrice * holds /\ Total \in Nat /\ ReplyPrice \in Nat /\ holds = 0
      BY <2>1, <2>3 DEF BalanceIsTotal
    <2> HIDE DEF holds
    <2>5. QED BY <2>4
  <1>3. QED BY <1>1, <1>2, HoldsStep, PurchasesInvariant, PTL DEF Spec


-----------------------------------------------------------------------------
(***************************************************************************)
(* What charges take                                                       *)
(***************************************************************************)

\* Outside the operations of the ledger nothing is charged.
LEMMA OnlyLedgerCharges ==
  ASSUME PurchaseInv, [Next]_vars
  PROVE  (CreditStep /\ UNCHANGED otherVars) \/ UNCHANGED used
  <1>1. CASE \/ \E k \in Calls : CheckoutStep(k)
             \/ \E p \in WebPurchases : HalfMinutePasses(p) \/ \E c \in Checkouts : Reconcile(p, c)
             \/ \E p \in StorePurchases : VerifyProof(p)
             \/ ProviderStep
    BY <1>1, CheckoutsAreQuiet DEF Quiet
  <1>2. CASE \E p \in StorePurchases : VerifyInApp(p)
    BY <1>2, VerifyInAppIsQuiet DEF Quiet
  <1>3. CASE \E e \in sent : EventStep(e)
    BY <1>3, EventsAreQuiet DEF Quiet
  <1>4. CASE \E r \in Refunds : RefundStep(r)
    BY <1>4, RefundsAreQuiet DEF Quiet, RequestRefund
  <1>5. CASE UNCHANGED vars
    BY <1>5 DEF vars, creditVars
  <1>6. QED BY <1>1, <1>2, <1>3, <1>4, <1>5 DEF Next, otherVars

\* Every entry of the ledger of grants comes from grantCredits.
LEMMA OnlyGrantGrants ==
  ASSUME [Next]_vars
  PROVE  UNCHANGED granted \/ \E g \in Grants : Grant(g)
  <1>1. WebPurchases \subseteq Grants /\ StorePurchases \subseteq Grants /\ Free \subseteq Grants
    BY StorePurchasesType DEF WebPurchases, Grants
  <1>2. CASE CreditStep
    BY <1>1, <1>2 DEF CreditStep, GrantFree, FreeExpires, ReserveCredits, ReleaseReservation, CaptureReservation,
                      SpendCredits
  <1>3. CASE \/ \E k \in Calls : CheckoutStep(k)
             \/ \E p \in WebPurchases : HalfMinutePasses(p) \/ \E c \in Checkouts : Reconcile(p, c)
             \/ ProviderStep
    <2>1. UNCHANGED creditVars
      BY <1>3, CheckoutFrame, ReconcileFrame, ProviderFrame
    <2>2. QED BY <2>1 DEF creditVars
  <1>4. CASE \E p \in StorePurchases : VerifyProof(p) \/ VerifyInApp(p)
    BY <1>1, <1>4 DEF VerifyProof, VerifyInApp, creditVars
  <1>5. CASE \E e \in sent : EventStep(e)
    <2>1. ASSUME NEW e \in sent, NEW p \in WebPurchases, PaymentGrants(e, p) \/ PaymentIsNoNews(e, p)
          PROVE  UNCHANGED granted \/ Grant(p)
      BY <2>1 DEF PaymentGrants, PaymentIsNoNews, creditVars
    <2>2. ASSUME NEW e \in sent, NEW p \in WebPurchases,
                 RefundMismatch(e, p) \/ RefundApplies(e, p) \/ \E r \in Refunds : RefundConfirms(e, p, r)
          PROVE  UNCHANGED granted
      BY <2>2 DEF RefundMismatch, RefundApplies, RefundConfirms, creditVars
    <2>3. ASSUME NEW e \in sent, NEW p \in StorePurchases, ForceReversal(e, p)
          PROVE  UNCHANGED granted
      BY <2>3 DEF ForceReversal
    <2>4. QED BY <1>1, <1>5, <2>1, <2>2, <2>3 DEF EventStep
  <1>6. CASE \E r \in Refunds : RefundStep(r)
    BY <1>6 DEF RefundStep, RequestRefund, CompleteRefund, RefundAnswers, RecordAnswer, CompletedAlready,
                RepeatRefund, RefundDies, creditVars
  <1>7. CASE UNCHANGED vars
    BY <1>7 DEF vars, creditVars
  <1>8. QED BY <1>2, <1>3, <1>4, <1>5, <1>6, <1>7 DEF Next

LEMMA GrantRepeatsNothing ==
  ASSUME CreditTypeOK, NoRepeats, NEW g \in Grants, Grant(g)
  PROVE  NoRepeats'
  <1>1. CASE Contains(granted, g)
    <2>1. granted' = granted
      BY <1>1 DEF Grant
    <2>2. QED BY <2>1 DEF NoRepeats
  <1>2. CASE ~Contains(granted, g)
    <2>1. granted' = Append(granted, g) /\ granted \in Seq(Grants)
      BY <1>2 DEF Grant, CreditTypeOK
    <2>2. /\ Len(granted) \in Nat /\ DOMAIN granted = 1..Len(granted) /\ DOMAIN granted' = 1..(Len(granted) + 1)
          /\ \A i \in 1..Len(granted) : granted'[i] = granted[i]
          /\ granted'[Len(granted) + 1] = g
      BY <2>1
    <2>3. ASSUME NEW i \in 1..Len(granted) PROVE granted'[i] # g
      BY <1>2, <2>2 DEF Contains
    <2>4. ASSUME NEW i \in DOMAIN granted', NEW j \in DOMAIN granted', granted'[i] = granted'[j]
          PROVE  i = j
      <3>1. (i \in 1..Len(granted) \/ i = Len(granted) + 1) /\ (j \in 1..Len(granted) \/ j = Len(granted) + 1)
        BY <2>2
      <3>2. CASE i \in 1..Len(granted) /\ j \in 1..Len(granted)
        BY <2>2, <2>4, <3>2 DEF NoRepeats
      <3>3. QED BY <2>2, <2>3, <2>4, <3>1, <3>2
    <2>5. QED BY <2>4 DEF NoRepeats
  <1>3. QED BY <1>1, <1>2

\* A signup bonus, a check-in and a purchase are credited once each, however often
\* grantCredits is called for them: by webhooks that are repeated, by the
\* reconciliation and by proofs that are sent again.
THEOREM EachGrantedOnce == Spec => []NoRepeats
  <1>1. Init => NoRepeats
    BY DEF Init, CreditInit, NoRepeats
  <1>2. PurchaseInv /\ NoRepeats /\ [Next]_vars => NoRepeats'
    <2> SUFFICES ASSUME PurchaseInv, NoRepeats, [Next]_vars PROVE NoRepeats'
      OBVIOUS
    <2>1. CreditTypeOK
      BY DEF PurchaseInv, PurchaseTypeOK
    <2>2. CASE UNCHANGED granted
      BY <2>2 DEF NoRepeats
    <2>3. QED BY <2>1, <2>2, OnlyGrantGrants, GrantRepeatsNothing
  <1>3. QED BY <1>1, <1>2, PurchasesInvariant, PTL DEF Spec

\* spendCredits decides twice: it compares the amount with the balances, and
\* allocateUsage walks over the grants.
SpendingIsCovered == \A n \in SpendAmounts : Affordable(n) => Covered(n)

\* The two agree: whatever has expired, is locked or was taken back, a spending
\* that the balances allow never fails in allocateUsage.
THEOREM SpendingCovered == Spec => []SpendingIsCovered
  <1>1. PurchaseInv /\ NoRepeats => SpendingIsCovered
    <2> SUFFICES ASSUME PurchaseInv, NoRepeats, NEW n \in SpendAmounts, Affordable(n) PROVE Covered(n)
      BY DEF SpendingIsCovered
    <2>1. CreditTypeOK /\ CreditFacts /\ n \in Nat
      BY TypesGiveFacts, AmountsArePositive DEF PurchaseInv, PurchaseTypeOK
    <2>2. FreeBalance \in Nat /\ PaidBalance \in Int
      BY <2>1, BalancesAreInt
    <2> DEFINE price == ReplyPrice * Cardinality(Reserved)
    <2>3. price \in Nat
      <3>1. Reserved \in SUBSET Holds
        BY DEF Reserved
      <3>2. Cardinality(Reserved) \in Nat
        BY <3>1, LedgerIsFinite, FS_Subset, FS_CardinalityType
      <3>3. QED BY <3>2, AmountsAreNat
    <2>4. PaidBalance >= 0 /\ PaidBalance + FreeBalance - price >= n
      BY <2>2 DEF Affordable, AvailableBalance
    <2> HIDE DEF price
    <2>5. n <= FreeBalance + NotBelowZero(PaidBalance)
      BY <2>1, <2>2, <2>3, <2>4 DEF NotBelowZero
    <2>6. QED BY <2>1, <2>5, CoveredIfEnough
  <1>2. QED BY <1>1, EachGrantedOnce, PurchasesInvariant, PTL

\* A reply in progress can be charged.
RepliesCanBeCharged == expired = {} /\ NothingTaken /\ Reserved # {} => Covered(ReplyPrice)

\* What captureReservation charges when a reply is finished is there, as long as
\* no free grant has expired and the provider has taken nothing back on its own.
THEOREM RepliesCharged == Spec => []RepliesCanBeCharged
  <1>1. PurchaseInv /\ NoRepeats /\ HoldsAreCovered => RepliesCanBeCharged
    <2> SUFFICES ASSUME PurchaseInv, NoRepeats, AvailableBalance >= 0, NothingTaken, Reserved # {}
                 PROVE  Covered(ReplyPrice)
      BY DEF RepliesCanBeCharged, HoldsAreCovered, NothingTaken
    <2>1. CreditTypeOK /\ CreditFacts /\ ReplyPrice \in Nat
      BY TypesGiveFacts, AmountsAreNat DEF PurchaseInv, PurchaseTypeOK
    <2>2. BalanceIsTotal
      BY NoDebts
    <2>3. FreeBalance \in Nat /\ PaidBalance \in Int /\ PaidBalance >= 0
      BY <2>1, <2>2, BalancesAreInt DEF BalanceIsTotal
    <2> DEFINE holds == Cardinality(Reserved)
               price == ReplyPrice * holds
    <2>4. holds \in Nat /\ holds # 0
      BY <2>2, FS_EmptySet DEF BalanceIsTotal
    <2>5. PaidBalance + FreeBalance - price >= 0
      BY <2>3 DEF AvailableBalance
    <2> HIDE DEF holds
    <2>6. price \in Nat /\ price >= ReplyPrice
      <3>1. \A m, n \in Nat : n # 0 => m * n \in Nat /\ m * n >= m
        OBVIOUS
      <3>2. QED BY <2>1, <2>4, <3>1
    <2> HIDE DEF price
    <2>7. ReplyPrice <= FreeBalance + NotBelowZero(PaidBalance)
      BY <2>1, <2>3, <2>5, <2>6 DEF NotBelowZero
    <2>8. QED BY <2>1, <2>7, CoveredIfEnough
  <1>2. QED BY <1>1, EachGrantedOnce, HoldsCovered, PurchasesInvariant, PTL

\* A step that charges a purchase leaves nothing of the free grants.
FreeTakenFirst == \A p \in Purchases : used'[p] > used[p] => \A g \in Granted(Free) : Available(g)' = 0
PaidComesLast == [][FreeTakenFirst]_vars

LEMMA ChargeTakesFreeFirst ==
  ASSUME CreditTypeOK, NoRepeats, NEW n \in Nat, ChargeGrants(n), UNCHANGED expired,
         NEW p \in Purchases, used'[p] > used[p], NEW g \in Granted(Free)
  PROVE  Available(g)' = 0
  <1>1. CreditFacts /\ g \in Free /\ g \in Grants /\ p \in Grants
    BY TypesGiveFacts, GrantedSets DEF Grants
  <1>2. used[p] \in Nat /\ used[g] \in Nat /\ FreeAmount \in Nat
    BY <1>1, AmountsAreNat DEF CreditTypeOK
  <1> DEFINE c == Charge(n)
  <1>3. used'[p] = used[p] + c[p] /\ used'[g] = used[g] + c[g]
    BY <1>1 DEF ChargeGrants
  <1>4. /\ c[p] \in 0..Available(p) /\ Available(p) \in Nat
        /\ c[g] \in 0..Available(g) /\ Available(g) \in Nat
    BY <1>1, ChargeBounded, LeftIsNat
  <1> HIDE DEF c
  <1>5. c[p] > 0
    BY <1>2, <1>3, <1>4
  <1>6. c[g] = Available(g)
    BY <1>5, FreeCreditsFirst DEF c
  <1>7. Available(g) = Unused(g) /\ Available(g)' = Unused(g)'
    BY <1>1 DEF Available
  <1>8. CASE g \in expired
    BY <1>7, <1>8 DEF Unused
  <1>9. CASE g \notin expired
    <2>1. Unused(g) = Max({0, FreeAmount - used[g]})
      BY <1>1, <1>9 DEF Unused, Amount
    <2>2. Unused(g) = NotBelowZero(FreeAmount - used[g])
      BY <1>2, <2>1, MaxOfZero
    <2>3. c[g] = NotBelowZero(FreeAmount - used[g])
      BY <1>6, <1>7, <2>2
    <2>4. FreeAmount - used'[g] \in Int /\ FreeAmount - used'[g] <= 0
      BY <1>2, <1>3, <1>4, <2>3 DEF NotBelowZero
    <2>5. Unused(g)' = Max({0, FreeAmount - used'[g]})
      BY <1>1, <1>9 DEF Unused, Amount
    <2>6. Unused(g)' = NotBelowZero(FreeAmount - used'[g])
      BY <2>4, <2>5, MaxOfZero
    <2>7. QED BY <1>7, <2>4, <2>6 DEF NotBelowZero
  <1>10. QED BY <1>8, <1>9

\* Credits that were paid for are used last: neither a reply nor a spending takes
\* any of a purchase while free credits, which expire, are left.
THEOREM PaidIsUsedLast == Spec => PaidComesLast
  <1>1. PurchaseInv /\ NoRepeats /\ [Next]_vars => [FreeTakenFirst]_vars
    <2> SUFFICES ASSUME PurchaseInv, NoRepeats, [Next]_vars,
                        NEW p \in Purchases, used'[p] > used[p], NEW g \in Granted(Free)
                 PROVE  Available(g)' = 0
      BY DEF FreeTakenFirst
    <2>1. CreditTypeOK /\ used[p] \in Nat
      BY DEF PurchaseInv, PurchaseTypeOK, CreditTypeOK, Grants
    <2>2. CASE UNCHANGED used
      BY <2>1, <2>2
    <2>3. CASE CreditStep
      <3>1. ASSUME NEW n \in SpendAmounts, SpendCredits(n) PROVE Available(g)' = 0
        BY <2>1, <3>1, AmountsArePositive, ChargeTakesFreeFirst DEF SpendCredits
      <3>2. ASSUME NEW h \in Holds, CaptureReservation(h) PROVE Available(g)' = 0
        BY <2>1, <3>2, AmountsAreNat, ChargeTakesFreeFirst DEF CaptureReservation
      <3>3. QED
        BY <2>2, <2>3, <3>1, <3>2 DEF CreditStep, GrantFree, FreeExpires, ReserveCredits, ReleaseReservation
    <2>4. QED BY <2>2, <2>3, OnlyLedgerCharges
  <1>2. QED BY <1>1, EachGrantedOnce, PurchasesInvariant, PTL DEF Spec, PaidComesLast


-----------------------------------------------------------------------------
(***************************************************************************)
(* One checkout of a purchase                                              *)
(***************************************************************************)

\* The call that has claimed the row.
Claimer(k, p) == call[k].purchase = p /\ call[k].claimed

\* A call claims its row after it has found it and forgets it when it ends.
IdleOK(k) ==
  /\ call[k].pc = "idle" <=> call[k].purchase = NoPurchase
  /\ call[k].pc \in {"idle", "found"} => ~call[k].claimed

\* Unless a call has died: while the row can be claimed nobody has looked for its
\* checkout; it is claimed once, and the call that did so ends only when the
\* checkout is saved.
ClaimOK(p) ==
  /\ opened[p] # <<>> => purchase[p].status # "none"
  /\ Claimable(p) => opened[p] = <<>> /\ \A k \in Calls : call[k].purchase = p => call[k].pc = "found"
  /\ opened[p] = <<>> /\ purchase[p].status # "none" => Claimable(p) \/ purchase[p].payment = "processing"
  /\ purchase[p].payment = "processing" => \E k \in Calls : Claimer(k, p)
  /\ \A k, l \in Calls : Claimer(k, p) /\ Claimer(l, p) => k = l

\* A call that may still open a second checkout is late: the one with the claim,
\* or, when no call has it any more, one that has waited since it found none.
LateOK(k, p) ==
  call[k].purchase = p =>
    /\ call[k].claimed /\ ~purchase[p].recent => call[k].late
    /\ call[k].claimed /\ call[k].pc = "missing" /\ opened[p] # <<>> => call[k].late
    /\ /\ call[k].pc = "missing" /\ opened[p] # <<>>
       /\ purchase[p].payment # "processing" /\ ~purchase[p].recent
       => call[k].late

CheckoutOK(p) == ClaimOK(p) /\ \A k \in Calls : LateOK(k, p)

WasOpened(c) == \E p \in WebPurchases : Contains(opened[p], c)

\* What is saved, shown and paid are checkouts that were opened.
SavingOK(k) ==
  \A p \in WebPurchases : call[k].purchase = p /\ call[k].pc = "saving" => Contains(opened[p], call[k].checkout)

OpenedInv ==
  /\ \A k \in Calls : SavingOK(k)
  /\ \A c \in shown : WasOpened(c)
  /\ \A c \in Checkouts : paid[c] > 0 => c \in shown

CheckoutsInv ==
  /\ OpenedInv
  /\ \A k \in Calls : IdleOK(k)
  /\ stops = 0 => \A p \in WebPurchases : CheckoutOK(p)

\* The newest checkout is one of those that were opened,
LEMMA CheckoutContained ==
  ASSUME PurchaseInv, NEW p \in WebPurchases, opened[p] # <<>>
  PROVE  Contains(opened[p], Last(opened[p]))
  <1>1. opened[p] \in Seq(Checkouts)
    BY DEF PurchaseInv, PurchaseTypeOK
  <1>2. Len(opened[p]) \in 1..Len(opened[p])
    BY <1>1, EmptySeq, LenProperties
  <1>3. QED BY <1>2 DEF Last, Contains

\* which are not none,
LEMMA ContainsSomething ==
  ASSUME NEW s \in Seq(Checkouts), NEW c, Contains(s, c)
  PROVE  s # <<>>
  <1>1. PICK i \in 1..Len(s) : s[i] = c
    BY DEF Contains
  <1>2. Len(s) # 0
    BY <1>1
  <1>3. QED BY <1>2, EmptySeq

\* and stay so when one is added.
LEMMA ContainsMore ==
  ASSUME NEW s \in Seq(Checkouts), NEW c \in Checkouts
  PROVE  Contains(Append(s, c), c) /\ \A d : Contains(s, d) => Contains(Append(s, c), d)
  <1>1. /\ Len(s) \in Nat /\ Len(Append(s, c)) = Len(s) + 1
        /\ Append(s, c)[Len(s) + 1] = c
        /\ \A i \in 1..Len(s) : Append(s, c)[i] = s[i]
    BY LenProperties, AppendProperties
  <1>2. \A i \in 1..Len(s) : i \in 1..Len(s) + 1
    BY <1>1
  <1>3. Len(s) + 1 \in 1..Len(s) + 1
    BY <1>1
  <1>4. QED BY <1>1, <1>2, <1>3 DEF Contains

\* What was opened stays open.
LEMMA OpenedStays ==
  ASSUME PurchaseInv, CheckoutsInv, UNCHANGED <<opened, shown, paid>>,
         \A k \in Calls : SavingOK(k)'
  PROVE  OpenedInv'
  BY DEF CheckoutsInv, OpenedInv, WasOpened

\* The rows and calls of the other purchases stay as they are.
LEMMA OtherCheckoutsStay ==
  ASSUME NEW k \in Calls, NEW p \in WebPurchases, NEW q \in WebPurchases \ {p},
         call[k].purchase \in {p, NoPurchase}, call'[k].purchase \in {p, NoPurchase},
         \A l \in Calls \ {k} : call'[l] = call[l],
         purchase'[q] = purchase[q], opened'[q] = opened[q], CheckoutOK(q)
  PROVE  CheckoutOK(q)'
  <1>1. q # NoPurchase
    BY ConstantTypes DEF WebPurchases
  <1>2. Claimable(q)' <=> Claimable(q)
    BY DEF Claimable
  <1>3. \A l \in Calls : call'[l].purchase = q <=> call[l].purchase = q
    BY <1>1
  <1>4. \A l \in Calls : call[l].purchase = q => call'[l] = call[l]
    BY <1>1
  <1>5. \A l \in Calls : Claimer(l, q)' <=> Claimer(l, q)
    BY <1>3, <1>4 DEF Claimer
  <1>6. ClaimOK(q)'
    BY <1>2, <1>3, <1>4, <1>5 DEF CheckoutOK, ClaimOK
  <1>7. \A l \in Calls : LateOK(l, q)'
    BY <1>3, <1>4 DEF CheckoutOK, LateOK
  <1>8. QED BY <1>6, <1>7 DEF CheckoutOK

\* A step of one call, on the row of its purchase.
LEMMA CallOfCheckout ==
  ASSUME PurchaseInv, CheckoutsInv, NEW k \in Calls, NEW p \in WebPurchases,
         call[k].purchase \in {p, NoPurchase}, UNCHANGED stops,
         NEW after \in Call, call' = [call EXCEPT ![k] = after], IdleOK(k)',
         after.purchase \in {p, NoPurchase},
         \A q \in WebPurchases \ {p} : purchase'[q] = purchase[q] /\ opened'[q] = opened[q],
         OpenedInv', CheckoutOK(p) => CheckoutOK(p)'
  PROVE  CheckoutsInv'
  <1>1. /\ call'[k] = after
        /\ \A l \in Calls \ {k} : call'[l] = call[l]
    BY DEF PurchaseInv, PurchaseTypeOK
  <1>2. \A l \in Calls : IdleOK(l)'
    BY <1>1 DEF CheckoutsInv, IdleOK
  <1>3. ASSUME stops = 0, NEW q \in WebPurchases \ {p} PROVE CheckoutOK(q)'
    BY <1>1, <1>3, OtherCheckoutsStay DEF CheckoutsInv
  <1>4. QED BY <1>2, <1>3 DEF CheckoutsInv

\* A step that opens, shows and saves nothing.
LEMMA NothingOpened ==
  ASSUME PurchaseInv, CheckoutsInv, UNCHANGED <<opened, shown, paid>>, NEW k \in Calls,
         \A l \in Calls \ {k} : call'[l] = call[l], call'[k].pc # "saving"
  PROVE  OpenedInv'
  <1>1. \A l \in Calls : SavingOK(l)'
    BY DEF CheckoutsInv, OpenedInv, SavingOK
  <1>2. QED BY <1>1, OpenedStays

LEMMA CheckoutFacts ==
  ASSUME PurchaseInv, NEW k \in Calls, NEW p \in WebPurchases
  PROVE  /\ p \in Purchases /\ p # NoPurchase /\ purchase \in [Purchases -> Purchase] /\ RowOK(p)
         /\ call \in [Calls -> Call] /\ CallOK(k)
         /\ opened \in [WebPurchases -> Seq(Checkouts)] /\ opened[p] \in Seq(Checkouts)
  BY ConstantTypes DEF PurchaseInv, PurchaseTypeOK, CallsInv, RowsInv, WebPurchases

LEMMA CreateKeepsOne ==
  ASSUME PurchaseInv, CheckoutsInv, NEW k \in Calls, NEW p \in WebPurchases, CreateCheckout(k, p)
  PROVE  CheckoutsInv'
  <1>1. /\ p \in Purchases /\ purchase \in [Purchases -> Purchase] /\ RowOK(p) /\ p # NoPurchase
        /\ call \in [Calls -> Call]
    BY CheckoutFacts
  <1> DEFINE after == [IdleCall EXCEPT !.pc = "found", !.purchase = p]
  <1>2. /\ after \in Call /\ after.pc = "found" /\ after.purchase = p /\ after.claimed = FALSE
        /\ call' = [call EXCEPT ![k] = after]
    BY <1>1 DEF IdleCall, Call, CreateCheckout
  <1> HIDE DEF after
  <1>3. call'[k] = after /\ \A l \in Calls \ {k} : call'[l] = call[l]
    BY <1>1, <1>2
  <1>4. IdleOK(k) /\ call[k].purchase = NoPurchase /\ ~call[k].claimed
    BY DEF CheckoutsInv, IdleOK, CreateCheckout
  <1>5. /\ opened' = opened /\ stops' = stops
        /\ \A q \in WebPurchases \ {p} : purchase'[q] = purchase[q]
        /\ purchase'[p] = IF purchase[p] = NoRow THEN NewRow ELSE purchase[p]
    BY <1>1 DEF CreateCheckout, providerVars, WebPurchases
  <1>6. ASSUME CheckoutOK(p) PROVE CheckoutOK(p)'
    <2>1. \A l \in Calls : Claimer(l, p)' <=> Claimer(l, p) /\ l # k
      BY <1>2, <1>3 DEF Claimer
    <2>2. ~Claimer(k, p)
      BY <1>4 DEF Claimer
    <2>3. LateOK(k, p)'
      BY <1>2, <1>3 DEF LateOK
    <2>4. CASE purchase[p] = NoRow
      <3>1. /\ purchase'[p].payment = "pending" /\ purchase'[p].recent /\ purchase'[p].checkout = NoCheckout
        BY <1>5, <2>4 DEF NewRow, NoRow
      <3>2. purchase[p].status = "none" /\ purchase[p].payment = "none"
        BY <2>4 DEF NoRow
      <3>3. \A l \in Calls : call[l].purchase # p
        BY <3>2 DEF PurchaseInv, CallsInv, CallOK
      <3>4. opened[p] = <<>>
        BY <1>6, <3>2 DEF CheckoutOK, ClaimOK
      <3>5. ClaimOK(p)'
        BY <1>2, <1>3, <1>5, <2>1, <3>1, <3>3, <3>4 DEF ClaimOK, Claimable, Claimer
      <3>6. \A l \in Calls : LateOK(l, p)'
        BY <1>3, <2>3, <3>3 DEF LateOK
      <3>7. QED BY <3>5, <3>6 DEF CheckoutOK
    <2>5. CASE purchase[p] # NoRow
      <3>1. purchase'[p] = purchase[p]
        BY <1>5, <2>5
      <3>2. ClaimOK(p)'
        BY <1>2, <1>3, <1>5, <1>6, <2>1, <2>2, <3>1 DEF CheckoutOK, ClaimOK, Claimable
      <3>3. \A l \in Calls : LateOK(l, p)'
        BY <1>3, <1>5, <1>6, <2>3, <3>1 DEF CheckoutOK, LateOK
      <3>4. QED BY <3>2, <3>3 DEF CheckoutOK
    <2>6. QED BY <2>4, <2>5
  <1>7. IdleOK(k)'
    BY <1>1, <1>2, <1>3 DEF IdleOK
  <1>8. OpenedInv'
    BY <1>2, <1>3, NothingOpened DEF CreateCheckout, providerVars
  <1>9. QED BY <1>2, <1>4, <1>5, <1>6, <1>7, <1>8, CallOfCheckout

LEMMA ClaimKeepsOne ==
  ASSUME PurchaseInv, CheckoutsInv, NEW k \in Calls, NEW p \in WebPurchases, ClaimCheckout(k, p)
  PROVE  CheckoutsInv'
  <1>1. /\ p \in Purchases /\ purchase \in [Purchases -> Purchase] /\ p # NoPurchase
        /\ call \in [Calls -> Call] /\ CallOK(k)
    BY CheckoutFacts
  <1> DEFINE after == [call[k] EXCEPT !.pc = "asking", !.claimed = Claimable(p), !.late = FALSE]
  <1>2. /\ after \in Call /\ after.pc = "asking" /\ after.purchase = p /\ after.claimed = Claimable(p)
        /\ call' = [call EXCEPT ![k] = after]
    BY <1>1 DEF Call, Claimable, ClaimCheckout
  <1> HIDE DEF after
  <1>3. call'[k] = after /\ \A l \in Calls \ {k} : call'[l] = call[l]
    BY <1>1, <1>2
  <1>4. ~call[k].claimed /\ call[k].purchase = p
    BY DEF CheckoutsInv, IdleOK, ClaimCheckout
  <1>5. /\ opened' = opened /\ stops' = stops
        /\ \A q \in WebPurchases \ {p} : purchase'[q] = purchase[q]
    BY <1>1 DEF ClaimCheckout, providerVars, WebPurchases
  <1>6. ASSUME CheckoutOK(p) PROVE CheckoutOK(p)'
    <2>1. ~Claimer(k, p)
      BY <1>4 DEF Claimer
    <2>2. \A l \in Calls : Claimer(l, p)' <=> IF l = k THEN Claimable(p) ELSE Claimer(l, p)
      BY <1>2, <1>3 DEF Claimer
    <2>3. CASE Claimable(p)
      <3>1. /\ purchase'[p].payment = "processing" /\ purchase'[p].recent
            /\ purchase'[p].status = purchase[p].status
        BY <1>1, <2>3 DEF ClaimCheckout, Purchase
      <3>2. /\ opened[p] = <<>>
            /\ \A l \in Calls : call[l].purchase = p => call[l].pc = "found" /\ ~call[l].claimed
        BY <1>6, <2>3 DEF CheckoutOK, ClaimOK, CheckoutsInv, IdleOK
      <3>3. \A l \in Calls : Claimer(l, p)' <=> l = k
        BY <2>2, <2>3, <3>2 DEF Claimer
      <3>4. ClaimOK(p)'
        BY <1>5, <1>6, <3>1, <3>2, <3>3 DEF CheckoutOK, ClaimOK, Claimable
      <3>5. \A l \in Calls : LateOK(l, p)'
        BY <1>5, <3>1, <3>2 DEF LateOK
      <3>6. QED BY <3>4, <3>5 DEF CheckoutOK
    <2>4. CASE ~Claimable(p)
      <3>1. purchase' = purchase
        BY <2>4 DEF ClaimCheckout
      <3>2. \A l \in Calls : Claimer(l, p)' <=> Claimer(l, p)
        BY <2>1, <2>2, <2>4
      <3>3. ClaimOK(p)'
        BY <1>5, <1>6, <2>4, <3>1, <3>2 DEF CheckoutOK, ClaimOK, Claimable
      <3>4. \A l \in Calls : LateOK(l, p)'
        BY <1>2, <1>3, <1>5, <1>6, <2>4, <3>1 DEF CheckoutOK, LateOK
      <3>5. QED BY <3>3, <3>4 DEF CheckoutOK
    <2>5. QED BY <2>3, <2>4
  <1>7. IdleOK(k)'
    BY <1>1, <1>2, <1>3 DEF IdleOK
  <1>8. OpenedInv'
    BY <1>2, <1>3, NothingOpened DEF ClaimCheckout, providerVars
  <1>9. QED BY <1>2, <1>4, <1>5, <1>6, <1>7, <1>8, CallOfCheckout

\* The provider has no checkout yet, or its newest one.
LEMMA FindKeepsOne ==
  ASSUME PurchaseInv, CheckoutsInv, NEW k \in Calls, NEW p \in WebPurchases, FindCheckout(k, p)
  PROVE  CheckoutsInv'
  <1>1. /\ call \in [Calls -> Call] /\ p # NoPurchase /\ opened' = opened /\ purchase' = purchase
        /\ UNCHANGED <<stops, shown, paid>>
    BY CheckoutFacts DEF FindCheckout, providerVars
  <1> DEFINE after == IF opened[p] = <<>> THEN [call[k] EXCEPT !.pc = "missing"]
                      ELSE [call[k] EXCEPT !.pc = "saving", !.checkout = Last(opened[p])]
  <1>2. /\ call' = [call EXCEPT ![k] = after] /\ call[k].purchase = p /\ call[k].pc = "asking"
    BY DEF FindCheckout
  <1>3. /\ after \in Call /\ after.purchase = p /\ after.claimed = call[k].claimed
        /\ after.late = call[k].late
        /\ after.pc \in {"missing", "saving"} /\ (after.pc = "missing" => opened[p] = <<>>)
        /\ after.pc = "saving" => Contains(opened[p], after.checkout)
    <2>1. CASE opened[p] = <<>>
      BY <1>1, <1>2, <2>1 DEF Call
    <2>2. CASE opened[p] # <<>>
      <3>1. Contains(opened[p], Last(opened[p]))
        BY <2>2, CheckoutFound, CheckoutContained
      <3>2. QED BY <1>1, <1>2, <2>2, <3>1, CheckoutFound DEF Call
    <2>3. QED BY <2>1, <2>2
  <1> HIDE DEF after
  <1>4. call'[k] = after /\ \A l \in Calls \ {k} : call'[l] = call[l]
    BY <1>1, <1>2
  <1>5. ASSUME CheckoutOK(p) PROVE CheckoutOK(p)'
    <2>1. \A l \in Calls : Claimer(l, p)' <=> Claimer(l, p)
      BY <1>2, <1>3, <1>4 DEF Claimer
    <2>2. ~Claimable(p)
      BY <1>2, <1>5 DEF CheckoutOK, ClaimOK
    <2>3. ClaimOK(p)'
      BY <1>1, <1>5, <2>1, <2>2 DEF CheckoutOK, ClaimOK, Claimable
    <2>4. \A l \in Calls : LateOK(l, p)'
      BY <1>1, <1>2, <1>3, <1>4, <1>5 DEF CheckoutOK, LateOK
    <2>5. QED BY <2>3, <2>4 DEF CheckoutOK
  <1>6. IdleOK(k)'
    BY <1>1, <1>3, <1>4 DEF IdleOK
  <1>7. OpenedInv'
    <2>1. \A l \in Calls : SavingOK(l)'
      BY <1>1, <1>3, <1>4 DEF CheckoutsInv, OpenedInv, SavingOK
    <2>2. QED BY <1>1, <2>1, OpenedStays
  <1>8. QED BY <1>1, <1>2, <1>3, <1>5, <1>6, <1>7, CallOfCheckout

LEMMA IdleAgain ==
  ASSUME NEW k \in Calls, call'[k] = IdleCall
  PROVE  /\ IdleOK(k)' /\ \A p \in WebPurchases : ~Claimer(k, p)' /\ LateOK(k, p)'
         /\ IdleCall \in Call /\ IdleCall.purchase = NoPurchase /\ IdleCall.pc = "idle"
  BY ConstantTypes DEF IdleOK, IdleCall, Claimer, LateOK, WebPurchases, Call

LEMMA RefusedKeepsOne ==
  ASSUME PurchaseInv, CheckoutsInv, NEW k \in Calls, NEW p \in WebPurchases, CheckoutRefused(k, p)
  PROVE  CheckoutsInv'
  <1>1. /\ call \in [Calls -> Call] /\ opened' = opened /\ purchase' = purchase
        /\ UNCHANGED <<stops, shown, paid>>
    BY CheckoutFacts DEF CheckoutRefused, providerVars
  <1>2. call' = [call EXCEPT ![k] = IdleCall] /\ call[k].purchase = p /\ ~call[k].claimed
    BY DEF CheckoutRefused, MayOpen
  <1>3. call'[k] = IdleCall /\ \A l \in Calls \ {k} : call'[l] = call[l]
    BY <1>1, <1>2
  <1>4. ASSUME CheckoutOK(p) PROVE CheckoutOK(p)'
    <2>1. \A l \in Calls : Claimer(l, p)' <=> Claimer(l, p)
      BY <1>2, <1>3, IdleAgain DEF Claimer
    <2>2. \A l \in Calls : call'[l].purchase = p => call'[l] = call[l]
      BY <1>3, IdleAgain, CheckoutFacts
    <2>3. ClaimOK(p)'
      BY <1>1, <1>4, <2>1, <2>2 DEF CheckoutOK, ClaimOK, Claimable
    <2>4. \A l \in Calls : LateOK(l, p)'
      BY <1>1, <1>4, <2>2 DEF CheckoutOK, LateOK
    <2>5. QED BY <2>3, <2>4 DEF CheckoutOK
  <1>5. OpenedInv'
    BY <1>1, <1>3, IdleAgain, NothingOpened
  <1>6. QED BY <1>1, <1>2, <1>3, <1>4, <1>5, IdleAgain, CallOfCheckout

\* A call that opens a checkout beside another that may still do so has the claim,
\* or the row has been left alone for 30 seconds.
LEMMA OpenKeepsOne ==
  ASSUME PurchaseInv, CheckoutsInv, NEW k \in Calls, NEW p \in WebPurchases, NEW c \in Checkouts,
         OpenCheckout(k, p, c)
  PROVE  CheckoutsInv'
  <1>1. /\ p \in Purchases /\ p # NoPurchase /\ call \in [Calls -> Call] /\ CallOK(k)
        /\ opened \in [WebPurchases -> Seq(Checkouts)] /\ opened[p] \in Seq(Checkouts)
    BY CheckoutFacts
  <1> DEFINE after == [call[k] EXCEPT !.pc = "saving", !.checkout = c]
  <1>2. /\ after \in Call /\ after.purchase = p /\ after.claimed = call[k].claimed /\ after.pc = "saving"
        /\ after.late = call[k].late /\ after.checkout = c
        /\ call' = [call EXCEPT ![k] = after] /\ call[k].purchase = p /\ call[k].pc = "missing"
    BY <1>1 DEF OpenCheckout, Call
  <1> HIDE DEF after
  <1>3. call'[k] = after /\ \A l \in Calls \ {k} : call'[l] = call[l]
    BY <1>1, <1>2
  <1>4. /\ purchase' = purchase /\ UNCHANGED <<stops, shown, paid>> /\ opened'[p] = Append(opened[p], c)
        /\ \A q \in WebPurchases \ {p} : opened'[q] = opened[q]
    BY <1>1 DEF OpenCheckout
  <1>5. opened'[p] # <<>> /\ purchase[p].status # "none"
    BY <1>1, <1>2, <1>4, AppendProperties DEF CallOK
  <1>6. ASSUME CheckoutOK(p) PROVE CheckoutOK(p)'
    <2>1. ClaimOK(p)
      BY <1>6 DEF CheckoutOK
    <2>2. ~Claimable(p)
      BY <1>2, <2>1 DEF ClaimOK
    <2>3. \A l \in Calls : Claimer(l, p)' <=> Claimer(l, p)
      BY <1>2, <1>3 DEF Claimer
    <2>4. ClaimOK(p)'
      BY <1>4, <1>5, <2>1, <2>2, <2>3 DEF ClaimOK, Claimable
    <2>5. ASSUME NEW l \in Calls, l # k PROVE LateOK(l, p)'
      <3>1. LateOK(l, p) /\ call'[l] = call[l]
        BY <1>3, <1>6, <2>5 DEF CheckoutOK
      <3>2. CASE opened[p] # <<>>
        BY <1>4, <3>1, <3>2 DEF LateOK
      <3>3. CASE opened[p] = <<>>
        <4>1. purchase[p].payment = "processing"
          BY <1>5, <2>1, <2>2, <3>3 DEF ClaimOK
        <4>2. call[l].purchase = p /\ call[l].claimed => ~call[k].claimed
          BY <1>2, <2>1, <2>5 DEF ClaimOK, Claimer
        <4>3. call[k].claimed \/ ~purchase[p].recent
          BY DEF OpenCheckout, MayOpen
        <4>4. QED BY <1>4, <3>1, <4>1, <4>2, <4>3 DEF LateOK
      <3>4. QED BY <3>2, <3>3
    <2>6. LateOK(k, p)'
      <3>1. LateOK(k, p)
        BY <1>6 DEF CheckoutOK
      <3>2. QED BY <1>2, <1>3, <1>4, <3>1 DEF LateOK
    <2>7. QED BY <2>4, <2>5, <2>6 DEF CheckoutOK
  <1>7. IdleOK(k)'
    BY <1>1, <1>2, <1>3 DEF IdleOK
  <1>8. OpenedInv'
    <2>1. ASSUME NEW q \in WebPurchases, NEW d, Contains(opened[q], d) PROVE Contains(opened'[q], d)
      BY <1>1, <1>4, <2>1, ContainsMore
    <2>2. Contains(opened'[p], c)
      BY <1>1, <1>4, ContainsMore
    <2>3. \A l \in Calls : SavingOK(l)'
      <3>1. SavingOK(k)'
        BY <1>2, <1>3, <2>2 DEF SavingOK
      <3>2. \A l \in Calls \ {k} : SavingOK(l)'
        BY <1>3, <2>1 DEF CheckoutsInv, OpenedInv, SavingOK
      <3>3. QED BY <3>1, <3>2
    <2>4. QED BY <1>4, <2>1, <2>3 DEF CheckoutsInv, OpenedInv, WasOpened
  <1>9. QED BY <1>2, <1>4, <1>6, <1>7, <1>8, CallOfCheckout

LEMMA SaveKeepsOne ==
  ASSUME PurchaseInv, CheckoutsInv, NEW k \in Calls, NEW p \in WebPurchases, SaveCheckout(k, p)
  PROVE  CheckoutsInv'
  <1>1. /\ p \in Purchases /\ purchase \in [Purchases -> Purchase] /\ call \in [Calls -> Call] /\ CallOK(k)
        /\ opened[p] \in Seq(Checkouts)
    BY CheckoutFacts
  <1>2. /\ call' = [call EXCEPT ![k] = IdleCall] /\ call[k].purchase = p /\ call[k].checkout \in Checkouts
        /\ opened' = opened /\ UNCHANGED <<stops, paid>> /\ shown' = shown \cup {call[k].checkout}
    BY <1>1 DEF SaveCheckout, CallOK
  <1>3. call'[k] = IdleCall /\ \A l \in Calls \ {k} : call'[l] = call[l]
    BY <1>1, <1>2
  <1>4. /\ purchase'[p].checkout # NoCheckout /\ purchase'[p].recent
        /\ purchase'[p].payment # "processing" /\ purchase'[p].status = purchase[p].status
        /\ \A q \in WebPurchases \ {p} : purchase'[q] = purchase[q]
    BY <1>1, <1>2, ConstantTypes DEF SaveCheckout, Purchase, WebPurchases
  <1>5. Contains(opened[p], call[k].checkout)
    BY <1>2 DEF CheckoutsInv, OpenedInv, SavingOK, SaveCheckout
  <1>6. ASSUME CheckoutOK(p) PROVE CheckoutOK(p)'
    <2>1. \A l \in Calls : Claimer(l, p)' => Claimer(l, p) /\ l # k /\ call'[l] = call[l]
      BY <1>3, IdleAgain DEF Claimer
    <2>2. ~Claimable(p)' /\ opened[p] # <<>>
      BY <1>1, <1>4, <1>5, ContainsSomething DEF Claimable
    <2>3. ClaimOK(p)'
      BY <1>2, <1>4, <1>6, <2>1, <2>2 DEF CheckoutOK, ClaimOK
    <2>4. \A l \in Calls : LateOK(l, p)'
      BY <1>2, <1>3, <1>4, <1>6, IdleAgain DEF CheckoutOK, LateOK
    <2>5. QED BY <2>3, <2>4 DEF CheckoutOK
  <1>7. OpenedInv'
    <2>1. \A l \in Calls : SavingOK(l)'
      BY <1>2, <1>3, IdleAgain DEF CheckoutsInv, OpenedInv, SavingOK
    <2>2. QED BY <1>2, <1>5, <2>1 DEF CheckoutsInv, OpenedInv, WasOpened
  <1>8. QED BY <1>1, <1>2, <1>3, <1>4, <1>6, <1>7, IdleAgain, CallOfCheckout

LEMMA DiesKeepsOne ==
  ASSUME PurchaseInv, CheckoutsInv, NEW k \in Calls, CheckoutDies(k)
  PROVE  CheckoutsInv'
  <1>1. call \in [Calls -> Call] /\ stops \in 0..MaxStops /\ MaxStops \in Nat
    BY BoundsType DEF PurchaseInv, PurchaseTypeOK
  <1>2. call'[k] = IdleCall /\ (\A l \in Calls \ {k} : call'[l] = call[l]) /\ stops' # 0
    BY <1>1 DEF CheckoutDies
  <1>3. \A l \in Calls : IdleOK(l)'
    BY <1>2, IdleAgain DEF CheckoutsInv, IdleOK
  <1>4. OpenedInv'
    BY <1>2, IdleAgain, NothingOpened DEF CheckoutDies, providerVars
  <1>5. QED BY <1>2, <1>3, <1>4 DEF CheckoutsInv

\* Half a minute makes every call of the purchase late.
LEMMA HalfMinuteKeepsOne ==
  ASSUME PurchaseInv, CheckoutsInv, NEW p \in WebPurchases, HalfMinutePasses(p)
  PROVE  CheckoutsInv'
  <1>1. /\ p \in Purchases /\ purchase \in [Purchases -> Purchase]
    BY DEF PurchaseInv, PurchaseTypeOK, WebPurchases
  <1>2. \A l \in Calls : /\ SameButLate(l)
                         /\ call[l].purchase = p => call'[l].late
                         /\ call[l].purchase # p => call'[l] = call[l]
    BY HalfMinuteCalls
  <1>3. /\ UNCHANGED <<opened, shown, paid, stops>>
        /\ \A q \in WebPurchases \ {p} : purchase'[q] = purchase[q]
    BY <1>1 DEF HalfMinutePasses, providerVars, WebPurchases
  <1>4. /\ purchase'[p].status = purchase[p].status /\ purchase'[p].payment = purchase[p].payment
        /\ purchase'[p].checkout = purchase[p].checkout
    BY <1>1 DEF HalfMinutePasses, Purchase
  <1>5. OpenedInv'
    <2>1. \A l \in Calls : SavingOK(l)'
      BY <1>2, <1>3 DEF CheckoutsInv, OpenedInv, SavingOK, SameButLate
    <2>2. QED BY <1>3, <2>1, OpenedStays
  <1>6. \A l \in Calls : IdleOK(l)'
    BY <1>2 DEF CheckoutsInv, IdleOK, SameButLate
  <1>7. ASSUME NEW q \in WebPurchases, CheckoutOK(q) PROVE CheckoutOK(q)'
    <2>1. /\ Claimable(q)' <=> Claimable(q)
          /\ purchase'[q].status = purchase[q].status /\ purchase'[q].payment = purchase[q].payment
      BY <1>3, <1>4 DEF Claimable
    <2>2. \A l \in Calls : Claimer(l, q)' <=> Claimer(l, q)
      BY <1>2 DEF Claimer, SameButLate
    <2>3. ClaimOK(q)'
      BY <1>2, <1>3, <1>7, <2>1, <2>2 DEF CheckoutOK, ClaimOK, SameButLate
    <2>4. ASSUME NEW l \in Calls PROVE LateOK(l, q)'
      <3>1. CASE q = p
        BY <1>2, <3>1 DEF LateOK, SameButLate
      <3>2. CASE q # p
        BY <1>2, <1>3, <1>7, <3>2 DEF CheckoutOK, LateOK, SameButLate
      <3>3. QED BY <3>1, <3>2
    <2>5. QED BY <2>3, <2>4 DEF CheckoutOK
  <1>8. QED BY <1>3, <1>5, <1>6, <1>7 DEF CheckoutsInv

\* How the row of a purchase may change once it is paid.
Bills(p) ==
  /\ purchase[p].status # "none" /\ purchase'[p].status # "none"
  /\ purchase'[p].payment \notin OpenPayment /\ purchase'[p].recent
  /\ opened[p] # <<>> \/ purchase[p].payment \notin OpenPayment

\* Steps that touch a row only when it is paid or after that.
LEMMA BillingKeepsOne ==
  ASSUME CheckoutsInv, UNCHANGED <<call, opened>>, stops' = stops \/ stops' # 0, OpenedInv',
         \A p \in WebPurchases : purchase'[p] = purchase[p] \/ Bills(p)
  PROVE  CheckoutsInv'
  <1>1. \A l \in Calls : IdleOK(l)'
    BY DEF CheckoutsInv, IdleOK
  <1>2. ASSUME stops = 0, NEW p \in WebPurchases PROVE CheckoutOK(p)'
    <2>1. CheckoutOK(p)
      BY <1>2 DEF CheckoutsInv
    <2>2. \A l \in Calls : Claimer(l, p)' <=> Claimer(l, p)
      BY DEF Claimer
    <2>3. CASE purchase'[p] = purchase[p]
      <3>1. Claimable(p)' <=> Claimable(p)
        BY <2>3 DEF Claimable
      <3>2. ClaimOK(p)'
        BY <2>1, <2>2, <2>3, <3>1 DEF CheckoutOK, ClaimOK
      <3>3. \A l \in Calls : LateOK(l, p)'
        BY <2>1, <2>3 DEF CheckoutOK, LateOK
      <3>4. QED BY <3>2, <3>3 DEF CheckoutOK
    <2>4. CASE Bills(p)
      <3>1. ~Claimable(p)' /\ purchase'[p].payment # "processing" /\ opened[p] # <<>>
        BY <2>1, <2>4 DEF Bills, CheckoutOK, ClaimOK, Claimable, OpenPayment
      <3>2. ClaimOK(p)'
        BY <2>1, <2>2, <2>4, <3>1 DEF CheckoutOK, ClaimOK, Bills
      <3>3. \A l \in Calls : LateOK(l, p)'
        BY <2>1, <2>4 DEF CheckoutOK, LateOK, Bills
      <3>4. QED BY <3>2, <3>3 DEF CheckoutOK
    <2>5. QED BY <2>3, <2>4
  <1>3. QED BY <1>1, <1>2 DEF CheckoutsInv

\* Where calls and checkouts stay, so does what is said of them.
LEMMA CallsKeepOpened ==
  ASSUME PurchaseInv, CheckoutsInv, UNCHANGED <<call, opened, shown, paid>>
  PROVE  OpenedInv'
  BY OpenedStays DEF CheckoutsInv, OpenedInv, SavingOK

BillsOne(p) ==
  /\ UNCHANGED <<call, opened, shown, paid, stops>>
  /\ \A q \in WebPurchases \ {p} : purchase'[q] = purchase[q]
  /\ Bills(p)

LEMMA BillsOneKeepsOne ==
  ASSUME PurchaseInv, CheckoutsInv, NEW p \in WebPurchases, BillsOne(p)
  PROVE  CheckoutsInv'
  BY BillingKeepsOne, CallsKeepOpened DEF BillsOne

\* An order was shown to the user, so its checkout was opened.
LEMMA PaidWasOpened ==
  ASSUME PurchaseInv, CheckoutsInv, NEW e \in sent, NEW p \in WebPurchases, PaymentGrants(e, p)
  PROVE  opened[p] # <<>>
  <1>1. e.order \in Checkouts /\ paid[e.order] = Price /\ Price > 0
    <2>1. e \in Event /\ EventOK(e)
      BY EventSets DEF PurchaseInv, EventsInv
    <2>2. QED BY <2>1, EventShapes, ConstantTypes DEF PaymentGrants, Matches, EventOK
  <1>2. WasOpened(e.order)
    BY <1>1 DEF CheckoutsInv, OpenedInv
  <1>3. Contains(opened[p], e.order)
    BY <1>2 DEF PaymentGrants, PurchaseOf, WasOpened
  <1>4. opened[p] \in Seq(Checkouts)
    BY DEF PurchaseInv, PurchaseTypeOK
  <1>5. QED BY <1>3, <1>4, ContainsSomething

LEMMA PaymentKeepsOne ==
  ASSUME PurchaseInv, CheckoutsInv, NEW e \in sent, NEW p \in WebPurchases, PaymentGrants(e, p)
  PROVE  CheckoutsInv'
  <1>1. p \in Purchases
    BY DEF WebPurchases
  <1>2. purchase \in [Purchases -> Purchase] /\ RowOK(p)
    BY <1>1, PurchaseFacts
  <1>3. purchase[p].status # "none"
    BY <1>2 DEF PaymentGrants, MayBePaid, Unpaid, RowOK, NoRow
  <1>4. /\ purchase'[p].status = "completed" /\ purchase'[p].payment = "paid" /\ purchase'[p].recent
        /\ \A q \in WebPurchases \ {p} : purchase'[q] = purchase[q]
    BY <1>1, <1>2 DEF PaymentGrants, Purchase, WebPurchases
  <1>5. BillsOne(p)
    BY <1>3, <1>4, PaidWasOpened DEF BillsOne, Bills, PaymentGrants, providerVars, OpenPayment
  <1>6. QED BY <1>5, BillsOneKeepsOne

LEMMA RefundAppliesKeepsOne ==
  ASSUME PurchaseInv, CheckoutsInv, NEW e \in sent, NEW p \in WebPurchases, RefundApplies(e, p)
  PROVE  CheckoutsInv'
  <1>1. p \in Purchases
    BY DEF WebPurchases
  <1>2. purchase \in [Purchases -> Purchase] /\ RowOK(p) /\ WebOK(p)
    BY <1>1, PurchaseFacts
  <1>3. purchase[p].order # NoCheckout
    BY EventSets, EventShapes, ConstantTypes DEF RefundApplies
  <1>4. CASE purchase' = purchase
    BY <1>4, BillingKeepsOne, CallsKeepOpened DEF RefundApplies, providerVars
  <1>5. CASE purchase' # purchase
    <2>1. purchase' = [purchase EXCEPT ![p] =
            [@ EXCEPT !.booked = e.amount, !.recent = TRUE,
                      !.payment = AfterRefund(purchase[p].payment, e.amount, "partially_refunded"),
                      !.status = AfterRefund(purchase[p].status, e.amount, "completed")]]
      BY <1>5 DEF RefundApplies
    <2>2. /\ purchase'[p].status = AfterRefund(purchase[p].status, e.amount, "completed")
          /\ purchase'[p].payment = AfterRefund(purchase[p].payment, e.amount, "partially_refunded")
          /\ purchase'[p].recent
          /\ \A q \in WebPurchases \ {p} : purchase'[q] = purchase[q]
      BY <1>1, <1>2, <2>1 DEF Purchase, WebPurchases
    <2>3. /\ purchase'[p].status # "none" /\ purchase'[p].payment \notin OpenPayment
          /\ purchase[p].status # "none" /\ purchase[p].payment \notin OpenPayment
      BY <1>2, <1>3, <2>2 DEF AfterRefund, OpenPayment, WebOK, RowOK, Open
    <2>4. BillsOne(p)
      BY <2>2, <2>3 DEF BillsOne, Bills, RefundApplies, providerVars
    <2>5. QED BY <2>4, BillsOneKeepsOne
  <1>6. QED BY <1>4, <1>5

LEMMA RefundedKeepsOne ==
  ASSUME PurchaseInv, CheckoutsInv, NEW p \in WebPurchases, UNCHANGED <<call, opened, shown, paid, stops>>, NEW n,
         purchase' = [purchase EXCEPT ![p] =
           [@ EXCEPT !.status = "refunded", !.payment = "refunded", !.recent = TRUE, !.booked = n]],
         purchase[p].order # NoCheckout
  PROVE  CheckoutsInv'
  <1>1. p \in Purchases
    BY DEF WebPurchases
  <1>2. purchase \in [Purchases -> Purchase] /\ RowOK(p) /\ WebOK(p)
    BY <1>1, PurchaseFacts
  <1>3. /\ purchase'[p].status = "refunded" /\ purchase'[p].payment = "refunded" /\ purchase'[p].recent
        /\ \A q \in WebPurchases \ {p} : purchase'[q] = purchase[q]
    BY <1>1, <1>2 DEF Purchase, WebPurchases
  <1>4. BillsOne(p)
    BY <1>2, <1>3 DEF BillsOne, Bills, OpenPayment, WebOK, RowOK, Open
  <1>5. QED BY <1>4, BillsOneKeepsOne

LEMMA RefundsKeepOne ==
  ASSUME PurchaseInv, CheckoutsInv, NEW r \in Refunds, NEW p \in WebPurchases,
         CompleteRefund(r, p) \/ \E e \in sent : RefundConfirms(e, p, r)
  PROVE  CheckoutsInv'
  <1>1. purchase[p].order # NoCheckout
    <2>1. refund[r].purchase = p /\ refund[r].status # "none"
      BY RefundFacts, AskedFor DEF CompleteRefund, RefundConfirms, Pending, Locking, RefundOK, NoRefund
    <2>2. QED BY <2>1, RefundFacts DEF RefundOK
  <1>2. CASE CompleteRefund(r, p)
    BY <1>1, <1>2, RefundedKeepsOne DEF CompleteRefund, providerVars
  <1>3. CASE \E e \in sent : RefundConfirms(e, p, r)
    BY <1>1, <1>3, RefundedKeepsOne DEF RefundConfirms, providerVars
  <1>4. QED BY <1>2, <1>3

\* Store purchases have no checkouts.
LEMMA StoresKeepOne ==
  ASSUME PurchaseInv, CheckoutsInv, NEW p \in StorePurchases,
         VerifyInApp(p) \/ VerifyProof(p) \/ \E e \in sent : ForceReversal(e, p)
  PROVE  CheckoutsInv'
  <1>1. p \notin WebPurchases /\ WebPurchases \subseteq Purchases
    BY DEF WebPurchases
  <1>2. purchase \in [Purchases -> Purchase]
    BY DEF PurchaseInv, PurchaseTypeOK
  <1>3. (\A q \in WebPurchases : purchase'[q] = purchase[q]) /\ UNCHANGED <<call, opened, shown, paid, stops>>
    BY <1>1, <1>2 DEF VerifyInApp, VerifyProof, ForceReversal, serviceVars, providerVars
  <1>4. QED BY <1>3, BillingKeepsOne, CallsKeepOpened

\* Only a checkout that is shown is paid.
LEMMA ProviderKeepsOne ==
  ASSUME PurchaseInv, CheckoutsInv, ProviderStep
  PROVE  CheckoutsInv'
  <1>1. UNCHANGED <<call, opened, purchase, shown, stops>>
    BY DEF serviceVars, ProviderStep, PayCheckout, MerchantRefund, ProviderTakesRefund,
           ProviderRefunds, ProviderRefuses, StoreRevokes
  <1>2. OpenedInv'
    <2>1. CASE UNCHANGED paid
      BY <1>1, <2>1, CallsKeepOpened
    <2>2. ASSUME NEW c \in Checkouts, NEW n \in Charges, PayCheckout(c, n) PROVE OpenedInv'
      <3>1. \A d \in Checkouts : paid'[d] > 0 => d \in shown
        BY <2>2 DEF PayCheckout, CheckoutsInv, OpenedInv, PurchaseInv, PurchaseTypeOK
      <3>2. QED BY <1>1, <3>1 DEF CheckoutsInv, OpenedInv, SavingOK, WasOpened
    <2>3. QED BY <2>1, <2>2 DEF ProviderStep, MerchantRefund, ProviderTakesRefund,
                               ProviderRefunds, ProviderRefuses, StoreRevokes
  <1>3. QED BY <1>1, <1>2, BillingKeepsOne

\* Steps without a purchase.
LEMMA OthersKeepOne ==
  ASSUME PurchaseInv, CheckoutsInv,
         \/ UNCHANGED otherVars \/ UNCHANGED vars
         \/ \E p \in WebPurchases, c \in Checkouts : Reconcile(p, c)
         \/ \E e \in sent, p \in WebPurchases : PaymentIsNoNews(e, p) \/ RefundMismatch(e, p)
         \/ \E r \in Refunds : \/ \E p \in WebPurchases : RequestRefund(r, p)
                               \/ RefundAnswers(r) \/ RecordAnswer(r) \/ CompletedAlready(r)
                               \/ RepeatRefund(r) \/ RefundDies(r)
  PROVE  CheckoutsInv'
  <1>1. UNCHANGED <<call, opened, purchase, shown, paid>>
    BY DEF otherVars, vars, serviceVars, providerVars, Reconcile, PaymentIsNoNews, RefundMismatch,
           RequestRefund, RefundAnswers, RecordAnswer, CompletedAlready, RepeatRefund, RefundDies
  <1>2. stops' = stops \/ stops' = stops + 1
    BY DEF otherVars, vars, serviceVars, providerVars, Reconcile, PaymentIsNoNews, RefundMismatch,
           RequestRefund, RefundAnswers, RecordAnswer, CompletedAlready, RepeatRefund, RefundDies
  <1>3. stops' = stops \/ stops' # 0
    BY <1>2, BoundsType DEF PurchaseInv, PurchaseTypeOK
  <1>4. QED BY <1>1, <1>3, BillingKeepsOne, CallsKeepOpened

\* Every step keeps it.
LEMMA CheckoutsStep ==
  PurchaseInv /\ CheckoutsInv /\ [Next]_vars => CheckoutsInv'
  <1> SUFFICES ASSUME PurchaseInv, CheckoutsInv, [Next]_vars PROVE CheckoutsInv'
    OBVIOUS
  <1>1. CASE CreditStep /\ UNCHANGED otherVars
    BY <1>1, OthersKeepOne
  <1>2. CASE \E k \in Calls : CheckoutStep(k)
    BY <1>2, CreateKeepsOne, ClaimKeepsOne, FindKeepsOne, RefusedKeepsOne, OpenKeepsOne, SaveKeepsOne,
       DiesKeepsOne DEF CheckoutStep
  <1>3. CASE \E p \in WebPurchases : HalfMinutePasses(p) \/ \E c \in Checkouts : Reconcile(p, c)
    BY <1>3, HalfMinuteKeepsOne, OthersKeepOne
  <1>4. CASE \E e \in sent : EventStep(e)
    BY <1>4, PaymentKeepsOne, RefundAppliesKeepsOne, RefundsKeepOne, StoresKeepOne, OthersKeepOne DEF EventStep
  <1>5. CASE \E r \in Refunds : RefundStep(r)
    BY <1>5, RefundsKeepOne, OthersKeepOne DEF RefundStep
  <1>6. CASE \E p \in StorePurchases : VerifyProof(p) \/ VerifyInApp(p)
    BY <1>6, StoresKeepOne
  <1>7. CASE ProviderStep \/ UNCHANGED vars
    BY <1>7, ProviderKeepsOne, OthersKeepOne
  <1>8. QED BY <1>1, <1>2, <1>3, <1>4, <1>5, <1>6, <1>7 DEF Next, otherVars

LEMMA CheckoutsBegin == Init => CheckoutsInv
  <1> SUFFICES ASSUME Init PROVE CheckoutsInv
    OBVIOUS
  <1>1. \A k \in Calls : call[k] = IdleCall
    BY DEF Init
  <1>2. \A k \in Calls : IdleOK(k) /\ SavingOK(k)
    BY <1>1 DEF IdleOK, SavingOK, IdleCall
  <1>3. OpenedInv
    BY <1>2 DEF Init, OpenedInv
  <1>4. ASSUME NEW p \in WebPurchases PROVE CheckoutOK(p)
    <2>1. opened[p] = <<>> /\ purchase[p] = NoRow
      BY <1>4 DEF Init, WebPurchases
    <2>2. \A k \in Calls : ~Claimer(k, p) /\ LateOK(k, p)
      BY <1>1, ConstantTypes DEF Claimer, LateOK, IdleCall, WebPurchases
    <2>3. QED BY <2>1, <2>2 DEF CheckoutOK, ClaimOK, Claimable, NoRow
  <1>5. QED BY <1>2, <1>3, <1>4 DEF CheckoutsInv

\* What OneCheckoutPerPurchase says of a step.
OpenedOnlyByDeadOrLate ==
  \A p \in WebPurchases : opened[p] # <<>> /\ opened'[p] # opened[p] =>
    stops > 0 \/ \E k \in Calls :
                   /\ call[k].purchase = p /\ call[k].late
                   /\ call[k].claimed \/ call'[k] # call[k]

\* Only a call that opens a checkout for p changes what was opened for p.
LEMMA OpenedByOne ==
  ASSUME PurchaseInv, [Next]_vars, NEW p \in WebPurchases, opened'[p] # opened[p]
  PROVE  \E k \in Calls, c \in Checkouts : OpenCheckout(k, p, c)
  <1>1. ASSUME NEW k \in Calls, NEW q \in WebPurchases, NEW c \in Checkouts, OpenCheckout(k, q, c)
        PROVE  q = p
    BY <1>1 DEF OpenCheckout, PurchaseInv, PurchaseTypeOK
  <1>2. CASE \E k \in Calls : CheckoutStep(k)
    <2>1. PICK k \in Calls : CheckoutStep(k)
      BY <1>2
    <2>2. \E q \in WebPurchases, c \in Checkouts : OpenCheckout(k, q, c)
      BY <2>1 DEF CheckoutStep, CheckoutDies, CreateCheckout, ClaimCheckout, FindCheckout, CheckoutRefused,
                  SaveCheckout, providerVars
    <2>3. QED BY <1>1, <2>2
  <1>3. CASE CreditStep /\ UNCHANGED otherVars
    BY <1>3 DEF otherVars, providerVars
  <1>4. CASE \E q \in WebPurchases : HalfMinutePasses(q) \/ \E c \in Checkouts : Reconcile(q, c)
    BY <1>4 DEF HalfMinutePasses, Reconcile, providerVars
  <1>5. CASE \E e \in sent : EventStep(e)
    <2>1. PICK e \in sent : EventStep(e)
      BY <1>5
    <2>2. ASSUME NEW q \in WebPurchases, PaymentGrants(e, q) \/ PaymentIsNoNews(e, q) \/ RefundMismatch(e, q)
          PROVE  UNCHANGED opened
      BY <2>2 DEF PaymentGrants, PaymentIsNoNews, RefundMismatch, providerVars
    <2>3. ASSUME NEW q \in WebPurchases, RefundApplies(e, q) \/ \E r \in Refunds : RefundConfirms(e, q, r)
          PROVE  UNCHANGED opened
      BY <2>3 DEF RefundApplies, RefundConfirms, providerVars
    <2>4. ASSUME NEW q \in StorePurchases, ForceReversal(e, q) PROVE UNCHANGED opened
      BY <2>4 DEF ForceReversal, providerVars
    <2>5. QED BY <2>1, <2>2, <2>3, <2>4 DEF EventStep
  <1>6. CASE \E r \in Refunds : RefundStep(r)
    BY <1>6 DEF RefundStep, RequestRefund, CompleteRefund, RefundAnswers, RecordAnswer, CompletedAlready,
                RepeatRefund, RefundDies, providerVars
  <1>7. CASE \E q \in StorePurchases : VerifyProof(q) \/ VerifyInApp(q)
    BY <1>7 DEF VerifyProof, VerifyInApp
  <1>8. CASE ProviderStep \/ UNCHANGED vars
    BY <1>8 DEF ProviderStep, PayCheckout, MerchantRefund, ProviderTakesRefund, ProviderRefunds,
                ProviderRefuses, StoreRevokes, vars, providerVars
  <1>9. QED BY <1>2, <1>3, <1>4, <1>5, <1>6, <1>7, <1>8 DEF Next, otherVars

\* However many calls there are, a second checkout of a purchase needs a call
\* that died or one that is slow: the call with the claim or the one that opens it.
THEOREM OneCheckout == Spec => OneCheckoutPerPurchase
  <1>1. ASSUME PurchaseInv, CheckoutsInv, [Next]_vars PROVE OpenedOnlyByDeadOrLate
    <2> SUFFICES ASSUME NEW p \in WebPurchases, opened[p] # <<>>, opened'[p] # opened[p], stops = 0
                 PROVE  \E k \in Calls :
                          /\ call[k].purchase = p /\ call[k].late
                          /\ call[k].claimed \/ call'[k] # call[k]
      <3>1. stops = 0 \/ stops > 0
        BY <1>1, BoundsType DEF PurchaseInv, PurchaseTypeOK
      <3>2. QED BY <3>1 DEF OpenedOnlyByDeadOrLate
    <2>1. PICK k \in Calls, c \in Checkouts : OpenCheckout(k, p, c)
      BY <1>1, OpenedByOne
    <2>2. /\ call[k].purchase = p /\ call[k].pc = "missing" /\ call'[k].pc = "saving"
          /\ call[k].claimed \/ ~purchase[p].recent
      BY <1>1, <2>1 DEF OpenCheckout, MayOpen, PurchaseInv, PurchaseTypeOK, Call
    <2>3. ClaimOK(p) /\ \A l \in Calls : LateOK(l, p)
      BY <1>1 DEF CheckoutsInv, CheckoutOK
    <2>4. CASE call[k].claimed
      BY <2>2, <2>3, <2>4 DEF LateOK
    <2>5. CASE ~purchase[p].recent /\ purchase[p].payment = "processing"
      <3>1. PICK l \in Calls : Claimer(l, p)
        BY <2>3, <2>5 DEF ClaimOK
      <3>2. QED BY <2>3, <2>5, <3>1 DEF Claimer, LateOK
    <2>6. CASE ~purchase[p].recent /\ purchase[p].payment # "processing"
      BY <2>2, <2>3, <2>6 DEF LateOK
    <2>7. QED BY <2>2, <2>4, <2>5, <2>6
  <1>2. PurchaseInv /\ CheckoutsInv /\ [Next]_vars => [OpenedOnlyByDeadOrLate]_vars
    BY <1>1
  <1>3. QED
    BY <1>2, CheckoutsBegin, CheckoutsStep, PurchasesInvariant, PTL
    DEF Spec, OneCheckoutPerPurchase, OpenedOnlyByDeadOrLate


-----------------------------------------------------------------------------
(***************************************************************************)
(* Credits and money go back together                                      *)
(***************************************************************************)

\* A refund that was asked for gives back some money: at least half of the
\* credits are left, and the fee is a part of what they cost.
MoneyInv == \A r \in Refunds : refund[r].status # "none" => refund[r].money > 0

LEMMA GrossIsPositive ==
  ASSUME NEW price \in Nat, price > 1, NEW a \in Nat \ {0}, NEW u \in Nat, 2 * u >= a
  PROVE  (price * u) \div a > 0
  <1>1. price * u >= 2 * u
    OBVIOUS
  <1>2. price * u >= a /\ price * u \in Nat
    BY <1>1
  <1>3. QED BY <1>2

\* The fee of a refund is less than its amount,
LEMMA FeeIsLess ==
  ASSUME NEW gross \in Nat, gross > 0, NEW percent \in 0..99
  PROVE  (gross * percent) \div 100 < gross
  OBVIOUS

\* so that every refund gives money back,
LEMMA RefundHasMoney ==
  ASSUME Price > 1, FeePercent < 100, NEW p \in Purchases, Unrecovered(p) \in Nat, 2 * Unrecovered(p) >= PaidAmount
  PROVE  Gross(p) - Fee(p) > 0
  <1> DEFINE left == Unrecovered(p)
             gross == Gross(p)
  <1>1. gross = (Price * left) \div PaidAmount /\ left \in Nat /\ 2 * left >= PaidAmount
    BY DEF Gross
  <1>2. gross \in Nat /\ Fee(p) \in Nat /\ Fee(p) = (gross * FeePercent) \div 100
    BY RefundMoney DEF Fee
  <1> HIDE DEF left, gross
  <1>3. gross > 0
    BY <1>1, ConstantTypes, GrossIsPositive
  <1>4. Fee(p) < gross
    BY <1>2, <1>3, ConstantTypes, FeeIsLess
  <1>5. QED BY <1>2, <1>4 DEF gross

\* whatever step is taken.
LEMMA MoneyStep ==
  ASSUME Price > 1, FeePercent < 100, PurchaseInv, MoneyInv, [Next]_vars
  PROVE  MoneyInv'
  <1>1. refund \in [Refunds -> Refund]
    BY DEF PurchaseInv, PurchaseTypeOK, CreditTypeOK
  <1>2. ASSUME UNCHANGED refund PROVE MoneyInv'
    BY <1>2 DEF MoneyInv
  <1>3. ASSUME NEW r \in Refunds, NEW s, refund' = [refund EXCEPT ![r].status = s], refund[r].status # "none"
        PROVE  MoneyInv'
    BY <1>1, <1>3 DEF MoneyInv, Refund
  <1>4. ASSUME NEW r \in Refunds, NEW p \in WebPurchases, RequestRefund(r, p) PROVE MoneyInv'
    <2>1. p \in Purchases /\ CreditTypeOK
      BY DEF WebPurchases, PurchaseInv, PurchaseTypeOK
    <2>2. PurchaseCredits(p)
      BY <2>1, TypesGiveFacts DEF CreditFacts
    <2>3. Unrecovered(p) \in Nat /\ 2 * Unrecovered(p) >= PaidAmount
      <3>1. Unrecovered(p) = NotBelowZero(PaidAmount - used[p] - recovered[p])
        BY <2>2 DEF PurchaseCredits
      <3>2. Unrecovered(p) \in Nat
        BY <2>1, <3>1, PurchaseFacts DEF NotBelowZero
      <3>3. QED BY <1>4, <3>2 DEF RequestRefund, Refundable
    <2> DEFINE money == Gross(p) - Fee(p)
    <2>4. money > 0
      BY <2>1, <2>3, RefundHasMoney
    <2>5. refund' = [refund EXCEPT ![r] = [status |-> "payment_processing", purchase |-> p,
                                           credits |-> Unrecovered(p), money |-> money]]
      BY <1>4 DEF RequestRefund
    <2> HIDE DEF money
    <2>6. \A s \in Refunds : refund'[s].money = IF s = r THEN money ELSE refund[s].money
      BY <1>1, <2>5
    <2>7. \A s \in Refunds \ {r} : refund'[s].status = refund[s].status
      BY <1>1, <2>5
    <2>8. QED BY <2>4, <2>6, <2>7 DEF MoneyInv
  <1>5. ASSUME NEW r \in Refunds, RecordAnswer(r) PROVE MoneyInv'
    <2>1. refund[r].status # "none"
      BY <1>5, RefundFacts DEF RecordAnswer, RefundOK
    <2>2. QED BY <1>3, <1>5, <2>1 DEF RecordAnswer
  <1>6. ASSUME NEW r \in Refunds, NEW p \in WebPurchases, CompleteRefund(r, p) PROVE MoneyInv'
    <2>1. refund[r].status # "none"
      BY <1>6, RefundFacts DEF CompleteRefund, RefundOK
    <2>2. QED BY <1>3, <1>6, <2>1 DEF CompleteRefund
  <1>7. ASSUME NEW r \in Refunds, NEW p \in WebPurchases, NEW e \in sent, RefundConfirms(e, p, r) PROVE MoneyInv'
    <2>1. refund[r].status # "none"
      BY <1>7 DEF RefundConfirms, Pending, Locking
    <2>2. QED BY <1>3, <1>7, <2>1 DEF RefundConfirms
  <1>8. CASE CreditStep
    <2>1. UNCHANGED refund
      BY <1>8 DEF CreditStep, GrantFree, FreeExpires, ReserveCredits, ReleaseReservation, CaptureReservation,
                  SpendCredits, ChargeGrants, Grant
    <2>2. QED BY <1>2, <2>1
  <1>9. CASE \/ \E k \in Calls : CheckoutStep(k)
             \/ \E p \in WebPurchases : HalfMinutePasses(p) \/ \E c \in Checkouts : Reconcile(p, c)
             \/ \E p \in StorePurchases : VerifyProof(p) \/ VerifyInApp(p)
             \/ ProviderStep \/ UNCHANGED vars
    <2>1. ASSUME \E k \in Calls : CheckoutStep(k) PROVE UNCHANGED creditVars
      BY <2>1, CheckoutFrame
    <2>2. ASSUME ProviderStep PROVE UNCHANGED creditVars
      BY <2>2, ProviderFrame
    <2>3. ASSUME \/ \E p \in WebPurchases : HalfMinutePasses(p) \/ \E c \in Checkouts : Reconcile(p, c)
                 \/ \E p \in StorePurchases : VerifyProof(p)
                 \/ UNCHANGED vars
          PROVE  UNCHANGED creditVars
      <3>1. ASSUME NEW p \in StorePurchases, VerifyProof(p) PROVE UNCHANGED creditVars
        BY <3>1 DEF VerifyProof
      <3>2. UNCHANGED vars => UNCHANGED creditVars
        BY DEF vars
      <3>3. QED BY <2>3, <3>1, <3>2, ReconcileFrame
    <2>4. UNCHANGED refund
      BY <1>9, <2>1, <2>2, <2>3 DEF creditVars, VerifyInApp
    <2>5. QED BY <1>2, <2>4
  <1>10. CASE \E e \in sent : EventStep(e)
    <2>1. PICK e \in sent : EventStep(e)
      BY <1>10
    <2>2. ASSUME NEW p \in WebPurchases, PaymentGrants(e, p) \/ PaymentIsNoNews(e, p)
          PROVE  UNCHANGED refund
      BY <2>2 DEF PaymentGrants, PaymentIsNoNews, Grant, creditVars
    <2>3. ASSUME NEW p \in WebPurchases, RefundMismatch(e, p) \/ RefundApplies(e, p)
          PROVE  UNCHANGED refund
      BY <2>3 DEF RefundMismatch, RefundApplies, creditVars
    <2>4. ASSUME NEW p \in StorePurchases, ForceReversal(e, p) PROVE UNCHANGED refund
      BY <2>4 DEF ForceReversal
    <2>5. QED BY <1>2, <1>7, <2>1, <2>2, <2>3, <2>4 DEF EventStep
  <1>11. CASE \E r \in Refunds : RefundStep(r)
    BY <1>2, <1>4, <1>5, <1>6, <1>11 DEF RefundStep, RefundAnswers, CompletedAlready, RepeatRefund, RefundDies, creditVars
  <1>12. QED BY <1>8, <1>9, <1>10, <1>11 DEF Next

\* What the promise says of a purchase.
StateOf(p) == CASE purchase[p].status \in {"none", "pending"} -> "open"
                [] purchase[p].status = "completed" -> "granted"
                [] OTHER -> "over"

CreditsLeft(p) == IF Contains(granted, p) THEN PaidAmount - recovered[p] ELSE 0

SameFor(p) ==
  /\ StateOf(p)' = StateOf(p)
  /\ CreditsLeft(p)' = CreditsLeft(p)
  /\ purchase'[p].booked = purchase[p].booked

\* What the steps of the promise look like from here: a stutter,
LEMMA PromiseStays ==
  ASSUME \A p \in Purchases : SameFor(p)
  PROVE  [Promise!PromiseNext]_(Promise!promiseVars)
  BY DEF SameFor, StateOf, CreditsLeft, Promise!promiseVars

\* a payment,
LEMMA PromisePays ==
  ASSUME NEW p \in Purchases, \A q \in Purchases \ {p} : SameFor(q),
         StateOf(p) = "open", StateOf(p)' = "granted", CreditsLeft(p)' = PaidAmount,
         purchase'[p].booked = purchase[p].booked
  PROVE  Promise!PromiseNext
  <1>1. Promise!Pay(p)
    BY DEF SameFor, StateOf, CreditsLeft, Promise!Pay
  <1>2. QED BY <1>1 DEF Promise!PromiseNext

\* and a refund.
LEMMA PromiseGivesBack ==
  ASSUME NEW p \in Purchases, \A q \in Purchases \ {p} : SameFor(q),
         StateOf(p) # "open", StateOf(p)' \in {"granted", "over"}, StateOf(p) = "over" => StateOf(p)' = "over",
         CreditsLeft(p)' <= CreditsLeft(p), purchase'[p].booked > purchase[p].booked
  PROVE  Promise!PromiseNext
  <1>1. /\ [q \in Purchases |-> StateOf(q)']
             = [[q \in Purchases |-> StateOf(q)] EXCEPT ![p] = StateOf(p)']
        /\ [q \in Purchases |-> CreditsLeft(q)']
             = [[q \in Purchases |-> CreditsLeft(q)] EXCEPT ![p] = CreditsLeft(p)']
        /\ [q \in Purchases |-> purchase'[q].booked]
             = [[q \in Purchases |-> purchase[q].booked] EXCEPT ![p] = purchase'[p].booked]
    BY DEF SameFor
  <1>2. Promise!GiveBack(p)
    BY <1>1 DEF StateOf, CreditsLeft, Promise!GiveBack
  <1>3. QED BY <1>2 DEF Promise!PromiseNext

\* Steps that change no credits, and no row in a way the promise sees.
LEMMA PromiseUntouched ==
  ASSUME UNCHANGED <<granted, recovered>>,
         \A p \in Purchases : StateOf(p)' = StateOf(p) /\ purchase'[p].booked = purchase[p].booked
  PROVE  [Promise!PromiseNext]_(Promise!promiseVars)
  BY PromiseStays DEF SameFor, CreditsLeft

LEMMA PromiseUnchanged ==
  ASSUME UNCHANGED <<granted, recovered, purchase>>
  PROVE  [Promise!PromiseNext]_(Promise!promiseVars)
  BY PromiseUntouched DEF StateOf

\* Other purchases do not notice.
LEMMA OthersSame ==
  ASSUME PurchaseInv, NEW p \in Purchases,
         \A q \in Purchases \ {p} : /\ purchase'[q] = purchase[q] /\ recovered'[q] = recovered[q]
                                    /\ Contains(granted', q) <=> Contains(granted, q)
  PROVE  \A q \in Purchases \ {p} : SameFor(q)
  BY DEF SameFor, StateOf, CreditsLeft

LEMMA UnbilledKeepsPromise ==
  ASSUME PurchaseInv, NEW p \in WebPurchases, Unbilled(p), UNCHANGED <<granted, recovered>>
  PROVE  [Promise!PromiseNext]_(Promise!promiseVars)
  <1>1. p \in Purchases
    BY DEF WebPurchases
  <1>2. PICK row \in Purchase :
          /\ purchase' = [purchase EXCEPT ![p] = row]
          /\ row.status \in Open <=> purchase[p].status \in Open
          /\ row.status = purchase[p].status \/ purchase[p].status = "none"
          /\ row.booked = purchase[p].booked
    BY DEF Unbilled
  <1>3. \A q \in Purchases : purchase'[q] = IF q = p THEN row ELSE purchase[q]
    BY <1>1, <1>2, PurchaseFacts
  <1>4. \A q \in Purchases : StateOf(q)' = StateOf(q) /\ purchase'[q].booked = purchase[q].booked
    BY <1>1, <1>2, <1>3 DEF StateOf, Open
  <1>5. QED BY <1>4, PromiseUntouched

LEMMA PaymentKeepsPromise ==
  ASSUME PurchaseInv, NEW e \in sent, NEW p \in WebPurchases, PaymentGrants(e, p)
  PROVE  Promise!PromiseNext
  <1>1. p \in Purchases
    BY DEF WebPurchases
  <1>2. /\ purchase \in [Purchases -> Purchase] /\ RowOK(p) /\ CreditTypeOK /\ p \in Grants
        /\ PaidAmount \in Nat
    BY <1>1, PurchaseFacts
  <1>3. purchase[p].status \in Open /\ recovered[p] = 0
    BY <1>2 DEF PaymentGrants, MayBePaid, Unpaid, RowOK, OpenPayment
  <1>4. /\ purchase'[p].status = "completed" /\ purchase'[p].booked = purchase[p].booked
        /\ \A q \in Purchases \ {p} : purchase'[q] = purchase[q]
        /\ recovered' = recovered
    BY <1>1, <1>2 DEF PaymentGrants, Purchase
  <1>5. Contains(granted', p) /\ \A q : q # p => (Contains(granted', q) <=> Contains(granted, q))
    BY <1>2, ContainsAfterGrant DEF PaymentGrants
  <1>6. StateOf(p) = "open" /\ StateOf(p)' = "granted" /\ CreditsLeft(p)' = PaidAmount
    BY <1>2, <1>3, <1>4, <1>5 DEF StateOf, Open, CreditsLeft
  <1>7. \A q \in Purchases \ {p} : SameFor(q)
    BY <1>1, <1>4, <1>5, OthersSame
  <1>8. QED BY <1>1, <1>4, <1>6, <1>7, PromisePays

LEMMA VerifyInAppKeepsPromise ==
  ASSUME PurchaseInv, NEW p \in StorePurchases, VerifyInApp(p)
  PROVE  [Promise!PromiseNext]_(Promise!promiseVars)
  <1>1. p \in Purchases
    BY ConstantTypes
  <1>2. /\ purchase \in [Purchases -> Purchase] /\ RowOK(p) /\ CreditTypeOK /\ p \in Grants
        /\ PaidAmount \in Nat
    BY <1>1, PurchaseFacts
  <1>3. CASE ~FirstProof(p)
    BY <1>3, PromiseUnchanged DEF VerifyInApp
  <1>4. CASE FirstProof(p)
    <2>1. /\ purchase[p].status = "none" /\ purchase[p].booked = 0 /\ recovered[p] = 0
      BY <1>2, <1>4 DEF FirstProof, NoRow, RowOK, Open
    <2>2. /\ purchase'[p].status = "completed" /\ purchase'[p].booked = 0
          /\ \A q \in Purchases \ {p} : purchase'[q] = purchase[q]
          /\ recovered' = recovered
      BY <1>1, <1>2, <1>4 DEF VerifyInApp, NewRow, NoRow
    <2>3. Contains(granted', p) /\ \A q : q # p => (Contains(granted', q) <=> Contains(granted, q))
      BY <1>2, <1>4, ContainsAfterGrant DEF VerifyInApp
    <2>4. StateOf(p) = "open" /\ StateOf(p)' = "granted" /\ CreditsLeft(p)' = PaidAmount
      BY <1>2, <2>1, <2>2, <2>3 DEF StateOf, CreditsLeft
    <2>5. \A q \in Purchases \ {p} : SameFor(q)
      BY <1>1, <2>2, <2>3, OthersSame
    <2>6. QED BY <1>1, <2>1, <2>2, <2>4, <2>5, PromisePays
  <1>5. QED BY <1>3, <1>4

\* Credits are taken back with money that is given back.
LEMMA TakingBack ==
  ASSUME PurchaseInv, NEW p \in Purchases, UNCHANGED granted,
         NEW s, NEW m, NEW n \in Nat, n > purchase[p].booked,
         purchase' = [purchase EXCEPT ![p] = [@ EXCEPT !.status = s, !.payment = m, !.recent = TRUE, !.booked = n]],
         NEW k \in Nat, recovered' = [recovered EXCEPT ![p] = recovered[p] + k],
         purchase[p].status \notin Open,
         s \in {"completed", "refunded", "reversed"},
         purchase[p].status # "completed" => s # "completed"
  PROVE  Promise!PromiseNext
  <1>1. /\ purchase \in [Purchases -> Purchase] /\ purchase[p] \in Purchase /\ RowOK(p)
        /\ recovered \in [Purchases -> Nat] /\ recovered[p] \in Nat /\ PaidAmount \in Nat
    BY PurchaseFacts
  <1>2. /\ purchase'[p].status = s /\ purchase'[p].booked = n
        /\ recovered'[p] = recovered[p] + k
        /\ \A q \in Purchases \ {p} : purchase'[q] = purchase[q] /\ recovered'[q] = recovered[q]
    BY <1>1 DEF Purchase
  <1>3. Contains(granted, p)
    BY <1>1 DEF RowOK
  <1>4. CreditsLeft(p)' <= CreditsLeft(p)
    BY <1>1, <1>2, <1>3 DEF CreditsLeft
  <1>5. /\ StateOf(p) # "open" /\ StateOf(p)' \in {"granted", "over"}
        /\ StateOf(p) = "over" => StateOf(p)' = "over"
    BY <1>2 DEF StateOf, Open
  <1>6. \A q \in Purchases \ {p} : SameFor(q)
    BY <1>2, OthersSame
  <1>7. QED BY <1>2, <1>4, <1>5, <1>6, PromiseGivesBack

LEMMA ForceReversalKeepsPromise ==
  ASSUME PurchaseInv, NEW e \in sent, NEW p \in StorePurchases, ForceReversal(e, p)
  PROVE  [Promise!PromiseNext]_(Promise!promiseVars)
  <1>1. p \in Purchases /\ PaidAmount \in Nat /\ Price \in Nat /\ Price > 0
    BY ConstantTypes
  <1>2. CASE purchase[p].payment \in {"reversed", "refunded"}
    BY <1>2, PromiseUnchanged DEF ForceReversal
  <1>3. CASE purchase[p].payment \notin {"reversed", "refunded"}
    <2>1. purchase[p].status = "completed" /\ purchase[p].booked = 0
      BY <1>1, <1>3, PurchaseFacts DEF RowOK, StoreOK, ForceReversal
    <2>2. /\ purchase' = [purchase EXCEPT ![p] =
               [@ EXCEPT !.status = "reversed", !.payment = "reversed", !.recent = TRUE, !.booked = Price]]
          /\ recovered' = [recovered EXCEPT ![p] = recovered[p] + PaidAmount] /\ UNCHANGED granted
      BY <1>3 DEF ForceReversal
    <2>3. QED BY <1>1, <2>1, <2>2, TakingBack DEF Open
  <1>4. QED BY <1>2, <1>3

LEMMA RefundAppliesKeepsPromise ==
  ASSUME PurchaseInv, NEW e \in sent, NEW p \in WebPurchases, RefundApplies(e, p)
  PROVE  [Promise!PromiseNext]_(Promise!promiseVars)
  <1>1. p \in Purchases
    BY DEF WebPurchases
  <1> DEFINE n == e.amount
             share == Share(p, n, TakenBack(p))
             booked == purchase[p].booked
  <1>2. CASE n = booked
    BY <1>2, PromiseUnchanged DEF RefundApplies
  <1>3. CASE n # booked
    <2>1. /\ e.order \in Checkouts /\ n \in Nat /\ n <= back[e.order] /\ purchase[p].order = e.order
      <3>1. e \in Event /\ EventOK(e)
        BY EventSets DEF PurchaseInv, EventsInv
      <3>2. QED BY <3>1, EventShapes DEF RefundApplies, EventOK
    <2>2. /\ purchase[p].status \notin Open /\ booked \in Nat
          /\ back[e.order] \in Nat /\ back[e.order] <= paid[e.order] /\ paid[e.order] = Price
      BY <1>1, <2>1, ConstantTypes, PurchaseFacts, EventSets DEF WebOK, PurchaseInv, EventsInv
    <2>3. n > booked /\ n <= Price
      BY <1>3, <2>1, <2>2, ConstantTypes DEF RefundApplies, Mismatch
    <2>4. purchase[p].status # "reversed"
      <3>1. purchase[p].status = "reversed" => booked = Price
        BY <1>1, PurchaseFacts DEF RowOK
      <3>2. Price \in Nat
        BY ConstantTypes
      <3> HIDE DEF n, booked
      <3>3. QED BY <2>1, <2>2, <2>3, <3>1, <3>2
    <2>5. share \in Nat
      BY <1>1, <2>1, TakenBackFacts, ShareIsNat
    <2> DEFINE m == AfterRefund(purchase[p].payment, n, "partially_refunded")
               s == AfterRefund(purchase[p].status, n, "completed")
    <2>6. /\ purchase' = [purchase EXCEPT ![p] = [@ EXCEPT !.booked = n, !.recent = TRUE, !.payment = m, !.status = s]]
          /\ recovered' = [recovered EXCEPT ![p] = recovered[p] + share] /\ UNCHANGED granted
      BY <1>3 DEF RefundApplies
    <2>7. /\ s \in {"completed", "refunded", "reversed"}
          /\ purchase[p].status # "completed" => s # "completed"
      BY <1>1, <2>2, <2>4, PurchaseFacts DEF AfterRefund, Purchase, Open
    <2> HIDE DEF share, m, s, n, booked
    <2>8. [purchase[p] EXCEPT !.booked = n, !.recent = TRUE, !.payment = m, !.status = s]
            = [purchase[p] EXCEPT !.status = s, !.payment = m, !.recent = TRUE, !.booked = n]
      BY <1>1, PurchaseFacts DEF Purchase
    <2>9. QED BY <1>1, <2>1, <2>2, <2>3, <2>5, <2>6, <2>7, <2>8, TakingBack DEF booked
  <1>4. QED BY <1>2, <1>3

LEMMA RefundCompletesKeepsPromise ==
  ASSUME PurchaseInv, MoneyInv, NEW r \in Refunds, NEW p \in WebPurchases,
         CompleteRefund(r, p) \/ \E e \in sent : RefundConfirms(e, p, r)
  PROVE  [Promise!PromiseNext]_(Promise!promiseVars)
  <1>1. p \in Purchases /\ refund[r].money \in Nat /\ refund[r].credits \in Nat /\ RefundOK(r)
    BY RefundFacts DEF WebPurchases, Refund
  <1>2. refund[r].purchase = p /\ refund[r].status # "none"
    BY <1>1 DEF CompleteRefund, RefundConfirms, Pending, Locking, RefundOK
  <1>3. refund[r].money > 0 /\ purchase[p].status \notin Open /\ purchase[p].booked \in Nat
    BY <1>1, <1>2, PurchaseFacts DEF MoneyInv, RefundOK, WebOK
  <1>4. CASE CompleteRefund(r, p)
    <2> DEFINE n == purchase[p].booked + refund[r].money
               k == refund[r].credits
    <2>1. n \in Nat /\ n > purchase[p].booked /\ k \in Nat
      BY <1>1, <1>3
    <2>2. /\ purchase' = [purchase EXCEPT ![p] = [@ EXCEPT !.status = "refunded", !.payment = "refunded", !.recent = TRUE, !.booked = n]]
          /\ recovered' = [recovered EXCEPT ![p] = recovered[p] + k] /\ UNCHANGED granted
      BY <1>4 DEF CompleteRefund
    <2> HIDE DEF n, k
    <2>3. QED BY <1>1, <1>3, <2>1, <2>2, TakingBack
  <1>5. ASSUME NEW e \in sent, RefundConfirms(e, p, r) PROVE Promise!PromiseNext
    <2> DEFINE n == e.amount
               before == TakenBack(p) + refund[r].credits
               share == IF n = purchase[p].booked + refund[r].money THEN 0 ELSE Share(p, n, before)
               k == refund[r].credits + share
    <2>1. n \in Nat /\ n - purchase[p].booked >= refund[r].money
      <3>1. n \in Nat /\ ~(n - purchase[p].booked < refund[r].money)
        BY <1>5, RefundEventAmount DEF RefundConfirms, Mismatch
      <3> HIDE DEF n
      <3>2. QED BY <1>1, <1>3, <3>1
    <2>2. before \in Nat
      BY <1>1, TakenBackFacts
    <2>3. /\ purchase' = [purchase EXCEPT ![p] = [@ EXCEPT !.status = "refunded", !.payment = "refunded", !.recent = TRUE, !.booked = n]]
          /\ recovered' = [recovered EXCEPT ![p] = recovered[p] + refund[r].credits + share] /\ UNCHANGED granted
      BY <1>5 DEF RefundConfirms
    <2> HIDE DEF n, before
    <2>4. share \in Nat
      BY <1>1, <2>1, <2>2, ShareIsNat
    <2> HIDE DEF share
    <2>5. n > purchase[p].booked
      BY <1>1, <1>3, <2>1
    <2>6. k \in Nat /\ recovered[p] + refund[r].credits + share = recovered[p] + k
      BY <1>1, <2>4, PurchaseFacts
    <2> HIDE DEF k
    <2>7. recovered' = [recovered EXCEPT ![p] = recovered[p] + k]
      BY <2>3, <2>6
    <2>8. QED BY <1>1, <1>3, <2>1, <2>3, <2>5, <2>6, <2>7, TakingBack
  <1>6. QED BY <1>4, <1>5

\* Steps of createCheckout tell the promise nothing.
LEMMA CheckoutKeepsPromise ==
  ASSUME PurchaseInv,
         (\E k \in Calls : CheckoutStep(k)) \/ (\E p \in WebPurchases : HalfMinutePasses(p))
  PROVE  [Promise!PromiseNext]_(Promise!promiseVars)
  <1>1. purchase \in [Purchases -> Purchase] /\ WebPurchases \subseteq Purchases
    BY DEF PurchaseInv, PurchaseTypeOK, WebPurchases
  <1>2. UNCHANGED creditVars
    BY CheckoutFrame, ReconcileFrame
  <1>3. UNCHANGED <<granted, recovered>>
    BY <1>2 DEF creditVars
  <1>4. ASSUME NEW k \in Calls, NEW p \in WebPurchases, CreateCheckout(k, p)
        PROVE  \A q \in Purchases : StateOf(q)' = StateOf(q) /\ purchase'[q].booked = purchase[q].booked
    <2>1. \A q \in Purchases : purchase'[q] = purchase[q] \/ (purchase[q] = NoRow /\ purchase'[q] = NewRow)
      BY <1>1, <1>4 DEF CreateCheckout
    <2>2. NoRow.status = "none" /\ NewRow.status = "pending" /\ NewRow.booked = NoRow.booked
      BY DEF NoRow, NewRow
    <2>3. QED BY <2>1, <2>2 DEF StateOf
  <1>5. ASSUME NEW p \in WebPurchases, \/ \E k \in Calls : ClaimCheckout(k, p) \/ SaveCheckout(k, p)
                                       \/ HalfMinutePasses(p)
        PROVE  \A q \in Purchases : StateOf(q)' = StateOf(q) /\ purchase'[q].booked = purchase[q].booked
    <2>1. \A q \in Purchases : purchase'[q].status = purchase[q].status /\ purchase'[q].booked = purchase[q].booked
      <3>1. ASSUME NEW k \in Calls, ClaimCheckout(k, p)
            PROVE  \A q \in Purchases : purchase'[q].status = purchase[q].status /\ purchase'[q].booked = purchase[q].booked
        BY <1>1, <3>1 DEF ClaimCheckout, Purchase
      <3>2. ASSUME NEW k \in Calls, SaveCheckout(k, p)
            PROVE  \A q \in Purchases : purchase'[q].status = purchase[q].status /\ purchase'[q].booked = purchase[q].booked
        BY <1>1, <3>2 DEF SaveCheckout, Purchase
      <3>3. ASSUME HalfMinutePasses(p)
            PROVE  \A q \in Purchases : purchase'[q].status = purchase[q].status /\ purchase'[q].booked = purchase[q].booked
        BY <1>1, <3>3 DEF HalfMinutePasses, Purchase
      <3>4. QED BY <1>5, <3>1, <3>2, <3>3
    <2>2. QED BY <2>1 DEF StateOf
  <1>6. ASSUME UNCHANGED purchase
        PROVE  \A q \in Purchases : StateOf(q)' = StateOf(q) /\ purchase'[q].booked = purchase[q].booked
    BY <1>6 DEF StateOf
  <1>7. \A q \in Purchases : StateOf(q)' = StateOf(q) /\ purchase'[q].booked = purchase[q].booked
    BY <1>4, <1>5, <1>6 DEF CheckoutStep, FindCheckout, CheckoutRefused, OpenCheckout, CheckoutDies
  <1>8. QED BY <1>3, <1>7, PromiseUntouched

\* Nor do steps of the free credits and of spending, or of the providers.
LEMMA CreditsKeepPromise ==
  ASSUME PurchaseInv, CreditStep, UNCHANGED otherVars
  PROVE  [Promise!PromiseNext]_(Promise!promiseVars)
  <1>1. UNCHANGED <<recovered, purchase>>
    BY DEF CreditStep, GrantFree, FreeExpires, ReserveCredits, ReleaseReservation, CaptureReservation, SpendCredits,
           ChargeGrants, otherVars, serviceVars
  <1>2. UNCHANGED granted \/ \E g \in Free : Grant(g)
    BY DEF CreditStep, GrantFree, FreeExpires, ReserveCredits, ReleaseReservation, CaptureReservation, SpendCredits,
           ChargeGrants
  <1>3. ASSUME NEW g \in Free, Grant(g), NEW p \in Purchases PROVE SameFor(p)
    <2>1. g \in Grants /\ g # p /\ CreditTypeOK
      BY <1>3, GrantsAreDistinct DEF Grants, PurchaseInv, PurchaseTypeOK
    <2>2. Contains(granted', p) <=> Contains(granted, p)
      BY <1>3, <2>1, ContainsAfterGrant
    <2>3. QED BY <1>1, <2>2 DEF SameFor, StateOf, CreditsLeft
  <1>4. QED BY <1>1, <1>2, <1>3, PromiseStays, PromiseUnchanged

\* Every step is one of them.
LEMMA PromiseStep ==
  PurchaseInv /\ MoneyInv /\ [Next]_vars => [Promise!PromiseNext]_(Promise!promiseVars)
  <1> SUFFICES ASSUME PurchaseInv, MoneyInv, [Next]_vars PROVE [Promise!PromiseNext]_(Promise!promiseVars)
    OBVIOUS
  <1>1. CASE CreditStep /\ UNCHANGED otherVars
    BY <1>1, CreditsKeepPromise
  <1>2. CASE (\E k \in Calls : CheckoutStep(k)) \/ (\E p \in WebPurchases : HalfMinutePasses(p))
    BY <1>2, CheckoutKeepsPromise
  <1>3. CASE (\E p \in WebPurchases, c \in Checkouts : Reconcile(p, c)) \/ (\E p \in StorePurchases : VerifyProof(p))
             \/ ProviderStep \/ UNCHANGED vars
    <2>1. UNCHANGED creditVars /\ UNCHANGED purchase
      BY <1>3 DEF Reconcile, VerifyProof, ProviderStep, PayCheckout, MerchantRefund,
           ProviderTakesRefund, ProviderRefunds, ProviderRefuses, StoreRevokes, serviceVars, vars
    <2>2. QED BY <2>1, PromiseUnchanged DEF creditVars
  <1>4. CASE \E e \in sent : EventStep(e)
    <2>1. ASSUME NEW e \in sent, NEW p \in WebPurchases, PaymentIsNoNews(e, p) \/ RefundMismatch(e, p)
          PROVE  [Promise!PromiseNext]_(Promise!promiseVars)
      BY <2>1, PromiseUnchanged DEF PaymentIsNoNews, RefundMismatch, creditVars
    <2>2. QED
      BY <1>4, <2>1, PaymentKeepsPromise, RefundAppliesKeepsPromise, RefundCompletesKeepsPromise,
         ForceReversalKeepsPromise DEF EventStep
  <1>5. CASE \E r \in Refunds : RefundStep(r)
    <2>1. ASSUME NEW r \in Refunds,
                 \/ \E p \in WebPurchases : RequestRefund(r, p)
                 \/ RefundAnswers(r) \/ RecordAnswer(r) \/ CompletedAlready(r) \/ RepeatRefund(r) \/ RefundDies(r)
          PROVE  [Promise!PromiseNext]_(Promise!promiseVars)
      <3>1. UNCHANGED <<granted, recovered, purchase>>
        BY <2>1 DEF RequestRefund, RefundAnswers, RecordAnswer, CompletedAlready, RepeatRefund, RefundDies, creditVars
      <3>2. QED BY <3>1, PromiseUnchanged
    <2>2. QED BY <1>5, <2>1, RefundCompletesKeepsPromise DEF RefundStep
  <1>6. CASE \E p \in StorePurchases : VerifyInApp(p)
    BY <1>6, VerifyInAppKeepsPromise
  <1>7. QED BY <1>1, <1>2, <1>3, <1>4, <1>5, <1>6 DEF Next, otherVars

\* Credits are granted once; from then on they are taken back only with money
\* that is given back in the same step, and a purchase that is over stays so.
THEOREM PurchasesKeepPromise ==
  ASSUME Price > 1, FeePercent < 100
  PROVE  Spec => KeepsPromise
  <1>1. Init => Promise!PromiseInit
    <2> SUFFICES ASSUME Init PROVE Promise!PromiseInit
      OBVIOUS
    <2>1. \A p \in Purchases : purchase[p].status = "none" /\ purchase[p].booked = 0 /\ ~Contains(granted, p)
      BY DEF Init, CreditInit, NoRow, Contains
    <2>2. QED BY <2>1 DEF Promise!PromiseInit
  <1>2. Init => MoneyInv
    BY DEF Init, CreditInit, NoRefund, MoneyInv
  <1>3. PurchaseInv /\ MoneyInv /\ [Next]_vars => MoneyInv'
    BY MoneyStep
  <1>4. PurchaseInv /\ MoneyInv /\ [Next]_vars => [Promise!PromiseNext]_(Promise!promiseVars)
    BY PromiseStep
  <1>5. QED BY <1>1, <1>2, <1>3, <1>4, PurchasesInvariant, PTL DEF Spec, KeepsPromise, Promise!PromiseSpec

=============================================================================

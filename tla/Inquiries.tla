----------------------------- MODULE Inquiries -----------------------------
(***************************************************************************)
(* The inquiries of one user (InquiriesService): at most DailyLimit a day, *)
(* counted under an advisory lock, and deleted by their user only until    *)
(* opod-admin has answered them.                                           *)
(***************************************************************************)
EXTENDS Integers, Sequences, FiniteSets

CONSTANTS
  Creates,       \* calls of createInquiry in flight
  Deletes,       \* calls of deleteInquiry in flight
  DailyLimit,    \* dailyInquiryLimit
  MaxInquiries,  \* bound of the model: rows ever inserted
  LastDay        \* bound of the model: days of KST

ASSUME InquiryBounds == DailyLimit \in Nat \ {0} /\ MaxInquiries \in Nat /\ LastDay \in Nat \ {0}

VARIABLES
  today,     \* the day in KST
  inquiry,   \* inquiries, in the order of their IDs, the deleted ones included
  creating,  \* calls of createInquiry
  deleting   \* calls of deleteInquiry

inquiryVars == <<today, inquiry, creating, deleting>>

-----------------------------------------------------------------------------
\* day is that of created_at; counted is history: the day the row was counted for.
Inquiry == [status: {"submitted", "answered", "deleted"}, day: 1..LastDay, counted: 1..LastDay]

\* A call waits for the lock, or has it and has counted.
Create == [pc: {"idle", "waiting", "locked"}, day: 0..LastDay, counted: 0..LastDay]
NoCreate == [pc |-> "idle", day |-> 0, counted |-> 0]

Inquired == DOMAIN inquiry

\* The row a call has seen as submitted; 0 is none.
Delete == {0} \cup Inquired

KstMidnight ==
  /\ today < LastDay
  /\ today' = today + 1
  /\ UNCHANGED <<inquiry, creating, deleting>>

-----------------------------------------------------------------------------
(***************************************************************************)
(* createInquiry                                                           *)
(***************************************************************************)

\* CURRENT_TIMESTAMP is that of the transaction, which begins before it waits.
CreateBegins(q) ==
  /\ creating[q].pc = "idle"
  /\ Len(inquiry) + Cardinality({r \in Creates : creating[r].pc # "idle"}) < MaxInquiries
  /\ creating' = [creating EXCEPT ![q] = [NoCreate EXCEPT !.pc = "waiting", !.day = today]]
  /\ UNCHANGED <<today, inquiry, deleting>>

\* Mutant: no advisory lock.
DailyUnlockedAlways(q) == TRUE

\* pg_advisory_xact_lock on inquiry_daily:<user>.
DailyUnlocked(q) == \A r \in Creates : creating[r].pc # "locked"

\* Rows that are stored: deleting one gives its place back.
CreatedOn(d) == {n \in Inquired : inquiry[n].day = d /\ inquiry[n].status # "deleted"}

\* The limits of the day are taken after the wait.
CreateCounts(q) ==
  /\ creating[q].pc = "waiting"
  /\ DailyUnlocked(q)
  /\ creating' = [creating EXCEPT ![q] =
       IF Cardinality(CreatedOn(today)) >= DailyLimit THEN NoCreate
       ELSE [@ EXCEPT !.pc = "locked", !.counted = today]]
  /\ UNCHANGED <<today, inquiry, deleting>>

CreateInserts(q) ==
  /\ creating[q].pc = "locked"
  /\ inquiry' = Append(inquiry, [status |-> "submitted", day |-> creating[q].day,
                                 counted |-> creating[q].counted])
  /\ creating' = [creating EXCEPT ![q] = NoCreate]
  /\ UNCHANGED <<today, deleting>>

CreateFails(q) ==
  /\ creating[q].pc # "idle"
  /\ creating' = [creating EXCEPT ![q] = NoCreate]
  /\ UNCHANGED <<today, inquiry, deleting>>

-----------------------------------------------------------------------------
(***************************************************************************)
(* deleteInquiry, and opod-admin                                           *)
(***************************************************************************)

DeleteReads(q, n) ==
  /\ deleting[q] = 0
  /\ inquiry[n].status = "submitted"
  /\ deleting' = [deleting EXCEPT ![q] = n]
  /\ UNCHANGED <<today, inquiry, creating>>

\* Mutant: what the first statement has seen decides.
DeletableAsRead(n) == inquiry[n].status # "deleted"

\* The WHERE of the DELETE.
Deletable(n) == inquiry[n].status = "submitted"

\* No row deleted: the inquiry has been answered, or is gone.
DeleteRemoves(q) ==
  /\ deleting[q] # 0
  /\ inquiry' = IF Deletable(deleting[q]) THEN [inquiry EXCEPT ![deleting[q]].status = "deleted"] ELSE inquiry
  /\ deleting' = [deleting EXCEPT ![q] = 0]
  /\ UNCHANGED <<today, creating>>

AdminAnswers(n) ==
  /\ inquiry[n].status = "submitted"
  /\ inquiry' = [inquiry EXCEPT ![n].status = "answered"]
  /\ UNCHANGED <<today, creating, deleting>>

-----------------------------------------------------------------------------
InquiryInit ==
  /\ today = 1
  /\ inquiry = <<>>
  /\ creating = [q \in Creates |-> NoCreate]
  /\ deleting = [q \in Deletes |-> 0]

InquiryNext ==
  \/ KstMidnight
  \/ \E q \in Creates : CreateBegins(q) \/ CreateCounts(q) \/ CreateInserts(q) \/ CreateFails(q)
  \/ \E q \in Deletes : DeleteRemoves(q) \/ \E n \in Inquired : DeleteReads(q, n)
  \/ \E n \in Inquired : AdminAnswers(n)

InquirySpec == InquiryInit /\ [][InquiryNext]_inquiryVars

-----------------------------------------------------------------------------
(***************************************************************************)
(* Properties                                                              *)
(***************************************************************************)

\* The types: every row was counted, and a deletion has seen a row that is stored.
InquiryTypeOK ==
  /\ today \in 1..LastDay
  /\ inquiry \in Seq(Inquiry)
  /\ creating \in [Creates -> Create]
  /\ deleting \in [Deletes -> Delete]

\* However many calls run at once, no day has more than DailyLimit inquiries
\* stored that were counted on it.  (A call that waits over midnight is counted
\* on the new day and stored on the old one.)
DailyLimitHolds ==
  \A d \in 1..LastDay : Cardinality({n \in CreatedOn(d) : inquiry[n].counted = d}) <= DailyLimit

\* An answered inquiry is a record of a dispute: no deletion reaches it, not even
\* one that has seen it before it was answered.
AnsweredInquiriesStay ==
  [][\A n \in Inquired : inquiry[n].status = "answered" => inquiry'[n].status = "answered"]_inquiryVars

=============================================================================

-------------------------- MODULE InquiriesProofs --------------------------
(***************************************************************************)
(* Proofs about Inquiries, for any number of calls, inquiries and days.    *)
(***************************************************************************)
EXTENDS Inquiries, FiniteSetTheorems, TLAPS

-----------------------------------------------------------------------------
(***************************************************************************)
(* The invariant                                                           *)
(***************************************************************************)

\* The places of day d that are taken in a table.
Taken(rows, d) ==
  {n \in DOMAIN rows : rows[n].day = d /\ rows[n].status # "deleted" /\ rows[n].counted = d}

\* A call that is under way has the day of its transaction; a deletion names a
\* row.
CallsInv ==
  /\ today \in 1..LastDay
  /\ inquiry \in Seq(Inquiry)
  /\ creating \in [Creates -> Create]
  /\ \A q \in Creates : creating[q].pc # "idle" => creating[q].day \in 1..LastDay
  /\ \A q \in Deletes : deleting[q] # 0 => deleting[q] \in Inquired

\* The lock has one holder.  There was a place for it when it counted, and there
\* still is: nobody else inserts meanwhile, and deletions only make room.
LockKeepsPlace ==
  /\ \A q, r \in Creates : creating[q].pc = "locked" /\ creating[r].pc = "locked" => q = r
  /\ \A q \in Creates : creating[q].pc = "locked" =>
       /\ creating[q].counted \in 1..LastDay
       /\ Cardinality(Taken(inquiry, creating[q].counted)) < DailyLimit

LimitInv == \A d \in 1..LastDay : Cardinality(Taken(inquiry, d)) <= DailyLimit

InquiryInv == CallsInv /\ LockKeepsPlace /\ LimitInv

-----------------------------------------------------------------------------
(***************************************************************************)
(* Places                                                                  *)
(***************************************************************************)

LEMMA PlacesAreFinite ==
  ASSUME NEW rows \in Seq(Inquiry), NEW d
  PROVE  IsFiniteSet(Taken(rows, d)) /\ Cardinality(Taken(rows, d)) \in Nat
  <1>1. IsFiniteSet(1..Len(rows))
    BY FS_Interval
  <1>2. Taken(rows, d) \subseteq 1..Len(rows)
    BY DEF Taken
  <1>3. IsFiniteSet(Taken(rows, d))
    BY <1>1, <1>2, FS_Subset
  <1>4. QED BY <1>3, FS_CardinalityType

\* Rows whose status changes take no new place, if no deleted one comes back.
LEMMA ChangesMakeRoom ==
  ASSUME NEW rows \in Seq(Inquiry), NEW later \in Seq(Inquiry), NEW d, Len(later) = Len(rows),
         \A n \in DOMAIN rows : /\ later[n].day = rows[n].day
                                /\ later[n].counted = rows[n].counted
                                /\ later[n].status # "deleted" => rows[n].status # "deleted"
  PROVE  Cardinality(Taken(later, d)) <= Cardinality(Taken(rows, d))
  <1>1. Taken(later, d) \subseteq Taken(rows, d)
    BY DEF Taken
  <1>2. QED BY <1>1, PlacesAreFinite, FS_Subset

\* A new row takes one place of one day at most.
LEMMA InsertTakesOnePlace ==
  ASSUME NEW rows \in Seq(Inquiry), NEW r \in Inquiry, NEW d
  PROVE  /\ Cardinality(Taken(Append(rows, r), d)) <= Cardinality(Taken(rows, d)) + 1
         /\ r.counted # d => Cardinality(Taken(Append(rows, r), d)) <= Cardinality(Taken(rows, d))
  <1> DEFINE later == Append(rows, r)
             last == Len(rows) + 1
  <1>1. /\ later \in Seq(Inquiry) /\ DOMAIN later = DOMAIN rows \cup {last} /\ later[last] = r
        /\ \A n \in DOMAIN rows : later[n] = rows[n]
    OBVIOUS
  <1> HIDE DEF later, last
  <1>2. Taken(later, d) \subseteq Taken(rows, d) \cup {last}
    BY <1>1 DEF Taken
  <1>3. r.counted # d => Taken(later, d) \subseteq Taken(rows, d)
    BY <1>1 DEF Taken
  <1>4. /\ IsFiniteSet(Taken(rows, d) \cup {last})
        /\ Cardinality(Taken(rows, d) \cup {last}) <= Cardinality(Taken(rows, d)) + 1
    <2>1. IsFiniteSet(Taken(rows, d)) /\ Cardinality(Taken(rows, d)) \in Nat
      BY PlacesAreFinite
    <2> DEFINE S == Taken(rows, d)
    <2> HIDE DEF S
    <2>2. IsFiniteSet(S) /\ Cardinality(S) \in Nat
      BY <2>1 DEF S
    <2>3. IsFiniteSet(S \cup {last})
      BY <2>2, FS_AddElement
    <2>4. Cardinality(S \cup {last}) = IF last \in S THEN Cardinality(S) ELSE Cardinality(S) + 1
      BY <2>2, FS_AddElement
    <2>5. QED BY <2>2, <2>3, <2>4 DEF S
  <1>5. Cardinality(Taken(later, d)) <= Cardinality(Taken(rows, d)) + 1
    <2>1. Cardinality(Taken(later, d)) <= Cardinality(Taken(rows, d) \cup {last})
      BY <1>2, <1>4, FS_Subset
    <2>2. /\ Cardinality(Taken(later, d)) \in Nat /\ Cardinality(Taken(rows, d)) \in Nat
          /\ Cardinality(Taken(rows, d) \cup {last}) \in Nat
      BY <1>1, <1>4, PlacesAreFinite, FS_CardinalityType
    <2>3. QED BY <1>4, <2>1, <2>2
  <1>6. r.counted # d => Cardinality(Taken(later, d)) <= Cardinality(Taken(rows, d))
    BY <1>3, PlacesAreFinite, FS_Subset
  <1>7. QED BY <1>5, <1>6 DEF later

-----------------------------------------------------------------------------
(***************************************************************************)
(* Every reachable state                                                   *)
(***************************************************************************)

LEMMA InquiryInitInv ==
  ASSUME InquiryInit
  PROVE  InquiryInv
  <1>1. NoCreate \in Create /\ NoCreate.pc = "idle"
    BY InquiryBounds DEF NoCreate, Create
  <1>2. CallsInv
    BY <1>1, InquiryBounds DEF InquiryInit, CallsInv
  <1>3. LockKeepsPlace
    BY <1>1 DEF InquiryInit, LockKeepsPlace
  <1>4. LimitInv
    <2>1. \A d \in 1..LastDay : Taken(inquiry, d) = {}
      BY DEF InquiryInit, Taken
    <2>2. QED BY <2>1, FS_EmptySet, InquiryBounds DEF LimitInv
  <1>5. QED BY <1>2, <1>3, <1>4 DEF InquiryInv

\* No call gets the lock, and no place is taken.
LEMMA RoomIsKept ==
  ASSUME LockKeepsPlace, LimitInv, CallsInv,
         \A d \in 1..LastDay : Cardinality(Taken(inquiry', d)) <= Cardinality(Taken(inquiry, d)),
         inquiry' \in Seq(Inquiry),
         \A q \in Creates : creating'[q].pc = "locked" => creating'[q] = creating[q]
  PROVE  LockKeepsPlace' /\ LimitInv'
  <1>1. \A d \in 1..LastDay : /\ Cardinality(Taken(inquiry, d)) \in Nat
                              /\ Cardinality(Taken(inquiry', d)) \in Nat
    BY PlacesAreFinite DEF CallsInv
  <1>2. LimitInv'
    BY <1>1, InquiryBounds DEF LimitInv
  <1>3. LockKeepsPlace'
    <2>1. ASSUME NEW q \in Creates, creating'[q].pc = "locked"
          PROVE  /\ creating'[q].counted \in 1..LastDay
                 /\ Cardinality(Taken(inquiry', creating'[q].counted)) < DailyLimit
      <3>1. /\ creating'[q] = creating[q] /\ creating[q].counted \in 1..LastDay
            /\ Cardinality(Taken(inquiry, creating[q].counted)) < DailyLimit
        BY <2>1 DEF LockKeepsPlace
      <3>2. QED BY <1>1, <3>1, InquiryBounds
    <2>2. QED BY <2>1 DEF LockKeepsPlace
  <1>4. QED BY <1>2, <1>3

LEMMA CreateStep ==
  ASSUME InquiryInv, NEW q \in Creates,
         CreateBegins(q) \/ CreateCounts(q) \/ CreateInserts(q) \/ CreateFails(q)
  PROVE  InquiryInv'
  <1> CallsInv /\ LockKeepsPlace /\ LimitInv
    BY DEF InquiryInv
  <1>1. NoCreate \in Create /\ NoCreate.pc = "idle"
    BY InquiryBounds DEF NoCreate, Create
  <1>2. creating[q] \in Create
    BY DEF CallsInv
  <1>3. ASSUME NEW c \in Create, creating' = [creating EXCEPT ![q] = c], UNCHANGED <<today, inquiry, deleting>>,
               c.pc # "idle" => c.day \in 1..LastDay
        PROVE  CallsInv'
    BY <1>3 DEF CallsInv, Inquired
  <1>4. ASSUME NEW c \in Create, creating' = [creating EXCEPT ![q] = c], UNCHANGED <<today, inquiry, deleting>>,
               c.pc # "idle" => c.day \in 1..LastDay, c.pc # "locked"
        PROVE  InquiryInv'
    <2>1. \A d \in 1..LastDay : Cardinality(Taken(inquiry', d)) <= Cardinality(Taken(inquiry, d))
      BY <1>4, PlacesAreFinite DEF CallsInv
    <2>2. \A r \in Creates : creating'[r].pc = "locked" => creating'[r] = creating[r]
      BY <1>4 DEF CallsInv
    <2>3. CallsInv'
      BY <1>3, <1>4
    <2>4. inquiry' \in Seq(Inquiry)
      BY <1>4 DEF CallsInv
    <2>5. LockKeepsPlace' /\ LimitInv'
      BY <2>1, <2>2, <2>4, RoomIsKept
    <2>6. QED BY <2>3, <2>5 DEF InquiryInv
  <1>5. CASE CreateBegins(q)
    <2> DEFINE c == [NoCreate EXCEPT !.pc = "waiting", !.day = today]
    <2>1. c \in Create /\ c.pc = "waiting" /\ c.day = today
      <3>1. today \in 0..LastDay
        BY InquiryBounds DEF CallsInv
      <3>2. QED BY <1>1, <3>1 DEF NoCreate, Create
    <2>2. creating' = [creating EXCEPT ![q] = c] /\ UNCHANGED <<today, inquiry, deleting>>
      BY <1>5 DEF CreateBegins
    <2> HIDE DEF c
    <2>3. QED BY <1>4, <2>1, <2>2 DEF CallsInv
  <1>6. CASE CreateFails(q)
    BY <1>1, <1>4, <1>6 DEF CreateFails
  <1>7. CASE CreateCounts(q) /\ Cardinality(CreatedOn(today)) >= DailyLimit
    BY <1>1, <1>4, <1>7 DEF CreateCounts
  <1>8. CASE CreateCounts(q) /\ ~(Cardinality(CreatedOn(today)) >= DailyLimit)
    <2> DEFINE c == [creating[q] EXCEPT !.pc = "locked", !.counted = today]
    <2>1. c \in Create /\ c.pc = "locked" /\ c.counted = today /\ c.day \in 1..LastDay
      <3>1. today \in 0..LastDay
        BY InquiryBounds DEF CallsInv
      <3>2. creating[q].day \in 1..LastDay
        BY <1>8 DEF CallsInv, CreateCounts
      <3>3. QED BY <1>2, <3>1, <3>2 DEF Create
    <2>2. creating' = [creating EXCEPT ![q] = c] /\ UNCHANGED <<today, inquiry, deleting>>
      BY <1>8 DEF CreateCounts
    <2> HIDE DEF c
    <2>3. CallsInv'
      BY <1>3, <2>1, <2>2
    <2>4. \A r \in Creates : creating[r].pc # "locked"
      BY <1>8 DEF CreateCounts, DailyUnlocked
    <2>5. Cardinality(Taken(inquiry, today)) < DailyLimit
      <3>1. Taken(inquiry, today) \subseteq CreatedOn(today)
        BY DEF Taken, CreatedOn, Inquired
      <3>2. IsFiniteSet(CreatedOn(today))
        <4>1. IsFiniteSet(1..Len(inquiry))
          BY FS_Interval DEF CallsInv
        <4>2. CreatedOn(today) \subseteq 1..Len(inquiry)
          BY DEF CreatedOn, Inquired, CallsInv
        <4>3. QED BY <4>1, <4>2, FS_Subset
      <3>3. Cardinality(Taken(inquiry, today)) <= Cardinality(CreatedOn(today))
        BY <3>1, <3>2, FS_Subset
      <3>4. Cardinality(CreatedOn(today)) \in Nat /\ Cardinality(Taken(inquiry, today)) \in Nat
        BY <3>2, PlacesAreFinite, FS_CardinalityType DEF CallsInv
      <3>5. QED BY <1>8, <3>3, <3>4, InquiryBounds
    <2>6. LockKeepsPlace'
      BY <2>1, <2>2, <2>4, <2>5 DEF LockKeepsPlace, CallsInv
    <2>7. LimitInv'
      BY <2>2 DEF LimitInv
    <2>8. QED BY <2>3, <2>6, <2>7 DEF InquiryInv
  <1>9. CASE CreateInserts(q)
    <2> DEFINE r == [status |-> "submitted", day |-> creating[q].day, counted |-> creating[q].counted]
    <2>1. creating[q].pc = "locked"
      BY <1>9 DEF CreateInserts
    <2>2. r \in Inquiry /\ r.counted = creating[q].counted
      BY <1>2, <2>1 DEF Inquiry, CallsInv, LockKeepsPlace
    <2>3. inquiry' = Append(inquiry, r) /\ creating' = [creating EXCEPT ![q] = NoCreate]
          /\ UNCHANGED <<today, deleting>>
      BY <1>9 DEF CreateInserts
    <2> HIDE DEF r
    <2>4. CallsInv'
      BY <1>1, <2>2, <2>3 DEF CallsInv, Inquired
    <2>5. LockKeepsPlace'
      BY <1>1, <2>1, <2>3 DEF LockKeepsPlace, CallsInv
    <2>6. LimitInv'
      <3> SUFFICES ASSUME NEW d \in 1..LastDay
                   PROVE  Cardinality(Taken(inquiry', d)) <= DailyLimit
        BY DEF LimitInv
      <3>1. /\ Cardinality(Taken(inquiry, d)) \in Nat
            /\ Cardinality(Taken(inquiry', d)) \in Nat
        BY <2>4, PlacesAreFinite DEF CallsInv
      <3>2. CASE d = r.counted
        <4>1. Cardinality(Taken(inquiry, d)) < DailyLimit
          BY <2>1, <2>2, <3>2 DEF LockKeepsPlace
        <4>2. Cardinality(Taken(inquiry', d)) <= Cardinality(Taken(inquiry, d)) + 1
          BY <2>2, <2>3, InsertTakesOnePlace DEF CallsInv
        <4>3. QED BY <3>1, <4>1, <4>2, InquiryBounds
      <3>3. CASE d # r.counted
        <4>1. Cardinality(Taken(inquiry', d)) <= Cardinality(Taken(inquiry, d))
          BY <2>2, <2>3, <3>3, InsertTakesOnePlace DEF CallsInv
        <4>2. QED BY <3>1, <4>1, InquiryBounds DEF LimitInv
      <3>4. QED BY <3>2, <3>3
    <2>7. QED BY <2>4, <2>5, <2>6 DEF InquiryInv
  <1>10. QED BY <1>5, <1>6, <1>7, <1>8, <1>9

\* What a step of a deletion, of opod-admin or of the clock may do to rows: none
\* is added, and none comes back.
StatusesChange ==
  /\ inquiry' \in Seq(Inquiry)
  /\ Len(inquiry') = Len(inquiry)
  /\ \A n \in Inquired : /\ inquiry'[n].day = inquiry[n].day
                         /\ inquiry'[n].counted = inquiry[n].counted
                         /\ inquiry'[n].status # "deleted" => inquiry[n].status # "deleted"

LEMMA OtherSteps ==
  ASSUME InquiryInv,
         \/ KstMidnight
         \/ \E q \in Deletes : DeleteRemoves(q) \/ \E n \in Inquired : DeleteReads(q, n)
         \/ \E n \in Inquired : AdminAnswers(n)
         \/ UNCHANGED inquiryVars
  PROVE  InquiryInv'
  <1> CallsInv /\ LockKeepsPlace /\ LimitInv
    BY DEF InquiryInv
  <1>1. ASSUME NEW n \in Inquired, NEW s \in {"answered", "deleted"}, inquiry[n].status # "deleted",
               inquiry' = [inquiry EXCEPT ![n].status = s]
        PROVE  StatusesChange
    <2>1. inquiry[n] \in Inquiry
      BY DEF CallsInv, Inquired
    <2>2. inquiry' = [inquiry EXCEPT ![n] = [inquiry[n] EXCEPT !.status = s]]
      BY <1>1 DEF CallsInv
    <2>3. [inquiry[n] EXCEPT !.status = s] \in Inquiry
      BY <2>1 DEF Inquiry
    <2>4. /\ [inquiry[n] EXCEPT !.status = s].day = inquiry[n].day
          /\ [inquiry[n] EXCEPT !.status = s].counted = inquiry[n].counted
      BY <2>1 DEF Inquiry
    <2> DEFINE r == [inquiry[n] EXCEPT !.status = s]
    <2> HIDE DEF r
    <2>5. inquiry' = [inquiry EXCEPT ![n] = r] /\ r \in Inquiry /\ r.day = inquiry[n].day
          /\ r.counted = inquiry[n].counted
      BY <2>2, <2>3, <2>4 DEF r
    <2>6. QED BY <1>1, <2>5 DEF StatusesChange, CallsInv, Inquired
  <1>2. UNCHANGED inquiry => StatusesChange
    BY DEF StatusesChange, CallsInv
  <1>3. ASSUME StatusesChange, UNCHANGED creating, today' \in 1..LastDay,
               \A q \in Deletes : deleting'[q] # 0 => deleting'[q] \in Inquired
        PROVE  InquiryInv'
    <2>1. Inquired' = Inquired
      BY <1>3 DEF StatusesChange, Inquired, CallsInv
    <2>2. CallsInv'
      BY <1>3, <2>1 DEF CallsInv, StatusesChange
    <2>3. \A d \in 1..LastDay : Cardinality(Taken(inquiry', d)) <= Cardinality(Taken(inquiry, d))
      BY <1>3, ChangesMakeRoom DEF StatusesChange, CallsInv, Inquired
    <2>4. LockKeepsPlace' /\ LimitInv'
      BY <1>3, <2>3, RoomIsKept DEF StatusesChange
    <2>5. QED BY <2>2, <2>4 DEF InquiryInv
  <1>4. CASE KstMidnight
    BY <1>2, <1>3, <1>4, InquiryBounds DEF KstMidnight, CallsInv
  <1>5. ASSUME NEW n \in Inquired, AdminAnswers(n) PROVE InquiryInv'
    BY <1>1, <1>3, <1>5 DEF AdminAnswers, CallsInv
  <1>6. ASSUME NEW q \in Deletes, NEW n \in Inquired, DeleteReads(q, n) PROVE InquiryInv'
    BY <1>2, <1>3, <1>6 DEF DeleteReads, CallsInv
  <1>7. ASSUME NEW q \in Deletes, DeleteRemoves(q) PROVE InquiryInv'
    <2>1. deleting[q] \in Inquired
      BY <1>7 DEF DeleteRemoves, CallsInv
    <2>2. StatusesChange
      BY <1>1, <1>2, <1>7, <2>1 DEF DeleteRemoves, Deletable
    <2>3. QED BY <1>3, <1>7, <2>2 DEF DeleteRemoves, CallsInv
  <1>8. CASE UNCHANGED inquiryVars
    BY <1>2, <1>3, <1>8 DEF inquiryVars, CallsInv
  <1>9. QED BY <1>4, <1>5, <1>6, <1>7, <1>8

LEMMA InquiryStep ==
  ASSUME InquiryInv, [InquiryNext]_inquiryVars
  PROVE  InquiryInv'
  BY CreateStep, OtherSteps DEF InquiryNext

\* Calls, the lock and the places of each day fit together in every reachable
\* state: the inductive invariant.
THEOREM InquiryInvariant == InquirySpec => []InquiryInv
  BY InquiryInitInv, InquiryStep, PTL DEF InquirySpec

\* No day has more than DailyLimit inquiries stored that were counted on it, for
\* any number of concurrent calls and deletions.
THEOREM LimitHolds == InquirySpec => []DailyLimitHolds
  <1>1. InquiryInv => DailyLimitHolds
    <2> SUFFICES ASSUME InquiryInv, NEW d \in 1..LastDay
                 PROVE  Cardinality({n \in CreatedOn(d) : inquiry[n].counted = d}) <= DailyLimit
      BY DEF DailyLimitHolds
    <2>1. {n \in CreatedOn(d) : inquiry[n].counted = d} = Taken(inquiry, d)
      BY DEF CreatedOn, Taken, Inquired
    <2>2. QED BY <2>1 DEF InquiryInv, LimitInv
  <1>2. QED BY <1>1, InquiryInvariant, PTL

LEMMA DeletionsTyped ==
  ASSUME InquiryInv, deleting \in [Deletes -> Delete], [InquiryNext]_inquiryVars
  PROVE  deleting' \in [Deletes -> Delete']
  <1>1. Inquired \subseteq Inquired'
    <2>1. inquiry \in Seq(Inquiry)
      BY DEF InquiryInv, CallsInv
    <2>2. ASSUME NEW row PROVE DOMAIN inquiry \subseteq DOMAIN Append(inquiry, row)
      BY <2>1
    <2>3. \A n, s : DOMAIN [inquiry EXCEPT ![n].status = s] = DOMAIN inquiry
      OBVIOUS
    <2>4. \/ UNCHANGED inquiry
          \/ \E row : inquiry' = Append(inquiry, row)
          \/ \E n, s : inquiry' = [inquiry EXCEPT ![n].status = s]
      <3>1. \A q \in Creates : CreateBegins(q) \/ CreateCounts(q) \/ CreateFails(q) => UNCHANGED inquiry
        BY DEF CreateBegins, CreateCounts, CreateFails
      <3>2. \A q \in Creates : CreateInserts(q) => \E row : inquiry' = Append(inquiry, row)
        BY DEF CreateInserts
      <3>3. \A q \in Deletes : DeleteRemoves(q) => \/ UNCHANGED inquiry
                                                  \/ \E n, s : inquiry' = [inquiry EXCEPT ![n].status = s]
        BY DEF DeleteRemoves
      <3>4. \A n \in Inquired : AdminAnswers(n) => \E m, s : inquiry' = [inquiry EXCEPT ![m].status = s]
        BY DEF AdminAnswers
      <3>5. (\A q \in Deletes : \A n \in Inquired : DeleteReads(q, n) => UNCHANGED inquiry)
            /\ (KstMidnight \/ UNCHANGED inquiryVars => UNCHANGED inquiry)
        BY DEF DeleteReads, KstMidnight, inquiryVars
      <3>6. QED BY <3>1, <3>2, <3>3, <3>4, <3>5 DEF InquiryNext
    <2>5. QED BY <2>2, <2>3, <2>4 DEF Inquired
  <1>2. \/ UNCHANGED deleting
        \/ \E q \in Deletes : \E n \in Delete : deleting' = [deleting EXCEPT ![q] = n]
    <2>1. \A q \in Creates : CreateBegins(q) \/ CreateCounts(q) \/ CreateInserts(q) \/ CreateFails(q) => UNCHANGED deleting
      BY DEF CreateBegins, CreateCounts, CreateInserts, CreateFails
    <2>2. \A q \in Deletes : DeleteRemoves(q) => deleting' = [deleting EXCEPT ![q] = 0] /\ 0 \in Delete
      BY DEF DeleteRemoves, Delete
    <2>3. \A q \in Deletes : \A n \in Inquired : DeleteReads(q, n) =>
            deleting' = [deleting EXCEPT ![q] = n] /\ n \in Delete
      BY DEF DeleteReads, Delete
    <2>4. (\A n \in Inquired : AdminAnswers(n) => UNCHANGED deleting)
          /\ (KstMidnight \/ UNCHANGED inquiryVars => UNCHANGED deleting)
      BY DEF AdminAnswers, KstMidnight, inquiryVars
    <2>5. QED BY <2>1, <2>2, <2>3, <2>4 DEF InquiryNext
  <1>3. deleting' \in [Deletes -> Delete]
    BY <1>2
  <1>4. Delete \subseteq Delete'
    BY <1>1 DEF Delete
  <1>5. QED BY <1>3, <1>4

\* The types; every stored row was counted, and a deletion has seen a row.
THEOREM InquiriesTyped == InquirySpec => []InquiryTypeOK
  <1>1. InquiryInit => deleting \in [Deletes -> Delete]
    BY DEF InquiryInit, Delete
  <1>2. InquiryInv /\ deleting \in [Deletes -> Delete] /\ [InquiryNext]_inquiryVars =>
          (deleting \in [Deletes -> Delete])'
    BY DeletionsTyped
  <1>3. InquiryInv /\ deleting \in [Deletes -> Delete] => InquiryTypeOK
    BY DEF InquiryInv, CallsInv, InquiryTypeOK
  <1>4. QED BY <1>1, <1>2, <1>3, InquiryInvariant, PTL DEF InquirySpec

\* No step removes or changes an answered inquiry.
THEOREM AnswersStay == InquirySpec => AnsweredInquiriesStay
  <1>1. InquiryInv /\ [InquiryNext]_inquiryVars =>
          [\A n \in Inquired : inquiry[n].status = "answered" => inquiry'[n].status = "answered"]_inquiryVars
    <2> SUFFICES ASSUME InquiryInv, InquiryNext, NEW n \in Inquired, inquiry[n].status = "answered"
                 PROVE  inquiry'[n].status = "answered"
      BY DEF inquiryVars
    <2> CallsInv
      BY DEF InquiryInv
    <2>1. ASSUME UNCHANGED inquiry PROVE inquiry'[n].status = "answered"
      BY <2>1
    <2>2. ASSUME NEW m \in Inquired, inquiry[m].status = "submitted",
                 NEW s, inquiry' = [inquiry EXCEPT ![m].status = s]
          PROVE  inquiry'[n].status = "answered"
      BY <2>2 DEF CallsInv, Inquired
    <2>3. ASSUME NEW q \in Creates,
                 CreateBegins(q) \/ CreateCounts(q) \/ CreateInserts(q) \/ CreateFails(q)
          PROVE  inquiry'[n].status = "answered"
      <3>1. CASE CreateInserts(q)
        <4>1. PICK r : inquiry' = Append(inquiry, r)
          BY <3>1 DEF CreateInserts
        <4>2. inquiry'[n] = inquiry[n]
          BY <4>1 DEF CallsInv, Inquired
        <4>3. QED BY <4>2
      <3>2. CASE CreateBegins(q) \/ CreateCounts(q) \/ CreateFails(q)
        BY <2>1, <3>2 DEF CreateBegins, CreateCounts, CreateFails
      <3>3. QED BY <2>3, <3>1, <3>2
    <2>4. ASSUME NEW q \in Deletes, DeleteRemoves(q) PROVE inquiry'[n].status = "answered"
      BY <2>1, <2>2, <2>4 DEF DeleteRemoves, Deletable, CallsInv
    <2>5. ASSUME NEW q \in Deletes, NEW m \in Inquired, DeleteReads(q, m)
          PROVE  inquiry'[n].status = "answered"
      BY <2>1, <2>5 DEF DeleteReads
    <2>6. ASSUME NEW m \in Inquired, AdminAnswers(m) PROVE inquiry'[n].status = "answered"
      BY <2>2, <2>6 DEF AdminAnswers
    <2>7. CASE KstMidnight
      BY <2>1, <2>7 DEF KstMidnight
    <2>8. QED BY <2>3, <2>4, <2>5, <2>6, <2>7 DEF InquiryNext
  <1>2. QED BY <1>1, InquiryInvariant, PTL DEF InquirySpec, AnsweredInquiriesStay

=============================================================================

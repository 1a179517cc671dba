--------------------------- MODULE ConsentsProofs ---------------------------
(***************************************************************************)
(* Proofs about Consents, for any documents, versions and number of calls. *)
(***************************************************************************)
EXTENDS Consents, TLAPS

-----------------------------------------------------------------------------
(***************************************************************************)
(* The invariant                                                           *)
(***************************************************************************)

\* What a call holds is what the validation of its input has let through: a
\* registration answers every required document it has read with yes, and no
\* call withdraws what is required.
RequestOK(r) ==
  /\ r \in ConsentRequest
  /\ r.pc = "registering" => Missing(r.answers, r.documents) = {} /\ Available(r.answers, r.documents)
  /\ r.pc = "reading" => \A t \in DOMAIN r.answers : isRequired(t) => r.answers[t]
  /\ "latest" \in r.has => r.pc = "reading"

RequestsInv ==
  /\ effective \in Versions
  /\ request \in [ConsentRequests -> ConsentRequest]
  /\ \A q \in ConsentRequests : RequestOK(request[q])

\* Nothing is stored, and no call changes answers, before the registration.
RowsInv ==
  /\ consent \in [ConsentTypes -> Seq(ConsentRow)]
  /\ ~registered => /\ \A t \in ConsentTypes : consent[t] = <<>>
                    /\ \A q \in ConsentRequests : request[q].pc # "reading"

\* A call that has not been overtaken has read the latest rows of its types.
Current(r, rows) ==
  "latest" \in r.has /\ ~r.overtaken =>
    \A t \in DOMAIN r.answers : r.latest[t] = IF rows[t] = <<>> THEN NoRow ELSE Last(rows[t])

ReadsAreCurrent == \A q \in ConsentRequests : Current(request[q], consent)

ConsentInv == RequestsInv /\ RowsInv /\ RequiredConsentsStand /\ ReadsAreCurrent

-----------------------------------------------------------------------------
(***************************************************************************)
(* Answers and rows                                                        *)
(***************************************************************************)

LEMMA AnswersAreFunctions ==
  ASSUME NEW answers \in Answers
  PROVE  DOMAIN answers \subseteq ConsentTypes /\ \A t \in DOMAIN answers : answers[t] \in BOOLEAN
  BY DEF Answers

LEMMA IdleRequestOK == RequestOK(IdleRequest) /\ ~("latest" \in IdleRequest.has)
  <1>1. IdleRequest.answers = <<>> /\ IdleRequest.pc = "idle" /\ IdleRequest.has = {}
    BY DEF IdleRequest
  <1>2. <<>> \in Answers
    <2>1. <<>> \in [{} -> BOOLEAN]
      OBVIOUS
    <2>2. {} \in SUBSET ConsentTypes
      OBVIOUS
    <2>3. QED BY <2>1, <2>2 DEF Answers
  <1>3. NoVersions \in Versions /\ [t \in ConsentTypes |-> NoRow] \in LatestConsents
    BY ConsentBounds DEF NoVersions, Versions, LatestConsents
  <1>4. IdleRequest \in ConsentRequest
    BY <1>2, <1>3 DEF IdleRequest, ConsentRequest
  <1>5. QED BY <1>1, <1>4 DEF RequestOK

LEMMA LatestIsARow ==
  ASSUME consent \in [ConsentTypes -> Seq(ConsentRow)], NEW t \in ConsentTypes
  PROVE  latestConsent(t) \in ConsentRow \cup {NoRow}
  BY DEF latestConsent, Last

\* The answers of a call become the latest rows of the types T.
LEMMA RecordedRows ==
  ASSUME consent \in [ConsentTypes -> Seq(ConsentRow)], NEW q \in ConsentRequests,
         request[q] \in ConsentRequest, Available(request[q].answers, request[q].documents),
         NEW T \in SUBSET DOMAIN request[q].answers
  PROVE  /\ Recorded(q, T) \in [ConsentTypes -> Seq(ConsentRow)]
         /\ \A t \in ConsentTypes \ T : Recorded(q, T)[t] = consent[t]
         /\ \A t \in T : Recorded(q, T)[t] = Append(consent[t], [version |-> request[q].documents[t],
                                                              agreed |-> request[q].answers[t]])
         /\ \A t \in T : [version |-> request[q].documents[t], agreed |-> request[q].answers[t]] \in ConsentRow
  <1> DEFINE Answer(t) == [version |-> request[q].documents[t], agreed |-> request[q].answers[t]]
  <1>1. request[q].answers \in Answers /\ request[q].documents \in Versions
    BY DEF ConsentRequest
  <1>2. T \subseteq ConsentTypes
    BY <1>1, AnswersAreFunctions
  <1>3. ASSUME NEW t \in T PROVE Answer(t) \in ConsentRow
    <2>1. request[q].documents[t] \in 1..MaxVersions
      BY <1>1, <1>2, ConsentBounds DEF Available, Versions
    <2>2. request[q].answers[t] \in BOOLEAN
      BY <1>1, AnswersAreFunctions
    <2>3. QED BY <2>1, <2>2 DEF ConsentRow
  <1> HIDE DEF Answer
  <1>4. Recorded(q, T) = [t \in ConsentTypes |-> IF t \in T THEN Append(consent[t], Answer(t)) ELSE consent[t]]
    BY DEF Recorded, Answer
  <1>5. QED BY <1>2, <1>3, <1>4 DEF Answer

LEMMA LastOfAppend ==
  ASSUME NEW S, NEW s \in Seq(S), NEW e \in S
  PROVE  Append(s, e) # <<>> /\ Last(Append(s, e)) = e /\ Append(s, e) \in Seq(S)
  BY DEF Last

LEMMA HeadOfAppend ==
  ASSUME NEW S, NEW s \in Seq(S), NEW e \in S
  PROVE  Head(Append(s, e)) = IF s = <<>> THEN e ELSE Head(s)
  OBVIOUS

-----------------------------------------------------------------------------
(***************************************************************************)
(* Every reachable state                                                   *)
(***************************************************************************)

LEMMA ConsentInitInv ==
  ASSUME ConsentInit
  PROVE  ConsentInv
  <1>1. IdleRequest \in ConsentRequest /\ IdleRequest.pc = "idle"
    BY IdleRequestOK DEF RequestOK, IdleRequest
  <1>2. RequestsInv
    <2>1. NoVersions \in Versions
      BY ConsentBounds DEF NoVersions, Versions
    <2>2. QED BY <1>1, <2>1, IdleRequestOK DEF ConsentInit, RequestsInv
  <1>3. RowsInv
    BY <1>1 DEF ConsentInit, RowsInv
  <1>4. RequiredConsentsStand
    BY DEF ConsentInit, RequiredConsentsStand
  <1>5. ReadsAreCurrent
    BY IdleRequestOK DEF ConsentInit, ReadsAreCurrent, Current
  <1>6. QED BY <1>2, <1>3, <1>4, <1>5 DEF ConsentInv

\* One call moves and nothing is written.
LEMMA RequestMoves ==
  ASSUME ConsentInv, NEW q \in ConsentRequests, NEW r, request' = [request EXCEPT ![q] = r],
         RequestOK(r), Current(r, consent), r.pc = "reading" => registered,
         UNCHANGED <<effective, registered, firstTerms, consent>>
  PROVE  ConsentInv'
  <1>1. RequestsInv'
    BY DEF ConsentInv, RequestsInv, RequestOK
  <1>2. RowsInv'
    BY DEF ConsentInv, RequestsInv, RowsInv
  <1>3. RequiredConsentsStand'
    BY DEF ConsentInv, RequiredConsentsStand
  <1>4. ReadsAreCurrent'
    BY DEF ConsentInv, RequestsInv, ReadsAreCurrent
  <1>5. QED BY <1>1, <1>2, <1>3, <1>4 DEF ConsentInv

\* A call that is over has read nothing.
LEMMA EndedRequest ==
  ASSUME NEW pc \in {"idle", "done"}, NEW rows
  PROVE  /\ RequestOK([IdleRequest EXCEPT !.pc = pc])
         /\ Current([IdleRequest EXCEPT !.pc = pc], rows)
         /\ [IdleRequest EXCEPT !.pc = pc].pc # "reading"
  <1> DEFINE r == [IdleRequest EXCEPT !.pc = pc]
  <1>1. r \in ConsentRequest /\ r.pc = pc /\ ~("latest" \in r.has)
    BY IdleRequestOK DEF RequestOK, ConsentRequest, IdleRequest
  <1> HIDE DEF r
  <1>2. RequestOK(r) /\ Current(r, rows) /\ r.pc # "reading"
    BY <1>1 DEF RequestOK, Current
  <1>3. QED BY <1>2 DEF r

LEMMA RegisterReadsStep ==
  ASSUME ConsentInv, NEW q \in ConsentRequests, NEW answers \in Answers, RegisterReads(q, answers)
  PROVE  ConsentInv'
  <1> DEFINE r == [IdleRequest EXCEPT !.pc = "registering", !.answers = answers, !.documents = effective]
  <1>1. /\ r \in ConsentRequest /\ r.pc = "registering" /\ r.answers = answers
        /\ r.documents = effective /\ ~("latest" \in r.has)
    BY IdleRequestOK DEF RequestOK, ConsentRequest, IdleRequest, ConsentInv, RequestsInv
  <1>2. request' = [request EXCEPT ![q] = r]
    BY DEF RegisterReads
  <1> HIDE DEF r
  <1>3. RequestOK(r) /\ Current(r, consent)
    BY <1>1 DEF RegisterReads, RequestOK, Current
  <1>4. QED BY <1>1, <1>2, <1>3, RequestMoves DEF RegisterReads

LEMMA UpdateBeginsStep ==
  ASSUME ConsentInv, NEW q \in ConsentRequests, NEW answers \in Answers, UpdateBegins(q, answers)
  PROVE  ConsentInv'
  <1> DEFINE r == [IdleRequest EXCEPT !.pc = "reading", !.answers = answers]
  <1>1. r \in ConsentRequest /\ r.pc = "reading" /\ r.answers = answers /\ ~("latest" \in r.has)
    BY IdleRequestOK DEF RequestOK, ConsentRequest, IdleRequest
  <1>2. request' = [request EXCEPT ![q] = r]
    BY DEF UpdateBegins
  <1> HIDE DEF r
  <1>3. RequestOK(r) /\ Current(r, consent)
    BY <1>1 DEF UpdateBegins, RequestOK, Current
  <1>4. QED BY <1>2, <1>3, RequestMoves DEF UpdateBegins

LEMMA UpdateReadsStep ==
  ASSUME ConsentInv, NEW q \in ConsentRequests, UpdateReadsDocuments(q) \/ UpdateReadsLatest(q)
  PROVE  ConsentInv'
  <1>1. RequestOK(request[q]) /\ Current(request[q], consent) /\ registered /\ request[q].pc = "reading"
    BY DEF ConsentInv, RequestsInv, ReadsAreCurrent, RowsInv, UpdateReadsDocuments, UpdateReadsLatest
  <1>2. CASE UpdateReadsDocuments(q)
    <2> DEFINE r == [request[q] EXCEPT !.has = request[q].has \cup {"documents"}, !.documents = effective]
    <2>1. /\ r \in ConsentRequest /\ r.pc = "reading" /\ r.answers = request[q].answers
          /\ r.has = request[q].has \cup {"documents"}
          /\ r.latest = request[q].latest /\ r.overtaken = request[q].overtaken
      BY <1>1 DEF RequestOK, ConsentRequest, ConsentInv, RequestsInv
    <2>2. request' = [request EXCEPT ![q] = r]
      BY <1>2 DEF UpdateReadsDocuments, ConsentInv, RequestsInv
    <2> HIDE DEF r
    <2>3. RequestOK(r) /\ Current(r, consent)
      BY <1>1, <2>1 DEF RequestOK, Current
    <2>4. QED BY <1>1, <1>2, <2>2, <2>3, RequestMoves DEF UpdateReadsDocuments
  <1>3. CASE UpdateReadsLatest(q)
    <2> DEFINE rows == [t \in ConsentTypes |-> latestConsent(t)]
               r == [request[q] EXCEPT !.has = request[q].has \cup {"latest"}, !.latest = rows]
    <2>1. rows \in LatestConsents
      BY LatestIsARow DEF LatestConsents, ConsentInv, RowsInv
    <2>2. \A t \in ConsentTypes : rows[t] = IF consent[t] = <<>> THEN NoRow ELSE Last(consent[t])
      BY DEF latestConsent
    <2>3. request' = [request EXCEPT ![q] = r]
      BY <1>3 DEF UpdateReadsLatest, ConsentInv, RequestsInv
    <2> HIDE DEF rows
    <2>4. r \in ConsentRequest /\ r.pc = "reading" /\ r.answers = request[q].answers /\ r.latest = rows
      BY <1>1, <2>1 DEF RequestOK, ConsentRequest
    <2> HIDE DEF r
    <2>5. DOMAIN r.answers \subseteq ConsentTypes
      BY <2>4, AnswersAreFunctions DEF ConsentRequest
    <2>6. RequestOK(r) /\ Current(r, consent)
      BY <1>1, <2>2, <2>4, <2>5 DEF RequestOK, Current
    <2>7. QED BY <1>1, <1>3, <2>3, <2>6, RequestMoves DEF UpdateReadsLatest
  <1>4. QED BY <1>2, <1>3

LEMMA RegisterWritesStep ==
  ASSUME ConsentInv, NEW q \in ConsentRequests, RegisterWrites(q)
  PROVE  ConsentInv'
  <1> DEFINE r == [IdleRequest EXCEPT !.pc = "idle"]
             answers == request[q].answers
             documents == request[q].documents
  <1>1. RequestOK(r) /\ Current(r, consent) /\ r.pc # "reading" /\ Current(r, consent')
    BY EndedRequest
  <1>2. request' = [request EXCEPT ![q] = r]
    BY DEF RegisterWrites, Ended
  <1> HIDE DEF r
  <1>3. CASE registered
    BY <1>1, <1>2, <1>3, RequestMoves DEF RegisterWrites
  <1>4. CASE ~registered
    <2>1. /\ RequestOK(request[q]) /\ request[q].pc = "registering"
          /\ registered' = TRUE /\ firstTerms' = documents
          /\ consent' = Recorded(q, DOMAIN answers)
      BY <1>4 DEF RegisterWrites, ConsentInv, RequestsInv
    <2>2. /\ answers \in Answers /\ DOMAIN answers \subseteq ConsentTypes
          /\ \A t \in DOMAIN answers : answers[t] \in BOOLEAN
      BY <2>1, AnswersAreFunctions DEF RequestOK, ConsentRequest
    <2>3. \A t \in ConsentTypes : isRequired(t) /\ documents[t] # 0 => t \in DOMAIN answers /\ answers[t]
      BY <2>1 DEF RequestOK, Missing
    <2>4. \A t \in DOMAIN answers : documents[t] # 0
      BY <2>1 DEF RequestOK, Available
    <2>5. /\ consent \in [ConsentTypes -> Seq(ConsentRow)]
          /\ \A t \in ConsentTypes : consent[t] = <<>>
          /\ \A p \in ConsentRequests : request[p].pc # "reading"
      BY <1>4 DEF ConsentInv, RowsInv
    <2>6. /\ consent' \in [ConsentTypes -> Seq(ConsentRow)]
          /\ \A t \in ConsentTypes \ DOMAIN answers : consent'[t] = <<>>
          /\ \A t \in DOMAIN answers :
               consent'[t] = <<[version |-> documents[t], agreed |-> answers[t]]>>
      BY <2>1, <2>2, <2>5, RecordedRows DEF RequestOK
    <2> HIDE DEF answers, documents
    <2>7. RequestsInv'
      BY <1>1, <1>2 DEF ConsentInv, RequestsInv, RequestOK, RegisterWrites
    <2>8. RowsInv'
      BY <2>1, <2>6 DEF RowsInv
    <2>9. RequiredConsentsStand'
      <3>1. ASSUME NEW t \in ConsentTypes, isRequired(t)
            PROVE  /\ \A k \in DOMAIN consent'[t] : consent'[t][k].agreed
                   /\ firstTerms'[t] # 0 =>
                        consent'[t] # <<>> /\ Head(consent'[t]) = [version |-> firstTerms'[t], agreed |-> TRUE]
        <4>1. CASE t \in DOMAIN answers
          <5>1. answers[t] = TRUE
            BY <2>2, <2>3, <2>4, <3>1, <4>1
          <5>2. consent'[t] = <<[version |-> documents[t], agreed |-> TRUE]>>
            BY <2>6, <4>1, <5>1
          <5>3. QED BY <2>1, <5>2
        <4>2. CASE t \notin DOMAIN answers
          BY <2>1, <2>3, <2>6, <3>1, <4>2
        <4>3. QED BY <4>1, <4>2
      <3>2. QED BY <3>1 DEF RequiredConsentsStand
    <2>10. ReadsAreCurrent'
      <3>1. ASSUME NEW p \in ConsentRequests PROVE Current(request'[p], consent')
        <4>1. CASE p = q
          BY <1>1, <1>2, <4>1 DEF ConsentInv, RequestsInv
        <4>2. CASE p # q
          BY <1>2, <2>5, <4>2 DEF ConsentInv, RequestsInv, RequestOK, Current
        <4>3. QED BY <4>1, <4>2
      <3>2. QED BY <3>1 DEF ReadsAreCurrent
    <2>11. QED BY <2>7, <2>8, <2>9, <2>10 DEF ConsentInv
  <1>5. QED BY <1>3, <1>4

\* What the end of an update does to rows and to the other calls.
LEMMA WritesOfUpdate ==
  ASSUME ConsentInv, NEW q \in ConsentRequests, UpdateWrites(q)
  PROVE  /\ consent' \in [ConsentTypes -> Seq(ConsentRow)]
         /\ \A t \in ConsentTypes \ Changed(q) : consent'[t] = consent[t]
         /\ \A t \in Changed(q) :
              LET answer == [version |-> request[q].documents[t], agreed |-> request[q].answers[t]]
              IN answer \in ConsentRow /\ consent'[t] = Append(consent[t], answer)
         /\ request'[q] = [IdleRequest EXCEPT !.pc = "done"]
         /\ \A p \in ConsentRequests \ {q} : request'[p] = Overtaken(q, Changed(q))[p]
         /\ request' = [p \in ConsentRequests |-> request'[p]]
  <1>1. /\ RequestOK(request[q]) /\ Available(request[q].answers, request[q].documents)
        /\ consent' = Recorded(q, Changed(q))
        /\ request' = [Overtaken(q, Changed(q)) EXCEPT ![q] = [IdleRequest EXCEPT !.pc = "done"]]
    BY DEF UpdateWrites, ConsentInv, RequestsInv
  <1>2. Changed(q) \subseteq DOMAIN request[q].answers
    BY DEF Changed
  <1>3. consent \in [ConsentTypes -> Seq(ConsentRow)]
    BY DEF ConsentInv, RowsInv
  <1>4. DOMAIN Overtaken(q, Changed(q)) = ConsentRequests
    BY DEF Overtaken
  <1>5. /\ request'[q] = [IdleRequest EXCEPT !.pc = "done"]
        /\ \A p \in ConsentRequests \ {q} : request'[p] = Overtaken(q, Changed(q))[p]
        /\ request' = [p \in ConsentRequests |-> request'[p]]
    BY <1>1, <1>4
  <1>6. QED BY <1>1, <1>2, <1>3, <1>5, RecordedRows DEF RequestOK

\* Another call is as it was, or has been overtaken as well.
LEMMA OthersAtWrite ==
  ASSUME ConsentInv, NEW q \in ConsentRequests, UpdateWrites(q), NEW p \in ConsentRequests \ {q}
  PROVE  /\ RequestOK(request'[p])
         /\ request'[p].pc = request[p].pc
         /\ Current(request'[p], consent')
  <1> DEFINE T == Changed(q)
  <1>1. RequestOK(request[p]) /\ Current(request[p], consent) /\ request[p] \in ConsentRequest
    BY DEF ConsentInv, RequestsInv, ReadsAreCurrent
  <1>2. request'[p] = IF "latest" \in request[p].has /\ T \cap DOMAIN request[p].answers # {}
                      THEN [request[p] EXCEPT !.overtaken = TRUE] ELSE request[p]
    BY WritesOfUpdate DEF Overtaken
  <1>3. CASE "latest" \in request[p].has /\ T \cap DOMAIN request[p].answers # {}
    <2> DEFINE r == [request[p] EXCEPT !.overtaken = TRUE]
    <2>1. /\ r \in ConsentRequest /\ r.overtaken /\ r.pc = request[p].pc /\ r.answers = request[p].answers
          /\ r.documents = request[p].documents /\ r.has = request[p].has
      BY <1>1 DEF ConsentRequest
    <2>2. request'[p] = r
      BY <1>2, <1>3
    <2> HIDE DEF r
    <2>3. QED BY <1>1, <2>1, <2>2 DEF RequestOK, Current
  <1>4. CASE ~("latest" \in request[p].has /\ T \cap DOMAIN request[p].answers # {})
    <2>1. request'[p] = request[p]
      BY <1>2, <1>4
    <2>2. DOMAIN request[p].answers \subseteq ConsentTypes
      BY <1>1, AnswersAreFunctions DEF ConsentRequest
    <2>3. \A t \in ConsentTypes \ T : consent'[t] = consent[t]
      BY WritesOfUpdate
    <2> HIDE DEF T
    <2>4. Current(request[p], consent')
      BY <1>1, <1>4, <2>2, <2>3 DEF Current
    <2>5. QED BY <1>1, <2>1, <2>4
  <1>5. QED BY <1>3, <1>4

LEMMA UpdateWritesStep ==
  ASSUME ConsentInv, NEW q \in ConsentRequests, UpdateWrites(q)
  PROVE  ConsentInv'
  <1>1. RequestOK(request'[q]) /\ Current(request'[q], consent') /\ request'[q].pc # "reading"
    BY EndedRequest, WritesOfUpdate
  <1>2. \A p \in ConsentRequests : RequestOK(request'[p]) /\ Current(request'[p], consent')
    BY <1>1, OthersAtWrite
  <1>3. RequestsInv'
    <2>1. request' = [p \in ConsentRequests |-> request'[p]]
      BY WritesOfUpdate
    <2>2. \A p \in ConsentRequests : request'[p] \in ConsentRequest
      BY <1>2 DEF RequestOK
    <2>3. request' \in [ConsentRequests -> ConsentRequest]
      BY <2>1, <2>2
    <2>4. effective' \in Versions
      BY DEF ConsentInv, RequestsInv, UpdateWrites
    <2>5. QED BY <1>2, <2>3, <2>4 DEF RequestsInv, RequestOK
  <1>4. ReadsAreCurrent'
    BY <1>2 DEF ReadsAreCurrent
  <1>5. registered /\ registered' = registered /\ firstTerms' = firstTerms
    BY DEF ConsentInv, RowsInv, UpdateWrites
  <1>6. RowsInv'
    BY <1>5, WritesOfUpdate DEF RowsInv
  <1>7. RequiredConsentsStand'
    <2> SUFFICES ASSUME NEW t \in ConsentTypes, isRequired(t)
                 PROVE  /\ \A k \in DOMAIN consent'[t] : consent'[t][k].agreed
                        /\ firstTerms[t] # 0 =>
                             consent'[t] # <<>> /\ Head(consent'[t]) = [version |-> firstTerms[t], agreed |-> TRUE]
      BY <1>5 DEF RequiredConsentsStand
    <2>1. /\ consent[t] \in Seq(ConsentRow)
          /\ \A k \in DOMAIN consent[t] : consent[t][k].agreed
          /\ firstTerms[t] # 0 =>
               consent[t] # <<>> /\ Head(consent[t]) = [version |-> firstTerms[t], agreed |-> TRUE]
      BY <1>5 DEF ConsentInv, RowsInv, RequiredConsentsStand
    <2>2. CASE t \notin Changed(q)
      BY <2>1, <2>2, WritesOfUpdate
    <2>3. CASE t \in Changed(q)
      <3>1. request[q].answers[t]
        BY <2>3 DEF Changed, ConsentInv, RequestsInv, RequestOK, UpdateWrites
      <3>2. PICK a \in ConsentRow : a.agreed = request[q].answers[t] /\ consent'[t] = Append(consent[t], a)
        <4> DEFINE b == [version |-> request[q].documents[t], agreed |-> request[q].answers[t]]
        <4>1. b \in ConsentRow /\ consent'[t] = Append(consent[t], b)
          BY <2>3, WritesOfUpdate
        <4>2. b.agreed = request[q].answers[t]
          OBVIOUS
        <4> HIDE DEF b
        <4>3. QED BY <4>1, <4>2
      <3>3. DOMAIN consent'[t] = DOMAIN consent[t] \cup {Len(consent[t]) + 1}
        BY <2>1, <3>2
      <3>4. /\ consent'[t][Len(consent[t]) + 1] = a
            /\ \A k \in DOMAIN consent[t] : consent'[t][k] = consent[t][k]
        BY <2>1, <3>2
      <3>5. consent'[t] # <<>> /\ (consent[t] # <<>> => Head(consent'[t]) = Head(consent[t]))
        BY <2>1, <3>2
      <3>6. \A k \in DOMAIN consent'[t] : consent'[t][k].agreed
        BY <2>1, <3>1, <3>2, <3>3, <3>4
      <3>7. QED BY <2>1, <3>5, <3>6
    <2>4. QED BY <2>2, <2>3
  <1>8. QED BY <1>3, <1>4, <1>6, <1>7 DEF ConsentInv

LEMMA ConsentStep ==
  ASSUME ConsentInv, [ConsentNext]_consentVars
  PROVE  ConsentInv'
  <1>1. ASSUME NEW t \in ConsentTypes, DocumentTakesEffect(t) PROVE ConsentInv'
    <2>1. effective' \in Versions
      BY <1>1, ConsentBounds DEF DocumentTakesEffect, ConsentInv, RequestsInv, Versions
    <2>2. QED BY <1>1, <2>1 DEF DocumentTakesEffect, ConsentInv, RequestsInv, RowsInv,
                                RequiredConsentsStand, ReadsAreCurrent
  <1>2. ASSUME NEW q \in ConsentRequests, RequestFails(q) PROVE ConsentInv'
    <2>1. request' = [request EXCEPT ![q] = [IdleRequest EXCEPT !.pc = "idle"]]
      BY <1>2 DEF RequestFails, Ended
    <2>2. QED BY <1>2, <2>1, EndedRequest, RequestMoves DEF RequestFails
  <1>3. CASE UNCHANGED consentVars
    BY <1>3 DEF consentVars, ConsentInv, RequestsInv, RowsInv, RequiredConsentsStand, ReadsAreCurrent
  <1>4. QED
    BY <1>1, <1>2, <1>3, RegisterReadsStep, UpdateBeginsStep, UpdateReadsStep, RegisterWritesStep,
       UpdateWritesStep DEF ConsentNext

\* Calls and rows fit together in every reachable state: the inductive invariant.
THEOREM ConsentInvariant == ConsentSpec => []ConsentInv
  BY ConsentInitInv, ConsentStep, PTL DEF ConsentSpec

\* A registered user has agreed to what was required when the registration was
\* checked, and no later row takes a required consent back.
THEOREM RequiredStand == ConsentSpec => []RequiredConsentsStand
  <1>1. ConsentInv => RequiredConsentsStand
    BY DEF ConsentInv
  <1>2. QED BY <1>1, ConsentInvariant, PTL

-----------------------------------------------------------------------------
(***************************************************************************)
(* The answers that count                                                  *)
(***************************************************************************)

\* Only UpdateWrites ends a call with success.
LEMMA DoneByWriting ==
  ASSUME ConsentInv, ConsentNext, NEW q \in ConsentRequests,
         request[q].pc = "reading", request'[q].pc = "done"
  PROVE  UpdateWrites(q)
  <1>1. request'[q] # request[q]
    OBVIOUS
  <1>2. request \in [ConsentRequests -> ConsentRequest] /\ RequestOK(request[q]) /\ registered
    BY DEF ConsentInv, RequestsInv, RowsInv
  <1>3. ASSUME NEW p \in ConsentRequests, NEW r, request' = [request EXCEPT ![p] = r], r.pc # "done"
        PROVE  FALSE
    BY <1>1, <1>2, <1>3
  <1>4. ASSUME NEW p \in ConsentRequests, NEW answers \in Answers,
               RegisterReads(p, answers) \/ UpdateBegins(p, answers)
        PROVE  FALSE
    <2>1. UpdateBegins(p, answers)
      BY <1>2, <1>4 DEF RegisterReads
    <2> DEFINE r == [IdleRequest EXCEPT !.pc = "reading", !.answers = answers]
    <2>2. r.pc = "reading" /\ request' = [request EXCEPT ![p] = r]
      BY <2>1 DEF IdleRequest, UpdateBegins
    <2> HIDE DEF r
    <2>3. QED BY <1>3, <2>2
  <1>5. ASSUME NEW p \in ConsentRequests, RegisterWrites(p) \/ RequestFails(p)
        PROVE  FALSE
    <2> DEFINE r == [IdleRequest EXCEPT !.pc = "idle"]
    <2>1. r.pc = "idle" /\ request' = [request EXCEPT ![p] = r]
      BY <1>5 DEF IdleRequest, RegisterWrites, RequestFails, Ended
    <2> HIDE DEF r
    <2>2. QED BY <1>3, <2>1
  <1>6. ASSUME NEW p \in ConsentRequests, UpdateReadsDocuments(p) PROVE FALSE
    <2> DEFINE r == [request[p] EXCEPT !.has = request[p].has \cup {"documents"}, !.documents = effective]
    <2>1. r.pc = "reading" /\ request' = [request EXCEPT ![p] = r]
      BY <1>2, <1>6 DEF ConsentRequest, UpdateReadsDocuments
    <2> HIDE DEF r
    <2>2. QED BY <1>3, <2>1
  <1>7. ASSUME NEW p \in ConsentRequests, UpdateReadsLatest(p) PROVE FALSE
    <2> DEFINE r == [request[p] EXCEPT !.has = request[p].has \cup {"latest"},
                                       !.latest = [t \in ConsentTypes |-> latestConsent(t)]]
    <2>1. r.pc = "reading" /\ request' = [request EXCEPT ![p] = r]
      BY <1>2, <1>7 DEF ConsentRequest, UpdateReadsLatest
    <2> HIDE DEF r
    <2>2. QED BY <1>3, <2>1
  <1>8. ASSUME NEW p \in ConsentRequests \ {q}, UpdateWrites(p) PROVE FALSE
    <2>1. request'[q].pc = request[q].pc
      BY <1>8, OthersAtWrite
    <2>2. QED BY <2>1
  <1>9. ASSUME NEW t \in ConsentTypes, DocumentTakesEffect(t) PROVE FALSE
    BY <1>1, <1>9 DEF DocumentTakesEffect
  <1>10. QED BY <1>4, <1>5, <1>6, <1>7, <1>8, <1>9 DEF ConsentNext

\* The answers of a call that none has overtaken are the latest when it ends.
LEMMA WrittenAnswersCount ==
  ASSUME ConsentInv, NEW q \in ConsentRequests, UpdateWrites(q), ~request[q].overtaken,
         NEW t \in DOMAIN request[q].answers
  PROVE  latestConsent(t)' = [version |-> request[q].documents[t], agreed |-> request[q].answers[t]]
  <1> DEFINE answer == [version |-> request[q].documents[t], agreed |-> request[q].answers[t]]
  <1>1. /\ request[q] \in ConsentRequest /\ t \in ConsentTypes /\ "latest" \in request[q].has
        /\ Current(request[q], consent) /\ consent \in [ConsentTypes -> Seq(ConsentRow)]
    <2>1. request[q] \in ConsentRequest /\ "latest" \in request[q].has
      BY DEF ConsentInv, RequestsInv, UpdateWrites
    <2>2. QED BY <2>1, AnswersAreFunctions DEF ConsentInv, RowsInv, ReadsAreCurrent, ConsentRequest
  <1>2. latestConsent(t)' = IF consent'[t] = <<>> THEN NoRow ELSE Last(consent'[t])
    BY DEF latestConsent
  <1>3. CASE t \in Changed(q)
    <2>1. answer \in ConsentRow /\ consent'[t] = Append(consent[t], answer)
      BY <1>3, WritesOfUpdate
    <2> HIDE DEF answer
    <2>2. consent'[t] # <<>> /\ Last(consent'[t]) = answer
      BY <1>1, <2>1, LastOfAppend
    <2>3. QED BY <1>2, <2>2 DEF answer
  <1>4. CASE t \notin Changed(q)
    <2>1. /\ request[q].latest[t] # NoRow
          /\ request[q].latest[t].agreed = request[q].answers[t]
          /\ request[q].latest[t].version = request[q].documents[t]
      BY <1>4 DEF Changed
    <2>2. request[q].latest[t] \in ConsentRow
      BY <1>1, <2>1 DEF ConsentRequest, LatestConsents
    <2>3. request[q].latest[t] = answer
      BY <2>1, <2>2 DEF ConsentRow
    <2>4. request[q].latest[t] = IF consent[t] = <<>> THEN NoRow ELSE Last(consent[t])
      BY <1>1 DEF Current
    <2>5. consent'[t] = consent[t]
      BY <1>1, <1>4, WritesOfUpdate
    <2>6. QED BY <1>2, <2>3, <2>4, <2>5
  <1>5. QED BY <1>3, <1>4

\* What a call has answered counts when it ends, unless another has overtaken it,
\* and nobody is asked again for the version in force.
THEOREM LatestAnswersCount == ConsentSpec => AnswersCount
  <1>1. ConsentInv /\ [ConsentNext]_consentVars =>
          [\A q \in ConsentRequests :
             request[q].pc = "reading" /\ request'[q].pc = "done" /\ ~request[q].overtaken =>
               \A t \in DOMAIN request[q].answers :
                 LET answer == [version |-> request[q].documents[t], agreed |-> request[q].answers[t]]
                 IN /\ latestConsent(t)' = answer
                    /\ answer.agreed /\ answer.version = effective[t] => ~needsConsent(t)']_consentVars
    <2> SUFFICES ASSUME ConsentInv, ConsentNext, NEW q \in ConsentRequests,
                        request[q].pc = "reading", request'[q].pc = "done", ~request[q].overtaken,
                        NEW t \in DOMAIN request[q].answers
                 PROVE  LET answer == [version |-> request[q].documents[t], agreed |-> request[q].answers[t]]
                        IN /\ latestConsent(t)' = answer
                           /\ answer.agreed /\ answer.version = effective[t] => ~needsConsent(t)'
      BY DEF consentVars
    <2> DEFINE answer == [version |-> request[q].documents[t], agreed |-> request[q].answers[t]]
    <2>1. UpdateWrites(q)
      BY DoneByWriting
    <2>2. latestConsent(t)' = answer
      BY <2>1, WrittenAnswersCount
    <2>3. effective' = effective
      BY <2>1 DEF UpdateWrites
    <2>4. ASSUME answer.agreed, answer.version = effective[t] PROVE ~needsConsent(t)'
      <3>1. request[q].answers[t] = TRUE
        <4>1. request[q] \in ConsentRequest
          BY DEF ConsentInv, RequestsInv
        <4>2. request[q].answers[t] \in BOOLEAN
          BY <4>1, AnswersAreFunctions DEF ConsentRequest
        <4>3. QED BY <2>4, <4>2
      <3>2. answer = [version |-> effective[t], agreed |-> TRUE]
        BY <2>4, <3>1
      <3>3. latestConsent(t)' = [version |-> effective'[t], agreed |-> TRUE]
        BY <2>2, <2>3, <3>2
      <3>4. QED BY <3>3 DEF needsConsent
    <2>5. QED BY <2>2, <2>4
  <1>2. QED BY <1>1, ConsentInvariant, PTL DEF ConsentSpec, AnswersCount

-----------------------------------------------------------------------------
(***************************************************************************)
(* Versions in force                                                       *)
(***************************************************************************)

\* What calls have read and rows answer is in force, for no version goes back.
InForceInv ==
  /\ registered \in BOOLEAN /\ firstTerms \in Versions
  /\ \A q \in ConsentRequests : \A t \in ConsentTypes : request[q].documents[t] <= effective[t]
  /\ \A t \in ConsentTypes : \A k \in DOMAIN consent[t] : consent[t][k].version <= effective[t]

LEMMA VersionsAreNumbers ==
  ASSUME ConsentInv
  PROVE  /\ \A t \in ConsentTypes : effective[t] \in Nat
         /\ \A q \in ConsentRequests : /\ request[q] \in ConsentRequest /\ request[q].documents \in Versions
                                      /\ request[q].answers \in Answers
                                      /\ \A t \in ConsentTypes : request[q].documents[t] \in Nat
         /\ \A t \in ConsentTypes : /\ consent[t] \in Seq(ConsentRow)
                                    /\ \A k \in DOMAIN consent[t] : consent[t][k].version \in Nat
  <1>1. /\ effective \in Versions /\ request \in [ConsentRequests -> ConsentRequest]
        /\ consent \in [ConsentTypes -> Seq(ConsentRow)]
    BY DEF ConsentInv, RequestsInv, RowsInv
  <1>2. \A v \in Versions : \A t \in ConsentTypes : v[t] \in Nat
    BY ConsentBounds DEF Versions
  <1>3. ASSUME NEW q \in ConsentRequests
        PROVE  /\ request[q] \in ConsentRequest /\ request[q].documents \in Versions
               /\ request[q].answers \in Answers
    BY <1>1 DEF ConsentRequest
  <1>4. ASSUME NEW t \in ConsentTypes, NEW k \in DOMAIN consent[t]
        PROVE  consent[t][k].version \in Nat
    <2>1. consent[t] \in Seq(ConsentRow)
      BY <1>1
    <2>2. consent[t][k] \in ConsentRow
      BY <1>4, <2>1
    <2>3. QED BY <2>2, ConsentBounds DEF ConsentRow
  <1>5. QED BY <1>1, <1>2, <1>3, <1>4

\* Rows are recorded with the versions that the call has read.
LEMMA RecordedInForce ==
  ASSUME ConsentInv, InForceInv, NEW q \in ConsentRequests, NEW T \in SUBSET DOMAIN request[q].answers,
         Available(request[q].answers, request[q].documents), consent' = Recorded(q, T), UNCHANGED effective
  PROVE  \A t \in ConsentTypes : \A k \in DOMAIN consent'[t] : consent'[t][k].version <= effective'[t]
  <1> SUFFICES ASSUME NEW t \in ConsentTypes, NEW k \in DOMAIN consent'[t]
               PROVE  consent'[t][k].version <= effective[t]
    OBVIOUS
  <1> DEFINE answer == [version |-> request[q].documents[t], agreed |-> request[q].answers[t]]
  <1>1. /\ consent \in [ConsentTypes -> Seq(ConsentRow)] /\ request[q] \in ConsentRequest
    BY VersionsAreNumbers DEF ConsentInv, RowsInv
  <1>2. /\ t \notin T => consent'[t] = consent[t]
        /\ t \in T => consent'[t] = Append(consent[t], answer) /\ answer \in ConsentRow
    BY <1>1, RecordedRows
  <1>3. CASE t \notin T
    BY <1>2, <1>3 DEF InForceInv
  <1>4. CASE t \in T
    <2>1. answer.version <= effective[t]
      BY DEF InForceInv
    <2> HIDE DEF answer
    <2>2. consent[t] \in Seq(ConsentRow) /\ consent'[t] = Append(consent[t], answer) /\ answer \in ConsentRow
      BY <1>1, <1>2, <1>4
    <2>3. CASE k \in DOMAIN consent[t]
      <3>1. consent'[t][k] = consent[t][k]
        BY <2>2, <2>3
      <3>2. QED BY <2>3, <3>1 DEF InForceInv
    <2>4. CASE k \notin DOMAIN consent[t]
      <3>1. consent'[t][k] = answer
        BY <2>2, <2>4
      <3>2. QED BY <2>1, <3>1
    <2>5. QED BY <2>3, <2>4
  <1>5. QED BY <1>3, <1>4

LEMMA InForceInit ==
  ASSUME ConsentInit
  PROVE  InForceInv
  <1>1. \A t \in ConsentTypes : NoVersions[t] = 0
    BY DEF NoVersions
  <1>2. /\ registered = FALSE /\ firstTerms = NoVersions /\ effective = NoVersions
        /\ \A q \in ConsentRequests : request[q].documents = NoVersions
        /\ \A t \in ConsentTypes : consent[t] = <<>>
    BY DEF ConsentInit, IdleRequest
  <1>3. NoVersions \in Versions
    BY ConsentBounds DEF NoVersions, Versions
  <1>4. \A q \in ConsentRequests : \A t \in ConsentTypes : request[q].documents[t] <= effective[t]
    BY <1>1, <1>2
  <1>5. \A t \in ConsentTypes : DOMAIN consent[t] = {}
    BY <1>2
  <1>6. QED BY <1>2, <1>3, <1>4, <1>5 DEF InForceInv

\* A call gets the documents in force, keeps what it has read, or has none.
LEMMA DocumentsInForce ==
  ASSUME ConsentInv, InForceInv, effective' = effective, NEW q \in ConsentRequests,
         \/ request'[q].documents = effective
         \/ request'[q].documents = NoVersions
         \/ request'[q].documents = request[q].documents,
         \A p \in ConsentRequests \ {q} : request'[p] = request[p]
  PROVE  \A p \in ConsentRequests : \A t \in ConsentTypes : request'[p].documents[t] <= effective'[t]
  <1>1. \A t \in ConsentTypes : effective[t] \in Nat /\ NoVersions[t] = 0
    BY VersionsAreNumbers DEF NoVersions
  <1>2. \A t \in ConsentTypes : request'[q].documents[t] <= effective[t]
    BY <1>1 DEF InForceInv
  <1>3. QED BY <1>2 DEF InForceInv

LEMMA InForceStep ==
  ASSUME ConsentInv, InForceInv, [ConsentNext]_consentVars
  PROVE  InForceInv'
  <1>1. ASSUME NEW t \in ConsentTypes, DocumentTakesEffect(t) PROVE InForceInv'
    <2>1. /\ effective' = [effective EXCEPT ![t] = effective[t] + 1]
          /\ UNCHANGED <<registered, firstTerms, consent, request>>
      BY <1>1 DEF DocumentTakesEffect
    <2>2. \A u \in ConsentTypes : effective[u] \in Nat /\ effective[u] <= effective'[u] /\ effective'[u] \in Nat
      <3>1. effective \in Versions
        BY DEF ConsentInv, RequestsInv
      <3>2. QED BY <2>1, <3>1, VersionsAreNumbers DEF Versions
    <2>3. ASSUME NEW q \in ConsentRequests, NEW u \in ConsentTypes
          PROVE  request'[q].documents[u] <= effective'[u]
      <3>1. request[q].documents[u] <= effective[u] /\ request[q].documents[u] \in Nat
        BY VersionsAreNumbers DEF InForceInv
      <3>2. QED BY <2>1, <2>2, <3>1
    <2>4. ASSUME NEW u \in ConsentTypes, NEW k \in DOMAIN consent[u]
          PROVE  consent[u][k].version <= effective'[u]
      <3>1. consent[u][k].version <= effective[u] /\ consent[u][k].version \in Nat
        BY VersionsAreNumbers DEF InForceInv
      <3>2. QED BY <2>2, <3>1
    <2>5. QED BY <2>1, <2>3, <2>4 DEF InForceInv
  <1>2. ASSUME NEW q \in ConsentRequests, NEW r, UNCHANGED <<effective, registered, firstTerms, consent>>,
               r.documents \in {effective, NoVersions, request[q].documents},
               request' = [request EXCEPT ![q] = r]
        PROVE  InForceInv'
    <2>1. request'[q] = r /\ \A p \in ConsentRequests \ {q} : request'[p] = request[p]
      BY <1>2 DEF ConsentInv, RequestsInv
    <2>2. \A p \in ConsentRequests : \A t \in ConsentTypes : request'[p].documents[t] <= effective'[t]
      BY <1>2, <2>1, DocumentsInForce
    <2>3. QED BY <1>2, <2>2 DEF InForceInv
  <1>3. ASSUME NEW q \in ConsentRequests, NEW answers \in Answers, RegisterReads(q, answers) \/ UpdateBegins(q, answers)
        PROVE  InForceInv'
    <2>1. CASE RegisterReads(q, answers)
      BY <1>2, <2>1 DEF RegisterReads, IdleRequest
    <2>2. CASE UpdateBegins(q, answers)
      BY <1>2, <2>2 DEF UpdateBegins, IdleRequest
    <2>3. QED BY <1>3, <2>1, <2>2
  <1>4. ASSUME NEW q \in ConsentRequests, UpdateReadsDocuments(q) \/ UpdateReadsLatest(q) \/ RequestFails(q)
        PROVE  InForceInv'
    <2>1. request[q] \in ConsentRequest
      BY VersionsAreNumbers
    <2>2. CASE UpdateReadsDocuments(q)
      <3> DEFINE r == [request[q] EXCEPT !.has = request[q].has \cup {"documents"}, !.documents = effective]
      <3>1. r.documents = effective
        BY <2>1 DEF ConsentRequest
      <3>2. request' = [request EXCEPT ![q] = r] /\ UNCHANGED <<effective, registered, firstTerms, consent>>
        BY <2>2 DEF UpdateReadsDocuments
      <3> HIDE DEF r
      <3>3. QED BY <1>2, <3>1, <3>2
    <2>3. CASE UpdateReadsLatest(q)
      <3> DEFINE r == [request[q] EXCEPT !.has = request[q].has \cup {"latest"},
                                         !.latest = [t \in ConsentTypes |-> latestConsent(t)]]
      <3>1. r.documents = request[q].documents
        BY <2>1 DEF ConsentRequest
      <3>2. request' = [request EXCEPT ![q] = r] /\ UNCHANGED <<effective, registered, firstTerms, consent>>
        BY <2>3 DEF UpdateReadsLatest
      <3> HIDE DEF r
      <3>3. QED BY <1>2, <3>1, <3>2
    <2>4. CASE RequestFails(q)
      BY <1>2, <2>4 DEF RequestFails, Ended, IdleRequest
    <2>5. QED BY <1>4, <2>2, <2>3, <2>4
  <1>5. ASSUME NEW q \in ConsentRequests, RegisterWrites(q) PROVE InForceInv'
    <2> DEFINE r == [IdleRequest EXCEPT !.pc = "idle"]
    <2>1. r.documents = NoVersions
      BY DEF IdleRequest
    <2>2. request' = [request EXCEPT ![q] = r] /\ UNCHANGED effective
      BY <1>5 DEF RegisterWrites, Ended
    <2> HIDE DEF r
    <2>3. CASE registered
      BY <1>2, <1>5, <2>1, <2>2, <2>3 DEF RegisterWrites
    <2>4. CASE ~registered
      <3>1. /\ registered' = TRUE /\ firstTerms' = request[q].documents
            /\ consent' = Recorded(q, DOMAIN request[q].answers)
        BY <1>5, <2>4 DEF RegisterWrites
      <3>2. Available(request[q].answers, request[q].documents)
        BY <1>5 DEF RegisterWrites, ConsentInv, RequestsInv, RequestOK
      <3>3. \A t \in ConsentTypes : \A k \in DOMAIN consent'[t] : consent'[t][k].version <= effective'[t]
        BY <2>2, <3>1, <3>2, RecordedInForce
      <3>4. \A p \in ConsentRequests : \A t \in ConsentTypes : request'[p].documents[t] <= effective'[t]
        <4>1. request'[q] = r /\ \A p \in ConsentRequests \ {q} : request'[p] = request[p]
          BY <2>2 DEF ConsentInv, RequestsInv
        <4>2. QED BY <2>1, <2>2, <4>1, DocumentsInForce
      <3>5. firstTerms' \in Versions
        BY <3>1, VersionsAreNumbers
      <3>6. QED BY <3>1, <3>3, <3>4, <3>5 DEF InForceInv
    <2>5. QED BY <2>3, <2>4
  <1>6. ASSUME NEW q \in ConsentRequests, UpdateWrites(q) PROVE InForceInv'
    <2>1. /\ Available(request[q].answers, request[q].documents) /\ consent' = Recorded(q, Changed(q))
          /\ UNCHANGED <<effective, registered, firstTerms>>
      BY <1>6 DEF UpdateWrites
    <2>2. Changed(q) \in SUBSET DOMAIN request[q].answers
      BY DEF Changed
    <2>3. \A t \in ConsentTypes : \A k \in DOMAIN consent'[t] : consent'[t][k].version <= effective'[t]
      BY <2>1, <2>2, RecordedInForce
    <2>4. ASSUME NEW p \in ConsentRequests
          PROVE  request'[p].documents \in {NoVersions, request[p].documents}
      <3>1. request[p] \in ConsentRequest
        BY VersionsAreNumbers
      <3>2. CASE p = q
        BY <1>6, <3>2, WritesOfUpdate DEF IdleRequest
      <3>3. CASE p # q
        <4>1. request'[p] = IF "latest" \in request[p].has /\ Changed(q) \cap DOMAIN request[p].answers # {}
                            THEN [request[p] EXCEPT !.overtaken = TRUE] ELSE request[p]
          BY <1>6, <3>3, WritesOfUpdate DEF Overtaken
        <4>2. QED BY <3>1, <4>1 DEF ConsentRequest
      <3>4. QED BY <3>2, <3>3
    <2>5. ASSUME NEW p \in ConsentRequests, NEW t \in ConsentTypes
          PROVE  request'[p].documents[t] <= effective'[t]
      <3>1. NoVersions[t] = 0 /\ effective[t] \in Nat /\ request[p].documents[t] <= effective[t]
        BY VersionsAreNumbers DEF NoVersions, InForceInv
      <3>2. QED BY <2>1, <2>4, <3>1
    <2>6. QED BY <2>1, <2>3, <2>5 DEF InForceInv
  <1>7. CASE UNCHANGED consentVars
    BY <1>7 DEF consentVars, InForceInv
  <1>8. QED BY <1>1, <1>3, <1>4, <1>5, <1>6, <1>7 DEF ConsentNext

\* The types; no row answers, and no call has read, a version that is not yet in
\* force.
THEOREM ConsentsTyped == ConsentSpec => []ConsentTypeOK
  <1>1. ConsentInv /\ InForceInv => ConsentTypeOK
    BY DEF ConsentInv, RequestsInv, RowsInv, InForceInv, ConsentTypeOK
  <1>2. ConsentInv /\ InForceInv /\ [ConsentNext]_consentVars => InForceInv'
    BY InForceStep
  <1>3. ConsentInit => InForceInv
    BY InForceInit
  <1>4. QED BY <1>1, <1>2, <1>3, ConsentInvariant, PTL DEF ConsentSpec

=============================================================================

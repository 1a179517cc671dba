------------------------------ MODULE Consents ------------------------------
(***************************************************************************)
(* What one user has agreed to (ConsentsService): the answers that come    *)
(* with the registration, and calls that change them later, each of which  *)
(* reads the documents in force and the latest answers without a lock and  *)
(* then appends what has changed.  Answers are never updated or removed.   *)
(***************************************************************************)
EXTENDS Integers, Sequences, FiniteSets, SequencesExt

CONSTANTS
  ConsentTypes,     \* consentTypes
  OptionalTypes,    \* optionalConsentTypes
  ConsentRequests,  \* calls in flight
  MaxVersions,      \* bound of the model: versions of each document
  MaxAnswers        \* bound of the model: rows of each type

ASSUME TypesAreFinite == IsFiniteSet(ConsentTypes) /\ OptionalTypes \subseteq ConsentTypes
ASSUME ConsentBounds == MaxVersions \in Nat /\ MaxAnswers \in Nat

VARIABLES
  effective,   \* the version of each terms_documents type that is in force; 0 is none
  registered,  \* the user: FALSE, then TRUE
  firstTerms,  \* history: what was in force when the registration was checked
  consent,     \* user_consents by type, the latest last
  request      \* calls of register and updateUserConsents

consentVars == <<effective, registered, firstTerms, consent, request>>

-----------------------------------------------------------------------------
isRequired(t) == t \notin OptionalTypes

Versions == [ConsentTypes -> 0..MaxVersions]
NoVersions == [t \in ConsentTypes |-> 0]

ConsentRow == [version: 1..MaxVersions, agreed: BOOLEAN]
NoRow == [version |-> 0, agreed |-> FALSE]
LatestConsents == [ConsentTypes -> ConsentRow \cup {NoRow}]

\* parseConsentInputs: a type is answered at most once.
Answers == UNION {[T -> BOOLEAN] : T \in SUBSET ConsentTypes}

\* overtaken is history: another call has answered one of the same types since
\* this one read the latest rows.
ConsentRequest ==
  [pc: {"idle", "registering", "reading", "done"},
   answers: Answers,
   has: SUBSET {"documents", "latest"},
   documents: Versions,
   latest: LatestConsents,
   overtaken: BOOLEAN]

IdleRequest ==
  [pc |-> "idle", answers |-> <<>>, has |-> {}, documents |-> NoVersions,
   latest |-> [t \in ConsentTypes |-> NoRow], overtaken |-> FALSE]

Ended(q, pc) == [request EXCEPT ![q] = [IdleRequest EXCEPT !.pc = pc]]

latestConsent(t) == IF consent[t] = <<>> THEN NoRow ELSE Last(consent[t])

\* The time at which the next version was to take effect has come.
DocumentTakesEffect(t) ==
  /\ effective[t] < MaxVersions
  /\ effective' = [effective EXCEPT ![t] = @ + 1]
  /\ UNCHANGED <<registered, firstTerms, consent, request>>

-----------------------------------------------------------------------------
(***************************************************************************)
(* resolveRegistrationConsents, then recordConsents in the transaction     *)
(* that creates the account                                                *)
(***************************************************************************)

\* Mutant: the answer itself is not looked at.
MissingAnswer(answers, documents) ==
  {t \in ConsentTypes : isRequired(t) /\ documents[t] # 0 /\ t \notin DOMAIN answers}

Missing(answers, documents) ==
  {t \in ConsentTypes : /\ isRequired(t) /\ documents[t] # 0
                        /\ ~(t \in DOMAIN answers /\ answers[t])}

\* toConsentRecords throws otherwise.
Available(answers, documents) == \A t \in DOMAIN answers : documents[t] # 0

RegisterReads(q, answers) ==
  /\ ~registered
  /\ request[q].pc = "idle"
  /\ Missing(answers, effective) = {}
  /\ Available(answers, effective)
  /\ request' = [request EXCEPT ![q] = [IdleRequest EXCEPT !.pc = "registering", !.answers = answers,
                                                           !.documents = effective]]
  /\ UNCHANGED <<effective, registered, firstTerms, consent>>

\* recordConsents: the rows of types T, as the call q has resolved them.
Recorded(q, T) ==
  [t \in ConsentTypes |->
     IF t \in T THEN Append(consent[t], [version |-> request[q].documents[t], agreed |-> request[q].answers[t]])
     ELSE consent[t]]

\* A second registration of the same person fails on the unique e-mail.
RegisterWrites(q) ==
  /\ request[q].pc = "registering"
  /\ IF registered THEN UNCHANGED <<registered, firstTerms, consent>>
     ELSE /\ registered' = TRUE
          /\ firstTerms' = request[q].documents
          /\ consent' = Recorded(q, DOMAIN request[q].answers)
  /\ request' = Ended(q, "idle")
  /\ UNCHANGED effective

-----------------------------------------------------------------------------
(***************************************************************************)
(* updateUserConsents: the two reads run side by side                      *)
(***************************************************************************)

RowsWillFit == \A t \in ConsentTypes :
  Len(consent[t]) + Cardinality({q \in ConsentRequests : request[q].pc = "reading"}) < MaxAnswers

\* Nothing is withdrawn that is required.
UpdateBegins(q, answers) ==
  /\ registered
  /\ request[q].pc \in {"idle", "done"}
  /\ DOMAIN answers # {}
  /\ \A t \in DOMAIN answers : isRequired(t) => answers[t]
  /\ RowsWillFit
  /\ request' = [request EXCEPT ![q] = [IdleRequest EXCEPT !.pc = "reading", !.answers = answers]]
  /\ UNCHANGED <<effective, registered, firstTerms, consent>>

UpdateReadsDocuments(q) ==
  /\ request[q].pc = "reading"
  /\ "documents" \notin request[q].has
  /\ request' = [request EXCEPT ![q] =
       [@ EXCEPT !.has = request[q].has \cup {"documents"}, !.documents = effective]]
  /\ UNCHANGED <<effective, registered, firstTerms, consent>>

UpdateReadsLatest(q) ==
  /\ request[q].pc = "reading"
  /\ "latest" \notin request[q].has
  /\ request' = [request EXCEPT ![q] =
       [@ EXCEPT !.has = request[q].has \cup {"latest"},
                 !.latest = [t \in ConsentTypes |-> latestConsent(t)]]]
  /\ UNCHANGED <<effective, registered, firstTerms, consent>>

\* Mutant: the same answer to a new version is no change.
ChangedAnswers(q) ==
  {t \in DOMAIN request[q].answers : \/ request[q].latest[t] = NoRow
                                     \/ request[q].latest[t].agreed # request[q].answers[t]}

\* The same answer to the same version adds no row.
Changed(q) ==
  {t \in DOMAIN request[q].answers :
     \/ request[q].latest[t] = NoRow
     \/ request[q].latest[t].agreed # request[q].answers[t]
     \/ request[q].latest[t].version # request[q].documents[t]}

\* Others that have read the latest rows do not see those of types T.
Overtaken(q, T) ==
  [r \in ConsentRequests |->
     IF r # q /\ "latest" \in request[r].has /\ T \cap DOMAIN request[r].answers # {}
     THEN [request[r] EXCEPT !.overtaken = TRUE]
     ELSE request[r]]

UpdateWrites(q) ==
  /\ request[q].pc = "reading"
  /\ request[q].has = {"documents", "latest"}
  /\ Available(request[q].answers, request[q].documents)
  /\ consent' = Recorded(q, Changed(q))
  /\ request' = [Overtaken(q, Changed(q)) EXCEPT ![q] = [IdleRequest EXCEPT !.pc = "done"]]
  /\ UNCHANGED <<effective, registered, firstTerms>>

\* A type without a document in force, an error, the end of the process.
RequestFails(q) ==
  /\ request[q].pc \in {"registering", "reading"}
  /\ request' = Ended(q, "idle")
  /\ UNCHANGED <<effective, registered, firstTerms, consent>>

-----------------------------------------------------------------------------
ConsentInit ==
  /\ effective = NoVersions
  /\ registered = FALSE
  /\ firstTerms = NoVersions
  /\ consent = [t \in ConsentTypes |-> <<>>]
  /\ request = [q \in ConsentRequests |-> IdleRequest]

ConsentNext ==
  \/ \E t \in ConsentTypes : DocumentTakesEffect(t)
  \/ \E q \in ConsentRequests :
       \/ \E answers \in Answers : RegisterReads(q, answers) \/ UpdateBegins(q, answers)
       \/ RegisterWrites(q) \/ UpdateReadsDocuments(q) \/ UpdateReadsLatest(q)
       \/ UpdateWrites(q) \/ RequestFails(q)

ConsentSpec == ConsentInit /\ [][ConsentNext]_consentVars

-----------------------------------------------------------------------------
(***************************************************************************)
(* listUserConsents                                                        *)
(***************************************************************************)

needsConsent(t) ==
  /\ isRequired(t)
  /\ effective[t] # 0
  /\ latestConsent(t) # [version |-> effective[t], agreed |-> TRUE]

-----------------------------------------------------------------------------
(***************************************************************************)
(* Properties                                                              *)
(***************************************************************************)

\* The types; nobody has answered a version that was not yet in force.
ConsentTypeOK ==
  /\ effective \in Versions
  /\ registered \in BOOLEAN
  /\ firstTerms \in Versions
  /\ consent \in [ConsentTypes -> Seq(ConsentRow)]
  /\ request \in [ConsentRequests -> ConsentRequest]
  /\ \A t \in ConsentTypes : \A k \in DOMAIN consent[t] : consent[t][k].version <= effective[t]

\* A registered user agreed to every required document that was in force when
\* the registration was checked, and no row says that a required consent was
\* refused or withdrawn, whatever documents and calls came in between.
RequiredConsentsStand ==
  /\ \A t \in ConsentTypes : isRequired(t) => \A k \in DOMAIN consent[t] : consent[t][k].agreed
  /\ registered =>
       \A t \in ConsentTypes :
         isRequired(t) /\ firstTerms[t] # 0 =>
           consent[t] # <<>> /\ Head(consent[t]) = [version |-> firstTerms[t], agreed |-> TRUE]

\* When a call ends that no other has overtaken, its answers are the latest, to
\* the versions it has read; and who has agreed to the version in force is not
\* asked again.
AnswersCount ==
  [][\A q \in ConsentRequests :
       request[q].pc = "reading" /\ request'[q].pc = "done" /\ ~request[q].overtaken =>
         \A t \in DOMAIN request[q].answers :
           LET answer == [version |-> request[q].documents[t], agreed |-> request[q].answers[t]]
           IN /\ latestConsent(t)' = answer
              /\ answer.agreed /\ answer.version = effective[t] => ~needsConsent(t)']_consentVars

=============================================================================

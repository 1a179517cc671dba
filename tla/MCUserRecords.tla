---------------------------- MODULE MCUserRecords ----------------------------
(***************************************************************************)
(* What the service keeps for one user beside credits, sessions and        *)
(* conversations.  No part reads what another one writes (PagedList has    *)
(* writers of its own), so that their steps commute: a behaviour of all is *)
(* checked as a behaviour of each, while the others stand still.           *)
(***************************************************************************)
EXTENDS Consents, Inquiries, FollowNotifications, PagedList, TLC

CONSTANTS c1, c2,
  Parts  \* the parts that run: "consents", "inquiries", "follows", "pages"

VARIABLE part  \* the one that does

Publishers == [i \in Items |-> IF i = 2 THEN c2 ELSE c1]

Symmetric == Permutations(Syncs)

RecordVars == <<part, consentVars, inquiryVars, followVars, pageVars>>

RecordsInit ==
  /\ part \in Parts
  /\ ConsentInit /\ InquiryInit /\ FollowInit /\ PageInit
  /\ part # "pages" => list = CHOOSE l \in AllLists : l.name \in ReadLists

RecordsNext ==
  /\ UNCHANGED part
  /\ \/ /\ part = "consents" /\ ConsentNext
        /\ UNCHANGED <<inquiryVars, followVars, pageVars>>
     \/ /\ part = "inquiries" /\ InquiryNext
        /\ UNCHANGED <<consentVars, followVars, pageVars>>
     \/ /\ part = "follows" /\ FollowNext
        /\ UNCHANGED <<consentVars, inquiryVars, list, row, writer, reader>>
     \/ /\ part = "pages" /\ PageNext
        /\ UNCHANGED <<consentVars, inquiryVars, item, active, follow, notifications, sync, late>>

RecordsSpec == RecordsInit /\ [][RecordsNext]_RecordVars

=============================================================================

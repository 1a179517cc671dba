---------------------------- MODULE MCReplyJobs ----------------------------
(***************************************************************************)
(* Small instances of ReplyJobs for TLC.                                   *)
(***************************************************************************)
EXTENDS ReplyJobs, TLC

CONSTANTS t1, t2, t3, c1, c2

\* Two turns of one conversation, and a third turn in another.
SharedAndOther == t1 :> c1 @@ t2 :> c1 @@ t3 :> c2
Shared == t1 :> c1 @@ t2 :> c1
Single == t1 :> c1

\* Calls, processes and references are interchangeable.
Interchangeable ==
  Permutations(Refs) \cup Permutations(Workers) \cup Permutations(Requests)

=============================================================================

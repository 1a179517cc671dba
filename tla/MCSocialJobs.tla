---------------------------- MODULE MCSocialJobs ----------------------------
(***************************************************************************)
(* Two characters: one reads the two posts of the other, one a day, and    *)
(* has to like both to follow it.                                          *)
(***************************************************************************)
EXTENDS SocialJobs

CONSTANTS c1, c2

AllByTheSecond == [p \in Posts |-> c2]
AllForTheFirst == [c \in Characters |-> IF c = c1 THEN Posts ELSE {}]

=============================================================================

--------------------------- MODULE MCAuthSessions ---------------------------
(***************************************************************************)
(* Two accounts, one with a password and one of a social provider, which   *)
(* may belong to the same person.                                          *)
(***************************************************************************)
EXTENDS AuthSessions, TLC

Interchangeable == Permutations(Tokens) \cup Permutations(Calls)

=============================================================================

----------------------------- MODULE MCWebClient -----------------------------
(***************************************************************************)
(* Two users and three conversations, two of which one user has already:   *)
(* one more than the list shows.                                           *)
(***************************************************************************)
EXTENDS WebClient, TLC

CONSTANTS u1, u2, x1, x2, x3, s1, s2

MCExisting == <<x1, x2>>
MCOwnerOf == x1 :> u1 @@ x2 :> u1 @@ x3 :> None

Slots == Permutations({s1, s2})
=============================================================================

---------------------------- MODULE MCIngestion ----------------------------
(***************************************************************************)
(* Two sources, two versions of the first that share a chunk id, a second  *)
(* payload under a used key and one for a used version, and a source whose *)
(* relationship targets the first.                                         *)
(***************************************************************************)
EXTENDS Ingestion, TLC

CONSTANTS s1, s2, v1, v2, c1, c2, k1, k2, k3, p1, p2, p3, p4, w1, w2

MCContent == p1 :> <<c1, c2>> @@ p2 :> <<c1>> @@ p3 :> <<c2>> @@ p4 :> <<c2>>
MCLinks == p1 :> {} @@ p2 :> {} @@ p3 :> {<<s1, c2>>} @@ p4 :> {}

Submit(k, s, v, p) == [key |-> k, source |-> s, version |-> v, payload |-> p]

MCCommand == {
    Submit(k1, s1, v1, p1),
    Submit(k2, s1, v2, p2),
    Submit(k3, s2, v1, p3),
    Submit(k2, s1, v1, p4)}   \* reuses both a key and a version
=============================================================================

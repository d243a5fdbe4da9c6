--------------------------- MODULE MCDatasetImport ---------------------------
(***************************************************************************)
(* Datasets over two sources of an earlier import, in which a is at v1 and *)
(* `old` links to it.  The files bring v2 of a and add b, with two chunks. *)
(* They vary in the order of the nodes, in what the operations select and  *)
(* delete, and in the edges between the chunks.                            *)
(***************************************************************************)
EXTENDS DatasetImport, TLC

CONSTANTS a, b, old, v1, v2, c1, c2, c3, c4, other, kold, pold, w1

MCSourceOrder == <<a, b, old>>

A1 == <<a, v1>>
A2 == <<a, v2>>
B1 == <<b, v1>>
MCKey == {A1, A2, B1, kold}
MCPayload == {A1, A2, B1, pold}
MCContent == A1 :> <<c1>> @@ A2 :> <<c2>> @@ B1 :> <<c3, c4>> @@ pold :> <<c1>>
MCLinks == A1 :> {} @@ A2 :> {} @@ B1 :> {} @@ pold :> {<<a, c1>>}

Submit(sv, key, payload) ==
    [key |-> key, source |-> sv[1], version |-> sv[2], payload |-> payload]
Old == Submit(<<old, v1>>, kold, pold)
MCCommand == {CommandOf(A1), CommandOf(A2), CommandOf(B1), Old}
Both == {CommandOf(A1), Old}
Empty == {}

-----------------------------------------------------------------------------
(* Records *)

N(sv, c) == [here |-> TRUE, source |-> sv[1], version |-> sv[2], chunk |-> c]
Op(kind, s, v) == [here |-> TRUE, operation |-> kind, source |-> s, version |-> v]
Add(sv) == Op("add_source", sv[1], sv[2])
Replace(sv) == Op("replace_source", sv[1], sv[2])
Delete(s) == Op("delete_source", s, None)
Link(owner, from, target, to) == [here |-> TRUE, owner |-> owner, from |-> from,
    target |-> target, to |-> to, origin |-> owner[1], type |-> "calls"]

\* Records of another tenant.
ForeignNode == [N(A2, other) EXCEPT !.here = FALSE]
ForeignOperation == [Delete(b) EXCEPT !.here = FALSE]
ForeignEdge == [Link(B1, c4, A2, c2) EXCEPT !.here = FALSE]

InOrder == <<N(A1, c1), N(A2, c2), ForeignNode, N(B1, c3), N(B1, c4)>>
Interleaved == <<N(B1, c3), N(A2, c2), N(B1, c4), N(A1, c1)>>
NoNewA == <<N(A1, c1), N(B1, c3), N(B1, c4)>>

SelectNew == <<Add(A1), Replace(A2), Add(B1), Delete(old), ForeignOperation>>
SelectOld == <<Add(A2), Add(B1), Replace(A1)>>
DeleteB == <<Add(A1), Add(B1), Replace(A2), Delete(b)>>
SelectFirst == <<Add(A1), Add(B1)>>
NoActiveB == <<Add(A2), Delete(b)>>
UnknownVersion == <<Add(A1), Add(B1), Replace(<<b, v2>>)>>

BtoA2 == Link(B1, c3, A2, c2)
BtoA1 == Link(B1, c4, A1, c1)
A2toB == Link(A2, c2, B1, c3)
A1toB == Link(A1, c1, B1, c4)

NodeFiles == {InOrder, Interleaved, NoNewA}
OperationFiles == {SelectNew, SelectOld, SelectFirst, DeleteB, NoActiveB, UnknownVersion}
EdgeFiles == {
    <<BtoA2, ForeignEdge, A2toB>>,
    <<A1toB, BtoA1>>,
    <<[BtoA2 EXCEPT !.origin = a]>>,             \* starts at another source
    <<Link(A2, c2, A1, c1)>>,                    \* into an older version of its source
    <<Link(B1, c3, <<old, v1>>, other)>>,        \* to a chunk of another domain
    <<[BtoA2 EXCEPT !.target = A1]>>,            \* names the wrong version
    <<A2toB, A2toB>>}

Dataset1(nodes, operations, edgeFile, scope) ==
    [nodes |-> nodes, operations |-> operations, edges |-> edgeFile, scope |-> scope]

MCDataset == {Dataset1(n, o, e, sc) : n \in NodeFiles, o \in OperationFiles,
                                     e \in EdgeFiles, sc \in {"internal", "complete"}}

\* b is added and deleted by the same operations file.
SelfDeleted == {Dataset1(InOrder, DeleteB, <<BtoA2>>, "complete")}
=============================================================================

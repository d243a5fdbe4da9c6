---------------------------- MODULE AccessProofs ----------------------------
(***************************************************************************)
(* Proofs about AccessPolicy, for any publications, requests, claims and   *)
(* groups.                                                                 *)
(***************************************************************************)
EXTENDS AccessPolicy, TLAPS

\* A publication that found a version holds the row, and the version is still in force;
\* it is the one that was expected, if any was.
LockInv == \A p \in Publisher : publisher[p].pc = "writing" =>
    /\ Expected[p] # None => publisher[p].read = Expected[p]
    /\ publisher[p].read # None =>
          lock = p /\ policy # None /\ policy.version = publisher[p].read

\* A decision is recorded only by the step that ends its request, under the version read first.
RecordInvOf(r) ==
    /\ request[r].pc \in {"new", "decide"} \cup Reading => \A d \in decisions : d.request # r
    /\ request[r].pc \in {"decide", "answered"} \cup Reading =>
          \E b \in inForce[r] : request[r].version = IF b = None THEN 1 ELSE b.version
RecordInv == \A r \in Request : RecordInvOf(r)

\* What the last three statements of a request find, when each sees one of three policies.
FoundIn(r, a, b, c) ==
    {d \in Sought(r, c.capabilities) : StillGranted(d, GrantedTo(b, GroupsOf(a, Claims[r])))}

\* What a request has read is what policies in force since its first statement say.
ReadInvOf(r) ==
    LET seen == inForce[r] \ {None} IN
    /\ request[r].pc \in Reading => policy # None /\ policy \in seen
    /\ request[r].pc \in {"grants", "capabilities"} =>
          \E a \in seen : request[r].groups = GroupsOf(a, Claims[r])
    /\ request[r].pc = "capabilities" =>
          \E a, b \in seen : request[r].granted = GrantedTo(b, GroupsOf(a, Claims[r]))
    /\ request[r].pc \in {"decide", "answered"} =>
          \/ inForce[r] = {None} /\ request[r].found = {}
          \/ \E a, b, c \in seen : request[r].found = FoundIn(r, a, b, c)
ReadInv == \A r \in Request : ReadInvOf(r)

\* Nothing is found, and no version is known, before the statement that finds it.
NewInv == \A r \in Request :
    /\ request[r].pc = "new" => request[r].version = 1
    /\ request[r].pc \in {"new"} \cup Reading => request[r].found = {}

PolicyInv ==
    /\ policy # None => WellFormed(policy)
    /\ \A r \in Request : \A b \in inForce[r] : b # None => WellFormed(b)

IInv == TypeOK /\ LockInv /\ ChangesAreChained /\ RecordInv /\ ReadInv /\ NewInv /\ PolicyInv

-----------------------------------------------------------------------------
(* The initial state *)

LEMMA InitInv == Init => IInv
<1> SUFFICES ASSUME Init PROVE IInv
  OBVIOUS
<1> USE AccessAssumption DEF Init, NewRequest
<1>1. TypeOK
  BY DEF TypeOK, Publications, Requests, Reading
<1>2. LockInv /\ RecordInv /\ ReadInv /\ NewInv /\ PolicyInv
  BY DEF LockInv, RecordInv, RecordInvOf, ReadInv, ReadInvOf, NewInv, PolicyInv, Reading
<1>3. ChangesAreChained
  BY DEF ChangesAreChained
<1> QED
  BY <1>1, <1>2, <1>3 DEF IInv

-----------------------------------------------------------------------------
(* Steps of a publication *)

LEMMA LockVersionInv ==
    ASSUME IInv, NEW p \in Publisher, LockVersion(p)
    PROVE  IInv'
<1> USE AccessAssumption DEF IInv, LockVersion, Begin
<1>1. CurrentVersion \in Int \cup {None}
  BY DEF TypeOK, CurrentVersion, Policy
<1>2. \E local \in [pc : {"conflict", "writing"}, read : Int \cup {None}] :
        /\ publisher' = [publisher EXCEPT ![p] = local]
        /\ local.pc = "writing" =>
              /\ local.read = CurrentVersion
              /\ Expected[p] # None => CurrentVersion = Expected[p]
              /\ lock' = IF policy = None THEN lock ELSE p
        /\ local.pc = "conflict" => lock' = lock
  <2>1. CASE Expected[p] # None /\ CurrentVersion # Expected[p]
    BY <2>1 DEF Compare, Finish, Move
  <2>2. CASE ~(Expected[p] # None /\ CurrentVersion # Expected[p])
    BY <1>1, <2>2 DEF Compare, Move
  <2> QED
    BY <2>1, <2>2
<1>3. TypeOK'
  BY <1>2 DEF TypeOK, Publications
<1>4. LockInv'
  BY <1>2 DEF LockInv, TypeOK, Publications, CurrentVersion
<1>5. ChangesAreChained'
  BY DEF ChangesAreChained
<1>6. RecordInv' /\ ReadInv' /\ NewInv' /\ PolicyInv'
  BY DEF RecordInv, RecordInvOf, ReadInv, ReadInvOf, NewInv, PolicyInv, FoundIn, Sought, Reading
<1> QED
  BY <1>3, <1>4, <1>5, <1>6

LEMMA PublishInv ==
    ASSUME IInv, NEW p \in Publisher, Publish(p)
    PROVE  IInv'
<1> USE AccessAssumption DEF IInv, Publish, Finish, Move
<1>1. Bundle[p] \in Policy /\ WellFormed(Bundle[p]) /\ Bundle[p] # None /\ Bundle[p].version \in Nat
  BY DEF Policy
<1>2. TypeOK'
  <2>1. changes' \in Seq(Change)
    BY <1>1 DEF TypeOK, Publications, Change
  <2>2. inForce' \in [Request -> SUBSET (Policy \cup {None})]
    BY <1>1 DEF TypeOK
  <2> QED
    BY <1>1, <2>1, <2>2 DEF TypeOK, Publications
<1>3. LockInv'
  BY DEF LockInv, TypeOK, Publications
<1>4. ChangesAreChained'
  <2> DEFINE last == [previous |-> publisher[p].read, published |-> Bundle[p].version]
  <2>1. changes \in Seq(Change) /\ changes' = Append(changes, last)
    BY DEF TypeOK
  <2>2. Len(changes') = Len(changes) + 1 /\ changes'[Len(changes) + 1] = last
        /\ \A i \in 1..Len(changes) : changes'[i] = changes[i]
    BY <2>1
  <2>3. publisher[p].read = None
        \/ (policy # None /\ policy.version = publisher[p].read /\ Len(changes) > 0
            /\ changes[Len(changes)].published = policy.version)
    BY <2>1 DEF LockInv, ChangesAreChained
  <2>4. ASSUME NEW i \in 1..(Len(changes) + 1)
        PROVE  changes'[i].previous \in
                   {None} \cup (IF i = 1 THEN {} ELSE {changes'[i - 1].published})
    <3>1. CASE i = Len(changes) + 1
      BY <2>1, <2>2, <2>3, <3>1
    <3>2. CASE i \in 1..Len(changes)
      BY <2>1, <2>2, <3>2 DEF ChangesAreChained
    <3> QED
      BY <2>1, <3>1, <3>2
  <2>5. policy' # None /\ changes' # <<>> /\ changes'[Len(changes')].published = policy'.version
    BY <1>1, <2>1, <2>2
  <2> QED
    BY <2>1, <2>2, <2>4, <2>5 DEF ChangesAreChained
<1>5. \A r \in Request : inForce[r] \subseteq inForce'[r]
                         /\ (request[r].pc \notin Reading => inForce'[r] = inForce[r])
                         /\ (request[r].pc \in Reading => Bundle[p] \in inForce'[r])
  BY DEF TypeOK
<1>6. RecordInv'
  BY <1>5 DEF RecordInv, RecordInvOf, Reading
<1>7. ReadInv'
  BY <1>1, <1>5 DEF ReadInv, ReadInvOf, FoundIn, Sought, Reading
<1>8. PolicyInv' /\ NewInv'
  BY <1>1 DEF PolicyInv, NewInv, TypeOK
<1> QED
  BY <1>2, <1>3, <1>4, <1>6, <1>7, <1>8

LEMMA GiveUpInv ==
    ASSUME IInv, NEW p \in Publisher, PublishFails(p) \/ SendAgain(p)
    PROVE  IInv'
<1> USE AccessAssumption DEF IInv, PublishFails, SendAgain, Finish, Move
<1>1. TypeOK'
  <2>1. \E pc \in {"failed", "idle"} :
          publisher' = [publisher EXCEPT ![p] = [pc |-> pc, read |-> None]]
    OBVIOUS
  <2>2. publisher' \in [Publisher -> Publications]
    BY <2>1 DEF TypeOK, Publications
  <2>3. lock' \in Publisher \cup {None}
    BY DEF TypeOK
  <2> QED
    BY <2>2, <2>3 DEF TypeOK
<1>2. LockInv'
  BY DEF LockInv, TypeOK, Publications
<1>3. ChangesAreChained'
  BY DEF ChangesAreChained
<1>4. RecordInv' /\ ReadInv' /\ NewInv' /\ PolicyInv'
  BY DEF RecordInv, RecordInvOf, ReadInv, ReadInvOf, NewInv, PolicyInv, FoundIn, Sought, Reading
<1> QED
  BY <1>1, <1>2, <1>3, <1>4
-----------------------------------------------------------------------------
(* Steps of a request *)

\* Nothing that a request does touches the publications.
LEMMA RequestLeavesPolicy ==
    ASSUME IInv, RequestFrame
    PROVE  LockInv' /\ ChangesAreChained'
BY DEF IInv, RequestFrame, LockInv, ChangesAreChained

LEMMA ReadVersionInv ==
    ASSUME IInv, NEW r \in Request, ReadVersion(r)
    PROVE  IInv'
<1> USE AccessAssumption DEF IInv, ReadVersion, RequestFrame
<1> DEFINE local == IF policy = None THEN [request[r] EXCEPT !.pc = "decide"]
                    ELSE [request[r] EXCEPT !.pc = "groups", !.version = policy.version]
<1>1. request' = [request EXCEPT ![r] = local] /\ request[r] \in Requests
  BY DEF Go, TypeOK
<1>2. /\ local \in Requests /\ local.found = request[r].found
      /\ policy = None => local.pc = "decide" /\ local.version = request[r].version
      /\ policy # None => local.pc = "groups" /\ local.version = policy.version
  <2>1. CASE policy = None
    BY <1>1, <2>1 DEF Requests, Reading
  <2>2. CASE policy # None
    <3>1. policy.version \in Int
      BY <2>2 DEF TypeOK, Policy
    <3>2. local = [request[r] EXCEPT !.pc = "groups", !.version = policy.version]
      BY <2>2
    <3> HIDE DEF local
    <3> QED
      BY <1>1, <2>2, <3>1, <3>2 DEF Requests, Reading
  <2> QED
    BY <2>1, <2>2
<1> HIDE DEF local
<1>3. TypeOK'
  BY <1>1, <1>2 DEF TypeOK
<1>4. RecordInv'
  <2> SUFFICES ASSUME NEW q \in Request PROVE RecordInvOf(q)'
    BY DEF RecordInv
  <2>1. CASE q = r
    BY <2>1, <1>1, <1>2 DEF RecordInv, RecordInvOf, NewInv, TypeOK, Reading
  <2>2. CASE q # r
    BY <2>2, <1>1 DEF RecordInv, RecordInvOf, TypeOK
  <2> QED
    BY <2>1, <2>2
<1>5. ReadInv'
  <2> SUFFICES ASSUME NEW q \in Request PROVE ReadInvOf(q)'
    BY DEF ReadInv
  <2>1. CASE q = r
    BY <2>1, <1>1, <1>2 DEF ReadInvOf, NewInv, TypeOK, Reading
  <2>2. CASE q # r
    BY <2>2, <1>1 DEF ReadInv, ReadInvOf, TypeOK, FoundIn, Sought
  <2> QED
    BY <2>1, <2>2
<1>6. PolicyInv'
  BY DEF PolicyInv, TypeOK
<1>7. NewInv'
  BY <1>1, <1>2 DEF NewInv, TypeOK
<1> QED
  BY <1>3, <1>4, <1>5, <1>6, <1>7, RequestLeavesPolicy

LEMMA ReadGroupsInv ==
    ASSUME IInv, NEW r \in Request, ReadGroups(r)
    PROVE  IInv'
<1> USE AccessAssumption DEF IInv, ReadGroups, RequestFrame
<1> DEFINE groups == GroupsOf(policy, Claims[r])
           local == [request[r] EXCEPT !.groups = groups,
                                       !.pc = IF groups = {} THEN "decide" ELSE "grants"]
<1>1. request' = [request EXCEPT ![r] = local] /\ request[r] \in Requests
  BY DEF Go, TypeOK
<1>2. policy \in inForce[r] \ {None} /\ policy \in Policy
  BY DEF ReadInv, ReadInvOf, Reading, TypeOK
<1>3. groups \subseteq Group
  BY <1>2 DEF GroupsOf, Policy
<1>4. local \in Requests /\ local.found = request[r].found
      /\ local.version = request[r].version /\ local.groups = groups
      /\ local.pc = IF groups = {} THEN "decide" ELSE "grants"
  BY <1>1, <1>3 DEF Requests, Reading
<1>5. groups = {} => FoundIn(r, policy, policy, policy) = {}
  BY DEF FoundIn, StillGranted, GrantedTo, Ids
<1>6. request[r].found = {}
  BY DEF NewInv, Reading
<1> HIDE DEF local, groups
<1>7. TypeOK'
  BY <1>1, <1>4 DEF TypeOK
<1>8. RecordInv'
  BY <1>1, <1>4 DEF RecordInv, RecordInvOf, TypeOK, Reading
<1>9. ReadInv'
  <2> SUFFICES ASSUME NEW q \in Request PROVE ReadInvOf(q)'
    BY DEF ReadInv
  <2>1. CASE q = r
    BY <2>1, <1>1, <1>2, <1>4, <1>5, <1>6 DEF groups, ReadInvOf, TypeOK, Reading, FoundIn, Sought
  <2>2. CASE q # r
    BY <2>2, <1>1 DEF ReadInv, ReadInvOf, TypeOK, FoundIn, Sought
  <2> QED
    BY <2>1, <2>2
<1>10. PolicyInv'
  BY DEF PolicyInv
<1>11. NewInv'
  BY <1>1, <1>4 DEF NewInv, TypeOK, Reading
<1> QED
  BY <1>7, <1>8, <1>9, <1>10, <1>11, RequestLeavesPolicy

LEMMA ReadGrantsInv ==
    ASSUME IInv, NEW r \in Request, ReadGrants(r)
    PROVE  IInv'
<1> USE AccessAssumption DEF IInv, ReadGrants, RequestFrame
<1> DEFINE granted == GrantedTo(policy, request[r].groups)
           local == [request[r] EXCEPT !.granted = granted,
                        !.pc = IF Sought(r, granted) = {} THEN "decide" ELSE "capabilities"]
<1>1. request' = [request EXCEPT ![r] = local] /\ request[r] \in Requests
  BY DEF Go, TypeOK
<1>2. policy \in inForce[r] \ {None} /\ policy \in Policy
  BY DEF ReadInv, ReadInvOf, Reading, TypeOK
<1>3. PICK a \in inForce[r] \ {None} : request[r].groups = GroupsOf(a, Claims[r])
  BY DEF ReadInv, ReadInvOf
<1>4. granted \subseteq Descriptor
  BY <1>2 DEF GrantedTo, Policy
<1>5. local \in Requests /\ local.found = request[r].found
      /\ local.version = request[r].version /\ local.groups = request[r].groups
      /\ local.granted = granted
      /\ local.pc = IF Sought(r, granted) = {} THEN "decide" ELSE "capabilities"
  BY <1>1, <1>4 DEF Requests, Reading
<1>6. Sought(r, granted) = {} => FoundIn(r, a, policy, policy) = {}
  BY <1>3 DEF FoundIn, StillGranted, Sought, Ids
<1>7. request[r].found = {}
  BY DEF NewInv, Reading
<1> HIDE DEF local
<1>8. TypeOK'
  BY <1>1, <1>5 DEF TypeOK
<1>9. RecordInv'
  BY <1>1, <1>5 DEF RecordInv, RecordInvOf, TypeOK, Reading
<1>10. ReadInv'
  <2> SUFFICES ASSUME NEW q \in Request PROVE ReadInvOf(q)'
    BY DEF ReadInv
  <2>1. CASE q = r
    <3>1. granted = GrantedTo(policy, GroupsOf(a, Claims[r]))
      BY <1>3
    <3> HIDE DEF granted
    <3> QED
      BY <2>1, <1>1, <1>2, <1>3, <1>5, <1>6, <1>7, <3>1 DEF ReadInvOf, TypeOK, Reading, FoundIn, Sought
  <2>2. CASE q # r
    BY <2>2, <1>1 DEF ReadInv, ReadInvOf, TypeOK, FoundIn, Sought
  <2> QED
    BY <2>1, <2>2
<1>11. PolicyInv'
  BY DEF PolicyInv
<1>12. NewInv'
  BY <1>1, <1>5 DEF NewInv, TypeOK, Reading
<1> QED
  BY <1>8, <1>9, <1>10, <1>11, <1>12, RequestLeavesPolicy

LEMMA ReadCapabilitiesInv ==
    ASSUME IInv, NEW r \in Request, ReadCapabilities(r)
    PROVE  IInv'
<1> USE AccessAssumption DEF IInv, ReadCapabilities, RequestFrame
<1> DEFINE found == {d \in Sought(r, policy.capabilities) : StillGranted(d, request[r].granted)}
           local == [request[r] EXCEPT !.pc = "decide", !.found = found]
<1>1. request' = [request EXCEPT ![r] = local] /\ request[r] \in Requests
  BY DEF Go, TypeOK
<1>2. policy \in inForce[r] \ {None} /\ policy \in Policy
  BY DEF ReadInv, ReadInvOf, Reading, TypeOK
<1>3. PICK a, b \in inForce[r] \ {None} :
        request[r].granted = GrantedTo(b, GroupsOf(a, Claims[r]))
  BY DEF ReadInv, ReadInvOf
<1>4. found \subseteq Descriptor
  BY <1>2 DEF Sought, Policy
<1>5. local \in Requests /\ local.found = found
      /\ local.version = request[r].version /\ local.pc = "decide"
  BY <1>1, <1>4 DEF Requests
<1>6. found = FoundIn(r, a, b, policy)
  BY <1>3 DEF FoundIn
<1> HIDE DEF local, found
<1>7. TypeOK'
  BY <1>1, <1>5 DEF TypeOK
<1>8. RecordInv'
  BY <1>1, <1>5 DEF RecordInv, RecordInvOf, TypeOK, Reading
<1>9. ReadInv'
  <2> SUFFICES ASSUME NEW q \in Request PROVE ReadInvOf(q)'
    BY DEF ReadInv
  <2>1. CASE q = r
    BY <2>1, <1>1, <1>2, <1>3, <1>5, <1>6 DEF ReadInvOf, TypeOK, Reading, FoundIn, Sought
  <2>2. CASE q # r
    BY <2>2, <1>1 DEF ReadInv, ReadInvOf, TypeOK, FoundIn, Sought
  <2> QED
    BY <2>1, <2>2
<1>10. PolicyInv'
  BY DEF PolicyInv
<1>11. NewInv'
  BY <1>1, <1>5 DEF NewInv, TypeOK, Reading
<1> QED
  BY <1>7, <1>8, <1>9, <1>10, <1>11, RequestLeavesPolicy

\* A request ends by answering or raising; only one that answers keeps its locals.
LEMMA EndInv ==
    ASSUME IInv, NEW r \in Request, RequestFrame,
           \/ Raise(r)
           \/ request[r].pc = "decide" /\ Answer(r),
           decisions' \subseteq Decision,
           \A d \in decisions' \ decisions : d.request = r,
           decisions \subseteq decisions'
    PROVE  IInv'
<1> USE AccessAssumption DEF IInv, RequestFrame
<1>1. \E new \in Requests :
        /\ request' = [request EXCEPT ![r] = new]
        /\ new.pc = "raised" \/
              /\ request[r].pc = "decide" /\ new.pc = "answered" /\ inForce' = inForce
              /\ new.found = request[r].found /\ new.version = request[r].version
  <2>1. CASE Raise(r)
    <3> DEFINE new == [NewRequest EXCEPT !.pc = "raised"]
    <3>1. new \in Requests /\ new.pc = "raised"
      BY DEF NewRequest, Requests
    <3>2. request' = [request EXCEPT ![r] = new]
      BY <2>1 DEF Raise, Go
    <3> QED
      BY <3>1, <3>2
  <2>2. CASE request[r].pc = "decide" /\ Answer(r)
    <3> DEFINE new == [request[r] EXCEPT !.pc = "answered"]
    <3>1. /\ new \in Requests /\ new.pc = "answered"
          /\ new.found = request[r].found /\ new.version = request[r].version
      BY DEF TypeOK, Requests
    <3>2. request' = [request EXCEPT ![r] = new] /\ inForce' = inForce
      BY <2>2 DEF Answer, Go
    <3> HIDE DEF new
    <3> QED
      BY <2>2, <3>1, <3>2
  <2> QED
    BY <2>1, <2>2
<1>2. /\ inForce' \in [Request -> SUBSET (Policy \cup {None})]
      /\ \A q \in Request : q # r => inForce'[q] = inForce[q]
      /\ inForce'[r] \subseteq inForce[r]
  BY DEF Raise, Answer, TypeOK
<1>3. TypeOK'
  BY <1>1, <1>2 DEF TypeOK
<1>4. RecordInv'
  <2> SUFFICES ASSUME NEW q \in Request PROVE RecordInvOf(q)'
    BY DEF RecordInv
  <2>1. CASE q = r
    BY <2>1, <1>1 DEF RecordInv, RecordInvOf, TypeOK, Reading
  <2>2. CASE q # r
    BY <2>2, <1>1, <1>2 DEF RecordInv, RecordInvOf, TypeOK
  <2> QED
    BY <2>1, <2>2
<1>5. ReadInv'
  <2> SUFFICES ASSUME NEW q \in Request PROVE ReadInvOf(q)'
    BY DEF ReadInv
  <2>1. CASE q = r
    BY <2>1, <1>1 DEF ReadInv, ReadInvOf, TypeOK, Reading, FoundIn, Sought
  <2>2. CASE q # r
    BY <2>2, <1>1, <1>2 DEF ReadInv, ReadInvOf, TypeOK, FoundIn, Sought
  <2> QED
    BY <2>1, <2>2
<1>6. PolicyInv'
  BY <1>2 DEF PolicyInv
<1>7. NewInv'
  BY <1>1 DEF NewInv, TypeOK, Reading
<1> QED
  BY <1>3, <1>4, <1>5, <1>6, <1>7, RequestLeavesPolicy
LEMMA DecisionType ==
    ASSUME TypeOK, NEW r \in Request, Wanted[r] # None
    PROVE  DecisionOf(r) \in Decision
<1> USE AccessAssumption
<1>1. request[r].found \subseteq Descriptor /\ request[r].version \in Int
  BY DEF TypeOK, Requests
<1>2. request[r].found # {} =>
        (CHOOSE d \in request[r].found : TRUE).pipeline \in PipelineName
  BY <1>1 DEF Descriptor
<1>3. Allowed(r) \in BOOLEAN /\ Reason(r) \in Reasons
  BY DEF Allowed, Reason, Reasons
<1> HIDE DEF Allowed, Reason
<1> QED
  BY <1>1, <1>2, <1>3 DEF DecisionOf, Decision

LEMMA DecideInv ==
    ASSUME IInv, NEW r \in Request, Decide(r) \/ List(r) \/ ReadFails(r)
    PROVE  IInv'
<1>1. Wanted[r] # None => DecisionOf(r) \in Decision
  BY DecisionType DEF IInv
<1>2. DecisionOf(r).request = r
  BY DEF DecisionOf
<1>3. /\ decisions' \subseteq Decision
      /\ \A d \in decisions' \ decisions : d.request = r
      /\ decisions \subseteq decisions'
  BY <1>1, <1>2 DEF IInv, TypeOK, Decide, List, ReadFails
<1>4. RequestFrame /\ (Raise(r) \/ (request[r].pc = "decide" /\ Answer(r)))
  BY DEF Decide, List, ReadFails
<1> QED
  BY <1>3, <1>4, EndInv

-----------------------------------------------------------------------------
(* All steps *)

LEMMA StepInv == IInv /\ [Next]_accessVars => IInv'
<1> SUFFICES ASSUME IInv, [Next]_accessVars PROVE IInv'
  OBVIOUS
<1>1. ASSUME NEW p \in Publisher, Administer(p) PROVE IInv'
  BY <1>1, LockVersionInv, PublishInv, GiveUpInv DEF Administer
<1>2. ASSUME NEW r \in Request, Serve(r) PROVE IInv'
  BY <1>2, ReadVersionInv, ReadGroupsInv, ReadGrantsInv, ReadCapabilitiesInv, DecideInv DEF Serve
<1>3. CASE UNCHANGED accessVars
  <2> USE <1>3 DEF IInv, accessVars
  <2>1. TypeOK' /\ LockInv' /\ ChangesAreChained'
    BY DEF TypeOK, LockInv, ChangesAreChained
  <2>2. RecordInv' /\ ReadInv' /\ NewInv' /\ PolicyInv'
    BY DEF RecordInv, RecordInvOf, ReadInv, ReadInvOf, NewInv, PolicyInv, FoundIn, Sought
  <2> QED
    BY <2>1, <2>2
<1> QED
  BY <1>1, <1>2, <1>3 DEF Next, Quiet

-----------------------------------------------------------------------------
(* The results *)

\* The inductive invariant holds in every state.
THEOREM AccessInvariant == Spec => []IInv
<1>1. Init => IInv
  BY InitInv
<1>2. IInv /\ [Next]_accessVars => IInv'
  BY StepInv
<1> QED
  BY <1>1, <1>2, PTL DEF Spec

\* The tables and the locals of publications and requests keep their types.
THEOREM AccessTypeCorrect == Spec => []TypeOK
<1>1. IInv => TypeOK
  BY DEF IInv
<1> QED
  BY <1>1, AccessInvariant, PTL

\* The recorded changes are the history of the policy.
THEOREM ChangesAlwaysChained == Spec => []ChangesAreChained
<1>1. IInv => ChangesAreChained
  BY DEF IInv
<1> QED
  BY <1>1, AccessInvariant, PTL

\* A publication that expects a version replaces that version.
THEOREM PublicationsAreGuarded == Spec => ExpectedIsReplaced
<1> DEFINE A == \A p \in Publisher :
        Len(changes') > Len(changes) /\ publisher'[p].pc # publisher[p].pc
            /\ Expected[p] # None
        => policy # None /\ policy.version = Expected[p]
<1>1. IInv /\ [Next]_accessVars => [A]_accessVars
  <2> SUFFICES ASSUME IInv, Next, NEW p \in Publisher,
                      Len(changes') > Len(changes), publisher'[p].pc # publisher[p].pc,
                      Expected[p] # None
               PROVE  policy # None /\ policy.version = Expected[p]
    OBVIOUS
  <2>0. Len(changes) \in Nat
    BY DEF IInv, TypeOK
  <2>1. changes' # changes
    BY <2>0
  <2>2. PICK q \in Publisher : Publish(q)
    BY <2>1 DEF Next, Quiet, Administer, Serve, accessVars, LockVersion, Begin, PublishFails,
                SendAgain, RequestFrame, ReadVersion, ReadGroups, ReadGrants,
                ReadCapabilities, Decide, List, ReadFails
  <2>3. p = q
    BY <2>2 DEF Publish, Finish, Move, IInv, TypeOK
  <2> QED
    BY <2>2, <2>3, AccessAssumption DEF Publish, IInv, LockInv
<1> HIDE DEF A
<1>2. Spec => [][A]_accessVars
  BY <1>1, AccessInvariant, PTL DEF Spec
<1> QED
  BY <1>2 DEF ExpectedIsReplaced, A

\* One policy, read three times, yields what that policy entitles to.
LEMMA FoundInOne ==
    ASSUME NEW r \in Request, NEW b \in Policy, WellFormed(b)
    PROVE  FoundIn(r, b, b, b) = Sought(r, GrantedTo(b, GroupsOf(b, Claims[r])))
<1> DEFINE granted == GrantedTo(b, GroupsOf(b, Claims[r]))
<1>1. granted \subseteq b.capabilities
  BY DEF GrantedTo
<1>2. ASSUME NEW d \in b.capabilities, StillGranted(d, granted)
      PROVE  d \in granted
  BY <1>1, <1>2 DEF StillGranted, Ids, WellFormed
<1>3. ASSUME NEW d \in granted PROVE StillGranted(d, granted)
  BY DEF StillGranted, Ids, Pipelines
<1> HIDE DEF granted
<1>4. {d \in Sought(r, b.capabilities) : StillGranted(d, granted)} = Sought(r, granted)
  BY <1>1, <1>2, <1>3 DEF Sought
<1> QED
  BY <1>4 DEF FoundIn, granted

\* A request that no publication disturbed is answered as the policy in force says.
THEOREM UndisturbedAlwaysExact == Spec => []UndisturbedIsExact
<1>1. IInv => UndisturbedIsExact
  <2> SUFFICES ASSUME IInv, NEW r \in Request, Answered(r),
                      NEW b \in inForce[r], inForce[r] = {b}
               PROVE  Offered(r) = Entitled(r, b)
    BY DEF UndisturbedIsExact
  <2>1. \/ b = None /\ request[r].found = {}
        \/ b # None /\ request[r].found = FoundIn(r, b, b, b)
    BY DEF IInv, ReadInv, ReadInvOf, Answered
  <2>2. CASE b = None /\ request[r].found = {}
    BY <2>2 DEF Offered, Entitled
  <2>3. CASE b # None /\ request[r].found = FoundIn(r, b, b, b)
    <3> DEFINE granted == GrantedTo(b, GroupsOf(b, Claims[r]))
    <3>1. b \in Policy /\ WellFormed(b)
      BY <2>3 DEF IInv, TypeOK, PolicyInv
    <3>2. request[r].found = Sought(r, granted)
      BY <2>3, <3>1, FoundInOne
    <3>3. Entitled(r, b) =
            {d \in Sought(r, granted) : Wanted[r] # None /\ r \in Diagnostics => d.diagnostics}
      BY <2>3 DEF Entitled
    <3>4. Wanted[r] # None => \A d, e \in Sought(r, granted) : d = e
      BY <3>1 DEF Sought, GrantedTo, WellFormed
    <3> HIDE DEF granted
    <3> QED
      BY <3>2, <3>3, <3>4 DEF Offered, Allowed
  <2> QED
    BY <2>1, <2>2, <2>3
<1> QED
  BY <1>1, AccessInvariant, PTL

\* Whatever was published meanwhile without moving the subject to other groups, an offer
\* was granted by one of the policies and described by one of them.
THEOREM OffersAreGranted == Spec => []OfferedWasGranted
<1>1. IInv => OfferedWasGranted
  <2> SUFFICES ASSUME
        IInv, NEW r \in Request, Answered(r),
        \A a, b \in inForce[r] : a # None /\ b # None =>
            GroupsOf(a, Claims[r]) = GroupsOf(b, Claims[r]),
        NEW d \in request[r].found
      PROVE
        /\ \E b \in inForce[r] \ {None} :
              LET granted == GrantedTo(b, GroupsOf(b, Claims[r]))
              IN d.id \in Ids(granted) /\ d.pipeline \in Pipelines(granted)
        /\ \E b \in inForce[r] \ {None} : d \in b.capabilities
    BY DEF OfferedWasGranted, Offered
  <2>1. PICK a, b, c \in inForce[r] \ {None} : request[r].found = FoundIn(r, a, b, c)
    BY DEF IInv, ReadInv, ReadInvOf, Answered
  <2>2. GroupsOf(a, Claims[r]) = GroupsOf(b, Claims[r])
    OBVIOUS
  <2>3. d \in c.capabilities /\ StillGranted(d, GrantedTo(b, GroupsOf(b, Claims[r])))
    BY <2>1, <2>2 DEF FoundIn, Sought
  <2> QED
    BY <2>3 DEF StillGranted
<1> QED
  BY <1>1, AccessInvariant, PTL

-----------------------------------------------------------------------------
(* The record of the decisions *)

\* What a caller was told is what was recorded, and nothing else.
RecordedInv == \A r \in Request :
    Wanted[r] # None /\ Answered(r) => {d \in decisions : d.request = r} = {DecisionOf(r)}

LEMMA RecordedStep ==
    ASSUME IInv, RecordedInv, [Next]_accessVars
    PROVE  RecordedInv'
<1> SUFFICES ASSUME NEW r \in Request, Wanted[r] # None, Answered(r)'
             PROVE  {d \in decisions : d.request = r}' = {DecisionOf(r)}'
  BY DEF RecordedInv
<1>1. ASSUME request'[r] = request[r], {d \in decisions : d.request = r}' =
             {d \in decisions : d.request = r}
      PROVE  {d \in decisions : d.request = r}' = {DecisionOf(r)}'
  BY <1>1 DEF RecordedInv, Answered, DecisionOf, Reason, Allowed
<1>2. ASSUME NEW p \in Publisher, Administer(p)
      PROVE  request' = request /\ decisions' = decisions
  BY <1>2 DEF Administer, LockVersion, Begin, Publish, PublishFails, SendAgain
<1>3. ASSUME NEW q \in Request, q # r, Serve(q)
      PROVE  /\ request'[r] = request[r]
             /\ {d \in decisions : d.request = r}' = {d \in decisions : d.request = r}
  <2>1. request'[r] = request[r]
    BY <1>3 DEF Serve, ReadVersion, ReadGroups, ReadGrants, ReadCapabilities, Decide, List,
                ReadFails, Raise, Answer, Go, IInv, TypeOK
  <2>2. decisions' = decisions \/ decisions' = decisions \cup {DecisionOf(q)}
    BY <1>3 DEF Serve, ReadVersion, ReadGroups, ReadGrants, ReadCapabilities, Decide, List, ReadFails
  <2>3. DecisionOf(q).request # r
    BY <1>3 DEF DecisionOf
  <2> QED
    BY <2>1, <2>2, <2>3
<1>4. ASSUME Serve(r)
      PROVE  {d \in decisions : d.request = r}' = {DecisionOf(r)}'
  <2>1. request[r].pc = "decide" /\ Answer(r) /\ decisions' = decisions \cup {DecisionOf(r)}
    <3>1. ASSUME NEW new, Go(r, new) PROVE new.pc = "answered"
      BY <3>1 DEF Go, Answered, IInv, TypeOK
    <3>2. request[r] \in Requests
      BY DEF IInv, TypeOK
    <3>3. ~Raise(r)
      <4> DEFINE new == [NewRequest EXCEPT !.pc = "raised"]
      <4>1. new \in Requests /\ new.pc = "raised"
        BY DEF NewRequest, Requests
      <4> QED
        BY <4>1, <3>1 DEF Raise
    <3>4. ~(ReadVersion(r) \/ ReadGroups(r) \/ ReadGrants(r) \/ ReadCapabilities(r))
      <4>1. ~ReadVersion(r)
        <5> DEFINE local ==
              IF policy = None THEN [request[r] EXCEPT !.pc = "decide"]
              ELSE [request[r] EXCEPT !.pc = "groups", !.version = policy.version]
        <5>1. local.pc # "answered"
          BY <3>2 DEF Requests
        <5>2. ReadVersion(r) => Go(r, local)
          BY DEF ReadVersion
        <5> HIDE DEF local
        <5> QED
          BY <3>1, <5>1, <5>2
      <4>2. ~ReadGroups(r)
        <5> DEFINE local ==
              [request[r] EXCEPT
                 !.groups = GroupsOf(policy, Claims[r]),
                 !.pc = IF GroupsOf(policy, Claims[r]) = {} THEN "decide" ELSE "grants"]
        <5>1. local.pc # "answered"
          BY <3>2 DEF Requests
        <5>2. ReadGroups(r) => Go(r, local)
          BY DEF ReadGroups
        <5> HIDE DEF local
        <5> QED
          BY <3>1, <5>1, <5>2
      <4>3. ~ReadGrants(r)
        <5> DEFINE local ==
              LET granted == GrantedTo(policy, request[r].groups)
              IN [request[r] EXCEPT
                    !.granted = granted,
                    !.pc = IF Sought(r, granted) = {} THEN "decide" ELSE "capabilities"]
        <5>1. local.pc # "answered"
          BY <3>2 DEF Requests
        <5>2. ReadGrants(r) => Go(r, local)
          BY DEF ReadGrants
        <5> HIDE DEF local
        <5> QED
          BY <3>1, <5>1, <5>2
      <4>4. ~ReadCapabilities(r)
        <5> DEFINE local ==
              [request[r] EXCEPT
                 !.pc = "decide",
                 !.found = {d \in Sought(r, policy.capabilities) :
                               StillGranted(d, request[r].granted)}]
        <5>1. local.pc # "answered"
          BY <3>2 DEF Requests
        <5>2. ReadCapabilities(r) => Go(r, local)
          BY DEF ReadCapabilities
        <5> HIDE DEF local
        <5> QED
          BY <3>1, <5>1, <5>2
      <4> QED
        BY <4>1, <4>2, <4>3, <4>4
    <3> QED
      BY <1>4, <3>3, <3>4 DEF Serve, Decide, List, ReadFails
  <2>2. request'[r] = [request[r] EXCEPT !.pc = "answered"] /\ request[r] \in Requests
    BY <2>1 DEF Answer, Go, IInv, TypeOK
  <2>3. request'[r].found = request[r].found /\ request'[r].version = request[r].version
    BY <2>2 DEF Requests
  <2>4. DecisionOf(r)' = DecisionOf(r)
    BY <2>3 DEF DecisionOf, Reason, Allowed
  <2>5. {d \in decisions : d.request = r} = {}
    BY <2>1 DEF IInv, RecordInv, RecordInvOf
  <2>6. DecisionOf(r).request = r
    BY DEF DecisionOf
  <2> QED
    BY <2>1, <2>4, <2>5, <2>6
<1>5. CASE UNCHANGED accessVars
  BY <1>1, <1>5 DEF accessVars
<1> QED
  BY <1>1, <1>2, <1>3, <1>4, <1>5 DEF Next, Quiet

\* A caller that was told either way finds one record, which says the same.
THEOREM AnswersAreRecorded == Spec => []AnsweredIsRecorded
<1>1. Init => RecordedInv
  BY DEF Init, RecordedInv, Answered, NewRequest
<1>2. IInv /\ RecordedInv /\ [Next]_accessVars => RecordedInv'
  BY RecordedStep
<1>3. IInv /\ RecordedInv => AnsweredIsRecorded
  <2> SUFFICES ASSUME IInv, RecordedInv, NEW r \in Request, Wanted[r] # None, Answered(r)
               PROVE  /\ DecisionOf(r).allowed <=> Offered(r) # {}
                      /\ \E b \in inForce[r] :
                            DecisionOf(r).version = IF b = None THEN 1 ELSE b.version
    BY DEF AnsweredIsRecorded, RecordedInv
  <2>1. DecisionOf(r).allowed = Allowed(r) /\ DecisionOf(r).version = request[r].version
    BY DEF DecisionOf
  <2>2. Allowed(r) <=> Offered(r) # {}
    BY DEF Allowed, Offered
  <2> QED
    BY <2>1, <2>2 DEF IInv, RecordInv, RecordInvOf, Answered
<1> QED
  BY <1>1, <1>2, <1>3, AccessInvariant, PTL DEF Spec
=============================================================================

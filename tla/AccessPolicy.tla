---------------------------- MODULE AccessPolicy ----------------------------
(***************************************************************************)
(* The access policy of one tenant: publications by several administrators *)
(* (PostgreSQLAccessPolicyRepository.publish) beside requests that resolve *)
(* a subject's groups and capabilities statement by statement and record   *)
(* the decision (PipelineAuthorizationService).  Every statement of a      *)
(* request sees what is committed at that moment.                          *)
(***************************************************************************)
EXTENDS Integers, Sequences

CONSTANTS
    Publisher,     \* publications; one may be sent again after it failed
    Bundle,        \* publisher -> the policy it publishes
    Expected,      \* publisher -> expected_version, or None
    Request,
    Claims,        \* request -> the claims of its token
    Wanted,        \* request -> capability_id of a query, or None for the catalog
    Diagnostics,   \* the requests that ask for diagnostics
    Claim, Group, CapabilityId, PipelineName,
    MaxChanges,    \* bound: a publication begins while fewer are committed
    None

Descriptor == [id : CapabilityId, pipeline : PipelineName, diagnostics : BOOLEAN]
Policy ==
    [version : Nat \ {0}, groups : SUBSET Group, mappings : SUBSET (Claim \X Group),
     capabilities : SUBSET Descriptor, grants : SUBSET (Group \X CapabilityId)]

\* AccessPolicyBundle refuses anything else.
WellFormed(b) ==
    /\ \A c, d \in b.capabilities : c.id = d.id => c = d
    /\ \A m \in b.mappings : m[2] \in b.groups
    /\ \A g \in b.grants : g[1] \in b.groups /\ \E c \in b.capabilities : c.id = g[2]

ASSUME AccessAssumption ==
    /\ Bundle \in [Publisher -> Policy] /\ \A p \in Publisher : WellFormed(Bundle[p])
    /\ Expected \in [Publisher -> Int \cup {None}]
    /\ Claims \in [Request -> SUBSET Claim]
    /\ Wanted \in [Request -> CapabilityId \cup {None}]
    /\ Diagnostics \subseteq Request
    /\ None \notin CapabilityId /\ None \notin PipelineName /\ None \notin Publisher
    /\ None \notin Int /\ None \notin Policy

VARIABLES
    policy,     \* what the policy tables hold, committed, or None
    changes,    \* sf.policy_changes
    lock,       \* the publisher that holds the row of sf.policy_versions, or None
    publisher,  \* how far each publication has come, and current_version as it read it
    request,    \* the locals of each request
    decisions,  \* sf.security_decisions
    inForce     \* history: the policies in force while a request was reading

accessVars == <<policy, changes, lock, publisher, request, decisions, inForce>>

Change == [previous : Int \cup {None}, published : Int]
Reasons == {"pipeline_access_allowed", "capability_diagnostics_denied", "pipeline_access_denied"}
Decision ==
    [request : Request, capability : CapabilityId, pipeline : PipelineName \cup {None},
     allowed : BOOLEAN, reason : Reasons, version : Int]

Publications == [pc : {"idle", "writing", "published", "conflict", "failed"},
                 read : Int \cup {None}]
Reading == {"groups", "grants", "capabilities"}
Requests ==
    [pc : {"new", "decide", "answered", "raised"} \cup Reading, version : Int,
     groups : SUBSET Group, granted : SUBSET Descriptor, found : SUBSET Descriptor]

TypeOK ==
    /\ policy \in Policy \cup {None}
    /\ changes \in Seq(Change)
    /\ lock \in Publisher \cup {None}
    /\ publisher \in [Publisher -> Publications]
    /\ request \in [Request -> Requests]
    /\ decisions \subseteq Decision
    /\ inForce \in [Request -> SUBSET (Policy \cup {None})]

NewRequest == [pc |-> "new", version |-> 1, groups |-> {}, granted |-> {}, found |-> {}]

Init ==
    /\ policy = None /\ changes = <<>> /\ lock = None
    /\ publisher = [p \in Publisher |-> [pc |-> "idle", read |-> None]]
    /\ request = [r \in Request |-> NewRequest]
    /\ decisions = {}
    /\ inForce = [r \in Request |-> {}]

-----------------------------------------------------------------------------
(* publish *)

CurrentVersion == IF policy = None THEN None ELSE policy.version

Move(p, pc, read) == publisher' = [publisher EXCEPT ![p] = [pc |-> pc, read |-> read]]
Finish(p, pc) == Move(p, pc, None)

\* Mutant: a version is expected only of a tenant that has one.
CompareKnown(p) ==
    IF policy # None /\ Expected[p] # None /\ CurrentVersion # Expected[p]
    THEN Finish(p, "conflict") /\ UNCHANGED lock
    ELSE /\ Move(p, "writing", CurrentVersion)
         /\ lock' = IF policy = None THEN lock ELSE p

\* The version is read and compared; a conflict rolls the transaction back.
Compare(p) ==
    IF Expected[p] # None /\ CurrentVersion # Expected[p]
    THEN Finish(p, "conflict") /\ UNCHANGED lock
    ELSE /\ Move(p, "writing", CurrentVersion)
         /\ lock' = IF policy = None THEN lock ELSE p

Begin(p) ==
    /\ publisher[p].pc = "idle" /\ Len(changes) < MaxChanges
    /\ UNCHANGED <<policy, changes, request, decisions, inForce>>

\* Mutant: SELECT without FOR UPDATE.
ReadVersionUnlocked(p) ==
    /\ Begin(p)
    /\ IF Expected[p] # None /\ CurrentVersion # Expected[p]
       THEN Finish(p, "conflict")
       ELSE Move(p, "writing", CurrentVersion)
    /\ UNCHANGED lock

\* SELECT ... FOR UPDATE waits for the row, and locks nothing while there is none.
LockVersion(p) ==
    /\ policy # None => lock = None
    /\ Begin(p)
    /\ Compare(p)

\* The row is written once it is free, everything else behind it, and all of it becomes
\* visible at the commit.  The answer to the commit may be lost.
Publish(p) ==
    /\ publisher[p].pc = "writing" /\ lock \in {None, p}
    /\ policy' = Bundle[p]
    /\ changes' = Append(changes, [previous |-> publisher[p].read,
                                   published |-> Bundle[p].version])
    /\ lock' = None
    /\ \E pc \in {"published", "failed"} : Finish(p, pc)
    /\ inForce' = [r \in Request |->
          IF request[r].pc \in Reading THEN inForce[r] \cup {Bundle[p]} ELSE inForce[r]]
    /\ UNCHANGED <<request, decisions>>

\* A statement fails, or the process dies: nothing is published, the row is free.
PublishFails(p) ==
    /\ publisher[p].pc = "writing"
    /\ Finish(p, "failed")
    /\ lock' = IF lock = p THEN None ELSE lock
    /\ UNCHANGED <<policy, changes, request, decisions, inForce>>

\* The administrator sends the same publication again.
SendAgain(p) ==
    /\ publisher[p].pc \in {"conflict", "failed"} /\ Len(changes) < MaxChanges
    /\ Finish(p, "idle")
    /\ UNCHANGED <<policy, changes, lock, request, decisions, inForce>>

-----------------------------------------------------------------------------
(* resolve and capabilities *)

GroupsOf(b, claims) == {g \in b.groups : \E c \in claims : <<c, g>> \in b.mappings}
GrantedTo(b, groups) == {d \in b.capabilities : \E g \in groups : <<g, d.id>> \in b.grants}

Ids(descriptors) == {d.id : d \in descriptors}
Pipelines(descriptors) == {d.pipeline : d \in descriptors}

Go(r, local) == request' = [request EXCEPT ![r] = local]

RequestFrame == UNCHANGED <<policy, changes, lock, publisher>>

\* An exception leaves no locals behind.
Raise(r) ==
    /\ Go(r, [NewRequest EXCEPT !.pc = "raised"])
    /\ inForce' = [inForce EXCEPT ![r] = {}]
Answer(r) == Go(r, [request[r] EXCEPT !.pc = "answered"]) /\ UNCHANGED inForce

\* Without a policy nothing is resolved, as version 1.
ReadVersion(r) ==
    /\ request[r].pc = "new"
    /\ Go(r, IF policy = None
             THEN [request[r] EXCEPT !.pc = "decide"]
             ELSE [request[r] EXCEPT !.pc = "groups", !.version = policy.version])
    /\ inForce' = [inForce EXCEPT ![r] = {policy}]
    /\ RequestFrame /\ UNCHANGED decisions

ReadGroups(r) ==
    LET groups == GroupsOf(policy, Claims[r]) IN
    /\ request[r].pc = "groups"
    /\ Go(r, [request[r] EXCEPT !.groups = groups,
                                !.pc = IF groups = {} THEN "decide" ELSE "grants"])
    /\ RequestFrame /\ UNCHANGED <<decisions, inForce>>

\* What the next statement is asked for: one capability, or all of them.
Sought(r, granted) ==
    {d \in granted : Wanted[r] = None \/ d.id = Wanted[r]}

ReadGrants(r) ==
    LET granted == GrantedTo(policy, request[r].groups) IN
    /\ request[r].pc = "grants"
    /\ Go(r, [request[r] EXCEPT !.granted = granted,
                 !.pc = IF Sought(r, granted) = {} THEN "decide" ELSE "capabilities"])
    /\ RequestFrame /\ UNCHANGED <<decisions, inForce>>

\* Mutant: the pipeline is not compared.
StillGrantedById(d, granted) == d.id \in Ids(granted)

\* The rows of the last statement that agree with what was resolved before.
StillGranted(d, granted) ==
    d.id \in Ids(granted) /\ d.pipeline \in Pipelines(granted)

ReadCapabilities(r) ==
    /\ request[r].pc = "capabilities"
    /\ Go(r, [request[r] EXCEPT !.pc = "decide",
                 !.found = {d \in Sought(r, policy.capabilities) :
                                StillGranted(d, request[r].granted)}])
    /\ RequestFrame /\ UNCHANGED <<decisions, inForce>>

-----------------------------------------------------------------------------
(* authorize and catalog *)

\* Mutant: diagnostics are never denied.
AllowedAnyway(r) == request[r].found # {}

Allowed(r) ==
    /\ request[r].found # {}
    /\ r \in Diagnostics => \A d \in request[r].found : d.diagnostics

Reason(r) ==
    IF Allowed(r) THEN "pipeline_access_allowed"
    ELSE IF request[r].found # {} THEN "capability_diagnostics_denied"
    ELSE "pipeline_access_denied"

DecisionOf(r) ==
    [request |-> r, capability |-> Wanted[r],
     pipeline |-> IF request[r].found = {} THEN None
                  ELSE (CHOOSE d \in request[r].found : TRUE).pipeline,
     allowed |-> Allowed(r), reason |-> Reason(r), version |-> request[r].version]

\* Mutant: a record that failed is ignored.
DecideAnyway(r) ==
    /\ request[r].pc = "decide" /\ Wanted[r] # None
    /\ decisions' \in {decisions, decisions \cup {DecisionOf(r)}}
    /\ Answer(r)
    /\ RequestFrame

\* The decision is recorded before the caller learns it, whichever it is.  The record may
\* fail, or take effect and lose its answer.
Decide(r) ==
    /\ request[r].pc = "decide" /\ Wanted[r] # None
    /\ \/ decisions' = decisions \cup {DecisionOf(r)} /\ (Answer(r) \/ Raise(r))
       \/ UNCHANGED decisions /\ Raise(r)
    /\ RequestFrame

\* The catalog is not recorded.
List(r) ==
    /\ request[r].pc = "decide" /\ Wanted[r] = None
    /\ Answer(r)
    /\ RequestFrame /\ UNCHANGED decisions

\* A statement fails.
ReadFails(r) ==
    /\ request[r].pc \in {"new"} \cup Reading
    /\ Raise(r)
    /\ RequestFrame /\ UNCHANGED decisions

-----------------------------------------------------------------------------

Administer(p) == LockVersion(p) \/ Publish(p) \/ PublishFails(p) \/ SendAgain(p)
Serve(r) ==
    \/ ReadVersion(r) \/ ReadGroups(r) \/ ReadGrants(r) \/ ReadCapabilities(r)
    \/ Decide(r) \/ List(r) \/ ReadFails(r)

Quiet ==
    /\ \A p \in Publisher : publisher[p].pc \in {"published", "idle", "conflict", "failed"}
    /\ \A r \in Request : request[r].pc \in {"answered", "raised"}
    /\ UNCHANGED accessVars

Next ==
    \/ \E p \in Publisher : Administer(p)
    \/ \E r \in Request : Serve(r)
    \/ Quiet

Spec == Init /\ [][Next]_accessVars

-----------------------------------------------------------------------------
(* Properties *)

\* "optimistic concurrency control": a publication that names the version it expects
\* replaces exactly that version, whatever is published, fails or dies between its
\* comparison and its commit.
ExpectedIsReplaced == [][
    \A p \in Publisher :
        Len(changes') > Len(changes) /\ publisher'[p].pc # publisher[p].pc
            /\ Expected[p] # None
        => policy # None /\ policy.version = Expected[p]]_accessVars

\* sf.policy_changes is the history of the policy: it ends with the policy in force, and
\* every change names the version it replaced, except publications that began while the
\* tenant had none.
ChangesAreChained ==
    /\ policy = None <=> changes = <<>>
    /\ policy # None => changes[Len(changes)].published = policy.version
    /\ \A i \in 1..Len(changes) :
          changes[i].previous \in
              {None} \cup (IF i = 1 THEN {} ELSE {changes[i - 1].published})

Answered(r) == request[r].pc = "answered"
Offered(r) == IF Wanted[r] # None /\ ~Allowed(r) THEN {} ELSE request[r].found

\* What a single policy gives a request: the reference definition of a decision.
Entitled(r, b) ==
    IF b = None THEN {}
    ELSE {d \in Sought(r, GrantedTo(b, GroupsOf(b, Claims[r]))) :
             Wanted[r] # None /\ r \in Diagnostics => d.diagnostics}

\* A request during which nothing was published is answered exactly as the policy in
\* force says, no more and no less.
UndisturbedIsExact ==
    \A r \in Request : Answered(r) =>
        \A b \in inForce[r] : inForce[r] = {b} => Offered(r) = Entitled(r, b)

\* A request during which policies were published, all of which put its subject into the
\* same groups, is offered only capabilities that one of them grants, described as one of
\* them does, with a pipeline that one of them grants.
OfferedWasGranted ==
    \A r \in Request :
        LET SameGroups == \A a, b \in inForce[r] :
                a # None /\ b # None => GroupsOf(a, Claims[r]) = GroupsOf(b, Claims[r])
            Grants(b) == IF b = None THEN {} ELSE GrantedTo(b, GroupsOf(b, Claims[r]))
        IN
        Answered(r) /\ SameGroups => \A d \in Offered(r) :
            /\ \E b \in inForce[r] : d.id \in Ids(Grants(b)) /\ d.pipeline \in Pipelines(Grants(b))
            /\ \E b \in inForce[r] \ {None} : d \in b.capabilities

\* "Every allow or deny decision is stored": a caller that was told either way finds one
\* record, which says the same, under the version that was in force when its request began.
AnsweredIsRecorded ==
    \A r \in Request : Wanted[r] # None =>
        LET recorded == {d \in decisions : d.request = r} IN
        Answered(r) =>
            /\ recorded = {DecisionOf(r)}
            /\ \A d \in recorded :
                  /\ d.allowed <=> Offered(r) # {}
                  /\ \E b \in inForce[r] : d.version = IF b = None THEN 1 ELSE b.version
=============================================================================

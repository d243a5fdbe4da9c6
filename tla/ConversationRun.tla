--------------------------- MODULE ConversationRun ---------------------------
(***************************************************************************)
(* PipelineEngine.execute over a conversation pipeline: the execution      *)
(* audit, the conversation and its turns, all in PostgreSQL, written by    *)
(* concurrent request threads while the owner may delete the conversation. *)
(*                                                                         *)
(* An Execution is one POST of a query.  The client chooses the request id *)
(* (X-Request-ID), so a repeated request is another execution with the     *)
(* same id.  The steps between start_turn and save_turn (history,          *)
(* retrieval, budget, policy, model) keep nothing and are one action.      *)
(***************************************************************************)
EXTENDS Naturals, Sequences

CONSTANTS
    Execution, RequestId, Conversation,
    requestOf,     \* execution -> its request id
    target,        \* execution -> the conversation it names, or will create
    Creating,      \* executions whose command names no conversation
    Ending,        \* execution -> the turn action its pipeline ends with
    Faults,        \* whether PostgreSQL may fail and the process may die
    None

ASSUME ExecutionAssumption ==
    /\ requestOf \in [Execution -> RequestId]
    /\ target \in [Execution -> Conversation]
    /\ Ending \in [Execution -> {"finalize_conversation_turn", "fail_conversation_turn"}]
    \* a conversation id is generated for one execution only
    /\ \A d, e \in Execution : d \in Creating /\ target[d] = target[e] => d = e
ASSUME FaultsAssumption == Faults \in BOOLEAN

Turn == [seq : Nat \ {0}, status : {"started", "finalized", "failed"},
         answer : Execution \cup {None}]
ASSUME NoneAssumption == None \notin Execution \cup Turn

VARIABLES
    conversations,  \* sf.conversations: status, or "absent"
    turns,          \* sf.conversation_turns: <<conversation, request id>> -> row, or None
    runs,           \* sf.pipeline_runs: execution -> status, or None
    recorded,       \* sf.pipeline_steps: execution -> number of rows
    pc,             \* execution -> where it stands
    next,           \* execution -> the sequence number it is about to insert, or 0
    context         \* execution -> conversation_turn_id and conversation_turn_finalized

tables == <<conversations, turns, runs, recorded>>
vars == <<tables, pc, next, context>>

\* Steps in the order the pipeline takes them.
Steps == <<"resolve", "start", "answer", "save">>
StepNumber(step) == CHOOSE i \in 1..4 : Steps[i] = step
Ended == {"answered", "raised", "dead"}
Place == {"new", "record", "succeed", "fail_turn", "audit_fail"} \cup Ended \cup
         {"resolve", "start", "sequence", "insert", "answer", "save"}

TypeOK ==
    /\ conversations \in [Conversation -> {"absent", "active", "deleted"}]
    /\ turns \in [Conversation \X RequestId -> Turn \cup {None}]
    /\ runs \in [Execution -> {None, "running", "succeeded", "failed"}]
    /\ recorded \in [Execution -> 0..4]
    /\ pc \in [Execution -> Place]
    /\ next \in [Execution -> Nat]
    /\ context \in [Execution -> [started : BOOLEAN, finalized : BOOLEAN]]

Init ==
    /\ conversations = [c \in Conversation |->
          IF \E e \in Creating : target[e] = c THEN "absent" ELSE "active"]
    /\ turns = [t \in Conversation \X RequestId |-> None]
    /\ runs = [e \in Execution |-> None]
    /\ recorded = [e \in Execution |-> 0]
    /\ pc = [e \in Execution |-> "new"]
    /\ next = [e \in Execution |-> 0]
    /\ context = [e \in Execution |-> [started |-> FALSE, finalized |-> FALSE]]

TurnOf(e) == <<target[e], requestOf[e]>>
Active(e) == conversations[target[e]] = "active"

Goto(e, place) == pc' = [pc EXCEPT ![e] = place]

\* Mutant: the engine forgets the turn.
HandlerAuditOnly(e) == "audit_fail"

\* The except block of the engine.
Handler(e) == IF context[e].started /\ ~context[e].finalized THEN "fail_turn" ELSE "audit_fail"
Raise(e) == Goto(e, Handler(e))

-----------------------------------------------------------------------------
(* The audit row.  An exception of start is outside the try block. *)

AuditStart(e) ==
    /\ pc[e] = "new"
    /\ \/ runs' = [runs EXCEPT ![e] = "running"] /\ Goto(e, "resolve")
       \/ Faults /\ runs' \in {runs, [runs EXCEPT ![e] = "running"]} /\ Goto(e, "raised")
    /\ UNCHANGED <<conversations, turns, recorded, next, context>>

\* record_step after each action, before the engine moves on.
RecordStep(e) ==
    /\ pc[e] = "record"
    /\ \/ /\ recorded' = [recorded EXCEPT ![e] = @ + 1]
          /\ Goto(e, IF recorded[e] = 3 THEN "succeed" ELSE Steps[recorded[e] + 2])
       \/ Faults /\ recorded' \in {recorded, [recorded EXCEPT ![e] = @ + 1]} /\ Raise(e)
    /\ UNCHANGED <<conversations, turns, runs, next, context>>

\* Only a running row is completed, and nobody looks whether one was.
Complete(e, status) ==
    runs' = IF runs[e] = "running" THEN [runs EXCEPT ![e] = status] ELSE runs

\* Mutant: a failure of the audit does not fail the request.
AuditSucceedQuietly(e) ==
    /\ pc[e] = "succeed"
    /\ Complete(e, "succeeded") \/ (Faults /\ UNCHANGED runs)
    /\ Goto(e, "answered")
    /\ UNCHANGED <<conversations, turns, recorded, next, context>>

AuditSucceed(e) ==
    /\ pc[e] = "succeed"
    /\ \/ Complete(e, "succeeded") /\ Goto(e, "answered")
       \/ Faults /\ (Complete(e, "succeeded") \/ UNCHANGED runs) /\ Raise(e)
    /\ UNCHANGED <<conversations, turns, recorded, next, context>>

AuditFail(e) ==
    /\ pc[e] = "audit_fail"
    /\ Complete(e, "failed") \/ (Faults /\ UNCHANGED runs)
    /\ Goto(e, "raised")
    /\ UNCHANGED <<conversations, turns, recorded, next, context>>

-----------------------------------------------------------------------------
(* resolve_conversation and start_conversation_turn *)

Resolve(e) ==
    /\ pc[e] = "resolve"
    /\ \/ /\ e \in Creating
          /\ conversations' = [conversations EXCEPT ![target[e]] = "active"]
          /\ Goto(e, "record") \/ (Faults /\ Raise(e))
       \/ e \notin Creating /\ Active(e) /\ Goto(e, "record") /\ UNCHANGED conversations
       \/ (Faults \/ (e \notin Creating /\ ~Active(e))) /\ Raise(e) /\ UNCHANGED conversations
    /\ UNCHANGED <<turns, runs, recorded, next, context>>

\* _require_conversation, a transaction of its own.
RequireConversation(e) ==
    /\ pc[e] = "start"
    /\ \/ Active(e) /\ Goto(e, "sequence")
       \/ (Faults \/ ~Active(e)) /\ Raise(e)
    /\ UNCHANGED <<tables, next, context>>

TurnsIn(c) == {t \in {c} \X RequestId : turns[t] # None}
Numbers(c) == {turns[t].seq : t \in TurnsIn(c)}

\* Mutant: the number of the last turn, not the next one.
ReadLastSequence(e) ==
    /\ pc[e] = "sequence"
    /\ \E n \in Numbers(target[e]) \cup {0} :
          /\ \A m \in Numbers(target[e]) : m <= n
          /\ next' = [next EXCEPT ![e] = n]
    /\ Goto(e, "insert")
    /\ UNCHANGED <<tables, context>>

\* COALESCE(MAX(sequence_number), 0) + 1, without a lock.
ReadSequence(e) ==
    /\ pc[e] = "sequence"
    /\ \/ /\ \E n \in Numbers(target[e]) \cup {0} :
                /\ \A m \in Numbers(target[e]) : m <= n
                /\ next' = [next EXCEPT ![e] = n + 1]
          /\ Goto(e, "insert")
       \/ Faults /\ Raise(e) /\ UNCHANGED next
    /\ UNCHANGED <<tables, context>>

\* Mutant: no unique constraint on the number.
NeverTaken(e) == FALSE

SequenceTaken(e) == next[e] \in Numbers(target[e])

\* Mutant: the conflict clause starts the turn again.
InsertOrRestart(e) ==
    /\ pc[e] = "insert"
    /\ turns[TurnOf(e)] = None => ~SequenceTaken(e)
    /\ turns' = [turns EXCEPT ![TurnOf(e)] =
          [seq |-> IF @ = None THEN next[e] ELSE @.seq, status |-> "started", answer |-> None]]
    /\ context' = [context EXCEPT ![e].started = TRUE]
    /\ Goto(e, "record")
    /\ UNCHANGED <<conversations, runs, recorded, next>>

\* INSERT ... ON CONFLICT (conversation_id, request_id) DO UPDATE returns the row
\* that is there, in any status; another row with the number is a unique violation.
InsertTurn(e) ==
    /\ pc[e] = "insert"
    /\ \/ /\ turns[TurnOf(e)] # None
          /\ UNCHANGED turns
          /\ \/ context' = [context EXCEPT ![e].started = TRUE] /\ Goto(e, "record")
             \/ Faults /\ Raise(e) /\ UNCHANGED context
       \/ /\ turns[TurnOf(e)] = None /\ ~SequenceTaken(e)
          /\ turns' = [turns EXCEPT ![TurnOf(e)] =
                         [seq |-> next[e], status |-> "started", answer |-> None]]
          /\ \/ context' = [context EXCEPT ![e].started = TRUE] /\ Goto(e, "record")
             \/ Faults /\ Raise(e) /\ UNCHANGED context
       \/ /\ Faults \/ (turns[TurnOf(e)] = None /\ SequenceTaken(e))
          /\ Raise(e)
          /\ UNCHANGED <<turns, context>>
    /\ next' = [next EXCEPT ![e] = 0]
    /\ UNCHANGED <<conversations, runs, recorded>>

-----------------------------------------------------------------------------
(* The answer, and what becomes of the turn *)

\* Retrieval, policy or the model may fail, whatever PostgreSQL does.
Answer(e) ==
    /\ pc[e] = "answer"
    /\ Goto(e, "record") \/ Raise(e)
    /\ UNCHANGED <<tables, next, context>>

\* The WHERE clause of finalize_turn and fail_turn.
Writable(e) == turns[TurnOf(e)].status = "started" /\ Active(e)

WriteTurn(e, status, answer) ==
    turns' = [turns EXCEPT ![TurnOf(e)].status = status, ![TurnOf(e)].answer = answer]

\* finalize_conversation_turn, or fail_conversation_turn in a pipeline that says so.
\* A row that is not there any more raises DomainNotFoundError.
SaveTurn(e) ==
    LET saves == Ending[e] = "finalize_conversation_turn" IN
    /\ pc[e] = "save"
    /\ \/ /\ Writable(e)
          /\ WriteTurn(e, IF saves THEN "finalized" ELSE "failed", IF saves THEN e ELSE None)
          /\ \/ context' = [context EXCEPT ![e].finalized = TRUE] /\ Goto(e, "record")
             \/ Faults /\ Raise(e) /\ UNCHANGED context
       \/ (Faults \/ ~Writable(e)) /\ Raise(e) /\ UNCHANGED <<turns, context>>
    /\ UNCHANGED <<conversations, runs, recorded, next>>

\* _fail_conversation_turn in the except block: its own exception replaces the first
\* one, and the run is recorded as failed either way.
FailTurn(e) ==
    /\ pc[e] = "fail_turn"
    /\ \/ /\ Writable(e)
          /\ WriteTurn(e, "failed", None)
          /\ context' = [context EXCEPT ![e].finalized = TRUE] \/ (Faults /\ UNCHANGED context)
       \/ (Faults \/ ~Writable(e)) /\ UNCHANGED <<turns, context>>
    /\ Goto(e, "audit_fail")
    /\ UNCHANGED <<conversations, runs, recorded, next>>

-----------------------------------------------------------------------------
(* The owner and the process *)

DeleteConversation(c) ==
    /\ conversations[c] = "active"
    /\ conversations' = [conversations EXCEPT ![c] = "deleted"]
    /\ UNCHANGED <<turns, runs, recorded, pc, next, context>>

Die(e) ==
    /\ Faults /\ pc[e] \notin Ended \cup {"new"}
    /\ Goto(e, "dead")
    /\ UNCHANGED <<tables, next, context>>

\* Every request has ended.
Quiet == (\A e \in Execution : pc[e] \in Ended) /\ UNCHANGED vars

Run(e) ==
    \/ AuditStart(e)
    \/ RecordStep(e)
    \/ Resolve(e)
    \/ RequireConversation(e)
    \/ ReadSequence(e)
    \/ InsertTurn(e)
    \/ Answer(e)
    \/ SaveTurn(e)
    \/ FailTurn(e)
    \/ AuditSucceed(e)
    \/ AuditFail(e)

Next ==
    \/ \E e \in Execution : Run(e)
    \/ \E e \in Execution : Die(e)
    \/ \E c \in Conversation : DeleteConversation(c)
    \/ Quiet

Spec == Init /\ [][Next]_vars

\* A request thread keeps running unless it dies.
FairSpec == Spec /\ \A e \in Execution : WF_vars(Run(e))

-----------------------------------------------------------------------------
(* Properties *)

\* The turns of a conversation are numbered 1, 2, 3, ... without a gap or a repeat,
\* although the number is computed without a lock.
TurnsNumbered ==
    \A c \in Conversation :
        /\ \A t, u \in TurnsIn(c) : turns[t].seq = turns[u].seq => t = u
        /\ \A n \in Numbers(c) : n # 1 => n - 1 \in Numbers(c)

\* A client that got an answer can rely on it: the turn was written by this very
\* execution and by no repetition of the request, and the run is recorded as
\* succeeded with all of its steps.
AnsweredIsDurable ==
    \A e \in Execution : pc[e] = "answered" =>
        /\ runs[e] = "succeeded" /\ recorded[e] = 4
        /\ IF Ending[e] = "finalize_conversation_turn"
           THEN turns[TurnOf(e)].status = "finalized" /\ turns[TurnOf(e)].answer = e
           ELSE turns[TurnOf(e)].status = "failed"

\* A turn is decided once: neither a repeated request, nor a late failure, nor a
\* deletion changes an answer the history may already have been given, and turns
\* and their numbers are never withdrawn.
DecidedTurnsStay == [][
    \A t \in Conversation \X RequestId : turns[t] # None =>
        /\ turns'[t] # None /\ turns'[t].seq = turns[t].seq
        /\ turns[t].status # "started" => turns'[t] = turns[t]]_vars

Open(t) == turns[t] # None /\ turns[t].status = "started"

\* While PostgreSQL works, a started turn is decided sooner or later, whatever the
\* model does and although another execution of the same request may be at work on
\* the same turn, unless its owner deletes the conversation.
TurnsGetDecided == \A t \in Conversation \X RequestId :
    Open(t) ~> (~Open(t) \/ conversations[t[1]] = "deleted")

\* "The pipeline engine also marks started turns as failed when an exception occurs
\* after turn creation": a request that ended in an exception leaves no started turn.
NoTurnLeftStarted ==
    \A e \in Execution : pc[e] = "raised" /\ context[e].started =>
        turns[TurnOf(e)].status # "started"
=============================================================================

-------------------------- MODULE ConversationProofs --------------------------
(***************************************************************************)
(* Theorems about ConversationRun, for any number of executions, requests  *)
(* and conversations, however they overlap, whatever PostgreSQL does and   *)
(* whoever dies.                                                           *)
(***************************************************************************)
EXTENDS ConversationRun, TLAPS

-----------------------------------------------------------------------------
(* The inductive invariant *)

\* The places of an execution that has not failed; its run is running there.
Forward == {"resolve", "start", "sequence", "insert", "answer", "save", "record", "succeed"}

\* The steps that are recorded by the time an execution is at a place.
RecordedAt(e) ==
    /\ pc[e] \in {"new", "resolve"} => recorded[e] = 0
    /\ pc[e] \in {"start", "sequence", "insert"} => recorded[e] = 1
    /\ pc[e] = "answer" => recorded[e] = 2
    /\ pc[e] = "save" => recorded[e] = 3
    /\ pc[e] = "record" => recorded[e] \in 0..3
    /\ pc[e] \in {"succeed", "answered"} => recorded[e] = 4

AuditInv == \A e \in Execution :
    /\ pc[e] \in Forward => runs[e] = "running"
    /\ pc[e] = "answered" => runs[e] = "succeeded"
    /\ RecordedAt(e)

\* An execution that says it started a turn has one, and says so from the second step on.
StartedInv == \A e \in Execution :
    /\ context[e].started => turns[TurnOf(e)] # None
    /\ \/ pc[e] \in {"answer", "save", "succeed", "answered", "fail_turn"}
       \/ pc[e] = "record" /\ recorded[e] \in 1..3
       => context[e].started

\* The number about to be inserted follows one that is there, whoever inserts meanwhile.
NumberInv == \A e \in Execution : pc[e] = "insert" =>
    /\ next[e] # 0
    /\ next[e] # 1 => next[e] - 1 \in Numbers(target[e])

\* The fourth step has been taken.
Saved(e) == pc[e] \in {"succeed", "answered"} \/ (pc[e] = "record" /\ recorded[e] = 3)

\* What the fourth step wrote stays.
SavedInv == \A e \in Execution : Saved(e) =>
    IF Ending[e] = "finalize_conversation_turn"
    THEN turns[TurnOf(e)].status = "finalized" /\ turns[TurnOf(e)].answer = e
    ELSE turns[TurnOf(e)].status = "failed"

Inv == TypeOK /\ AuditInv /\ StartedInv /\ NumberInv /\ SavedInv /\ TurnsNumbered

-----------------------------------------------------------------------------
(* Each action preserves it *)

LEMMA InitInv == Init => Inv
<1> SUFFICES ASSUME Init PROVE Inv
  OBVIOUS
<1> USE DEF Init
<1>1. TypeOK
  BY DEF TypeOK, Place, Ended
<1>2. AuditInv /\ StartedInv /\ NumberInv /\ SavedInv
  BY DEF AuditInv, Forward, RecordedAt, StartedInv, NumberInv, SavedInv, Saved
<1>3. TurnsNumbered
  BY DEF TurnsNumbered, TurnsIn, Numbers
<1> QED
  BY <1>1, <1>2, <1>3 DEF Inv

\* Turns that keep their numbers leave the numbers in order.
LEMMA SameNumbers ==
    ASSUME TypeOK, TypeOK', TurnsNumbered,
           \A t \in Conversation \X RequestId :
              /\ turns[t] # None <=> turns'[t] # None
              /\ turns[t] # None => turns'[t].seq = turns[t].seq
    PROVE  /\ TurnsNumbered'
           /\ \A c \in Conversation : Numbers(c)' = Numbers(c)
<1>1. \A c \in Conversation : {c} \X RequestId \subseteq Conversation \X RequestId
  OBVIOUS
<1>2. \A c \in Conversation : TurnsIn(c)' = TurnsIn(c)
  BY <1>1 DEF TurnsIn
<1>3. \A c \in Conversation : \A t \in TurnsIn(c) : turns'[t].seq = turns[t].seq
  BY <1>1 DEF TurnsIn
<1>4. \A c \in Conversation : Numbers(c)' = Numbers(c)
  BY <1>2, <1>3 DEF Numbers
<1>5. TurnsNumbered'
  BY <1>2, <1>3, <1>4 DEF TurnsNumbered
<1> QED
  BY <1>4, <1>5

\* Steps that leave the turns alone leave them numbered.
LEMMA SameTurns ==
    ASSUME TurnsNumbered, UNCHANGED turns
    PROVE  /\ TurnsNumbered'
           /\ \A c \in Conversation : Numbers(c)' = Numbers(c)
BY DEF TurnsNumbered, Numbers, TurnsIn

LEMMA GotoType ==
    ASSUME TypeOK, NEW e \in Execution, NEW place \in Place, Goto(e, place)
    PROVE  pc' \in [Execution -> Place]
BY DEF TypeOK, Goto

LEMMA RaiseType ==
    ASSUME TypeOK, NEW e \in Execution, Raise(e)
    PROVE  pc' \in [Execution -> Place]
<1>1. Handler(e) \in Place
  BY DEF Handler, Place
<1> QED
  BY <1>1, GotoType DEF Raise

LEMMA AuditStartInv == ASSUME NEW e \in Execution, Inv, AuditStart(e) PROVE Inv'
<1> USE ExecutionAssumption DEF Inv, AuditStart, Goto, tables
<1>1. TypeOK'
  <2>1. runs' \in [Execution -> {None, "running", "succeeded", "failed"}]
    BY DEF TypeOK
  <2>2. pc' \in [Execution -> Place]
    BY DEF TypeOK, Place, Ended
  <2> QED
    BY <2>1, <2>2 DEF TypeOK
<1>2. AuditInv'
  BY DEF TypeOK, AuditInv, RecordedAt, Forward
<1>3. StartedInv'
  BY DEF TypeOK, AuditInv, RecordedAt, StartedInv, TurnOf
<1>4. NumberInv'
  <2>1. \A d \in Execution : pc'[d] = "insert" => pc[d] = "insert"
    BY DEF TypeOK, AuditInv, RecordedAt
  <2> QED
    BY <2>1, SameTurns DEF NumberInv
<1>5. SavedInv'
  <2>1. \A d \in Execution : Saved(d)' => Saved(d)
    BY DEF TypeOK, AuditInv, RecordedAt, Saved
  <2> QED
    BY <2>1 DEF SavedInv, TurnOf
<1>6. TurnsNumbered'
  BY SameTurns
<1> QED
  BY <1>1, <1>2, <1>3, <1>4, <1>5, <1>6

LEMMA RecordStepInv == ASSUME NEW e \in Execution, Inv, RecordStep(e) PROVE Inv'
<1> USE ExecutionAssumption, NoneAssumption DEF Inv, RecordStep, Steps, Raise, Handler, Goto, tables
<1>1. TypeOK'
  <2>1. recorded' \in [Execution -> 0..4]
    BY DEF TypeOK, AuditInv, RecordedAt
  <2>2. pc' \in [Execution -> Place]
    <3>1. recorded[e] \in 0..3 /\ pc \in [Execution -> Place]
      BY DEF TypeOK, AuditInv, RecordedAt
    <3>2. recorded[e] # 3 => Steps[recorded[e] + 2] \in Place
      BY <3>1 DEF Place
    <3>3. "succeed" \in Place
      BY DEF Place
    <3>4. CASE Raise(e)
      BY <3>4, RaiseType
    <3>5. CASE ~Raise(e)
      BY <3>1, <3>2, <3>3, <3>5
    <3> QED
      BY <3>4, <3>5
  <2> QED
    BY <2>1, <2>2 DEF TypeOK
<1>2. AuditInv'
  BY DEF TypeOK, AuditInv, RecordedAt, Forward
<1>3. StartedInv'
  BY DEF TypeOK, AuditInv, RecordedAt, StartedInv, TurnOf
<1>4. NumberInv'
  <2>1. \A d \in Execution : pc'[d] = "insert" => pc[d] = "insert"
    <3>1. recorded[e] \in 0..3 /\ pc \in [Execution -> Place]
      BY DEF TypeOK, AuditInv, RecordedAt
    <3>2. recorded[e] # 3 => Steps[recorded[e] + 2] \in {"start", "answer", "save"}
      BY <3>1
    <3>3. pc'[e] # "insert"
      BY <3>1, <3>2
    <3> QED
      BY <3>1, <3>3
  <2> QED
    BY <2>1, SameTurns DEF NumberInv
<1>5. SavedInv'
  <2>1. \A d \in Execution : Saved(d)' => Saved(d)
    BY DEF TypeOK, AuditInv, RecordedAt, Saved
  <2> QED
    BY <2>1 DEF SavedInv, TurnOf
<1>6. TurnsNumbered'
  BY SameTurns
<1> QED
  BY <1>1, <1>2, <1>3, <1>4, <1>5, <1>6

LEMMA ResolveInv == ASSUME NEW e \in Execution, Inv, Resolve(e) PROVE Inv'
<1> USE ExecutionAssumption, NoneAssumption DEF Inv, Resolve, Raise, Handler, Goto, tables
<1>1. TypeOK'
  BY DEF TypeOK, Place, Ended, AuditInv, RecordedAt
<1>2. AuditInv'
  BY DEF TypeOK, AuditInv, RecordedAt, Forward
<1>3. StartedInv'
  BY DEF TypeOK, AuditInv, RecordedAt, StartedInv, TurnOf
<1>4. NumberInv'
  BY SameTurns DEF TypeOK, NumberInv
<1>5. SavedInv'
  BY DEF TypeOK, AuditInv, RecordedAt, SavedInv, Saved, TurnOf
<1>6. TurnsNumbered'
  BY SameTurns
<1> QED
  BY <1>1, <1>2, <1>3, <1>4, <1>5, <1>6

LEMMA RequireConversationInv == ASSUME NEW e \in Execution, Inv, RequireConversation(e) PROVE Inv'
<1> USE ExecutionAssumption, NoneAssumption DEF Inv, RequireConversation, Raise, Handler, Goto, tables
<1>1. TypeOK'
  BY DEF TypeOK, Place, Ended, AuditInv, RecordedAt
<1>2. AuditInv'
  BY DEF TypeOK, AuditInv, RecordedAt, Forward
<1>3. StartedInv'
  BY DEF TypeOK, AuditInv, RecordedAt, StartedInv, TurnOf
<1>4. NumberInv'
  BY SameTurns DEF TypeOK, NumberInv
<1>5. SavedInv'
  BY DEF TypeOK, AuditInv, RecordedAt, SavedInv, Saved, TurnOf
<1>6. TurnsNumbered'
  BY SameTurns
<1> QED
  BY <1>1, <1>2, <1>3, <1>4, <1>5, <1>6

LEMMA AnswerInv == ASSUME NEW e \in Execution, Inv, Answer(e) PROVE Inv'
<1> USE ExecutionAssumption, NoneAssumption DEF Inv, Answer, Raise, Handler, Goto, tables
<1>1. TypeOK'
  BY DEF TypeOK, Place, Ended, AuditInv, RecordedAt
<1>2. AuditInv'
  BY DEF TypeOK, AuditInv, RecordedAt, Forward
<1>3. StartedInv'
  BY DEF TypeOK, AuditInv, RecordedAt, StartedInv, TurnOf
<1>4. NumberInv'
  BY SameTurns DEF TypeOK, NumberInv
<1>5. SavedInv'
  BY DEF TypeOK, AuditInv, RecordedAt, SavedInv, Saved, TurnOf
<1>6. TurnsNumbered'
  BY SameTurns
<1> QED
  BY <1>1, <1>2, <1>3, <1>4, <1>5, <1>6

LEMMA AuditSucceedInv == ASSUME NEW e \in Execution, Inv, AuditSucceed(e) PROVE Inv'
<1> USE ExecutionAssumption, NoneAssumption DEF Inv, AuditSucceed, Complete, Raise, Handler, Goto, tables
<1>1. TypeOK'
  <2>1. runs' \in [Execution -> {None, "running", "succeeded", "failed"}]
    <3>1. Complete(e, "succeeded") \/ UNCHANGED runs
      OBVIOUS
    <3> QED
      BY <3>1 DEF TypeOK
  <2>2. pc' \in [Execution -> Place]
    <3>1. Goto(e, "answered") \/ Raise(e)
      OBVIOUS
    <3> QED
      BY <3>1, RaiseType, GotoType DEF Place, Ended
  <2> QED
    BY <2>1, <2>2 DEF TypeOK
<1>2. AuditInv'
  BY DEF TypeOK, AuditInv, RecordedAt, Forward
<1>3. StartedInv'
  BY DEF TypeOK, AuditInv, RecordedAt, StartedInv, TurnOf
<1>4. NumberInv'
  <2>1. \A d \in Execution : pc'[d] = "insert" => pc[d] = "insert"
    BY DEF TypeOK, AuditInv, RecordedAt
  <2> QED
    BY <2>1, SameTurns DEF NumberInv
<1>5. SavedInv'
  <2>1. \A d \in Execution : Saved(d)' => Saved(d)
    BY DEF TypeOK, AuditInv, RecordedAt, Saved
  <2> QED
    BY <2>1 DEF SavedInv, TurnOf
<1>6. TurnsNumbered'
  BY SameTurns
<1> QED
  BY <1>1, <1>2, <1>3, <1>4, <1>5, <1>6

LEMMA AuditFailInv == ASSUME NEW e \in Execution, Inv, AuditFail(e) PROVE Inv'
<1> USE ExecutionAssumption, NoneAssumption DEF Inv, AuditFail, Complete, Goto, tables
<1>1. TypeOK'
  BY DEF TypeOK, Place, Ended, AuditInv, RecordedAt
<1>2. AuditInv'
  BY DEF TypeOK, AuditInv, RecordedAt, Forward
<1>3. StartedInv'
  BY DEF TypeOK, AuditInv, RecordedAt, StartedInv, TurnOf
<1>4. NumberInv'
  <2>1. \A d \in Execution : pc'[d] = "insert" => pc[d] = "insert"
    BY DEF TypeOK
  <2> QED
    BY <2>1, SameTurns DEF NumberInv
<1>5. SavedInv'
  BY DEF TypeOK, AuditInv, RecordedAt, SavedInv, Saved, TurnOf
<1>6. TurnsNumbered'
  BY SameTurns
<1> QED
  BY <1>1, <1>2, <1>3, <1>4, <1>5, <1>6

LEMMA ReadSequenceInv == ASSUME NEW e \in Execution, Inv, ReadSequence(e) PROVE Inv'
<1> USE ExecutionAssumption DEF Inv, ReadSequence, Goto, tables
<1>1. Numbers(target[e]) \subseteq Nat \ {0}
  BY NoneAssumption DEF TypeOK, Turn, Numbers, TurnsIn
<1>2. TypeOK'
  <2>1. next' \in [Execution -> Nat]
    BY <1>1 DEF TypeOK
  <2>2. pc' \in [Execution -> Place]
    BY RaiseType, GotoType DEF Place
  <2> QED
    BY <2>1, <2>2 DEF TypeOK
<1>3. AuditInv' /\ StartedInv' /\ SavedInv'
  <2>1. pc'[e] \in {"insert", "fail_turn", "audit_fail"} /\ \A d \in Execution \ {e} : pc'[d] = pc[d]
    BY DEF TypeOK, Raise, Handler
  <2>2. pc'[e] = "fail_turn" => context[e].started
    BY DEF TypeOK, Raise, Handler
  <2> QED
    BY <2>1, <2>2 DEF AuditInv, RecordedAt, Forward, StartedInv, TurnOf, SavedInv, Saved
<1>4. NumberInv'
  <2>1. CASE Raise(e) /\ UNCHANGED next
    <3>1. \A d \in Execution : pc'[d] = "insert" => pc[d] = "insert"
      BY <2>1 DEF TypeOK, Raise, Handler
    <3> QED
      BY <2>1, <3>1, SameTurns DEF NumberInv
  <2>2. CASE \E n \in Numbers(target[e]) \cup {0} : next' = [next EXCEPT ![e] = n + 1]
    <3>1. PICK n \in Numbers(target[e]) \cup {0} : next' = [next EXCEPT ![e] = n + 1]
      BY <2>2
    <3>2. n \in Nat /\ next'[e] = n + 1 /\ \A d \in Execution \ {e} : next'[d] = next[d]
      BY <1>1, <3>1 DEF TypeOK
    <3>3. \A d \in Execution \ {e} : pc'[d] = "insert" => pc[d] = "insert"
      BY DEF TypeOK, Raise
    <3> QED
      BY <3>1, <3>2, <3>3, SameTurns DEF NumberInv
  <2> QED
    BY <2>1, <2>2
<1>5. TurnsNumbered'
  BY SameTurns
<1> QED
  BY <1>2, <1>3, <1>4, <1>5

\* The row is new, or it was there.
LEMMA InsertTurnInv == ASSUME NEW e \in Execution, Inv, InsertTurn(e) PROVE Inv'
<1> USE ExecutionAssumption, NoneAssumption DEF Inv, Goto, tables
<1> DEFINE row == [seq |-> next[e], status |-> "started", answer |-> None]
<1>1. /\ pc[e] = "insert" /\ next' = [next EXCEPT ![e] = 0]
      /\ UNCHANGED <<conversations, runs, recorded>>
      /\ TurnOf(e) \in Conversation \X RequestId
  BY DEF InsertTurn, TurnOf
<1>2. \/ UNCHANGED turns
      \/ /\ turns[TurnOf(e)] = None /\ ~SequenceTaken(e)
         /\ turns' = [turns EXCEPT ![TurnOf(e)] = row]
  BY DEF InsertTurn
<1>3. row \in Turn
  BY <1>1 DEF Turn, TypeOK, NumberInv
<1>4. \/ /\ context' = [context EXCEPT ![e].started = TRUE] /\ Goto(e, "record")
         /\ turns'[TurnOf(e)] # None
      \/ Raise(e) /\ UNCHANGED context
  <2>1. row # None
    BY <1>3
  <2> QED
    BY <2>1, <1>1 DEF InsertTurn, TypeOK
<1>5. TypeOK'
  <2>1. turns' \in [Conversation \X RequestId -> Turn \cup {None}]
    BY <1>1, <1>2, <1>3 DEF TypeOK
  <2>2. pc' \in [Execution -> Place]
    BY <1>4, RaiseType, GotoType DEF Place
  <2>3. context' \in [Execution -> [started : BOOLEAN, finalized : BOOLEAN]]
    <3>1. context' \in {context, [context EXCEPT ![e].started = TRUE],
                          [context EXCEPT ![e].finalized = TRUE]}
      BY <1>4
    <3>2. context \in [Execution -> [started : BOOLEAN, finalized : BOOLEAN]]
      BY DEF TypeOK
    <3> QED
      BY <3>1, <3>2
  <2> QED
    BY <1>1, <2>1, <2>2, <2>3 DEF TypeOK
<1>6. \A t \in Conversation \X RequestId : turns[t] # None => turns'[t] = turns[t]
  BY <1>2 DEF TypeOK
<1>7. /\ pc'[e] \in {"record", "fail_turn", "audit_fail"}
      /\ pc'[e] \in {"record", "fail_turn"} => context'[e].started
      /\ \A d \in Execution \ {e} : pc'[d] = pc[d] /\ context'[d] = context[d]
  BY <1>4 DEF TypeOK, Raise, Handler
<1>8. AuditInv'
  BY <1>1, <1>7 DEF AuditInv, RecordedAt, Forward
<1>9. StartedInv'
  <2>1. context'[e].started => turns'[TurnOf(e)] # None
    BY <1>1, <1>4, <1>6 DEF StartedInv
  <2>2. \A d \in Execution \ {e} : context'[d].started => turns'[TurnOf(d)] # None
    BY <1>6, <1>7 DEF StartedInv, TurnOf
  <2> QED
    BY <1>1, <1>7, <2>1, <2>2 DEF StartedInv, TurnOf
<1>10. SavedInv'
  <2>1. ~Saved(e)'
    BY <1>1, <1>7 DEF Saved, AuditInv, RecordedAt
  <2>2. \A d \in Execution \ {e} : Saved(d)' => Saved(d) /\ turns[TurnOf(d)] # None
    BY <1>1, <1>7 DEF Saved, StartedInv, TypeOK
  <2> QED
    BY <1>6, <2>1, <2>2 DEF SavedInv, TurnOf
<1>11. Numbers(target[e])' = Numbers(target[e]) \cup {next[e]} \/ UNCHANGED turns
  <2> SUFFICES ASSUME turns[TurnOf(e)] = None, turns' = [turns EXCEPT ![TurnOf(e)] = row]
               PROVE  Numbers(target[e])' = Numbers(target[e]) \cup {next[e]}
    BY <1>2
  <2>1. TurnsIn(target[e])' = TurnsIn(target[e]) \cup {TurnOf(e)}
    BY <1>1, <1>3 DEF TurnsIn, TurnOf, TypeOK
  <2>2. turns'[TurnOf(e)].seq = next[e] /\ TurnOf(e) \notin TurnsIn(target[e])
    BY <1>1 DEF TurnsIn, TypeOK
  <2>3. \A t \in TurnsIn(target[e]) : turns'[t] = turns[t]
    BY <1>6 DEF TurnsIn
  <2> QED
    BY <2>1, <2>2, <2>3 DEF Numbers
<1>12. \A c \in Conversation \ {target[e]} :
          /\ TurnsIn(c)' = TurnsIn(c) /\ Numbers(c)' = Numbers(c)
          /\ \A t \in TurnsIn(c) : turns'[t] = turns[t]
  <2>1. \A c \in Conversation \ {target[e]} : \A t \in {c} \X RequestId : turns'[t] = turns[t]
    BY <1>1, <1>2 DEF TurnOf, TypeOK
  <2> QED
    BY <2>1 DEF TurnsIn, Numbers
<1>13. \A c \in Conversation : Numbers(c) \subseteq Numbers(c)'
  BY <1>11, <1>12 DEF Numbers, TurnsIn
<1>14. NumberInv'
  BY <1>1, <1>7, <1>13 DEF NumberInv
<1>15. TurnsNumbered'
  <2>1. CASE UNCHANGED turns
    BY <2>1, SameTurns
  <2>2. CASE ~SequenceTaken(e) /\ turns' = [turns EXCEPT ![TurnOf(e)] = row]
             /\ turns[TurnOf(e)] = None
    <3>1. \A t, u \in TurnsIn(target[e])' : turns'[t].seq = turns'[u].seq => t = u
      <4>1. TurnsIn(target[e])' = TurnsIn(target[e]) \cup {TurnOf(e)}
        BY <1>1, <1>3, <2>2 DEF TurnsIn, TurnOf, TypeOK
      <4>2. turns'[TurnOf(e)].seq = next[e]
        BY <1>1, <2>2 DEF TypeOK
      <4>3. \A t \in TurnsIn(target[e]) : turns'[t] = turns[t] /\ turns[t].seq # next[e]
        BY <1>6, <2>2 DEF TurnsIn, SequenceTaken, Numbers
      <4> QED
        BY <4>1, <4>2, <4>3 DEF TurnsNumbered
    <3>2. \A n \in Numbers(target[e])' : n # 1 => n - 1 \in Numbers(target[e])'
      <4>1. next[e] # 1 => next[e] - 1 \in Numbers(target[e])'
        BY <1>1, <1>13 DEF NumberInv
      <4>2. \A n \in Numbers(target[e]) : n # 1 => n - 1 \in Numbers(target[e])'
        BY <1>13 DEF TurnsNumbered
      <4>3. Numbers(target[e])' \subseteq Numbers(target[e]) \cup {next[e]}
        BY <1>11 DEF Numbers, TurnsIn
      <4> QED
        BY <4>1, <4>2, <4>3
    <3> QED
      BY <1>12, <3>1, <3>2 DEF TurnsNumbered
  <2> QED
    BY <1>2, <2>1, <2>2
<1> QED
  BY <1>5, <1>8, <1>9, <1>10, <1>14, <1>15

\* What becomes of the turns when one is decided.
Written(e, status, answer) ==
    /\ TurnOf(e) \in Conversation \X RequestId
    /\ turns' \in [Conversation \X RequestId -> Turn \cup {None}]
    /\ \A t \in (Conversation \X RequestId) \ {TurnOf(e)} : turns'[t] = turns[t]
    /\ turns'[TurnOf(e)] # None /\ turns'[TurnOf(e)].seq = turns[TurnOf(e)].seq
    /\ turns'[TurnOf(e)].status = status /\ turns'[TurnOf(e)].answer = answer

\* SaveTurn and FailTurn decide a started turn, or leave the turns alone.
LEMMA WriteTurnKeeps ==
    ASSUME Inv, NEW e \in Execution, turns[TurnOf(e)] # None, Writable(e),
           NEW status \in {"finalized", "failed"}, NEW answer \in {e, None},
           WriteTurn(e, status, answer)
    PROVE  Written(e, status, answer)
<1>1. TurnOf(e) \in Conversation \X RequestId
  BY ExecutionAssumption DEF TurnOf
<1>2. turns[TurnOf(e)] \in Turn /\ turns \in [Conversation \X RequestId -> Turn \cup {None}]
  BY <1>1 DEF Inv, TypeOK
<1>3. [turns[TurnOf(e)] EXCEPT !.status = status, !.answer = answer] \in Turn
  BY <1>2 DEF Turn
<1>4. turns' = [turns EXCEPT ![TurnOf(e)] =
                  [turns[TurnOf(e)] EXCEPT !.status = status, !.answer = answer]]
  BY DEF WriteTurn
<1> QED
  BY <1>1, <1>2, <1>3, <1>4, NoneAssumption DEF Turn, Written

LEMMA SaveTurnInv == ASSUME NEW e \in Execution, Inv, SaveTurn(e) PROVE Inv'
<1> USE ExecutionAssumption, NoneAssumption DEF Inv, Goto, tables
<1> DEFINE saves == Ending[e] = "finalize_conversation_turn"
           status == IF saves THEN "finalized" ELSE "failed"
           answer == IF saves THEN e ELSE None
<1>1. /\ pc[e] = "save" /\ turns[TurnOf(e)] # None /\ recorded[e] = 3
      /\ UNCHANGED <<conversations, runs, recorded, next>>
  BY DEF SaveTurn, StartedInv, AuditInv, RecordedAt
<1>2. \/ /\ Writable(e) /\ WriteTurn(e, status, answer)
         /\ context' = [context EXCEPT ![e].finalized = TRUE] /\ Goto(e, "record")
      \/ Writable(e) /\ WriteTurn(e, status, answer) /\ Raise(e) /\ UNCHANGED context
      \/ Raise(e) /\ UNCHANGED <<turns, context>>
  BY DEF SaveTurn
<1>3. status \in {"finalized", "failed"} /\ answer \in {e, None}
  OBVIOUS
<1>4. Writable(e) /\ WriteTurn(e, status, answer) => Written(e, status, answer)
  <2> HIDE DEF status, answer, Inv
  <2> QED
    BY <1>1, <1>3, WriteTurnKeeps
<1> HIDE DEF status, answer
<1>5. TypeOK'
  <2>1. turns' \in [Conversation \X RequestId -> Turn \cup {None}]
    BY <1>2, <1>4 DEF TypeOK, Written
  <2>2. pc' \in [Execution -> Place]
    BY <1>2, RaiseType, GotoType DEF Place
  <2>3. context' \in [Execution -> [started : BOOLEAN, finalized : BOOLEAN]]
    <3>1. context' \in {context, [context EXCEPT ![e].started = TRUE],
                          [context EXCEPT ![e].finalized = TRUE]}
      BY <1>2
    <3>2. context \in [Execution -> [started : BOOLEAN, finalized : BOOLEAN]]
      BY DEF TypeOK
    <3> QED
      BY <3>1, <3>2
  <2> QED
    BY <1>1, <2>1, <2>2, <2>3 DEF TypeOK
<1>6. \A t \in Conversation \X RequestId :
         /\ turns[t] # None <=> turns'[t] # None
         /\ turns[t] # None => turns'[t].seq = turns[t].seq
         /\ turns[t] # None /\ turns[t].status # "started" => turns'[t] = turns[t]
  BY <1>1, <1>2, <1>4 DEF Writable, Written
<1>7. /\ pc'[e] \in {"record", "fail_turn", "audit_fail"}
      /\ \A d \in Execution \ {e} : pc'[d] = pc[d]
      /\ \A d \in Execution : context'[d].started = context[d].started
  BY <1>2 DEF TypeOK, Raise, Handler
<1>8. AuditInv'
  BY <1>1, <1>7 DEF AuditInv, RecordedAt, Forward
<1>9. StartedInv'
  BY <1>1, <1>6, <1>7 DEF StartedInv, TurnOf
<1>10. TurnsNumbered' /\ \A c \in Conversation : Numbers(c)' = Numbers(c)
  BY <1>5, <1>6, SameNumbers
<1>11. NumberInv'
  BY <1>1, <1>7, <1>10 DEF NumberInv
<1>12. SavedInv'
  <2>1. ASSUME Saved(e)'
        PROVE  IF saves THEN turns'[TurnOf(e)].status = "finalized" /\ turns'[TurnOf(e)].answer = e
                        ELSE turns'[TurnOf(e)].status = "failed"
    <3>1. pc'[e] = "record"
      BY <1>7, <2>1 DEF Saved
    <3>2. Writable(e) /\ WriteTurn(e, status, answer)
      BY <1>2, <3>1 DEF Raise, Handler, TypeOK
    <3> QED
      BY <1>4, <3>2 DEF status, answer, Written
  <2>2. ASSUME NEW d \in Execution \ {e}, Saved(d)'
        PROVE  Saved(d) /\ turns'[TurnOf(d)] = turns[TurnOf(d)]
    <3>1. Saved(d) /\ turns[TurnOf(d)] # None
      BY <1>1, <1>7, <2>2 DEF Saved, StartedInv, TypeOK
    <3>2. turns[TurnOf(d)].status # "started"
      BY <3>1 DEF SavedInv
    <3> QED
      BY <1>6, <3>1, <3>2 DEF TurnOf
  <2> QED
    BY <2>1, <2>2 DEF SavedInv, TurnOf
<1> QED
  BY <1>5, <1>8, <1>9, <1>10, <1>11, <1>12

LEMMA FailTurnInv == ASSUME NEW e \in Execution, Inv, FailTurn(e) PROVE Inv'
<1> USE ExecutionAssumption, NoneAssumption DEF Inv, Goto, tables
<1>1. /\ pc[e] = "fail_turn" /\ turns[TurnOf(e)] # None
      /\ Goto(e, "audit_fail")
      /\ UNCHANGED <<conversations, runs, recorded, next>>
      /\ context' \in {context, [context EXCEPT ![e].finalized = TRUE]}
      /\ (Writable(e) /\ WriteTurn(e, "failed", None)) \/ UNCHANGED turns
  BY DEF FailTurn, StartedInv
<1>2. Writable(e) /\ WriteTurn(e, "failed", None) => Written(e, "failed", None)
  BY <1>1, WriteTurnKeeps
<1>3. TypeOK'
  <2>1. turns' \in [Conversation \X RequestId -> Turn \cup {None}]
    BY <1>1, <1>2 DEF TypeOK, Written
  <2>2. pc' \in [Execution -> Place]
    BY <1>1, GotoType DEF Place
  <2>3. context' \in [Execution -> [started : BOOLEAN, finalized : BOOLEAN]]
    <3>1. context' \in {context, [context EXCEPT ![e].started = TRUE],
                          [context EXCEPT ![e].finalized = TRUE]}
      BY <1>1
    <3>2. context \in [Execution -> [started : BOOLEAN, finalized : BOOLEAN]]
      BY DEF TypeOK
    <3> QED
      BY <3>1, <3>2
  <2> QED
    BY <1>1, <2>1, <2>2, <2>3 DEF TypeOK
<1>4. \A t \in Conversation \X RequestId :
         /\ turns[t] # None <=> turns'[t] # None
         /\ turns[t] # None => turns'[t].seq = turns[t].seq
         /\ turns[t] # None /\ turns[t].status # "started" => turns'[t] = turns[t]
  BY <1>1, <1>2 DEF Writable, Written
<1>5. /\ pc'[e] = "audit_fail" /\ \A d \in Execution \ {e} : pc'[d] = pc[d]
      /\ \A d \in Execution : context'[d].started = context[d].started
  BY <1>1 DEF TypeOK
<1>6. AuditInv'
  BY <1>1, <1>5 DEF AuditInv, RecordedAt, Forward
<1>7. StartedInv'
  BY <1>1, <1>4, <1>5 DEF StartedInv, TurnOf
<1>8. TurnsNumbered' /\ \A c \in Conversation : Numbers(c)' = Numbers(c)
  BY <1>3, <1>4, SameNumbers
<1>9. NumberInv'
  BY <1>1, <1>5, <1>8 DEF NumberInv
<1>10. SavedInv'
  <2>1. ASSUME NEW d \in Execution, Saved(d)'
        PROVE  Saved(d) /\ turns'[TurnOf(d)] = turns[TurnOf(d)]
    <3>1. Saved(d) /\ turns[TurnOf(d)] # None
      BY <1>1, <1>5, <2>1 DEF Saved, StartedInv, TypeOK
    <3>2. turns[TurnOf(d)].status # "started"
      BY <3>1 DEF SavedInv
    <3> QED
      BY <1>4, <3>1, <3>2 DEF TurnOf
  <2> QED
    BY <2>1 DEF SavedInv, TurnOf
<1> QED
  BY <1>3, <1>6, <1>7, <1>8, <1>9, <1>10

LEMMA DeleteConversationInv ==
    ASSUME NEW c \in Conversation, Inv, DeleteConversation(c) PROVE Inv'
<1> USE DEF Inv, DeleteConversation
<1>1. TypeOK'
  BY DEF TypeOK
<1>2. AuditInv' /\ StartedInv' /\ SavedInv'
  BY DEF AuditInv, RecordedAt, StartedInv, SavedInv, Saved, TurnOf
<1>3. NumberInv' /\ TurnsNumbered'
  BY SameTurns, ExecutionAssumption DEF NumberInv
<1> QED
  BY <1>1, <1>2, <1>3

LEMMA DieInv == ASSUME NEW e \in Execution, Inv, Die(e) PROVE Inv'
<1> USE DEF Inv, Die, Goto, tables
<1>1. TypeOK'
  BY GotoType DEF TypeOK, Place, Ended
<1>2. pc'[e] = "dead" /\ \A d \in Execution \ {e} : pc'[d] = pc[d]
  BY DEF TypeOK
<1>3. AuditInv' /\ StartedInv' /\ SavedInv'
  BY <1>2 DEF AuditInv, RecordedAt, Forward, StartedInv, SavedInv, Saved, TurnOf
<1>4. NumberInv' /\ TurnsNumbered'
  BY <1>2, SameTurns, ExecutionAssumption DEF NumberInv
<1> QED
  BY <1>1, <1>3, <1>4

LEMMA StutterInv == ASSUME Inv, UNCHANGED vars PROVE Inv'
<1> USE DEF Inv, vars, tables
<1>1. TypeOK'
  BY DEF TypeOK
<1>2. AuditInv' /\ StartedInv' /\ SavedInv'
  BY DEF AuditInv, RecordedAt, StartedInv, SavedInv, Saved, TurnOf
<1>3. NumberInv' /\ TurnsNumbered'
  BY SameTurns, ExecutionAssumption DEF NumberInv
<1> QED
  BY <1>1, <1>2, <1>3

LEMMA NextInv == Inv /\ [Next]_vars => Inv'
<1> SUFFICES ASSUME Inv, [Next]_vars PROVE Inv'
  OBVIOUS
<1>1. ASSUME NEW e \in Execution, Run(e) PROVE Inv'
  BY <1>1, AuditStartInv, RecordStepInv, ResolveInv, RequireConversationInv, ReadSequenceInv,
     InsertTurnInv, AnswerInv, SaveTurnInv, FailTurnInv, AuditSucceedInv, AuditFailInv DEF Run
<1>2. CASE UNCHANGED vars
  BY <1>2, StutterInv
<1> QED
  BY <1>1, <1>2, DieInv, DeleteConversationInv DEF Next, Quiet

-----------------------------------------------------------------------------
(* The theorems *)

\* The inductive invariant holds in every reachable state.
LEMMA Invariance == Spec => []Inv
BY InitInv, NextInv, PTL DEF Spec

\* The rows of the conversation tables and what each execution knows of them keep their
\* types: a turn has a number from 1 on, and at most the four steps are recorded.
THEOREM TypeCorrect == Spec => []TypeOK
<1>1. Inv => TypeOK
  BY DEF Inv
<1> QED
  BY <1>1, Invariance, PTL

\* start_turn numbers the turns of a conversation 1, 2, 3, ... without a gap or a repeat
\* although it reads the number and inserts the row without a lock.
THEOREM Numbered == Spec => []TurnsNumbered
<1>1. Inv => TurnsNumbered
  BY DEF Inv
<1> QED
  BY <1>1, Invariance, PTL

\* Whoever got an answer finds it in a turn that this execution wrote, and its run recorded
\* as succeeded with all steps, whatever other executions of the same request do.
THEOREM AnswersAreDurable == Spec => []AnsweredIsDurable
<1>1. Inv => AnsweredIsDurable
  BY DEF Inv, AuditInv, RecordedAt, SavedInv, Saved, AnsweredIsDurable
<1> QED
  BY <1>1, Invariance, PTL

Decided ==
    \A t \in Conversation \X RequestId : turns[t] # None =>
        /\ turns'[t] # None /\ turns'[t].seq = turns[t].seq
        /\ turns[t].status # "started" => turns'[t] = turns[t]

LEMMA DecidedStep == Inv /\ [Next]_vars => [Decided]_vars
<1> SUFFICES ASSUME Inv, Next PROVE Decided
  OBVIOUS
<1>1. CASE UNCHANGED turns
  BY <1>1 DEF Decided
<1>2. ASSUME NEW e \in Execution, InsertTurn(e) PROVE Decided
  BY <1>2, NoneAssumption, ExecutionAssumption DEF Inv, TypeOK, InsertTurn, Decided, TurnOf
<1>3. ASSUME NEW e \in Execution, NEW status \in {"finalized", "failed"}, NEW answer \in {e, None},
             turns[TurnOf(e)] # None, Writable(e), WriteTurn(e, status, answer)
      PROVE  Decided
  <2>1. Written(e, status, answer)
    BY <1>3, WriteTurnKeeps
  <2> QED
    BY <1>3, <2>1 DEF Written, Writable, Decided
<1>4. ASSUME NEW e \in Execution, SaveTurn(e) PROVE Decided
  <2>1. turns[TurnOf(e)] # None
    BY <1>4 DEF SaveTurn, Inv, StartedInv
  <2> QED
    BY <1>1, <1>3, <1>4, <2>1 DEF SaveTurn
<1>5. ASSUME NEW e \in Execution, FailTurn(e) PROVE Decided
  <2>1. turns[TurnOf(e)] # None
    BY <1>5 DEF FailTurn, Inv, StartedInv
  <2> QED
    BY <1>1, <1>3, <1>5, <2>1 DEF FailTurn
<1>6. ASSUME NEW e \in Execution, Run(e) PROVE Decided
  BY <1>1, <1>2, <1>4, <1>5, <1>6 DEF Run, AuditStart, RecordStep, Resolve, RequireConversation,
     ReadSequence, Answer, AuditSucceed, AuditFail, tables
<1> QED
  BY <1>1, <1>6 DEF Next, Die, DeleteConversation, Quiet, vars, tables

\* A turn that is there stays, under its number; once it is decided, neither a repeated
\* request nor a late failure nor the deletion of its conversation changes it.
THEOREM DecisionsStay == Spec => DecidedTurnsStay
<1>1. Inv /\ [Next]_vars => [Decided]_vars
  BY DecidedStep
<1> QED
  BY <1>1, Invariance, PTL DEF Spec, DecidedTurnsStay, Decided
=============================================================================

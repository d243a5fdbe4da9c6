-------------------------- MODULE MCConversationRun --------------------------
(***************************************************************************)
(* Two executions of the same request (a repeated POST), one of another    *)
(* request in the same conversation, and one that creates a conversation   *)
(* under an id used before and ends by failing its turn.                   *)
(***************************************************************************)
EXTENDS ConversationRun, TLC

CONSTANTS first, again, other, fresh, r1, r2, chat, created

MCRequestOf == [e \in Execution |-> IF e = other THEN r2 ELSE r1]
MCTarget == [e \in Execution |-> IF e = fresh THEN created ELSE chat]
MCEnding == [e \in Execution |->
    IF e = fresh THEN "fail_conversation_turn" ELSE "finalize_conversation_turn"]
MCCreating == Execution \cap {fresh}
Repeats == Permutations({first, again})
=============================================================================

---------------------------- MODULE JobLifecycle ----------------------------
(***************************************************************************)
(* What the ingestion job table promises to its readers, whatever workers, *)
(* crashes and lost answers do underneath: a job moves through             *)
(*                                                                         *)
(*     absent -> staged -> indexing -> indexed                             *)
(*                          ^    \                                         *)
(*                          |     v                                        *)
(*                          +-- failed                                     *)
(*                                                                         *)
(* indexed is final, and a source points at a job only from the very step  *)
(* in which that job became indexed.                                       *)
(***************************************************************************)

CONSTANTS Key, Source, None

VARIABLES status,      \* the status of the job of each idempotency key
          published    \* the job each source points at, or None

lifecycleVars == <<status, published>>

Statuses == {"absent", "staged", "indexing", "indexed", "failed"}

LifecycleInit ==
    /\ status = [k \in Key |-> "absent"]
    /\ published = [s \in Source |-> None]

Move(k, from, to) ==
    /\ status[k] \in from
    /\ status' = [status EXCEPT ![k] = to]

StageJob(k) == Move(k, {"absent"}, "staged") /\ UNCHANGED published
BeginJob(k) == Move(k, {"staged", "indexing", "failed"}, "indexing") /\ UNCHANGED published
FailJob(k)  == Move(k, {"indexing"}, "failed") /\ UNCHANGED published

PublishJob(k, s) ==
    /\ Move(k, {"indexing"}, "indexed")
    /\ published' = [published EXCEPT ![s] = k]

WithdrawSource(s) ==
    /\ published' = [published EXCEPT ![s] = None]
    /\ UNCHANGED status

LifecycleNext ==
    \/ \E k \in Key : StageJob(k) \/ BeginJob(k) \/ FailJob(k)
    \/ \E k \in Key, s \in Source : PublishJob(k, s)
    \/ \E s \in Source : WithdrawSource(s)

LifecycleSpec == LifecycleInit /\ [][LifecycleNext]_lifecycleVars
=============================================================================

----------------------------- MODULE MCKeyCache -----------------------------
(***************************************************************************)
(* Two threads with any number of requests each, over two keys that change *)
(* places with each other and with nothing.                                *)
(***************************************************************************)
EXTENDS KeyCache, TLC

CONSTANTS t1, t2, old, new

Interchangeable == Permutations({t1, t2}) \cup Permutations({old, new})
=============================================================================

------------------------------ MODULE KeyCache ------------------------------
(***************************************************************************)
(* JwksCache of oidc.py under the threads of the API: each request looks   *)
(* for the key that its token names, and nothing locks the cache.  What    *)
(* other threads do falls between any two accesses to _keys, _expires_at,  *)
(* the clock and the identity provider.                                    *)
(***************************************************************************)
EXTENDS Naturals

CONSTANTS
    Thread, Key,
    TTL,            \* cache_ttl_seconds
    MaxDuration,    \* bound: how long a call takes, its two loads included
    MaxTime,        \* bound of the clock
    MaxRotations,   \* bound: how often the provider changes its keys
    None

ASSUME KeyAssumption ==
    /\ TTL \in Nat \ {0} /\ MaxDuration \in Nat
    /\ MaxTime \in Nat /\ MaxRotations \in Nat
    /\ None \notin Nat

VARIABLES
    clock,
    published,      \* the keys that the provider publishes
    rotations,
    last,           \* key -> when it was last published, or None
    keys,           \* _keys
    expires,        \* _expires_at
    call            \* thread -> the locals of its last call, and what is known of it

keyVars == <<clock, published, rotations, last, keys, expires, call>>

Positions == {"idle", "check", "load", "answered", "expire", "look",
              "found", "unknown", "unavailable"}
Pending == {"check", "load", "answered", "expire", "look"}

\* retried: the key was missing once.  wrote: the call has written _keys.  steady: its
\* key has been published since it began.  behind: when it began, another call had an
\* answer of the provider that it had not written yet.
Locals == [pc : Positions, kid : Key \cup {None}, now : Nat, answer : SUBSET Key,
           retried : BOOLEAN, wrote : BOOLEAN, steady : BOOLEAN, behind : BOOLEAN]

TypeOK ==
    /\ clock \in Nat
    /\ published \in SUBSET Key
    /\ rotations \in Nat
    /\ last \in [Key -> Nat \cup {None}]
    /\ keys \in SUBSET Key
    /\ expires \in Nat
    /\ call \in [Thread -> Locals]

Init ==
    /\ clock = 0
    /\ published \in SUBSET Key /\ rotations = 0
    /\ last = [k \in Key |-> IF k \in published THEN 0 ELSE None]
    /\ keys = {} /\ expires = 0
    /\ call = [c \in Thread |-> [pc |-> "idle", kid |-> None, now |-> 0, answer |-> {}, retried |-> FALSE,
                              wrote |-> FALSE, steady |-> FALSE, behind |-> FALSE]]

-----------------------------------------------------------------------------
(* key and _refresh, in one thread *)

At(c, pc) == call[c].pc = pc
Goto(c, pc) == call' = [call EXCEPT ![c].pc = pc]

\* The next request of a thread, with a token that names k.  The clock is read before
\* anything else.
Begin(c, k) ==
    /\ call[c].pc \notin Pending
    /\ call' = [call EXCEPT ![c] =
          [pc |-> "check", kid |-> k, now |-> clock, answer |-> {}, retried |-> FALSE,
           wrote |-> FALSE, steady |-> k \in published,
           behind |-> \E d \in Thread : At(d, "answered")]]
    /\ UNCHANGED <<clock, published, rotations, last, keys, expires>>

\* A cache that has expired is loaded; another one is looked into.
CheckExpiry(c) ==
    /\ At(c, "check")
    /\ Goto(c, IF call[c].now >= expires THEN "load" ELSE "look")
    /\ UNCHANGED <<clock, published, rotations, last, keys, expires>>

\* The provider answers.
Load(c) ==
    /\ At(c, "load") /\ published # {}
    /\ call' = [call EXCEPT ![c].pc = "answered", ![c].answer = published]
    /\ UNCHANGED <<clock, published, rotations, last, keys, expires>>

\* It does not, or with keys that are no key set, or with none.
LoadFails(c) ==
    /\ At(c, "load") /\ Goto(c, "unavailable")
    /\ UNCHANGED <<clock, published, rotations, last, keys, expires>>

WriteKeys(c) ==
    /\ At(c, "answered")
    /\ keys' = call[c].answer
    /\ call' = [call EXCEPT ![c].pc = "expire", ![c].wrote = TRUE, ![c].answer = {}]
    /\ UNCHANGED <<clock, published, rotations, last, expires>>

\* Mutant: the time to live is counted from the end of the refresh.
ExpiryFromEnd(c) == clock + TTL

\* From the beginning of the call, before the keys were loaded, also in the second refresh.
ExpiryOf(c) == call[c].now + TTL

WriteExpiry(c) ==
    /\ At(c, "expire")
    /\ expires' = ExpiryOf(c)
    /\ Goto(c, "look")
    /\ UNCHANGED <<clock, published, rotations, last, keys>>

\* Mutant: a call that has refreshed the cache does not do so again, and a call that
\* has not is refused at once.
RetriesAfterRefresh(c) == call[c].wrote /\ ~call[c].retried

\* A missing key is worth one refresh, whether or not the cache has just been loaded.
Retries(c) == ~call[c].retried

Look(c) ==
    /\ At(c, "look")
    /\ \/ call[c].kid \in keys /\ Goto(c, "found")
       \/ /\ call[c].kid \notin keys /\ Retries(c)
          /\ call' = [call EXCEPT ![c].pc = "load", ![c].retried = TRUE]
       \/ call[c].kid \notin keys /\ ~Retries(c) /\ Goto(c, "unknown")
    /\ UNCHANGED <<clock, published, rotations, last, keys, expires>>

-----------------------------------------------------------------------------
(* The identity provider, and time *)

\* Keys are rotated, all of them withdrawn included.
Rotate ==
    /\ rotations < MaxRotations /\ rotations' = rotations + 1
    /\ \E set \in SUBSET Key \ {published} :
          /\ published' = set
          /\ last' = [k \in Key |-> IF k \in set THEN clock ELSE last[k]]
          /\ call' = [c \in Thread |-> [call[c] EXCEPT !.steady = @ /\ call[c].kid \in set]]
    /\ UNCHANGED <<clock, keys, expires>>

InTime(c) == call[c].pc \in Pending => clock < call[c].now + MaxDuration

Tick ==
    /\ clock < MaxTime
    /\ \A c \in Thread : InTime(c)
    /\ clock' = clock + 1
    /\ last' = [k \in Key |-> IF k \in published THEN clock + 1 ELSE last[k]]
    /\ UNCHANGED <<published, rotations, keys, expires, call>>

Step(c) == (\E k \in Key : Begin(c, k)) \/ CheckExpiry(c) \/ Load(c) \/ LoadFails(c)
           \/ WriteKeys(c) \/ WriteExpiry(c) \/ Look(c)

Next == (\E c \in Thread : Step(c)) \/ Rotate \/ Tick

Spec == Init /\ [][Next]_keyVars

-----------------------------------------------------------------------------
(* Properties *)

\* "A bounded cache": at the moment in which a request finds the key of its token, the
\* provider has withdrawn it less than the time to live and two durations of a call ago.
\* One of them is the age of what a slow refresh writes over the keys of a later one, whose
\* expiry it leaves; the other is what the request itself waits between reading the clock
\* and looking.
NoStaleKey == [][\A c \in Thread : ~At(c, "found") /\ At(c, "found")' =>
    /\ last[call[c].kid] # None
    /\ clock < last[call[c].kid] + TTL + 2 * MaxDuration]_keyVars

\* "Explicit refresh on key rotation": a request whose key has been published since it
\* began is refused as unknown only if another request then held an older answer of the
\* provider, which may have replaced the newer keys.
KnownIsFound == \A c \in Thread :
    At(c, "unknown") /\ call[c].steady => call[c].behind
=============================================================================

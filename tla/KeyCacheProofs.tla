--------------------------- MODULE KeyCacheProofs ---------------------------
(***************************************************************************)
(* Theorems about KeyCache, for any number of threads and keys, any time   *)
(* to live and any bound on the duration of a call.                        *)
(***************************************************************************)
EXTENDS KeyCache, TLAPS

-----------------------------------------------------------------------------
(* The inductive invariant *)

\* The provider was seen to publish k, at t or later.
Since(k, t) == last[k] # None /\ t <= last[k]
Within(k, t, span) == last[k] # None /\ t <= last[k] + span

\* last is what it says, and a pending call is not older than MaxDuration.
TimeInv ==
    /\ \A k \in Key : last[k] # None => last[k] <= clock
    /\ \A k \in published : last[k] = clock
    /\ expires <= clock + TTL
    /\ \A c \in Thread : call[c].pc \in Pending =>
          call[c].now <= clock /\ clock <= call[c].now + MaxDuration

\* The cache expires in time, although another thread's older keys may be in it; whoever
\* is about to set the expiry, or to look, finds no key that would be too old for it.
AgeInv ==
    /\ \A k \in keys : Within(k, expires, TTL + MaxDuration)
    /\ \A c \in Thread : At(c, "answered") => \A k \in call[c].answer : Since(k, call[c].now)
    /\ \A c \in Thread : At(c, "expire") => \A k \in keys : Within(k, call[c].now, MaxDuration)
    /\ \A c \in Thread : At(c, "look") =>
          \A k \in keys : Within(k, call[c].now + 1, TTL + MaxDuration)

\* A call looks a second time only into keys that it has written itself.
PathInv == \A c \in Thread :
    /\ ~At(c, "idle") => call[c].kid \in Key
    /\ At(c, "check") => ~call[c].retried
    /\ At(c, "expire") => call[c].wrote
    /\ At(c, "look") /\ call[c].retried => call[c].wrote

Undisturbed(c) == call[c].pc \in Pending /\ call[c].steady /\ ~call[c].behind

\* Every answer that may still be written, and the keys once the call has written them,
\* hold the key of an undisturbed call.
KnownInv ==
    /\ \A c \in Thread : Undisturbed(c) =>
          /\ call[c].kid \in published
          /\ \A d \in Thread : At(d, "answered") => call[c].kid \in call[d].answer
          /\ call[c].wrote => call[c].kid \in keys
    /\ KnownIsFound

Inv == TypeOK /\ TimeInv /\ AgeInv /\ PathInv /\ KnownInv

-----------------------------------------------------------------------------
(* Each action preserves it *)

LEMMA InitInv == Init => Inv
BY KeyAssumption DEF Init, Inv, TypeOK, Locals, Positions, Pending, TimeInv, AgeInv, PathInv,
    KnownInv, Undisturbed, KnownIsFound, At, Within, Since

LEMMA BeginInv == ASSUME NEW c \in Thread, NEW k \in Key, Inv, Begin(c, k) PROVE Inv'
<1> USE KeyAssumption DEF Inv, Begin, At
<1>1. TypeOK'
  BY DEF TypeOK, Locals, Positions
<1>2. TimeInv'
  BY DEF TypeOK, Locals, TimeInv, Pending
<1>3. AgeInv'
  BY DEF TypeOK, Locals, AgeInv, Within, Since
<1>4. PathInv'
  BY DEF TypeOK, Locals, PathInv
<1>5. KnownInv'
  BY DEF TypeOK, Locals, KnownInv, Undisturbed, KnownIsFound, Pending
<1> QED
  BY <1>1, <1>2, <1>3, <1>4, <1>5

LEMMA CheckExpiryInv == ASSUME NEW c \in Thread, Inv, CheckExpiry(c) PROVE Inv'
<1> USE KeyAssumption DEF Inv, CheckExpiry, Goto, At
<1>1. TypeOK'
  BY DEF TypeOK, Locals, Positions
<1>2. TimeInv'
  BY DEF TypeOK, Locals, TimeInv, Pending
<1>3. AgeInv'
  BY DEF TypeOK, Locals, AgeInv, Within, Since
<1>4. PathInv'
  BY DEF TypeOK, Locals, PathInv
<1>5. KnownInv'
  BY DEF TypeOK, Locals, KnownInv, Undisturbed, KnownIsFound, Pending
<1> QED
  BY <1>1, <1>2, <1>3, <1>4, <1>5

LEMMA LoadFailsInv == ASSUME NEW c \in Thread, Inv, LoadFails(c) PROVE Inv'
<1> USE KeyAssumption DEF Inv, LoadFails, Goto, At
<1>1. TypeOK'
  BY DEF TypeOK, Locals, Positions
<1>2. TimeInv'
  BY DEF TypeOK, Locals, TimeInv, Pending
<1>3. AgeInv'
  BY DEF TypeOK, Locals, AgeInv, Within, Since
<1>4. PathInv'
  BY DEF TypeOK, Locals, PathInv
<1>5. KnownInv'
  BY DEF TypeOK, Locals, KnownInv, Undisturbed, KnownIsFound, Pending
<1> QED
  BY <1>1, <1>2, <1>3, <1>4, <1>5

LEMMA LoadInv == ASSUME NEW c \in Thread, Inv, Load(c) PROVE Inv'
<1> USE KeyAssumption DEF Inv, Load, At
<1>1. TypeOK'
  <2>1. published \subseteq Key
    BY DEF TypeOK
  <2>2. [call[c] EXCEPT !.pc = "answered", !.answer = published] \in Locals
    BY <2>1 DEF TypeOK, Locals, Positions
  <2>3. call' \in [Thread -> Locals]
    BY <2>2 DEF TypeOK
  <2> QED
    BY <2>3 DEF TypeOK
<1>2. TimeInv'
  BY DEF TypeOK, Locals, TimeInv, Pending
<1>3. AgeInv'
  BY DEF TypeOK, Locals, AgeInv, TimeInv, Pending, Within, Since
<1>4. PathInv'
  BY DEF TypeOK, Locals, PathInv
<1>5. KnownInv'
  BY DEF TypeOK, Locals, KnownInv, Undisturbed, KnownIsFound, Pending
<1> QED
  BY <1>1, <1>2, <1>3, <1>4, <1>5

LEMMA WriteKeysInv == ASSUME NEW c \in Thread, Inv, WriteKeys(c) PROVE Inv'
<1> USE KeyAssumption DEF Inv, WriteKeys, At
<1>1. TypeOK'
  <2>1. call[c] \in Locals /\ call' = [call EXCEPT ![c].pc = "expire", ![c].wrote = TRUE,
                                                  ![c].answer = {}]
    BY DEF TypeOK
  <2>2. keys' \in SUBSET Key
    BY <2>1 DEF Locals
  <2>3. [call[c] EXCEPT !.pc = "expire", !.wrote = TRUE, !.answer = {}] \in Locals
    BY <2>1 DEF Locals, Positions
  <2>4. call' \in [Thread -> Locals]
    BY <2>1, <2>3 DEF TypeOK
  <2> QED
    BY <2>2, <2>4 DEF TypeOK
<1>2. TimeInv'
  BY DEF TypeOK, Locals, TimeInv, Pending
<1>3. AgeInv'
  <2>1. \A k \in keys' : last[k] \in Nat /\ clock <= last[k] + MaxDuration
    BY DEF TypeOK, Locals, AgeInv, TimeInv, Pending, Since
  <2>2. \A k \in keys' : Within(k, expires, TTL + MaxDuration)'
    BY <2>1 DEF TypeOK, TimeInv, Within
  <2>3. ASSUME NEW d \in Thread, (call[d].pc \in Pending)', NEW k \in keys'
        PROVE  Within(k, call[d].now, MaxDuration)' /\ Within(k, call[d].now + 1, TTL + MaxDuration)'
    BY <2>1, <2>3 DEF TypeOK, Locals, TimeInv, Pending, Within
  <2>4. \A d \in Thread : At(d, "answered")' => \A k \in call'[d].answer : Since(k, call[d].now)'
    BY DEF TypeOK, Locals, AgeInv, Since
  <2> QED
    BY <2>2, <2>3, <2>4 DEF AgeInv, Pending
<1>4. PathInv'
  BY DEF TypeOK, Locals, PathInv
<1>5. KnownInv'
  BY DEF TypeOK, Locals, KnownInv, Undisturbed, KnownIsFound, Pending
<1> QED
  BY <1>1, <1>2, <1>3, <1>4, <1>5

LEMMA WriteExpiryInv == ASSUME NEW c \in Thread, Inv, WriteExpiry(c) PROVE Inv'
<1> USE KeyAssumption DEF Inv, WriteExpiry, ExpiryOf, Goto, At
<1>1. TypeOK'
  BY DEF TypeOK, Locals, Positions
<1>2. TimeInv'
  BY DEF TypeOK, Locals, TimeInv, Pending
<1>3. AgeInv'
  <2>1. call[c].now \in Nat /\ \A k \in keys : last[k] \in Nat /\ call[c].now <= last[k] + MaxDuration
    BY DEF TypeOK, Locals, AgeInv, Within
  <2>2. UNCHANGED <<keys, last>> /\ expires' = call[c].now + TTL
    OBVIOUS
  <2>4. call \in [Thread -> Locals] /\ call' = [call EXCEPT ![c].pc = "look"]
    BY DEF TypeOK
  <2>5. ASSUME NEW d \in Thread
        PROVE  /\ call'[d].pc = (IF d = c THEN "look" ELSE call[d].pc)
               /\ call'[d].now = call[d].now /\ call'[d].answer = call[d].answer
    BY <2>4 DEF Locals
  <2>3. \A k \in keys : Within(k, expires, TTL + MaxDuration)' /\ Within(k, call[c].now + 1, TTL + MaxDuration)'
    BY <2>1, <2>2 DEF Within
  <2> QED
    BY <2>2, <2>3, <2>5 DEF AgeInv, Within, Since
<1>4. PathInv'
  BY DEF TypeOK, Locals, PathInv
<1>5. KnownInv'
  BY DEF TypeOK, Locals, KnownInv, Undisturbed, KnownIsFound, Pending
<1> QED
  BY <1>1, <1>2, <1>3, <1>4, <1>5

LEMMA LookInv == ASSUME NEW c \in Thread, Inv, Look(c) PROVE Inv'
<1> USE KeyAssumption DEF Inv, Look, Retries, Goto, At
<1>1. TypeOK'
  BY DEF TypeOK, Locals, Positions
<1>2. TimeInv'
  BY DEF TypeOK, Locals, TimeInv, Pending
<1>3. AgeInv'
  BY DEF TypeOK, Locals, AgeInv, Within, Since
<1>4. PathInv'
  BY DEF TypeOK, Locals, PathInv
<1>5. KnownInv'
  BY DEF TypeOK, Locals, PathInv, KnownInv, Undisturbed, KnownIsFound, Pending
<1> QED
  BY <1>1, <1>2, <1>3, <1>4, <1>5

LEMMA RotateInv == ASSUME Inv, Rotate PROVE Inv'
<1> USE KeyAssumption DEF Inv, Rotate, At
<1>1. TypeOK'
  <2>1. PICK set \in SUBSET Key :
            /\ published' = set
            /\ last' = [k \in Key |-> IF k \in set THEN clock ELSE last[k]]
            /\ call' = [c \in Thread |-> [call[c] EXCEPT !.steady = @ /\ call[c].kid \in set]]
    OBVIOUS
  <2>2. ASSUME NEW c \in Thread
        PROVE  [call[c] EXCEPT !.steady = @ /\ call[c].kid \in set] \in Locals
    <3>1. call[c] \in Locals /\ (call[c].steady /\ call[c].kid \in set) \in BOOLEAN
      BY DEF TypeOK
    <3> QED
      BY <3>1 DEF Locals
  <2>4. call' \in [Thread -> Locals]
    BY <2>1, <2>2 DEF TypeOK
  <2>3. last' \in [Key -> Nat \cup {None}]
    BY <2>1 DEF TypeOK
  <2> QED
    BY <2>1, <2>3, <2>4 DEF TypeOK
<1>2. TimeInv'
  BY DEF TypeOK, Locals, TimeInv, Pending
<1>3. AgeInv'
  <2>1. \A k \in Key : last[k] # None =>
            last'[k] # None /\ last'[k] \in Nat /\ last[k] \in Nat /\ last[k] <= last'[k]
    BY DEF TypeOK, TimeInv
  <2>2. ASSUME NEW k \in Key, NEW t \in Nat
        PROVE  Since(k, t) => Since(k, t)'
    BY <2>1 DEF Since
  <2>3. ASSUME NEW k \in Key, NEW t \in Nat, NEW span \in Nat
        PROVE  Within(k, t, span) => Within(k, t, span)'
    BY <2>1 DEF Within
  <2>4. \A d \in Thread : /\ call'[d].pc = call[d].pc /\ call'[d].now = call[d].now
                         /\ call'[d].answer = call[d].answer /\ call'[d].kid = call[d].kid
                         /\ call[d].now \in Nat /\ call[d].now + 1 \in Nat
                         /\ call[d].answer \subseteq Key
    BY DEF TypeOK, Locals
  <2>5. keys \subseteq Key /\ expires \in Nat /\ TTL + MaxDuration \in Nat
    BY DEF TypeOK
  <2>6. \A k \in keys' : Within(k, expires, TTL + MaxDuration)'
    BY <2>3, <2>5 DEF AgeInv, Within
  <2>7. \A d \in Thread : At(d, "answered")' =>
            \A k \in call'[d].answer : Since(k, call[d].now)'
    BY <2>2, <2>4 DEF AgeInv, Since
  <2>8. \A d \in Thread : At(d, "expire")' =>
            \A k \in keys' : Within(k, call[d].now, MaxDuration)'
    BY <2>3, <2>4, <2>5 DEF AgeInv, Within
  <2>9. \A d \in Thread : At(d, "look")' =>
            \A k \in keys' : Within(k, call[d].now + 1, TTL + MaxDuration)'
    BY <2>3, <2>4, <2>5 DEF AgeInv, Within
  <2> QED
    BY <2>6, <2>7, <2>8, <2>9 DEF AgeInv
<1>4. PathInv'
  <2>1. \A d \in Thread :
            /\ call'[d].pc = call[d].pc /\ call'[d].kid = call[d].kid
            /\ call'[d].retried = call[d].retried /\ call'[d].wrote = call[d].wrote
    BY DEF TypeOK, Locals
  <2> QED
    BY <2>1 DEF PathInv
<1>5. KnownInv'
  BY DEF TypeOK, Locals, KnownInv, Undisturbed, KnownIsFound, Pending
<1> QED
  BY <1>1, <1>2, <1>3, <1>4, <1>5

LEMMA TickInv == ASSUME Inv, Tick PROVE Inv'
<1> USE KeyAssumption DEF Inv, Tick, InTime, At
<1>1. TypeOK'
  BY DEF TypeOK, Locals, Positions
<1>2. TimeInv'
  BY DEF TypeOK, Locals, TimeInv, Pending
<1>3. AgeInv'
  <2>1. \A k \in Key : last[k] # None =>
            last'[k] # None /\ last'[k] \in Nat /\ last[k] \in Nat /\ last[k] <= last'[k]
    BY DEF TypeOK, TimeInv
  <2>2. ASSUME NEW k \in Key, NEW t \in Nat
        PROVE  Since(k, t) => Since(k, t)'
    BY <2>1 DEF Since
  <2>3. ASSUME NEW k \in Key, NEW t \in Nat, NEW span \in Nat
        PROVE  Within(k, t, span) => Within(k, t, span)'
    BY <2>1 DEF Within
  <2>4. \A d \in Thread : /\ call'[d].pc = call[d].pc /\ call'[d].now = call[d].now
                         /\ call'[d].answer = call[d].answer /\ call'[d].kid = call[d].kid
                         /\ call[d].now \in Nat /\ call[d].now + 1 \in Nat
                         /\ call[d].answer \subseteq Key
    BY DEF TypeOK, Locals
  <2>5. keys \subseteq Key /\ expires \in Nat /\ TTL + MaxDuration \in Nat
    BY DEF TypeOK
  <2>6. \A k \in keys' : Within(k, expires, TTL + MaxDuration)'
    BY <2>3, <2>5 DEF AgeInv, Within
  <2>7. \A d \in Thread : At(d, "answered")' =>
            \A k \in call'[d].answer : Since(k, call[d].now)'
    BY <2>2, <2>4 DEF AgeInv, Since
  <2>8. \A d \in Thread : At(d, "expire")' =>
            \A k \in keys' : Within(k, call[d].now, MaxDuration)'
    BY <2>3, <2>4, <2>5 DEF AgeInv, Within
  <2>9. \A d \in Thread : At(d, "look")' =>
            \A k \in keys' : Within(k, call[d].now + 1, TTL + MaxDuration)'
    BY <2>3, <2>4, <2>5 DEF AgeInv, Within
  <2> QED
    BY <2>6, <2>7, <2>8, <2>9 DEF AgeInv
<1>4. PathInv'
  BY DEF PathInv
<1>5. KnownInv'
  BY DEF TypeOK, Locals, KnownInv, Undisturbed, KnownIsFound, Pending
<1> QED
  BY <1>1, <1>2, <1>3, <1>4, <1>5

LEMMA StutterInv == Inv /\ UNCHANGED keyVars => Inv'
BY DEF Inv, keyVars, TypeOK, TimeInv, AgeInv, PathInv, KnownInv, Undisturbed,
    KnownIsFound, At, Within, Since

LEMMA KeyInvariant == Spec => []Inv
<1>1. Init => Inv
  BY InitInv
<1>2. Inv /\ [Next]_keyVars => Inv'
  BY BeginInv, CheckExpiryInv, LoadInv, LoadFailsInv, WriteKeysInv, WriteExpiryInv,
     LookInv, RotateInv, TickInv, StutterInv DEF Next, Step
<1> QED
  BY <1>1, <1>2, PTL DEF Spec

-----------------------------------------------------------------------------
(* Theorems *)

\* The cache, the provider and the locals of the calls keep their types.
THEOREM KeyTypeCorrect == Spec => []TypeOK
<1>1. Inv => TypeOK
  BY DEF Inv
<1> QED
  BY <1>1, KeyInvariant, PTL

\* A call finds a key only where it looks, and what it finds there is no older than the
\* cache may be when the call began, and the call itself.
LEMMA FoundInTime == ASSUME Inv, [Next]_keyVars, NEW c \in Thread, ~At(c, "found"), At(c, "found")'
                     PROVE  /\ last[call[c].kid] # None
                            /\ clock < last[call[c].kid] + TTL + 2 * MaxDuration
<1>1. At(c, "look") /\ call[c].kid \in keys
  <2>1. ASSUME NEW d \in Thread, d # c, Step(d) PROVE call'[c] = call[c]
    BY <2>1 DEF Inv, TypeOK, Step, Begin, CheckExpiry, Load, LoadFails, WriteKeys, WriteExpiry, Look, Goto
  <2>2. CASE Step(c)
    BY <2>2 DEF Inv, TypeOK, Locals, Step, Begin, CheckExpiry, Load, LoadFails, WriteKeys, WriteExpiry,
                Look, Goto, At
  <2>3. CASE Rotate \/ Tick \/ UNCHANGED keyVars
    BY <2>3 DEF Inv, TypeOK, Locals, Rotate, Tick, keyVars, At
  <2> QED
    BY <2>1, <2>2, <2>3 DEF Next, At
<1>2. Within(call[c].kid, call[c].now + 1, TTL + MaxDuration) /\ clock <= call[c].now + MaxDuration
  BY <1>1 DEF Inv, AgeInv, TimeInv, Pending, At
<1>3. call[c].now \in Nat /\ last[call[c].kid] \in Nat \cup {None} /\ clock \in Nat
  BY <1>1 DEF Inv, TypeOK, Locals
<1> QED
  BY <1>2, <1>3, KeyAssumption DEF Within

\* At the moment a request finds the key of its token, the key was withdrawn less than the
\* time to live and two durations of a call ago.
THEOREM KeysAreFresh == Spec => NoStaleKey
<1>1. Inv /\ [Next]_keyVars =>
        [\A c \in Thread : ~At(c, "found") /\ At(c, "found")' =>
            /\ last[call[c].kid] # None
            /\ clock < last[call[c].kid] + TTL + 2 * MaxDuration]_keyVars
  BY FoundInTime
<1> QED
  BY <1>1, KeyInvariant, PTL DEF Spec, NoStaleKey

\* A key that is published throughout a request is refused only behind an older answer.
THEOREM RotatedKeysAreFound == Spec => []KnownIsFound
<1>1. Inv => KnownIsFound
  BY DEF Inv, KnownInv
<1> QED
  BY <1>1, KeyInvariant, PTL
=============================================================================

--------------------------- MODULE DataInduction ---------------------------
(***************************************************************************)
(* Induction without an operator as a parameter.  A property of numbers is *)
(* stated as the set of those that have it, and the definition of a        *)
(* recursive function is given by data: a start and, for each argument,    *)
(* the function from one value to the next.  Both then are first-order.    *)
(* On these rest the facts about the operators of Lists.                   *)
(***************************************************************************)
EXTENDS Lists, SequencesExt, Integers, TLAPS, WellFoundedInduction, SequenceTheorems,
        FiniteSetTheorems, FunctionTheorems

\* A set of numbers has a least one.
LEMMA LeastOfNat ==
    ASSUME NEW T, T \subseteq Nat, T # {}
    PROVE  \E n \in T : \A m \in T : n <= m
<1>1. IsWellFoundedOn(OpToRel(<, Nat), Nat)
  BY NatLessThanWellFounded
<1>2. PICK x \in T : \A y \in T : ~ (<<y, x>> \in OpToRel(<, Nat))
  BY <1>1, WFMin
<1>3. \A a, b \in Nat : b < a => <<b, a>> \in OpToRel(<, Nat)
  BY DEF OpToRel
<1>4. \A y \in T : ~ (y < x)
  BY <1>2, <1>3, Zenon
<1>5. \A y \in T : x <= y
  BY <1>4
<1> QED
  BY <1>5

\* A set that holds zero and with each number the next one holds every number.
LEMMA Induction ==
    ASSUME NEW T, 0 \in T, \A n \in Nat : n \in T => n + 1 \in T
    PROVE  \A n \in Nat : n \in T
<1> SUFFICES ASSUME NEW n \in Nat, n \notin T PROVE FALSE
  OBVIOUS
<1>1. PICK m \in Nat \ T : \A k \in Nat \ T : m <= k
  BY LeastOfNat
<1>2. m # 0
  OBVIOUS
<1>3. m - 1 \in Nat /\ m - 1 \notin Nat \ T
  BY <1>1, <1>2
<1>4. (m - 1) + 1 \in T
  BY <1>3
<1> QED
  BY <1>4, <1>1

-----------------------------------------------------------------------------
(* Recursive functions *)

IsRecursion(g, k, S, start, step) ==
    g \in [0..k -> S] /\ g[0] = start /\ \A i \in 1..k : g[i] = step[i][g[i - 1]]

\* What is defined by recursion on numbers exists.
LEMMA RecursionExists ==
    ASSUME NEW k \in Nat, NEW S, NEW start \in S, NEW step \in [1..k -> [S -> S]]
    PROVE  \E g : IsRecursion(g, k, S, start, step)
<1> DEFINE Upto(n, g) ==
               g \in [0..n -> S] /\ g[0] = start /\ \A i \in 1..n : g[i] = step[i][g[i - 1]]
           T == {n \in Nat : n <= k => \E g : Upto(n, g)}
<1>1. 0 \in T
  <2>1. Upto(0, [i \in 0..0 |-> start])
    OBVIOUS
  <2> QED
    BY <2>1
<1>2. ASSUME NEW n \in Nat, n \in T PROVE n + 1 \in T
  <2> SUFFICES ASSUME n + 1 <= k PROVE \E g : Upto(n + 1, g)
    OBVIOUS
  <2>1. PICK g : Upto(n, g)
    BY <1>2
  <2> DEFINE h == [i \in 0..(n + 1) |-> IF i \in 0..n THEN g[i] ELSE step[n + 1][g[n]]]
  <2>2. /\ \A i \in 0..n : h[i] = g[i]
        /\ h[n + 1] = step[n + 1][g[n]]
    OBVIOUS
  <2>3. h = [i \in 0..(n + 1) |-> h[i]]
    OBVIOUS
  <2>4. step[n + 1][g[n]] \in S
    BY <2>1
  <2> HIDE DEF h
  <2>5. h \in [0..(n + 1) -> S]
    <3>1. \A i \in 0..n : h[i] \in S
      BY <2>1, <2>2
    <3>2. \A i \in 0..(n + 1) : h[i] \in S
      BY <3>1, <2>2, <2>4
    <3> QED
      BY <3>2, <2>3
  <2>6. h[0] = start
    BY <2>1, <2>2
  <2>7. \A i \in 1..(n + 1) : h[i] = step[i][h[i - 1]]
    <3> SUFFICES ASSUME NEW i \in 1..(n + 1) PROVE h[i] = step[i][h[i - 1]]
      OBVIOUS
    <3>1. CASE i = n + 1
      <4>1. h[n] = g[n]
        BY <2>2
      <4>2. i - 1 = n
        BY <3>1
      <4>3. h[n + 1] = step[n + 1][h[n]]
        BY <4>1, <2>2
      <4> QED
        BY <3>1, <4>2, <4>3, Zenon
    <3>2. CASE i \in 1..n
      <4>1. h[i] = g[i] /\ h[i - 1] = g[i - 1]
        BY <3>2, <2>2
      <4>2. g[i] = step[i][g[i - 1]]
        BY <3>2, <2>1
      <4> QED
        BY <4>1, <4>2
    <3> QED
      BY <3>1, <3>2
  <2>8. Upto(n + 1, h)
    BY <2>5, <2>6, <2>7
  <2> QED
    BY <2>8
<1>3. k \in T
  <2> HIDE DEF T
  <2> QED
    BY <1>1, <1>2, Induction
<1> QED
  BY <1>3 DEF IsRecursion

-----------------------------------------------------------------------------
(* Lists *)

\* Keep returns the elements that are in the set, no other ones and none twice.
LEMMA KeepElements ==
    ASSUME NEW S, NEW seq \in Seq(S), NEW set
    PROVE  /\ Keep(seq, set) \in Seq(S)
           /\ \A i \in 1..Len(Keep(seq, set)) :
                 Keep(seq, set)[i] \in set /\ Contains(seq, Keep(seq, set)[i])
           /\ \A i \in 1..Len(seq) : seq[i] \in set => Contains(Keep(seq, set), seq[i])
           /\ IsInjective(seq) => IsInjective(Keep(seq, set))
<1> DEFINE n == Len(seq)
           step == [i \in 1..n |-> [kept \in Seq(S) |->
                       IF seq[i] \in set THEN Append(kept, seq[i]) ELSE kept]]
<1>1. n \in Nat /\ <<>> \in Seq(S)
  OBVIOUS
<1>2. step \in [1..n -> [Seq(S) -> Seq(S)]]
  OBVIOUS
<1>3. PICK g : IsRecursion(g, n, Seq(S), <<>>, step)
  <2> HIDE DEF step, n
  <2> QED
    BY <1>1, <1>2, RecursionExists, Zenon
<1>4. /\ g \in [0..n -> Seq(S)] /\ g[0] = <<>>
      /\ \A i \in 1..n : g[i] = IF seq[i] \in set THEN Append(g[i - 1], seq[i]) ELSE g[i - 1]
  <2>1. g \in [0..n -> Seq(S)] /\ g[0] = <<>>
    BY <1>3 DEF IsRecursion
  <2>2. ASSUME NEW i \in 1..n
        PROVE  g[i] = IF seq[i] \in set THEN Append(g[i - 1], seq[i]) ELSE g[i - 1]
    <3>1. g[i] = step[i][g[i - 1]]
      <4> HIDE DEF step
      <4> QED
        BY <1>3 DEF IsRecursion
    <3>2. g[i - 1] \in Seq(S)
      BY <2>1
    <3> QED
      BY <3>1, <3>2
  <2> QED
    BY <2>1, <2>2
<1>5. g = [i \in 0..Len(seq) |-> IF i = 0 THEN <<>>
                                 ELSE IF seq[i] \in set THEN Append(g[i - 1], seq[i]) ELSE g[i - 1]]
  <2>1. \A i \in 0..n : g[i] = IF i = 0 THEN <<>>
                               ELSE IF seq[i] \in set THEN Append(g[i - 1], seq[i]) ELSE g[i - 1]
    <3>1. \A i \in 0..n : i = 0 \/ i \in 1..n
      BY <1>1
    <3> QED
      BY <1>4, <3>1, Zenon
  <2>2. g = [i \in 0..n |-> g[i]]
    BY <1>4
  <2> QED
    BY <2>1, <2>2
<1> DEFINE kept == CHOOSE kept : kept =
                [i \in 0..Len(seq) |-> IF i = 0 THEN <<>>
                                       ELSE IF seq[i] \in set THEN Append(kept[i - 1], seq[i])
                                       ELSE kept[i - 1]]
<1>6. kept = [i \in 0..Len(seq) |-> IF i = 0 THEN <<>>
                                       ELSE IF seq[i] \in set THEN Append(kept[i - 1], seq[i])
                                       ELSE kept[i - 1]]
  BY <1>5, Zenon
<1>7. Keep(seq, set) = kept[n]
  BY Zenon DEF Keep
<1> HIDE DEF kept, step
<1>8. /\ kept[0] = <<>>
      /\ \A i \in 1..n : kept[i] = IF seq[i] \in set THEN Append(kept[i - 1], seq[i]) ELSE kept[i - 1]
  <2>1. /\ 0 \in 0..Len(seq)
        /\ \A i \in 1..n : i \in 0..Len(seq) /\ i # 0
    BY <1>1
  <2>2. \A i \in 0..Len(seq) : kept[i] = IF i = 0 THEN <<>>
                                       ELSE IF seq[i] \in set THEN Append(kept[i - 1], seq[i])
                                       ELSE kept[i - 1]
    BY <1>6, Zenon
  <2> QED
    BY <2>1, <2>2, Zenon
<1> DEFINE T == {i \in Nat : i <= n =>
                   /\ kept[i] \in Seq(S)
                   /\ \A j \in 1..Len(kept[i]) : kept[i][j] \in set /\ \E k \in 1..i : seq[k] = kept[i][j]
                   /\ \A j \in 1..i : seq[j] \in set => \E k \in 1..Len(kept[i]) : kept[i][k] = seq[j]
                   /\ IsInjective(seq) => IsInjective(kept[i])}
<1>9. 0 \in T
  <2>1. kept[0] \in Seq(S) /\ Len(kept[0]) = 0 /\ DOMAIN kept[0] = 1..0
    BY <1>8
  <2>2. IsInjective(kept[0])
    BY <2>1 DEF IsInjective
  <2> QED
    BY <2>1, <2>2
<1>10. ASSUME NEW i \in Nat, i \in T PROVE i + 1 \in T
  <2> SUFFICES ASSUME i + 1 <= n
               PROVE  /\ kept[i + 1] \in Seq(S)
                      /\ \A j \in 1..Len(kept[i + 1]) : kept[i + 1][j] \in set /\ \E k \in 1..(i + 1) : seq[k] = kept[i + 1][j]
                      /\ \A j \in 1..(i + 1) : seq[j] \in set => \E k \in 1..Len(kept[i + 1]) : kept[i + 1][k] = seq[j]
                      /\ IsInjective(seq) => IsInjective(kept[i + 1])
    OBVIOUS
  <2>1. /\ kept[i] \in Seq(S)
        /\ \A j \in 1..Len(kept[i]) : kept[i][j] \in set /\ \E k \in 1..i : seq[k] = kept[i][j]
        /\ \A j \in 1..i : seq[j] \in set => \E k \in 1..Len(kept[i]) : kept[i][k] = seq[j]
        /\ IsInjective(seq) => IsInjective(kept[i])
    BY <1>10
  <2>2. i + 1 \in 1..n /\ seq[i + 1] \in S /\ (i + 1) - 1 = i
    OBVIOUS
  <2> HIDE DEF T, n
  <2>3. CASE seq[i + 1] \notin set
    <3>1. kept[i + 1] = kept[i]
      BY <1>8, <2>2, <2>3
    <3> QED
      BY <2>1, <2>2, <2>3, <3>1
  <2>4. CASE seq[i + 1] \in set
    <3>1. kept[i + 1] = Append(kept[i], seq[i + 1])
      BY <1>8, <2>2, <2>4
    <3>2. /\ kept[i + 1] \in Seq(S) /\ Len(kept[i + 1]) = Len(kept[i]) + 1 /\ Len(kept[i]) \in Nat
          /\ \A j \in 1..Len(kept[i]) : kept[i + 1][j] = kept[i][j]
          /\ kept[i + 1][Len(kept[i]) + 1] = seq[i + 1]
      BY <2>1, <2>2, <3>1
    <3> DEFINE old == kept[i]  new == kept[i + 1]  m == Len(old)
    <3>2a. /\ new \in Seq(S) /\ Len(new) = m + 1 /\ m \in Nat
           /\ \A j \in 1..m : new[j] = old[j]
           /\ new[m + 1] = seq[i + 1]
           /\ \A j \in 1..Len(new) : j \in 1..m \/ j = m + 1
      BY <3>2
    <3>2b. \A j \in 1..(i + 1) : j \in 1..i \/ j = i + 1
      OBVIOUS
    <3>2c. /\ \A j \in 1..m : old[j] \in set /\ \E k \in 1..i : seq[k] = old[j]
           /\ \A j \in 1..i : seq[j] \in set => \E k \in 1..m : old[k] = seq[j]
      BY <2>1
    <3>2d. \A j \in 1..i : j \in 1..(i + 1)
      OBVIOUS
    <3>2e. m + 1 \in 1..Len(new) /\ i + 1 \in 1..(i + 1) /\ \A j \in 1..m : j \in 1..Len(new)
      BY <3>2a
    <3> HIDE DEF old, new, m
    <3>3. \A j \in 1..Len(new) : new[j] \in set /\ \E k \in 1..(i + 1) : seq[k] = new[j]
      BY <2>4, <3>2a, <3>2c, <3>2d, <3>2e, Zenon
    <3>4. \A j \in 1..(i + 1) : seq[j] \in set => \E k \in 1..Len(new) : new[k] = seq[j]
      BY <3>2a, <3>2b, <3>2c, <3>2e, Zenon
    <3>5. IsInjective(seq) => IsInjective(new)
      <4> SUFFICES ASSUME IsInjective(seq), NEW a \in 1..Len(new), NEW b \in 1..Len(new),
                          new[a] = new[b], a # b
                   PROVE  FALSE
        BY <3>2a DEF IsInjective
      <4>1. \A c \in 1..m : old[c] # seq[i + 1]
        BY <3>2c, <2>2 DEF IsInjective, n
      <4>2. \A c, d \in 1..m : old[c] = old[d] => c = d
        BY <2>1 DEF IsInjective, old, m
      <4> QED
        BY <3>2a, <4>1, <4>2
    <3> QED
      BY <3>2, <3>3, <3>4, <3>5 DEF new
  <2> QED
    BY <2>3, <2>4
<1>11. n \in T
  <2> HIDE DEF T
  <2> QED
    BY <1>1, <1>9, <1>10, Induction
<1> QED
  BY <1>7, <1>11 DEF Contains


\* The steps of Joined.
JoinsUp(joined, parts) ==
    /\ Joined(parts) = joined[Len(parts)] /\ joined[0] = <<>>
    /\ \A i \in 1..Len(parts) : joined[i] = joined[i - 1] \o parts[i]

LEMMA JoinedSteps ==
    ASSUME NEW S, NEW parts \in Seq(Seq(S))
    PROVE  \E joined : JoinsUp(joined, parts)
<1> DEFINE n == Len(parts)
           step == [i \in 1..n |-> [joined \in Seq(S) |-> joined \o parts[i]]]
<1>1. n \in Nat /\ <<>> \in Seq(S) /\ \A i \in 1..n : parts[i] \in Seq(S)
  OBVIOUS
<1>2. step \in [1..n -> [Seq(S) -> Seq(S)]]
  <2>1. \A i \in 1..n : \A joined \in Seq(S) : joined \o parts[i] \in Seq(S)
    BY <1>1, ConcatProperties
  <2> QED
    BY <2>1
<1>3. PICK g : IsRecursion(g, n, Seq(S), <<>>, step)
  <2> HIDE DEF step, n
  <2> QED
    BY <1>1, <1>2, RecursionExists, Zenon
<1>4. /\ g \in [0..n -> Seq(S)] /\ g[0] = <<>>
      /\ \A i \in 1..n : g[i] = g[i - 1] \o parts[i]
  <2>1. g \in [0..n -> Seq(S)] /\ g[0] = <<>>
    BY <1>3 DEF IsRecursion
  <2>2. ASSUME NEW i \in 1..n PROVE g[i] = g[i - 1] \o parts[i]
    <3>1. g[i] = step[i][g[i - 1]]
      <4> HIDE DEF step
      <4> QED
        BY <1>3 DEF IsRecursion
    <3>2. i - 1 \in 0..n
      BY <1>1
    <3>3. g[i - 1] \in Seq(S)
      BY <2>1, <3>2
    <3> QED
      BY <3>1, <3>3
  <2> QED
    BY <2>1, <2>2
<1>5. g = [i \in 0..Len(parts) |-> IF i = 0 THEN <<>> ELSE g[i - 1] \o parts[i]]
  <2>1. \A i \in 0..n : g[i] = IF i = 0 THEN <<>> ELSE g[i - 1] \o parts[i]
    <3>1. \A i \in 0..n : i = 0 \/ i \in 1..n
      BY <1>1
    <3> QED
      BY <1>4, <3>1, Zenon
  <2>2. g = [i \in 0..n |-> g[i]]
    BY <1>4
  <2> QED
    BY <2>1, <2>2, Zenon
<1> DEFINE joined == CHOOSE joined : joined =
                [i \in 0..Len(parts) |-> IF i = 0 THEN <<>> ELSE joined[i - 1] \o parts[i]]
<1>6. joined = [i \in 0..Len(parts) |-> IF i = 0 THEN <<>> ELSE joined[i - 1] \o parts[i]]
  BY <1>5, Zenon
<1>7. Joined(parts) = joined[n]
  BY Zenon DEF Joined
<1> HIDE DEF joined, step
<1>8. /\ joined[0] = <<>>
      /\ \A i \in 1..n : joined[i] = joined[i - 1] \o parts[i]
  <2>1. /\ 0 \in 0..Len(parts)
        /\ \A i \in 1..n : i \in 0..Len(parts) /\ i # 0
    BY <1>1
  <2>2. \A i \in 0..Len(parts) : joined[i] = IF i = 0 THEN <<>> ELSE joined[i - 1] \o parts[i]
    BY <1>6, Zenon
  <2> QED
    BY <2>1, <2>2, Zenon
<1> QED
  BY <1>7, <1>8 DEF JoinsUp

\* Joined returns the elements of its parts and no other ones.
LEMMA JoinedElements ==
    ASSUME NEW S, NEW parts \in Seq(Seq(S))
    PROVE  /\ Joined(parts) \in Seq(S)
           /\ \A i \in 1..Len(Joined(parts)) :
                 \E k \in 1..Len(parts) : Contains(parts[k], Joined(parts)[i])
           /\ \A k \in 1..Len(parts) : \A j \in 1..Len(parts[k]) :
                 Contains(Joined(parts), parts[k][j])
<1> DEFINE n == Len(parts)
<1>1. n \in Nat /\ <<>> \in Seq(S) /\ \A i \in 1..n : parts[i] \in Seq(S)
  OBVIOUS
<1>2. PICK joined : JoinsUp(joined, parts)
  BY JoinedSteps
<1>7. Joined(parts) = joined[n]
  BY <1>2 DEF JoinsUp
<1>8. /\ joined[0] = <<>>
      /\ \A i \in 1..n : joined[i] = joined[i - 1] \o parts[i]
  BY <1>2 DEF JoinsUp
<1> DEFINE Upto(i) ==
               /\ joined[i] \in Seq(S)
               /\ \A j \in 1..Len(joined[i]) :
                     \E k \in 1..i : \E l \in 1..Len(parts[k]) : parts[k][l] = joined[i][j]
               /\ \A k \in 1..i : \A l \in 1..Len(parts[k]) :
                     \E j \in 1..Len(joined[i]) : joined[i][j] = parts[k][l]
           T == {i \in Nat : i <= n => Upto(i)}
<1>9. 0 \in T
  <2>1. joined[0] \in Seq(S) /\ Len(joined[0]) = 0
    BY <1>8
  <2> QED
    BY <2>1
<1>10. ASSUME NEW i \in Nat, i \in T PROVE i + 1 \in T
  <2> SUFFICES ASSUME i + 1 <= n PROVE Upto(i + 1)
    OBVIOUS
  <2>1. Upto(i)
    BY <1>10
  <2>2. i + 1 \in 1..n /\ parts[i + 1] \in Seq(S) /\ (i + 1) - 1 = i
    BY <1>1
  <2> HIDE DEF T, n
  <2> DEFINE old == joined[i]  next == parts[i + 1]  new == joined[i + 1]
  <2>3. new = old \o next
    BY <1>8, <2>2
  <2>4. /\ new \in Seq(S) /\ Len(old) \in Nat /\ Len(next) \in Nat
        /\ Len(new) = Len(old) + Len(next)
        /\ \A j \in 1..Len(new) : new[j] = IF j <= Len(old) THEN old[j] ELSE next[j - Len(old)]
    <3>1. old \in Seq(S) /\ next \in Seq(S)
      BY <2>1, <2>2
    <3> HIDE DEF old, next, new
    <3>2. /\ new \in Seq(S) /\ Len(new) = Len(old) + Len(next)
          /\ \A j \in 1..(Len(old) + Len(next)) :
                 new[j] = IF j <= Len(old) THEN old[j] ELSE next[j - Len(old)]
      BY <2>3, <3>1, ConcatProperties, Zenon
    <3> QED
      BY <3>1, <3>2
  <2>5. /\ \A j \in 1..Len(old) : j \in 1..Len(new) /\ new[j] = old[j]
        /\ \A l \in 1..Len(next) : /\ Len(old) + l \in 1..Len(new)
                                   /\ new[Len(old) + l] = next[l]
        /\ \A j \in 1..Len(new) : \/ j \in 1..Len(old) /\ new[j] = old[j]
                                  \/ \E l \in 1..Len(next) : new[j] = next[l]
    <3> HIDE DEF old, next, new
    <3>1. \A j \in 1..Len(old) : j \in 1..Len(new) /\ new[j] = old[j]
      BY <2>4
    <3>2. ASSUME NEW l \in 1..Len(next)
          PROVE  Len(old) + l \in 1..Len(new) /\ new[Len(old) + l] = next[l]
      <4>1. /\ Len(old) + l \in 1..Len(new) /\ ~(Len(old) + l <= Len(old))
            /\ (Len(old) + l) - Len(old) = l
        BY <2>4
      <4> QED
        BY <2>4, <4>1
    <3>3. ASSUME NEW j \in 1..Len(new), j \notin 1..Len(old)
          PROVE  \E l \in 1..Len(next) : new[j] = next[l]
      <4>1. j - Len(old) \in 1..Len(next) /\ new[j] = next[j - Len(old)]
        BY <2>4, <3>3
      <4> QED
        BY <4>1
    <3> QED
      BY <3>1, <3>2, <3>3
  <2>6. \A k \in 1..(i + 1) : k \in 1..i \/ k = i + 1
    OBVIOUS
  <2>7. i + 1 \in 1..(i + 1) /\ \A k \in 1..i : k \in 1..(i + 1)
    OBVIOUS
  <2>8. /\ \A j \in 1..Len(old) : \E k \in 1..i : \E l \in 1..Len(parts[k]) : parts[k][l] = old[j]
        /\ \A k \in 1..i : \A l \in 1..Len(parts[k]) : \E j \in 1..Len(old) : old[j] = parts[k][l]
    BY <2>1
  <2>9. next = parts[i + 1]
    OBVIOUS
  <2> HIDE DEF old, next, new
  <2>10. ASSUME NEW j \in 1..Len(new)
         PROVE  \E k \in 1..(i + 1) : \E l \in 1..Len(parts[k]) : parts[k][l] = new[j]
    <3>1. CASE j \in 1..Len(old) /\ new[j] = old[j]
      <4>1. PICK k \in 1..i : \E l \in 1..Len(parts[k]) : parts[k][l] = old[j]
        BY <2>8, <3>1, Zenon
      <4>2. k \in 1..(i + 1)
        BY <2>7
      <4> QED
        BY <4>1, <4>2, <3>1, Zenon
    <3>2. CASE \E l \in 1..Len(next) : new[j] = next[l]
      <4>1. i + 1 \in 1..(i + 1) /\ \E l \in 1..Len(parts[i + 1]) : parts[i + 1][l] = new[j]
        BY <2>7, <2>9, <3>2
      <4> QED
        BY <4>1, Zenon
    <3> QED
      BY <2>5, <3>1, <3>2
  <2>11. ASSUME NEW k \in 1..(i + 1), NEW l \in 1..Len(parts[k])
         PROVE  \E j \in 1..Len(new) : new[j] = parts[k][l]
    <3>1. CASE k \in 1..i
      <4>1. PICK j \in 1..Len(old) : old[j] = parts[k][l]
        BY <2>8, <3>1
      <4> QED
        BY <2>5, <4>1
    <3>2. CASE k = i + 1
      BY <2>5, <2>9, <3>2
    <3> QED
      BY <2>6, <3>1, <3>2
  <2> QED
    BY <2>4, <2>10, <2>11 DEF new
<1>11. n \in T
  <2> HIDE DEF T
  <2> QED
    BY <1>1, <1>9, <1>10, Induction
<1>12. Upto(n)
  <2>1. n <= n
    BY <1>1
  <2> HIDE DEF Upto
  <2> QED
    BY <1>11, <2>1
<1> HIDE DEF n
<1> DEFINE all == joined[n]
<1>13. /\ \A j \in 1..Len(all) : \E k \in 1..n : \E l \in 1..Len(parts[k]) : parts[k][l] = all[j]
       /\ \A k \in 1..n : \A l \in 1..Len(parts[k]) : \E j \in 1..Len(all) : all[j] = parts[k][l]
       /\ all \in Seq(S) /\ Joined(parts) = all
  BY <1>7, <1>12
<1> HIDE DEF all
<1> QED
  BY <1>13 DEF n, Contains

\* Functions over places are sequences, and so are sequences of them.
LEMMA SequencesOf ==
    ASSUME NEW Element, NEW n \in Nat, NEW parts, DOMAIN parts = 1..n,
           parts = [k \in 1..n |-> parts[k]],
           \A k \in 1..n : \E size \in Nat : parts[k] \in [1..size -> Element]
    PROVE  parts \in Seq(Seq(Element)) /\ Len(parts) = n
<1>1. \A k \in 1..n : parts[k] \in Seq(Element)
  OBVIOUS
<1> DEFINE S == Seq(Element)
<1>2. \A k \in 1..n : parts[k] \in S
  BY <1>1
<1> HIDE DEF S
<1>3. parts \in [1..n -> S]
  BY <1>2
<1>4. parts \in Seq(S)
  BY <1>3
<1>5. Len(parts) = n
  BY <1>3, <1>4, LenProperties
<1> QED
  BY <1>4, <1>5 DEF S

\* Which part each element of a list comes from, and from which place of it: in their order.
Located(parts, k, seq, part, place) ==
    /\ part \in [1..Len(seq) -> Nat] /\ place \in [1..Len(seq) -> Nat]
    /\ \A i \in 1..Len(seq) : /\ part[i] \in 1..k /\ place[i] \in 1..Len(parts[part[i]])
                              /\ seq[i] = parts[part[i]][place[i]]
    /\ \A i, j \in 1..Len(seq) : i < j =>
          part[i] < part[j] \/ (part[i] = part[j] /\ place[i] < place[j])

\* One part more.
LEMMA LocatedNext ==
    ASSUME NEW S, NEW parts, NEW k \in Nat, NEW old \in Seq(S), NEW part, NEW place,
           Located(parts, k, old, part, place), parts[k + 1] \in Seq(S)
    PROVE  \E part2, place2 : Located(parts, k + 1, old \o parts[k + 1], part2, place2)
<1> DEFINE next == parts[k + 1]
           new == old \o next
           m == Len(old)
           n == Len(new)
           part2 == [i \in 1..n |-> IF i <= m THEN part[i] ELSE k + 1]
           place2 == [i \in 1..n |-> IF i <= m THEN place[i] ELSE i - m]
<1>1. /\ m \in Nat /\ Len(next) \in Nat /\ n = m + Len(next)
      /\ \A i \in 1..n : new[i] = IF i <= m THEN old[i] ELSE next[i - m]
  BY ConcatProperties, LenProperties
<1> HIDE DEF new, n, m
<1>2. \A i \in 1..n : \/ i \in 1..m /\ part2[i] = part[i] /\ place2[i] = place[i] /\ new[i] = old[i]
                      \/ /\ i \notin 1..m /\ part2[i] = k + 1 /\ place2[i] = i - m
                         /\ new[i] = next[i - m] /\ i - m \in 1..Len(next)
  BY <1>1
<1>3. /\ \A i \in 1..m : /\ part[i] \in 1..k /\ place[i] \in Nat
                         /\ place[i] \in 1..Len(parts[part[i]])
                         /\ old[i] = parts[part[i]][place[i]]
      /\ \A i, j \in 1..m : i < j =>
            part[i] < part[j] \/ (part[i] = part[j] /\ place[i] < place[j])
  BY DEF Located, m
<1>4. part2 = [i \in 1..n |-> part2[i]] /\ place2 = [i \in 1..n |-> place2[i]]
  OBVIOUS
<1> HIDE DEF part2, place2
<1>5. \A i \in 1..n : part2[i] \in Nat /\ place2[i] \in Nat
  <2> SUFFICES ASSUME NEW i \in 1..n PROVE part2[i] \in Nat /\ place2[i] \in Nat
    OBVIOUS
  <2>1. CASE i \in 1..m /\ part2[i] = part[i] /\ place2[i] = place[i]
    <3>1. part[i] \in Nat /\ place[i] \in Nat
      BY <1>3, <2>1
    <3> QED
      BY <2>1, <3>1
  <2>2. CASE part2[i] = k + 1 /\ place2[i] = i - m /\ i - m \in 1..Len(next)
    BY <1>1, <2>2
  <2> QED
    BY <1>2, <2>1, <2>2
<1>6. part2 \in [1..n -> Nat] /\ place2 \in [1..n -> Nat]
  BY <1>4, <1>5
<1>7. ASSUME NEW i \in 1..n
      PROVE  /\ part2[i] \in 1..(k + 1) /\ place2[i] \in 1..Len(parts[part2[i]])
             /\ new[i] = parts[part2[i]][place2[i]]
  <2>1. CASE i \in 1..m /\ part2[i] = part[i] /\ place2[i] = place[i] /\ new[i] = old[i]
    BY <1>3, <2>1
  <2>2. CASE part2[i] = k + 1 /\ place2[i] = i - m /\ new[i] = next[i - m] /\ i - m \in 1..Len(next)
    <3>1. parts[part2[i]] = next
      BY <2>2
    <3> QED
      BY <2>2, <3>1
  <2> QED
    BY <1>2, <2>1, <2>2
<1>8. ASSUME NEW i \in 1..n, NEW j \in 1..n, i < j
      PROVE  part2[i] < part2[j] \/ (part2[i] = part2[j] /\ place2[i] < place2[j])
  BY <1>1, <1>2, <1>3, <1>8
<1>9. Located(parts, k + 1, new, part2, place2)
  BY <1>6, <1>7, <1>8 DEF Located, n
<1> QED
  BY <1>9 DEF new

\* Each element of joined parts has a place of its own in one of them.
LEMMA JoinedPlaces ==
    ASSUME NEW S, NEW parts \in Seq(Seq(S))
    PROVE  \E part, place : Located(parts, Len(parts), Joined(parts), part, place)
<1> DEFINE n == Len(parts)
<1>1. n \in Nat /\ \A i \in 1..n : parts[i] \in Seq(S)
  OBVIOUS
<1>2. PICK joined : JoinsUp(joined, parts)
  BY JoinedSteps
<1>3. /\ Joined(parts) = joined[n] /\ joined[0] = <<>>
      /\ \A i \in 1..n : joined[i] = joined[i - 1] \o parts[i]
  BY <1>2 DEF JoinsUp
<1> HIDE DEF n
<1> DEFINE T == {i \in Nat : i <= n => /\ joined[i] \in Seq(S)
                                       /\ \E part, place : Located(parts, i, joined[i], part, place)}
<1>4. 0 \in T
  <2>1. Located(parts, 0, <<>>, [i \in 1..0 |-> 0], [i \in 1..0 |-> 0])
    <3>1. Len(<<>>) = 0 /\ 1..0 = {}
      OBVIOUS
    <3> QED
      BY <3>1 DEF Located
  <2>2. joined[0] \in Seq(S)
    BY <1>3
  <2> QED
    BY <1>3, <2>1, <2>2
<1>5. ASSUME NEW i \in Nat, i \in T PROVE i + 1 \in T
  <2> SUFFICES ASSUME i + 1 <= n
               PROVE  /\ joined[i + 1] \in Seq(S)
                      /\ \E part, place : Located(parts, i + 1, joined[i + 1], part, place)
    OBVIOUS
  <2>1. i + 1 \in 1..n /\ i <= n /\ (i + 1) - 1 = i
    BY <1>1
  <2>2. joined[i] \in Seq(S) /\ \E part, place : Located(parts, i, joined[i], part, place)
    BY <1>5, <2>1
  <2>3. joined[i + 1] = joined[i] \o parts[i + 1] /\ parts[i + 1] \in Seq(S)
    BY <1>1, <1>3, <2>1
  <2>4. joined[i + 1] \in Seq(S)
    BY <2>2, <2>3, ConcatProperties
  <2>5. PICK part, place : Located(parts, i, joined[i], part, place)
    BY <2>2
  <2>6. \E part2, place2 : Located(parts, i + 1, joined[i] \o parts[i + 1], part2, place2)
    BY <2>2, <2>3, <2>5, LocatedNext
  <2> QED
    BY <2>3, <2>4, <2>6
<1>6. n \in T
  <2> HIDE DEF T
  <2> QED
    BY <1>1, <1>4, <1>5, Induction
<1> QED
  BY <1>1, <1>3, <1>6 DEF n

\* A sum of numbers that are not negative is zero when they all are, and only then.
LEMMA TotalIs ==
    ASSUME NEW values \in Seq(Nat)
    PROVE  /\ Total(values) \in Nat
           /\ Total(values) = 0 <=> \A i \in 1..Len(values) : values[i] = 0
<1> DEFINE n == Len(values)
           step == [i \in 1..n |-> [t \in Nat |-> t + values[i]]]
<1>1. n \in Nat /\ \A i \in 1..n : values[i] \in Nat
  OBVIOUS
<1>2. step \in [1..n -> [Nat -> Nat]]
  <2> HIDE DEF n
  <2> QED
    BY <1>1
<1>3. PICK g : IsRecursion(g, n, Nat, 0, step)
  <2> HIDE DEF step, n
  <2> QED
    BY <1>1, <1>2, RecursionExists
<1>4. /\ g \in [0..n -> Nat] /\ g[0] = 0
      /\ \A i \in 1..n : g[i] = g[i - 1] + values[i]
  <2>1. g \in [0..n -> Nat] /\ g[0] = 0
    BY <1>3 DEF IsRecursion
  <2>2. ASSUME NEW i \in 1..n PROVE g[i] = g[i - 1] + values[i]
    <3>1. g[i] = step[i][g[i - 1]]
      <4> HIDE DEF step
      <4> QED
        BY <1>3 DEF IsRecursion
    <3>2. i - 1 \in 0..n
      BY <1>1
    <3>3. g[i - 1] \in Nat
      BY <2>1, <3>2
    <3> QED
      BY <3>1, <3>3
  <2> QED
    BY <2>1, <2>2
<1>5. g = [i \in 0..Len(values) |-> IF i = 0 THEN 0 ELSE g[i - 1] + values[i]]
  <2>1. \A i \in 0..n : g[i] = IF i = 0 THEN 0 ELSE g[i - 1] + values[i]
    <3>1. \A i \in 0..n : i = 0 \/ i \in 1..n
      BY <1>1
    <3> QED
      BY <1>4, <3>1
  <2>2. g = [i \in 0..n |-> g[i]]
    BY <1>4
  <2> QED
    BY <2>1, <2>2, Zenon
<1> DEFINE total == CHOOSE total : total = [i \in 0..Len(values) |->
                IF i = 0 THEN 0 ELSE total[i - 1] + values[i]]
<1>6. total = [i \in 0..Len(values) |-> IF i = 0 THEN 0 ELSE total[i - 1] + values[i]]
  BY <1>5, Zenon
<1>7. Total(values) = total[n]
  BY DEF Total
<1> HIDE DEF total, step
<1>8. total[0] = 0 /\ \A i \in 1..n : total[i] = total[i - 1] + values[i]
  <2>1. 0 \in 0..Len(values) /\ \A i \in 1..n : i \in 0..Len(values) /\ i # 0
    BY <1>1
  <2>2. \A i \in 0..Len(values) : total[i] = IF i = 0 THEN 0 ELSE total[i - 1] + values[i]
    BY <1>6, Zenon
  <2> QED
    BY <2>1, <2>2, Zenon
<1> DEFINE T == {i \in Nat : i <= n => /\ total[i] \in Nat
                                       /\ total[i] = 0 <=> \A k \in 1..i : values[k] = 0}
<1>9. 0 \in T
  BY <1>8
<1>10. ASSUME NEW i \in Nat, i \in T PROVE i + 1 \in T
  <2> SUFFICES ASSUME i + 1 <= n
               PROVE  /\ total[i + 1] \in Nat
                      /\ total[i + 1] = 0 <=> \A k \in 1..(i + 1) : values[k] = 0
    OBVIOUS
  <2>1. /\ i + 1 \in 1..n /\ (i + 1) - 1 = i
        /\ total[i] \in Nat
        /\ total[i] = 0 <=> \A k \in 1..i : values[k] = 0
    BY <1>1, <1>10
  <2>2. total[i + 1] = total[i] + values[i + 1] /\ values[i + 1] \in Nat
    BY <1>1, <1>8, <2>1
  <2>3. (\A k \in 1..(i + 1) : values[k] = 0) <=>
            (\A k \in 1..i : values[k] = 0) /\ values[i + 1] = 0
    <3>1. \A k : k \in 1..(i + 1) <=> k \in 1..i \/ k = i + 1
      OBVIOUS
    <3> QED
      BY <3>1, Zenon
  <2>4. total[i + 1] \in Nat /\ (total[i + 1] = 0 <=> total[i] = 0 /\ values[i + 1] = 0)
    BY <2>1, <2>2
  <2>5. total[i + 1] = 0 <=> \A k \in 1..(i + 1) : values[k] = 0
    BY <2>1, <2>3, <2>4, Zenon
  <2> QED
    BY <2>4, <2>5
<1>11. \A i \in Nat : i \in T
  <2> HIDE DEF T
  <2> QED
    BY <1>9, <1>10, Induction
<1> QED
  BY <1>1, <1>7, <1>11

-----------------------------------------------------------------------------
(* Finite sets *)

\* The order in which a strict total order puts the elements of a finite set.
StrictOrder(S, before) ==
    /\ \A x \in S : <<x, x>> \notin before
    /\ \A x, y \in S : x # y => <<x, y>> \in before \/ <<y, x>> \in before
    /\ \A x, y, z \in S : <<x, y>> \in before /\ <<y, z>> \in before => <<x, z>> \in before

LEMMA OrderedElements ==
    ASSUME NEW S, IsFiniteSet(S), NEW before, StrictOrder(S, before)
    PROVE  /\ Ordered(S, before) \in [1..Cardinality(S) -> S]
           /\ \A x \in S : \E i \in 1..Cardinality(S) : Ordered(S, before)[i] = x
           /\ \A i, j \in 1..Cardinality(S) :
                 i < j => <<Ordered(S, before)[i], Ordered(S, before)[j]>> \in before
<1> DEFINE n == Cardinality(S)
           Below(x) == {y \in S : <<y, x>> \in before}
           rank == [x \in S |-> Cardinality(Below(x)) + 1]
<1>1. n \in Nat
  BY FS_CardinalityType
<1>2. \A x \in S : IsFiniteSet(Below(x)) /\ Cardinality(Below(x)) \in 0..(n - 1)
  <2> SUFFICES ASSUME NEW x \in S
               PROVE  IsFiniteSet(Below(x)) /\ Cardinality(Below(x)) \in 0..(n - 1)
    OBVIOUS
  <2>1. Below(x) \in SUBSET (S \ {x})
    BY DEF StrictOrder
  <2>2. IsFiniteSet(S \ {x}) /\ Cardinality(S \ {x}) = n - 1
    BY FS_RemoveElement
  <2>3. IsFiniteSet(Below(x)) /\ Cardinality(Below(x)) <= Cardinality(S \ {x})
    BY <2>1, <2>2, FS_Subset
  <2>4. Cardinality(Below(x)) \in Nat
    BY <2>3, FS_CardinalityType
  <2> HIDE DEF Below, n
  <2> QED
    BY <2>2, <2>3, <2>4, <1>1
<1>3. \A x, y \in S : <<x, y>> \in before => rank[x] < rank[y]
  <2> SUFFICES ASSUME NEW x \in S, NEW y \in S, <<x, y>> \in before
               PROVE  rank[x] < rank[y]
    OBVIOUS
  <2>1. Below(x) \in SUBSET Below(y) /\ x \in Below(y) /\ x \notin Below(x)
    BY DEF StrictOrder
  <2> HIDE DEF Below
  <2>2. Cardinality(Below(x)) <= Cardinality(Below(y)) /\ Cardinality(Below(x)) # Cardinality(Below(y))
    BY <1>2, <2>1, FS_Subset
  <2> QED
    BY <1>2, <2>2
<1>4. rank \in [S -> 1..n]
  <2> HIDE DEF Below, n
  <2> QED
    BY <1>1, <1>2
<1>5. \A x \in S : rank[x] = Cardinality(Below(x)) + 1 /\ Cardinality(Below(x)) \in Int
  BY <1>2
<1>6. Ordered(S, before) = [i \in 1..n |-> CHOOSE x \in S : Cardinality(Below(x)) = i - 1]
  BY DEF Ordered
<1> HIDE DEF rank, Below
<1>7. \A x, y \in S : rank[x] = rank[y] => x = y
  <2>1. \A x \in S : rank[x] \in Int
    BY <1>4
  <2>2. \A x, y \in S : x # y => rank[x] < rank[y] \/ rank[y] < rank[x]
    BY <1>3 DEF StrictOrder
  <2> QED
    BY <2>1, <2>2
<1>8. rank \in Surjection(S, 1..n)
  <2>1. rank \in Injection(S, 1..n)
    BY <1>4, <1>7 DEF Injection, IsInjective
  <2>2. IsFiniteSet(1..n) /\ Cardinality(1..n) = n
    BY <1>1, FS_Interval
  <2> HIDE DEF n
  <2>3. Cardinality(S) = Cardinality(1..n)
    BY <2>2 DEF n
  <2> QED
    BY <2>1, <2>2, <2>3, FS_Injection
<1>9. \A i \in 1..n : \E x \in S : rank[x] = i
  BY <1>8 DEF Surjection
<1>10. \A i \in 1..n : Ordered(S, before)[i] \in S /\ rank[Ordered(S, before)[i]] = i
  <2> SUFFICES ASSUME NEW i \in 1..n
               PROVE  Ordered(S, before)[i] \in S /\ rank[Ordered(S, before)[i]] = i
    OBVIOUS
  <2>1. \E x \in S : Cardinality(Below(x)) = i - 1
    BY <1>5, <1>9
  <2>2. Ordered(S, before)[i] = CHOOSE x \in S : Cardinality(Below(x)) = i - 1
    BY <1>6
  <2> QED
    BY <1>5, <2>1, <2>2
<1>11. Ordered(S, before) \in [1..n -> S]
  BY <1>6, <1>10
<1>12. \A x \in S : \E i \in 1..n : Ordered(S, before)[i] = x
  BY <1>4, <1>7, <1>10
<1>13. \A i, j \in 1..n : i < j => <<Ordered(S, before)[i], Ordered(S, before)[j]>> \in before
  <2> SUFFICES ASSUME NEW i \in 1..n, NEW j \in 1..n, i < j
               PROVE  <<Ordered(S, before)[i], Ordered(S, before)[j]>> \in before
    OBVIOUS
  <2> DEFINE x == Ordered(S, before)[i]
             y == Ordered(S, before)[j]
  <2>1. x \in S /\ y \in S /\ rank[x] = i /\ rank[y] = j
    BY <1>10
  <2> HIDE DEF x, y
  <2>2. x # y /\ ~ (rank[y] < rank[x])
    BY <2>1
  <2>3. <<y, x>> \notin before
    BY <1>3, <2>1, <2>2
  <2>4. <<x, y>> \in before
    BY <2>1, <2>2, <2>3 DEF StrictOrder
  <2> QED
    BY <2>4 DEF x, y
<1> QED
  BY <1>11, <1>12, <1>13

\* The greatest element of a finite set of numbers.
LEMMA HighestExists ==
    ASSUME NEW S, S \subseteq Int, IsFiniteSet(S), S # {}
    PROVE  \E x \in S : \A y \in S : y <= x
<1> DEFINE before == {p \in Int \X Int : p[1] < p[2]}
           o == Ordered(S, before)
           n == Cardinality(S)
<1>1. StrictOrder(S, before)
  BY DEF StrictOrder
<1>2. n \in Nat
  BY FS_CardinalityType
<1>3. \A a, b \in Int : <<a, b>> \in before <=> a < b
  OBVIOUS
<1> HIDE DEF before
<1>4. /\ o \in [1..n -> S]
      /\ \A x \in S : \E i \in 1..n : o[i] = x
      /\ \A i, j \in 1..n : i < j => <<o[i], o[j]>> \in before
  BY <1>1, OrderedElements
<1> HIDE DEF o, n
<1>5. n \in 1..n
  <2>1. PICK x : x \in S
    OBVIOUS
  <2>2. PICK i \in 1..n : o[i] = x
    BY <1>4, <2>1
  <2> QED
    BY <1>2, <2>2
<1>6. \A i \in 1..n : o[i] <= o[n]
  <2> SUFFICES ASSUME NEW i \in 1..n PROVE o[i] <= o[n]
    OBVIOUS
  <2>1. o[i] \in Int /\ o[n] \in Int
    BY <1>4, <1>5
  <2>2. i < n => <<o[i], o[n]>> \in before
    BY <1>4, <1>5
  <2> QED
    BY <1>2, <1>3, <2>1, <2>2
<1> QED
  BY <1>4, <1>5, <1>6

\* Listed returns the elements of the set, each once.
LEMMA ListedElements ==
    ASSUME NEW S, IsFiniteSet(S)
    PROVE  /\ Listed(S) \in Seq(S) /\ Len(Listed(S)) = Cardinality(S)
           /\ \A i, j \in 1..Len(Listed(S)) : Listed(S)[i] = Listed(S)[j] => i = j
           /\ \A x \in S : \E i \in 1..Len(Listed(S)) : Listed(S)[i] = x
<1> DEFINE n == Cardinality(S)
           Rest(seq, i) == S \ {seq[j] : j \in 1..(i - 1)}
           Pick(seq, i) == CHOOSE x \in Rest(seq, i) : TRUE
           Other == CHOOSE x \in {} : TRUE
           V == S \cup {Other}
           step == [i \in 1..n |-> [t \in Seq(V) |-> Append(t, Pick(t, i))]]
<1>1. n \in Nat
  BY FS_CardinalityType
<1>2. \A t, i : Pick(t, i) \in V
  <2> SUFFICES ASSUME NEW t, NEW i PROVE Pick(t, i) \in V
    OBVIOUS
  <2>1. CASE Rest(t, i) = {}
    BY <2>1
  <2>2. CASE Rest(t, i) # {}
    BY <2>2
  <2> QED
    BY <2>1, <2>2
<1>3. step \in [1..n -> [Seq(V) -> Seq(V)]]
  <2> HIDE DEF n, V, Pick
  <2>1. \A i \in 1..n : \A t \in Seq(V) : Append(t, Pick(t, i)) \in Seq(V)
    BY <1>2, AppendProperties
  <2> QED
    BY <2>1
<1>4. PICK g : IsRecursion(g, n, Seq(V), <<>>, step)
  <2>1. <<>> \in Seq(V)
    OBVIOUS
  <2> HIDE DEF step, n, V
  <2> QED
    BY <1>1, <1>3, <2>1, RecursionExists
<1>5. /\ g \in [0..n -> Seq(V)] /\ g[0] = <<>>
      /\ \A i \in 1..n : g[i] = Append(g[i - 1], Pick(g[i - 1], i))
  <2>1. g \in [0..n -> Seq(V)] /\ g[0] = <<>>
    BY <1>4 DEF IsRecursion
  <2>2. ASSUME NEW i \in 1..n PROVE g[i] = Append(g[i - 1], Pick(g[i - 1], i))
    <3>1. g[i] = step[i][g[i - 1]]
      <4> HIDE DEF step
      <4> QED
        BY <1>4 DEF IsRecursion
    <3>2. i - 1 \in 0..n
      BY <1>1
    <3>3. g[i - 1] \in Seq(V)
      BY <2>1, <3>2
    <3> HIDE DEF Pick, V
    <3> QED
      BY <3>1, <3>3
  <2> QED
    BY <2>1, <2>2
<1> HIDE DEF Pick, V, step
<1>6. g = [i \in 0..Cardinality(S) |-> IF i = 0 THEN <<>> ELSE Append(g[i - 1], Pick(g[i - 1], i))]
  <2>1. \A i \in 0..n : g[i] = IF i = 0 THEN <<>> ELSE Append(g[i - 1], Pick(g[i - 1], i))
    <3>1. \A i \in 0..n : i = 0 \/ i \in 1..n
      BY <1>1
    <3> QED
      BY <1>5, <3>1, Zenon
  <2>2. g = [i \in 0..n |-> g[i]]
    BY <1>5
  <2> QED
    BY <2>1, <2>2, Zenon
<1> DEFINE listed == CHOOSE listed : listed = [i \in 0..Cardinality(S) |->
               IF i = 0 THEN <<>> ELSE Append(listed[i - 1], Pick(listed[i - 1], i))]
<1>7. listed = [i \in 0..Cardinality(S) |->
                   IF i = 0 THEN <<>> ELSE Append(listed[i - 1], Pick(listed[i - 1], i))]
  BY <1>6, Zenon
<1>8. Listed(S) = listed[n]
  BY Zenon DEF Listed, Pick
<1> HIDE DEF listed, n
<1>9. /\ listed[0] = <<>>
      /\ \A i \in 1..n : listed[i] = Append(listed[i - 1], Pick(listed[i - 1], i))
  <2>1. 0 \in 0..n /\ \A i \in 1..n : i \in 0..n /\ i # 0
    BY <1>1
  <2>2. \A i \in 0..n : listed[i] =
           IF i = 0 THEN <<>> ELSE Append(listed[i - 1], Pick(listed[i - 1], i))
    BY <1>7, Zenon DEF n
  <2> QED
    BY <2>1, <2>2, Zenon
<1> DEFINE Each(seq, i) ==
               /\ seq \in Seq(S) /\ Len(seq) = i
               /\ \A j, k \in 1..i : seq[j] = seq[k] => j = k
               /\ IsFiniteSet({seq[j] : j \in 1..i}) /\ Cardinality({seq[j] : j \in 1..i}) = i
           T == {i \in Nat : i <= n => Each(listed[i], i)}
<1>10. 0 \in T
  <2>1. {<<>>[j] : j \in 1..0} = {}
    OBVIOUS
  <2>2. Each(<<>>, 0)
    BY <2>1, FS_EmptySet
  <2> HIDE DEF Each
  <2> QED
    BY <1>9, <2>2
<1>11. ASSUME NEW i \in Nat, i \in T PROVE i + 1 \in T
  <2> SUFFICES ASSUME i + 1 <= n PROVE Each(listed[i + 1], i + 1)
    OBVIOUS
  <2> DEFINE old == listed[i]
             had == {old[j] : j \in 1..i}
             x == Pick(old, i + 1)
             new == Append(old, x)
  <2>1. i + 1 \in 1..n /\ i <= n /\ (i + 1) - 1 = i
    BY <1>1
  <2>2. Each(old, i)
    BY <1>11, <2>1
  <2>3. listed[i + 1] = new
    BY <1>9, <2>1
  <2> HIDE DEF T, old
  <2>4. had \subseteq S /\ IsFiniteSet(had) /\ Cardinality(had) = i
    BY <2>2
  <2>5. S \ had # {}
    <3>1. had # S
      <4> HIDE DEF had
      <4> QED
        BY <1>1, <2>1, <2>4 DEF n
    <3> QED
      BY <2>4, <3>1
  <2>6. x \in S \ had
    <3>1. x = CHOOSE y \in S \ had : TRUE
      BY <2>1 DEF Pick
    <3> HIDE DEF x, had
    <3> QED
      BY <2>5, <3>1
  <2> HIDE DEF x
  <2>7. /\ new \in Seq(S) /\ Len(new) = i + 1 /\ new[i + 1] = x
        /\ \A j \in 1..i : new[j] = old[j]
    BY <2>2, <2>6, AppendProperties
  <2> HIDE DEF new
  <2>8. \A j \in 1..(i + 1) : j \in 1..i \/ j = i + 1
    OBVIOUS
  <2>9. \A j \in 1..i : new[j] \in had
    BY <2>7
  <2>10. \A j, k \in 1..(i + 1) : new[j] = new[k] => j = k
    BY <2>2, <2>6, <2>7, <2>8, <2>9
  <2>11. {new[j] : j \in 1..(i + 1)} = had \cup {x}
    <3>1. \A j \in 1..(i + 1) : new[j] \in had \cup {x}
      BY <2>7, <2>8, <2>9
    <3>2. \A j \in 1..i : j \in 1..(i + 1) /\ new[j] = old[j]
      BY <2>7
    <3>3. i + 1 \in 1..(i + 1)
      OBVIOUS
    <3> QED
      BY <2>7, <3>1, <3>2, <3>3
  <2>12. IsFiniteSet(had \cup {x}) /\ Cardinality(had \cup {x}) = i + 1
    <3> HIDE DEF had
    <3> QED
      BY <2>4, <2>6, FS_AddElement
  <2>13. Each(new, i + 1)
    <3>1. /\ IsFiniteSet({new[j] : j \in 1..(i + 1)})
          /\ Cardinality({new[j] : j \in 1..(i + 1)}) = i + 1
      BY <2>11, <2>12
    <3> QED
      BY <2>7, <2>10, <3>1
  <2> HIDE DEF Each
  <2> QED
    BY <2>3, <2>13
<1>12. Each(listed[n], n)
  <2>1. n \in T
    <3> HIDE DEF T
    <3> QED
      BY <1>1, <1>10, <1>11, Induction
  <2> QED
    BY <1>1, <2>1
<1>13. \A x \in S : \E i \in 1..n : listed[n][i] = x
  <2> DEFINE had == {listed[n][j] : j \in 1..n}
  <2>1. had \subseteq S /\ Cardinality(had) = Cardinality(S)
    BY <1>12 DEF n
  <2>2. had = S
    <3> HIDE DEF had
    <3> QED
      BY <2>1, FS_Subset
  <2> QED
    BY <2>2
<1> QED
  BY <1>8, <1>12, <1>13 DEF n

\* What a function takes from a finite set is finite.
LEMMA FiniteImage ==
    ASSUME NEW f, NEW S, DOMAIN f = S, IsFiniteSet(S)
    PROVE  IsFiniteSet({f[x] : x \in S})
<1> DEFINE T == {f[x] : x \in S}
           g == [x \in S |-> f[x]]
<1>1. g \in Surjection(S, T)
  BY DEF Surjection
<1> HIDE DEF g, T
<1>2. IsFiniteSet(T)
  BY <1>1, FS_Surjection
<1> QED
  BY <1>2 DEF T
=============================================================================

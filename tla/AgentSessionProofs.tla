-------------------------- MODULE AgentSessionProofs --------------------------
(***************************************************************************)
(* What AgentSession promises, for any prompts, commands and exceptions and *)
(* all bounds: the session follows the agent (SessionFollows), the event    *)
(* queue is what its handlers go by and persists in order (QueueSound), no  *)
(* shell command comes between a call and its result (ResultsFollowCalls),  *)
(* compactions keep the session from an entry of its own                    *)
(* (CompactionsKeepOwn), and prompt() does not return while its run is      *)
(* about to be tried again (PromptAwaits).                                  *)
(*                                                                         *)
(* First come lemmas about the operators of AgentSession on sequences, then *)
(* that every step keeps the types.  What a step does to the session and to *)
(* the messages that wait has one of six shapes, from which order, results  *)
(* and compactions follow; that the agent's messages go along is shown      *)
(* action by action, and so is what the retries of a run promise.           *)
(***************************************************************************)
EXTENDS AgentSession, Integers, SequenceTheorems, FiniteSetTheorems, TLAPS

-----------------------------------------------------------------------------
(* Picking some places of a sequence.                                      *)

\* A set of numbers has a least one.
LEMMA LeastNat ==
  ASSUME NEW T \in SUBSET Nat, T # {}
  PROVE  \E m \in T : \A k \in T : m <= k
<1>1. PICK m \in T : \A k \in T : ~ (<<k, m>> \in OpToRel(<, Nat))
  BY NatLessThanWellFounded, WFMin, Zenon
<1>2. ASSUME NEW k \in T
      PROVE  m <= k
  <2>1. ~ (<<k, m>> \in OpToRel(<, Nat))
    BY <1>1
  <2>2. k < m => <<k, m>> \in OpToRel(<, Nat)
    BY DEF OpToRel
  <2>3. ~ (k < m)
    BY <2>1, <2>2, Zenon
  <2>4. QED
    BY <2>3
<1>3. QED
  BY <1>2

\* f numbers the places from 1 to n in their order.
Numbers(f, n, places) ==
  /\ f \in [1..n -> places]
  /\ \A i, j \in 1..n : i < j => f[i] < f[j]
  /\ \A p \in places : \E i \in 1..n : f[i] = p

\* Some places can be numbered.
LEMMA NumbersExist ==
  \A N \in Nat : \A places \in SUBSET (1..N) : \E n \in Nat : \E f : Numbers(f, n, places)
<1> DEFINE Fine(N) == \A places \in SUBSET (1..N) : \E n \in Nat : \E f : Numbers(f, n, places)
           T == {N \in Nat : ~Fine(N)}
<1>1. SUFFICES ASSUME T # {}
               PROVE  FALSE
  OBVIOUS
<1>2. PICK N \in T : \A k \in T : N <= k
  <2>1. T \in SUBSET Nat
    OBVIOUS
  <2> HIDE DEF T
  <2>2. QED
    BY <1>1, <2>1, LeastNat
<1>3. N \in Nat /\ ~Fine(N)
  OBVIOUS
<1>4. N # 0
  <2>1. ASSUME N = 0
        PROVE  Fine(N)
    <3>1. 1..N = {}
      BY <2>1
    <3>2. Numbers([i \in 1..0 |-> i], 0, {})
      BY DEF Numbers
    <3>3. QED
      BY <3>1, <3>2
  <2>2. QED
    BY <1>3, <2>1
<1>5. N - 1 \in Nat /\ Fine(N - 1)
  <2>1. N - 1 \in Nat
    BY <1>3, <1>4
  <2>2. N - 1 \notin T
    BY <1>2, <1>3, <2>1
  <2>3. QED
    BY <2>1, <2>2
<1>6. ASSUME NEW places \in SUBSET (1..N)
      PROVE  \E n \in Nat : \E f : Numbers(f, n, places)
  <2>1. CASE N \notin places
    <3>1. places \in SUBSET (1..(N - 1))
      BY <1>3, <1>4, <2>1
    <3>2. QED
      BY <1>5, <3>1
  <2>2. CASE N \in places
    <3> DEFINE others == places \ {N}
    <3>1. others \in SUBSET (1..(N - 1))
      BY <1>3, <1>4
    <3>2. PICK n \in Nat : \E f : Numbers(f, n, others)
      BY <1>5, <3>1
    <3>3. PICK f : Numbers(f, n, others)
      BY <3>2
    <3> DEFINE g == [i \in 1..(n + 1) |-> IF i = n + 1 THEN N ELSE f[i]]
    <3>4. /\ f \in [1..n -> others] /\ \A i \in 1..n : f[i] \in others
          /\ \A i \in 1..n : f[i] \in 1..(N - 1)
          /\ \A i \in 1..n : i \in 1..(n + 1) /\ g[i] = f[i]
      <4>1. f \in [1..n -> others]
        BY <3>3 DEF Numbers
      <4>2. \A i \in 1..n : f[i] \in others
        BY <4>1
      <4>3. \A i \in 1..n : f[i] \in 1..(N - 1)
        BY <3>1, <4>2
      <4>4. \A i \in 1..n : i \in 1..(n + 1) /\ g[i] = f[i]
        OBVIOUS
      <4>5. QED
        BY <4>1, <4>2, <4>3, <4>4
    <3>5. n + 1 \in 1..(n + 1) /\ g[n + 1] = N /\ \A i \in 1..(n + 1) : i \in 1..n \/ i = n + 1
      OBVIOUS
    <3>6. g \in [1..(n + 1) -> places]
      <4>1. \A i \in 1..(n + 1) : g[i] \in places
        BY <2>2, <3>4, <3>5
      <4>2. QED
        BY <4>1
    <3>7. \A i, j \in 1..(n + 1) : i < j => g[i] < g[j]
      <4> SUFFICES ASSUME NEW i \in 1..(n + 1), NEW j \in 1..(n + 1), i < j
                   PROVE  g[i] < g[j]
        OBVIOUS
      <4> HIDE DEF g
      <4>1. i \in 1..n /\ g[i] = f[i] /\ f[i] \in 1..(N - 1)
        BY <3>4
      <4>2. CASE j = n + 1
        BY <1>3, <3>5, <4>1, <4>2
      <4>3. CASE j \in 1..n
        BY <3>3, <3>4, <4>1, <4>3 DEF Numbers
      <4>4. QED
        BY <3>5, <4>2, <4>3
    <3>8. \A p \in places : \E i \in 1..(n + 1) : g[i] = p
      <4> SUFFICES ASSUME NEW p \in places
                   PROVE  \E i \in 1..(n + 1) : g[i] = p
        OBVIOUS
      <4> HIDE DEF g
      <4>1. CASE p = N
        BY <3>5, <4>1
      <4>2. CASE p \in others
        <5>1. PICK i \in 1..n : f[i] = p
          BY <3>3, <4>2 DEF Numbers
        <5>2. QED
          BY <3>4, <5>1
      <4>3. QED
        BY <4>1, <4>2
    <3> HIDE DEF g
    <3>9. Numbers(g, n + 1, places)
      BY <3>6, <3>7, <3>8 DEF Numbers
    <3>10. QED
      BY <3>9
  <2>3. QED
    BY <2>1, <2>2
<1>7. QED
  BY <1>3, <1>6

\* Nth finds what a numbering says.
LEMMA NumbersNth ==
  ASSUME NEW E \in SUBSET Nat, NEW n \in Nat, NEW f, Numbers(f, n, E)
  PROVE  Cardinality(E) = n /\ \A k \in 1..n : Nth(E, k) = f[k]
<1> DEFINE Upto(p) == {j \in E : j <= p}
<1>1. /\ f \in [1..n -> E]
      /\ \A i, j \in 1..n : i < j => f[i] < f[j]
      /\ \A p \in E : \E i \in 1..n : f[i] = p
  BY DEF Numbers
<1>2. \A i, j \in 1..n : f[i] <= f[j] <=> i <= j
  <2> SUFFICES ASSUME NEW i \in 1..n, NEW j \in 1..n
               PROVE  f[i] <= f[j] <=> i <= j
    OBVIOUS
  <2>1. f[i] \in Nat /\ f[j] \in Nat
    BY <1>1
  <2>2. i < j \/ i = j \/ j < i
    OBVIOUS
  <2>3. QED
    BY <1>1, <2>1, <2>2
<1>3. ASSUME NEW k \in 1..n
      PROVE  Cardinality(Upto(f[k])) = k
  <2> DEFINE g == [i \in 1..k |-> f[i]]
  <2>1. \A i \in 1..k : i \in 1..n /\ i <= k
    OBVIOUS
  <2>2. g \in [1..k -> Upto(f[k])]
    BY <1>1, <1>2, <2>1
  <2>3. \A p \in Upto(f[k]) : \E i \in 1..k : g[i] = p
    <3> SUFFICES ASSUME NEW p \in Upto(f[k])
                 PROVE  \E i \in 1..k : g[i] = p
      OBVIOUS
    <3>1. PICK i \in 1..n : f[i] = p
      BY <1>1
    <3>2. i <= k
      BY <1>2, <3>1
    <3>3. i \in 1..k
      BY <3>2
    <3>4. QED
      BY <3>1, <3>3
  <2>4. \A i, j \in 1..k : g[i] = g[j] => i = j
    <3> SUFFICES ASSUME NEW i \in 1..k, NEW j \in 1..k, f[i] = f[j]
                 PROVE  i = j
      OBVIOUS
    <3>1. i \in 1..n /\ j \in 1..n /\ f[i] \in Nat
      BY <1>1, <2>1
    <3>2. i <= j /\ j <= i
      BY <1>2, <3>1
    <3>3. QED
      BY <2>1, <3>2
  <2>5. g \in Bijection(1..k, Upto(f[k]))
    <3> HIDE DEF g, Upto
    <3>1. QED
      BY <2>2, <2>3, <2>4 DEF Bijection, Injection, Surjection, IsInjective
  <2>6. IsFiniteSet(1..k) /\ Cardinality(1..k) = k
    BY FS_Interval
  <2>7. QED
    <3> HIDE DEF g, Upto
    <3>1. ExistsBijection(1..k, Upto(f[k]))
      BY <2>5 DEF ExistsBijection
    <3>2. QED
      BY <2>6, <3>1, FS_Bijection
<1>4. Cardinality(E) = n
  <2>1. CASE n = 0
    <3>1. E = {}
      BY <1>1, <2>1
    <3>2. QED
      BY <2>1, <3>1, FS_EmptySet
  <2>2. CASE n # 0
    <3>1. n \in 1..n
      BY <2>2
    <3>2. Upto(f[n]) = E
      <4> SUFFICES ASSUME NEW p \in E
                   PROVE  p <= f[n]
        OBVIOUS
      <4>1. PICK i \in 1..n : f[i] = p
        BY <1>1
      <4>2. i <= n
        OBVIOUS
      <4>3. QED
        BY <1>2, <3>1, <4>1, <4>2
    <3>3. QED
      BY <1>3, <3>1, <3>2
  <2>3. QED
    BY <2>1, <2>2
<1>5. ASSUME NEW k \in 1..n
      PROVE  Nth(E, k) = f[k]
  <2>1. f[k] \in E /\ Cardinality(Upto(f[k])) = k
    BY <1>1, <1>3
  <2>2. ASSUME NEW p \in E, Cardinality(Upto(p)) = k
        PROVE  p = f[k]
    <3>1. PICK i \in 1..n : f[i] = p
      BY <1>1
    <3>2. Cardinality(Upto(p)) = i
      BY <1>3, <3>1
    <3>3. QED
      BY <2>2, <3>1, <3>2
  <2>3. QED
    BY <2>1, <2>2 DEF Nth
<1>6. QED
  BY <1>4, <1>5

\* So the places are what Nth gives, one after the other.
LEMMA NthNumbers ==
  ASSUME NEW N \in Nat, NEW E \in SUBSET (1..N)
  PROVE  /\ Cardinality(E) \in Nat
         /\ \A k \in 1..Cardinality(E) : Nth(E, k) \in E
         /\ Numbers([k \in 1..Cardinality(E) |-> Nth(E, k)], Cardinality(E), E)
<1>1. PICK n \in Nat : \E f : Numbers(f, n, E)
  BY NumbersExist
<1>2. PICK f : Numbers(f, n, E)
  BY <1>1
<1>3. E \in SUBSET Nat
  OBVIOUS
<1>4. Cardinality(E) = n /\ \A k \in 1..n : Nth(E, k) = f[k]
  BY <1>2, <1>3, NumbersNth
<1>5. f \in [1..n -> E]
  BY <1>2 DEF Numbers
<1>6. f = [k \in 1..n |-> Nth(E, k)]
  BY <1>4, <1>5
<1>7. QED
  BY <1>2, <1>4, <1>5, <1>6

\* What is picked is of the type of what the places hold.
LEMMA PickedTyped ==
  ASSUME NEW S, NEW N \in Nat, NEW E \in SUBSET (1..N), NEW s, \A i \in E : s[i] \in S
  PROVE  Picked(s, E) \in Seq(S) /\ Len(Picked(s, E)) = Cardinality(E)
<1> DEFINE n == Cardinality(E)
<1>1. n \in Nat /\ \A k \in 1..n : s[Nth(E, k)] \in S
  BY NthNumbers
<1>2. Picked(s, E) = [k \in 1..n |-> s[Nth(E, k)]]
  BY DEF Picked
<1> HIDE DEF n
<1>3. QED
  BY <1>1, <1>2, IsASeq, LenProperties DEF n

\* Places of a sequence that comes after a.
After(a, E) == {Len(a) + j : j \in E}

\* c has what a and b, one after the other, have at the places D and E.
Joins(c, both, a, D, b, E) ==
  /\ both = D \union After(a, E)
  /\ Len(a) \in Nat /\ Len(b) \in Nat /\ D \in SUBSET (1..Len(a)) /\ E \in SUBSET (1..Len(b))
  /\ \A i \in D : c[i] = a[i]
  /\ \A j \in E : c[Len(a) + j] = b[j]

\* The places of a sequence that is made of two.
LEMMA PlacesOfConcat ==
  ASSUME NEW S, NEW a \in Seq(S), NEW b \in Seq(S)
  PROVE  /\ Len(a) \in Nat /\ Len(b) \in Nat /\ DOMAIN a = 1..Len(a) /\ DOMAIN b = 1..Len(b)
         /\ a \o b \in Seq(S) /\ DOMAIN (a \o b) = 1..(Len(a) + Len(b)) /\ Len(a \o b) = Len(a) + Len(b)
         /\ \A i \in DOMAIN a : i \in DOMAIN (a \o b) /\ (a \o b)[i] = a[i]
         /\ \A j \in DOMAIN b : Len(a) + j \in DOMAIN (a \o b) /\ (a \o b)[Len(a) + j] = b[j]
         /\ \A i \in DOMAIN (a \o b) : i \in DOMAIN a \/ \E j \in DOMAIN b : i = Len(a) + j
<1>1. Len(a) \in Nat /\ Len(b) \in Nat /\ DOMAIN a = 1..Len(a) /\ DOMAIN b = 1..Len(b)
  BY LenProperties
<1>2. /\ a \o b \in Seq(S) /\ Len(a \o b) = Len(a) + Len(b)
      /\ \A i \in 1..Len(a) : (a \o b)[i] = a[i]
      /\ \A j \in 1..Len(b) : (a \o b)[Len(a) + j] = b[j]
  BY <1>1, ConcatProperties
<1>3. DOMAIN (a \o b) = 1..(Len(a) + Len(b))
  BY <1>2, LenProperties
<1>4. ASSUME NEW i \in 1..(Len(a) + Len(b)), i \notin 1..Len(a)
      PROVE  \E j \in 1..Len(b) : i = Len(a) + j
  <2>1. i - Len(a) \in 1..Len(b) /\ i = Len(a) + (i - Len(a))
    BY <1>1, <1>4
  <2>2. QED
    BY <2>1
<1>5. /\ \A i \in 1..Len(a) : i \in 1..(Len(a) + Len(b))
      /\ \A j \in 1..Len(b) : Len(a) + j \in 1..(Len(a) + Len(b))
  BY <1>1
<1>6. QED
  BY <1>1, <1>2, <1>3, <1>4, <1>5

\* Picking from two sequences, one after the other.
LEMMA PickedConcat ==
  ASSUME NEW S, NEW a, NEW b, NEW c, NEW D, NEW E, NEW both, Joins(c, both, a, D, b, E),
         Picked(a, D) \in Seq(S), Picked(b, E) \in Seq(S)
  PROVE  Picked(c, both) = Picked(a, D) \o Picked(b, E)
<1> DEFINE N == Len(a)
           M == Len(b)
           n == Cardinality(D)
           m == Cardinality(E)
           f == [k \in 1..n |-> Nth(D, k)]
           g == [k \in 1..m |-> Nth(E, k)]
           h == [k \in 1..(n + m) |-> IF k <= n THEN f[k] ELSE N + g[k - n]]
           x == Picked(a, D)
           y == Picked(b, E)
<1>0. /\ N \in Nat /\ M \in Nat /\ D \in SUBSET (1..N) /\ E \in SUBSET (1..M)
      /\ \A i \in D : c[i] = a[i]
      /\ \A j \in E : c[N + j] = b[j]
      /\ both = D \union After(a, E)
  BY DEF Joins
<1> HIDE DEF N, M
<1>1. /\ n \in Nat /\ m \in Nat /\ Numbers(f, n, D) /\ Numbers(g, m, E)
  BY <1>0, NthNumbers
<1>2. /\ f \in [1..n -> D] /\ \A i, j \in 1..n : i < j => f[i] < f[j]
      /\ \A p \in D : \E i \in 1..n : f[i] = p
  BY <1>1 DEF Numbers
<1>3. /\ g \in [1..m -> E] /\ \A i, j \in 1..m : i < j => g[i] < g[j]
      /\ \A p \in E : \E i \in 1..m : g[i] = p
  BY <1>1 DEF Numbers
<1>4. /\ x \in Seq(S) /\ Len(x) = n /\ y \in Seq(S) /\ Len(y) = m
  <2>1. Picked(a, D) = [k \in 1..n |-> a[Nth(D, k)]] /\ Picked(b, E) = [k \in 1..m |-> b[Nth(E, k)]]
    BY DEF Picked
  <2> HIDE DEF n, m
  <2>2. QED
    BY <1>1, <2>1, LenProperties
<1>5. /\ \A k \in 1..n : x[k] = a[f[k]]
      /\ \A k \in 1..m : y[k] = b[g[k]]
  BY DEF Picked
<1> HIDE DEF x, y, f, g, n, m
<1>6. \A k \in 1..n : k \in 1..(n + m) /\ h[k] = f[k] /\ f[k] \in D
  BY <1>1, <1>2
<1>7. \A k \in 1..m : n + k \in 1..(n + m) /\ h[n + k] = N + g[k] /\ g[k] \in E
  <2> SUFFICES ASSUME NEW k \in 1..m
               PROVE  n + k \in 1..(n + m) /\ h[n + k] = N + g[k] /\ g[k] \in E
    OBVIOUS
  <2>1. n + k \in 1..(n + m) /\ ~(n + k <= n) /\ (n + k) - n = k
    BY <1>1
  <2>2. g[k] \in E
    BY <1>3
  <2>3. h[n + k] = N + g[(n + k) - n]
    BY <2>1
  <2>4. QED
    BY <2>1, <2>2, <2>3
<1>8. \A k \in 1..(n + m) : k \in 1..n \/ \E j \in 1..m : k = n + j
  <2> SUFFICES ASSUME NEW k \in 1..(n + m), k \notin 1..n
               PROVE  \E j \in 1..m : k = n + j
    OBVIOUS
  <2>1. k - n \in 1..m /\ k = n + (k - n)
    BY <1>1
  <2>2. QED
    BY <2>1
<1> HIDE DEF h
<1>9. Numbers(h, n + m, both)
  <2>1. \A j \in E : N + j \in After(a, E)
    BY DEF After, N
  <2>2. h \in [1..(n + m) -> both]
    <3>1. ASSUME NEW k \in 1..(n + m)
          PROVE  h[k] \in both
      <4>1. k \in 1..n => h[k] \in D
        BY <1>6
      <4>2. ASSUME NEW j \in 1..m, k = n + j
            PROVE  h[k] \in After(a, E)
        BY <1>7, <2>1, <4>2
      <4>3. QED
        BY <1>0, <1>8, <4>1, <4>2
    <3>2. h = [k \in 1..(n + m) |-> h[k]]
      BY DEF h
    <3>3. QED
      BY <3>1, <3>2
  <2>3. \A i, j \in 1..(n + m) : i < j => h[i] < h[j]
    <3> SUFFICES ASSUME NEW i \in 1..(n + m), NEW j \in 1..(n + m), i < j
                 PROVE  h[i] < h[j]
      OBVIOUS
    <3>1. CASE j \in 1..n
      <4>1. i \in 1..n
        BY <1>1, <3>1
      <4>2. QED
        BY <1>2, <1>6, <3>1, <4>1
    <3>2. ASSUME NEW v \in 1..m, j = n + v
          PROVE  h[i] < h[j]
      <4>1. CASE i \in 1..n
        <5>1. h[i] \in 1..N /\ h[j] = N + g[v] /\ g[v] \in 1..M
          BY <1>0, <1>6, <1>7, <3>2, <4>1
        <5>2. QED
          BY <1>0, <5>1
      <4>2. ASSUME NEW u \in 1..m, i = n + u
            PROVE  h[i] < h[j]
        <5>1. u < v
          BY <1>1, <3>2, <4>2
        <5>2. g[u] < g[v] /\ g[u] \in 1..M /\ g[v] \in 1..M
          BY <1>0, <1>3, <1>7, <5>1
        <5>3. h[i] = N + g[u] /\ h[j] = N + g[v]
          BY <1>7, <3>2, <4>2
        <5>4. QED
          BY <1>0, <5>2, <5>3
      <4>3. QED
        BY <1>8, <4>1, <4>2
    <3>3. QED
      BY <1>8, <3>1, <3>2
  <2>4. \A p \in both : \E i \in 1..(n + m) : h[i] = p
    <3> SUFFICES ASSUME NEW p \in both
                 PROVE  \E i \in 1..(n + m) : h[i] = p
      OBVIOUS
    <3>1. CASE p \in D
      <4>1. PICK i \in 1..n : f[i] = p
        BY <1>2, <3>1
      <4>2. QED
        BY <1>6, <4>1
    <3>2. CASE p \in After(a, E)
      <4>1. PICK j \in E : p = N + j
        BY <3>2 DEF After, N
      <4>2. PICK i \in 1..m : g[i] = j
        BY <1>3
      <4>3. QED
        BY <1>7, <4>1, <4>2
    <3>3. QED
      BY <1>0, <3>1, <3>2
  <2>5. QED
    BY <2>2, <2>3, <2>4 DEF Numbers
<1>10. both \in SUBSET Nat /\ n + m \in Nat
  <2>1. \A p \in both : p \in Nat
    BY <1>0 DEF After, N
  <2>2. n + m \in Nat
    BY <1>1
  <2>3. QED
    BY <2>1, <2>2
<1>11. Cardinality(both) = n + m /\ \A k \in 1..(n + m) : Nth(both, k) = h[k]
  <2>1. QED
    BY <1>9, <1>10, NumbersNth
<1>12. Picked(c, both) = [k \in 1..(n + m) |-> c[h[k]]]
  <2>1. QED
    BY <1>11 DEF Picked
<1>13. /\ x \o y \in Seq(S) /\ Len(x \o y) = n + m
       /\ \A k \in 1..n : (x \o y)[k] = x[k]
       /\ \A k \in 1..m : (x \o y)[n + k] = y[k]
  <2>1. x \in Seq(S) /\ y \in Seq(S)
    BY <1>4
  <2>2. /\ x \o y \in Seq(S) /\ Len(x \o y) = Len(x) + Len(y)
        /\ DOMAIN x = 1..Len(x) /\ DOMAIN y = 1..Len(y)
        /\ \A i \in DOMAIN x : (x \o y)[i] = x[i]
        /\ \A j \in DOMAIN y : (x \o y)[Len(x) + j] = y[j]
    BY ONLY <2>1, PlacesOfConcat
  <2>3. Len(x) = n /\ Len(y) = m
    BY <1>4
  <2>4. QED
    BY ONLY <2>2, <2>3
<1>14. \A k \in 1..(n + m) : (x \o y)[k] = c[h[k]]
  <2> SUFFICES ASSUME NEW k \in 1..(n + m)
               PROVE  (x \o y)[k] = c[h[k]]
    OBVIOUS
  <2>1. CASE k \in 1..n
    <3>1. c[h[k]] = a[f[k]]
      BY <1>0, <1>6, <2>1
    <3>2. QED
      BY <1>5, <1>13, <2>1, <3>1
  <2>2. ASSUME NEW j \in 1..m, k = n + j
        PROVE  (x \o y)[k] = c[h[k]]
    <3>1. c[N + g[j]] = b[g[j]] /\ h[n + j] = N + g[j]
      BY <1>0, <1>7
    <3>2. QED
      BY <1>5, <1>13, <2>2, <3>1
  <2>3. QED
    BY <1>8, <2>1, <2>2
<1>15. x \o y = [k \in 1..(n + m) |-> (x \o y)[k]]
  BY <1>13, LenProperties
<1>16. Picked(c, both) = x \o y
  BY <1>12, <1>14, <1>15
<1>17. QED
  BY <1>16 DEF x, y

\* Picking nothing, and one place.
LEMMA PickedNone == \A s : Picked(s, {}) = <<>>
BY FS_EmptySet DEF Picked

\* The only place.
LEMMA PickedOne ==
  ASSUME NEW s
  PROVE  Picked(s, {1}) = <<s[1]>>
<1> DEFINE f == [i \in 1..1 |-> 1]
<1>1. Numbers(f, 1, {1})
  BY DEF Numbers
<1>2. Cardinality({1}) = 1 /\ \A k \in 1..1 : Nth({1}, k) = f[k]
  BY <1>1, NumbersNth
<1>3. Picked(s, {1}) = [k \in 1..1 |-> s[1]]
  BY <1>2 DEF Picked
<1>4. QED
  BY <1>3

\* The last of some places.
LEMMA LastPlaceIs ==
  ASSUME NEW N \in Nat, NEW E \in SUBSET (1..N)
  PROVE  /\ E = {} => LastPlace(E) = 0
         /\ E # {} => LastPlace(E) \in E /\ \A j \in E : j <= LastPlace(E)
         /\ LastPlace(E) \in 0..N
<1>1. PICK n \in Nat : \E f : Numbers(f, n, E)
  BY NumbersExist
<1>2. PICK f : Numbers(f, n, E)
  BY <1>1
<1>3. /\ f \in [1..n -> E] /\ \A i, j \in 1..n : i < j => f[i] < f[j]
      /\ \A p \in E : \E i \in 1..n : f[i] = p
  BY <1>2 DEF Numbers
<1>4. ASSUME E # {}
      PROVE  LastPlace(E) \in E /\ \A j \in E : j <= LastPlace(E)
  <2>1. n \in 1..n /\ f[n] \in E
    <3>1. PICK p \in E : TRUE
      BY <1>4
    <3>2. PICK i \in 1..n : f[i] = p
      BY <1>3
    <3>3. n \in 1..n
      BY <3>2
    <3>4. QED
      BY <1>3, <3>3
  <2>2. \A j \in E : j <= f[n]
    <3> SUFFICES ASSUME NEW j \in E
                 PROVE  j <= f[n]
      OBVIOUS
    <3>1. PICK i \in 1..n : f[i] = j
      BY <1>3
    <3>2. i < n => f[i] < f[n]
      BY <1>3, <2>1
    <3>3. i < n \/ i = n
      OBVIOUS
    <3>4. f[n] \in Nat /\ j \in Nat
      <4>1. \A k \in E : k \in Nat
        OBVIOUS
      <4>2. QED
        BY <2>1, <4>1
    <3>5. QED
      BY <3>1, <3>2, <3>3, <3>4
  <2>3. QED
    BY <1>4, <2>1, <2>2 DEF LastPlace
<1>5. E = {} => LastPlace(E) = 0
  BY DEF LastPlace
<1>6. LastPlace(E) \in 0..N
  <2>1. CASE E = {}
    BY <1>5, <2>1
  <2>2. CASE E # {}
    <3>1. LastPlace(E) \in 1..N
      BY <1>4, <2>2
    <3>2. QED
      BY <3>1
  <2>3. QED
    BY <2>1, <2>2
<1>7. QED
  BY <1>4, <1>5, <1>6

-----------------------------------------------------------------------------
(* The events that wait.                                                   *)

\* An event of a type carries what its type says.
LEMMA EventKinds ==
  /\ \A e \in Events : e.type = "message_end" => e.message \in Messages /\ e = MessageEnd(e.message)
  /\ \A e \in Events : e.type # "message_end" => e = AgentEnd
  /\ \A m \in Messages : MessageEnd(m) \in Events /\ MessageEnd(m).type = "message_end" /\ MessageEnd(m).message = m
  /\ AgentEnd \in Events /\ AgentEnd.type = "agent_end"
  /\ \A m : MessageEnd(m) # AgentEnd
BY DEF Events, MessageEnd, AgentEnd

\* Where the messages are in a queue.
LEMMA EndsTyped ==
  ASSUME NEW q \in Seq(Events)
  PROVE  /\ Len(q) \in Nat /\ DOMAIN q = 1..Len(q) /\ Ends(q) \in SUBSET (1..Len(q))
         /\ \A i \in Ends(q) : q[i].message \in Messages
<1>1. Len(q) \in Nat /\ DOMAIN q = 1..Len(q) /\ \A i \in 1..Len(q) : q[i] \in Events
  BY LenProperties, ElementOfSeq
<1>2. Ends(q) \in SUBSET (1..Len(q)) /\ \A i \in Ends(q) : q[i].type = "message_end"
  BY <1>1 DEF Ends
<1>3. QED
  BY <1>1, <1>2, EventKinds

\* The messages that wait are picked from the queue.
LEMMA WaitingPicked ==
  ASSUME NEW q \in Seq(Events)
  PROVE  /\ Waiting(q) = Picked([i \in 1..Len(q) |-> q[i].message], Ends(q))
         /\ Waiting(q) \in Seq(Messages)
<1> DEFINE s == [i \in 1..Len(q) |-> q[i].message]
           n == Cardinality(Ends(q))
<1>1. /\ Len(q) \in Nat /\ Ends(q) \in SUBSET (1..Len(q))
      /\ \A i \in Ends(q) : q[i].message \in Messages
  BY EndsTyped
<1>2. \A i \in Ends(q) : s[i] = q[i].message /\ s[i] \in Messages
  BY <1>1
<1>3. \A k \in 1..n : Nth(Ends(q), k) \in Ends(q)
  BY <1>1, NthNumbers
<1> HIDE DEF s
<1>4. Waiting(q) = Picked(s, Ends(q))
  <2>1. Waiting(q) = [k \in 1..n |-> q[Nth(Ends(q), k)].message]
    BY DEF Waiting
  <2>2. Picked(s, Ends(q)) = [k \in 1..n |-> s[Nth(Ends(q), k)]]
    BY DEF Picked
  <2>3. \A k \in 1..n : q[Nth(Ends(q), k)].message = s[Nth(Ends(q), k)]
    BY <1>2, <1>3
  <2> HIDE DEF n
  <2>4. QED
    BY <2>1, <2>2, <2>3
<1>5. Picked(s, Ends(q)) \in Seq(Messages)
  BY <1>1, <1>2, PickedTyped
<1>6. QED
  BY <1>4, <1>5 DEF s

\* Pushed events add to what waits.
LEMMA WaitingConcat ==
  ASSUME NEW a \in Seq(Events), NEW b \in Seq(Events)
  PROVE  Waiting(a \o b) = Waiting(a) \o Waiting(b)
<1> DEFINE N == Len(a)
           M == Len(b)
           c == a \o b
           s == [i \in 1..N |-> a[i].message]
           t == [i \in 1..M |-> b[i].message]
           u == [i \in 1..Len(c) |-> c[i].message]
<1>1. /\ N \in Nat /\ M \in Nat /\ DOMAIN a = 1..N /\ DOMAIN b = 1..M
      /\ c \in Seq(Events) /\ DOMAIN c = 1..(N + M) /\ Len(c) = N + M
      /\ \A i \in DOMAIN a : i \in DOMAIN c /\ c[i] = a[i]
      /\ \A j \in DOMAIN b : N + j \in DOMAIN c /\ c[N + j] = b[j]
      /\ \A i \in DOMAIN c : i \in DOMAIN a \/ \E j \in DOMAIN b : i = N + j
  BY PlacesOfConcat
<1> HIDE DEF N, M, c
<1>2. /\ Ends(a) \in SUBSET (1..N) /\ \A i \in Ends(a) : a[i].message \in Messages
      /\ Ends(b) \in SUBSET (1..M) /\ \A i \in Ends(b) : b[i].message \in Messages
  BY <1>1, EndsTyped DEF N, M
<1>9. Len(s) = N /\ Len(t) = M
  BY <1>1
<1>3. Ends(c) = Ends(a) \union After(s, Ends(b))
  <2>1. \A i \in Ends(a) : i \in Ends(c)
    BY <1>1 DEF Ends
  <2>2. \A j \in Ends(b) : N + j \in Ends(c)
    BY <1>1 DEF Ends
  <2>3. \A i \in Ends(c) : i \in Ends(a) \/ \E j \in Ends(b) : i = N + j
    BY <1>1 DEF Ends
  <2>4. QED
    BY <1>9, <2>1, <2>2, <2>3 DEF After
<1>4. \A i \in Ends(a) : u[i] = s[i]
  BY <1>1, <1>2
<1>5. \A j \in Ends(b) : u[N + j] = t[j]
  BY <1>1, <1>2
<1>6. /\ Waiting(a) = Picked(s, Ends(a)) /\ Waiting(b) = Picked(t, Ends(b))
      /\ Waiting(c) = Picked(u, Ends(c))
  BY <1>1, WaitingPicked DEF N, M
<1> HIDE DEF s, t, u
<1>7. Picked(u, Ends(a) \union After(s, Ends(b))) = Picked(s, Ends(a)) \o Picked(t, Ends(b))
  <2> DEFINE D == Ends(a)
             E == Ends(b)
  <2> DEFINE both == D \union After(s, E)
  <2>1. Joins(u, both, s, D, t, E)
    BY <1>1, <1>2, <1>4, <1>5, <1>9 DEF Joins
  <2>2. Picked(s, D) \in Seq(Messages) /\ Picked(t, E) \in Seq(Messages)
    BY <1>1, <1>6, WaitingPicked
  <2> HIDE DEF D, E, both
  <2>3. Picked(u, both) = Picked(s, D) \o Picked(t, E)
    BY <2>1, <2>2, PickedConcat
  <2>4. QED
    BY <2>3 DEF D, E, both
<1>8. QED
  BY <1>3, <1>6, <1>7 DEF c

\* What single events add.
LEMMA WaitingOne ==
  /\ Waiting(<<>>) = <<>> /\ Waiting(<<AgentEnd>>) = <<>>
  /\ \A m \in Messages : Waiting(<<MessageEnd(m)>>) = <<m>>
<1>1. Ends(<<>>) = {} /\ Ends(<<AgentEnd>>) = {}
  BY DEF Ends, AgentEnd
<1>2. Waiting(<<>>) = <<>> /\ Waiting(<<AgentEnd>>) = <<>>
  <2>1. Cardinality({}) = 0 /\ 1..0 = {}
    BY FS_EmptySet
  <2>2. Waiting(<<>>) = [k \in 1..0 |-> <<>>[Nth({}, k)].message]
    BY <1>1, <2>1 DEF Waiting
  <2>3. Waiting(<<AgentEnd>>) = [k \in 1..0 |-> <<AgentEnd>>[Nth({}, k)].message]
    BY <1>1, <2>1 DEF Waiting
  <2>4. QED
    BY <2>1, <2>2, <2>3
<1>3. ASSUME NEW m \in Messages
      PROVE  Waiting(<<MessageEnd(m)>>) = <<m>>
  <2> DEFINE q == <<MessageEnd(m)>>
             s == [i \in 1..Len(q) |-> q[i].message]
  <2>1. q \in Seq(Events) /\ Ends(q) = {1} /\ s[1] = m
    BY EventKinds DEF Ends
  <2>2. Waiting(q) = Picked(s, Ends(q))
    BY <2>1, WaitingPicked
  <2> HIDE DEF q, s
  <2>3. Picked(s, {1}) = <<s[1]>>
    BY PickedOne
  <2>4. QED
    BY <2>1, <2>2, <2>3 DEF q
<1>4. QED
  BY <1>2, <1>3

\* Taking the head of the queue.
LEMMA WaitingHead ==
  ASSUME NEW q \in Seq(Events), q # <<>>
  PROVE  /\ Head(q) \in Events /\ Tail(q) \in Seq(Events)
         /\ Head(q).type = "message_end" => Waiting(q) = <<Head(q).message>> \o Waiting(Tail(q))
         /\ Head(q).type # "message_end" => Waiting(q) = Waiting(Tail(q))
<1> DEFINE e == Head(q)
           r == Tail(q)
<1>1. e \in Events /\ r \in Seq(Events) /\ <<e>> \in Seq(Events) /\ q = <<e>> \o r
  BY HeadTailProperties
<1> HIDE DEF e, r
<1>2. Waiting(q) = Waiting(<<e>>) \o Waiting(r)
  BY <1>1, WaitingConcat
<1>3. e.type = "message_end" => Waiting(<<e>>) = <<e.message>>
  BY <1>1, EventKinds, WaitingOne
<1>4. e.type # "message_end" => Waiting(<<e>>) = <<>>
  BY <1>1, EventKinds, WaitingOne
<1>5. Waiting(r) \in Seq(Messages)
  BY <1>1, WaitingPicked
<1>6. <<>> \o Waiting(r) = Waiting(r)
  BY <1>5, ConcatEmptySeq
<1>7. QED
  BY <1>1, <1>2, <1>3, <1>4, <1>6 DEF e, r

-----------------------------------------------------------------------------
(* Messages without errors, and contexts.                                  *)

\* Some places of two sequences, in the one they make.
Splits(both, a, D, b, E) == both = D \union After(a, E) /\ D \subseteq DOMAIN a /\ E \subseteq DOMAIN b

\* Picking from two sequences, one after the other.
LEMMA PickedFromConcat ==
  ASSUME NEW S, NEW a \in Seq(S), NEW b \in Seq(S), NEW D, NEW E, NEW both, Splits(both, a, D, b, E)
  PROVE  /\ Picked(a \o b, both) = Picked(a, D) \o Picked(b, E)
         /\ Picked(a, D) \in Seq(S) /\ Picked(b, E) \in Seq(S)
<1> DEFINE c == a \o b
<1>1. /\ Len(a) \in Nat /\ Len(b) \in Nat /\ DOMAIN a = 1..Len(a) /\ DOMAIN b = 1..Len(b)
      /\ \A i \in DOMAIN a : c[i] = a[i]
      /\ \A j \in DOMAIN b : c[Len(a) + j] = b[j]
  BY PlacesOfConcat
<1>2. /\ D \in SUBSET (1..Len(a)) /\ E \in SUBSET (1..Len(b))
      /\ (\A i \in D : a[i] \in S) /\ (\A j \in E : b[j] \in S)
  BY <1>1, ElementOfSeq DEF Splits
<1>3. Picked(a, D) \in Seq(S) /\ Picked(b, E) \in Seq(S)
  BY <1>1, <1>2, PickedTyped
<1> HIDE DEF c
<1>4. Joins(c, both, a, D, b, E)
  BY <1>1 DEF Joins, Splits
<1>5. Picked(c, both) = Picked(a, D) \o Picked(b, E)
  BY <1>3, <1>4, PickedConcat
<1>6. QED
  BY <1>3, <1>5 DEF c

\* All places.
LEMMA PickedAll ==
  ASSUME NEW S, NEW s \in Seq(S)
  PROVE  Picked(s, DOMAIN s) = s
<1> DEFINE n == Len(s)
           f == [k \in 1..n |-> k]
<1>1. n \in Nat /\ DOMAIN s = 1..n /\ s = [k \in 1..n |-> s[k]]
  BY LenProperties
<1> HIDE DEF n
<1>2. Numbers(f, n, 1..n)
  BY <1>1 DEF Numbers
<1>3. Cardinality(1..n) = n /\ \A k \in 1..n : Nth(1..n, k) = k
  <2>1. 1..n \in SUBSET Nat
    OBVIOUS
  <2>2. Cardinality(1..n) = n /\ \A k \in 1..n : Nth(1..n, k) = f[k]
    BY <1>1, <1>2, <2>1, NumbersNth
  <2>3. QED
    BY <2>2
<1>4. Picked(s, 1..n) = [k \in 1..n |-> s[k]]
  BY <1>3 DEF Picked
<1>5. QED
  BY <1>1, <1>4

\* What is left without errors are entries.
LEMMA NoErrorsTyped ==
  ASSUME NEW ms \in Seq(Entries)
  PROVE  NoErrors(ms) \in Seq(Entries)
<1> DEFINE D == {i \in DOMAIN ms : ~IsError(ms[i])}
<1>1. Len(ms) \in Nat /\ D \in SUBSET (1..Len(ms)) /\ \A i \in D : ms[i] \in Entries
  BY LenProperties, ElementOfSeq
<1> HIDE DEF D
<1>2. Picked(ms, D) \in Seq(Entries)
  BY <1>1, PickedTyped
<1>3. QED
  BY <1>2 DEF NoErrors, D

\* Errors are left out of the parts of a sequence as of the whole.
LEMMA NoErrorsConcat ==
  ASSUME NEW a \in Seq(Entries), NEW b \in Seq(Entries)
  PROVE  NoErrors(a \o b) = NoErrors(a) \o NoErrors(b)
<1> DEFINE c == a \o b
           D == {i \in DOMAIN a : ~IsError(a[i])}
           E == {i \in DOMAIN b : ~IsError(b[i])}
<1>1. /\ Len(a) \in Nat /\ \A i \in DOMAIN a : i \in DOMAIN c /\ c[i] = a[i]
      /\ \A j \in DOMAIN b : Len(a) + j \in DOMAIN c /\ c[Len(a) + j] = b[j]
      /\ \A i \in DOMAIN c : i \in DOMAIN a \/ \E j \in DOMAIN b : i = Len(a) + j
  BY PlacesOfConcat
<1> DEFINE both == {i \in DOMAIN c : ~IsError(c[i])}
<1> HIDE DEF c
<1>2. both = D \union After(a, E)
  <2>1. \A i \in D : i \in both
    BY <1>1
  <2>2. \A j \in E : Len(a) + j \in both
    BY <1>1
  <2>3. \A i \in both : i \in D \/ \E j \in E : i = Len(a) + j
    BY <1>1
  <2> HIDE DEF D, E, both
  <2>4. QED
    BY <2>1, <2>2, <2>3 DEF After
<1>3. Splits(both, a, D, b, E)
  BY <1>2 DEF Splits
<1> HIDE DEF D, E, both
<1>4. Picked(a \o b, both) = Picked(a, D) \o Picked(b, E)
  BY <1>3, PickedFromConcat
<1>5. QED
  BY <1>4 DEF NoErrors, c, D, E, both

\* Of none and of one.
LEMMA NoErrorsOne ==
  /\ NoErrors(<<>>) = <<>>
  /\ \A m : NoErrors(<<m>>) = IF IsError(m) THEN <<>> ELSE <<m>>
<1>1. NoErrors(<<>>) = <<>>
  <2>1. {i \in DOMAIN <<>> : ~IsError(<<>>[i])} = {}
    OBVIOUS
  <2>2. QED
    BY <2>1, PickedNone DEF NoErrors
<1>2. ASSUME NEW m
      PROVE  NoErrors(<<m>>) = IF IsError(m) THEN <<>> ELSE <<m>>
  <2> DEFINE s == <<m>>
             D == {i \in DOMAIN s : ~IsError(s[i])}
  <2>1. DOMAIN s = {1} /\ s[1] = m
    OBVIOUS
  <2>2. D = IF IsError(m) THEN {} ELSE {1}
    BY <2>1
  <2>3. Picked(s, {}) = <<>> /\ Picked(s, {1}) = <<s[1]>>
    BY PickedNone, PickedOne
  <2>4. NoErrors(s) = Picked(s, D)
    BY DEF NoErrors
  <2> HIDE DEF s, D
  <2>5. NoErrors(s) = IF IsError(m) THEN <<>> ELSE <<m>>
    BY <2>1, <2>2, <2>3, <2>4
  <2>6. QED
    BY <2>5 DEF s
<1>3. QED
  BY <1>1, <1>2

\* A sequence is its front and its last element.
LEMMA FrontAndLast ==
  ASSUME NEW S, NEW s \in Seq(S), s # <<>>
  PROVE  /\ Front(s) \in Seq(S) /\ Last(s) \in S /\ s = Front(s) \o <<Last(s)>>
         /\ Len(s) \in 1..Len(s) /\ Last(s) = s[Len(s)]
<1>1. Len(s) \in Nat /\ Len(s) # 0 /\ DOMAIN s = 1..Len(s)
  BY EmptySeq, LenProperties
<1>2. Len(s) \in 1..Len(s) /\ 1 \in 1..Len(s)
  BY <1>1
<1>3. Last(s) = s[Len(s)] /\ Last(s) \in S
  BY <1>2, ElementOfSeq DEF Last
<1>4. SubSeq(s, 1, Len(s)) = SubSeq(s, 1, Len(s) - 1) \o <<s[Len(s)]>>
  BY <1>2, SubSeqRecursiveSecond
<1>5. SubSeq(s, 1, Len(s)) = s
  BY SubSeqFull
<1>6. SubSeq(s, 1, Len(s) - 1) \in Seq(S)
  <2>1. \A i \in 1..(Len(s) - 1) : s[i] \in S
    BY <1>1, ElementOfSeq
  <2>2. 1 \in Int /\ Len(s) - 1 \in Int
    BY <1>1
  <2>3. QED
    BY <2>1, <2>2, SubSeqProperties
<1>7. QED
  BY <1>2, <1>3, <1>4, <1>5, <1>6 DEF Front

\* Where the last compaction is, and that what it keeps is in the session.
LEMMA LastCompactionTyped ==
  ASSUME NEW s \in Seq(Entries)
  PROVE  /\ LastCompaction(s) \in Nat /\ LastCompaction(s) <= Len(s) /\ DOMAIN s = 1..Len(s) /\ Len(s) \in Nat
         /\ LastCompaction(s) # 0 => LastCompaction(s) \in DOMAIN s /\ IsCompaction(s[LastCompaction(s)])
         /\ \A i \in DOMAIN s : IsCompaction(s[i]) => i <= LastCompaction(s)
         /\ Kept(s, LastCompaction(s)) \in SUBSET (1..Len(s))
<1> DEFINE E == {i \in DOMAIN s : IsCompaction(s[i])}
<1>1. Len(s) \in Nat /\ DOMAIN s = 1..Len(s) /\ E \in SUBSET (1..Len(s))
  BY LenProperties
<1>2. /\ E = {} => LastPlace(E) = 0
      /\ E # {} => LastPlace(E) \in E /\ \A j \in E : j <= LastPlace(E)
      /\ LastPlace(E) \in 0..Len(s)
  <2> HIDE DEF E
  <2>1. QED
    BY <1>1, LastPlaceIs
<1>3. LastCompaction(s) = LastPlace(E)
  BY DEF LastCompaction
<1>4. LastCompaction(s) # 0 => LastCompaction(s) \in DOMAIN s /\ IsCompaction(s[LastCompaction(s)])
  BY <1>2, <1>3
<1>5. \A i \in DOMAIN s : IsCompaction(s[i]) => i <= LastCompaction(s)
  BY <1>2, <1>3
<1>6. Kept(s, LastCompaction(s)) \in SUBSET (1..Len(s))
  BY <1>1 DEF Kept
<1>7. LastCompaction(s) \in Nat /\ LastCompaction(s) <= Len(s)
  BY <1>1, <1>2, <1>3
<1>8. QED
  BY <1>1, <1>4, <1>5, <1>6, <1>7

\* What a context begins with.
Summary(s) == IF LastCompaction(s) = 0 THEN <<>> ELSE <<s[LastCompaction(s)]>>

\* A context begins with the last compaction, if there is one.
LEMMA ContextTyped ==
  ASSUME NEW s \in Seq(Entries)
  PROVE  /\ Context(s) = Summary(s) \o Picked(s, Kept(s, LastCompaction(s)))
         /\ Summary(s) \in Seq(Entries) /\ Picked(s, Kept(s, LastCompaction(s))) \in Seq(Entries)
         /\ Context(s) \in Seq(Entries)
         /\ LastCompaction(s) # 0 => Context(s) # <<>>
<1> DEFINE c == LastCompaction(s)
           K == Kept(s, c)
           x == Summary(s)
           y == Picked(s, K)
<1>1. /\ Len(s) \in Nat /\ DOMAIN s = 1..Len(s) /\ K \in SUBSET (1..Len(s))
      /\ c # 0 => c \in DOMAIN s
  BY LastCompactionTyped
<1>2. \A i \in 1..Len(s) : s[i] \in Entries
  BY ElementOfSeq
<1> HIDE DEF K
<1>3. y \in Seq(Entries)
  BY <1>1, <1>2, PickedTyped
<1>4. x \in Seq(Entries) /\ (c # 0 => x # <<>>)
  <2>1. c # 0 => s[c] \in Entries
    BY <1>1, <1>2
  <2>2. QED
    BY <2>1 DEF Summary
<1>5. Context(s) = x \o y
  BY DEF Context, Summary, K
<1> HIDE DEF x, y, c
<1>6. x \o y \in Seq(Entries) /\ (x \o y = <<>> => x = <<>>)
  BY <1>3, <1>4, ConcatProperties, ConcatEqualIffEmpty, ConcatEmptySeq, EmptySeq
<1>7. QED
  BY <1>3, <1>4, <1>5, <1>6 DEF x, y, K, c

\* What comes after the last compaction is in the context as it is.
LEMMA ContextMore ==
  ASSUME NEW s \in Seq(Entries), NEW t \in Seq(Entries), \A j \in DOMAIN t : ~IsCompaction(t[j])
  PROVE  Context(s \o t) = Context(s) \o t
<1> DEFINE u == s \o t
           c == LastCompaction(s)
           D == Kept(s, c)
           E == DOMAIN t
           both == Kept(u, c)
<1>1. /\ Len(s) \in Nat /\ Len(t) \in Nat /\ DOMAIN s = 1..Len(s) /\ DOMAIN t = 1..Len(t)
      /\ u \in Seq(Entries) /\ DOMAIN u = 1..(Len(s) + Len(t))
      /\ \A i \in DOMAIN s : i \in DOMAIN u /\ u[i] = s[i]
      /\ \A j \in DOMAIN t : Len(s) + j \in DOMAIN u /\ u[Len(s) + j] = t[j]
      /\ \A i \in DOMAIN u : i \in DOMAIN s \/ \E j \in DOMAIN t : i = Len(s) + j
  BY PlacesOfConcat
<1>2. /\ c \in Nat /\ c <= Len(s) /\ D \in SUBSET (1..Len(s))
      /\ c # 0 => c \in DOMAIN s
  BY LastCompactionTyped
<1> HIDE DEF u
<1>3. LastCompaction(u) = c
  <2>1. {i \in DOMAIN u : IsCompaction(u[i])} = {i \in DOMAIN s : IsCompaction(s[i])}
    <3>1. \A i \in DOMAIN u : IsCompaction(u[i]) => i \in DOMAIN s /\ IsCompaction(s[i])
      BY <1>1
    <3>2. \A i \in DOMAIN s : IsCompaction(s[i]) => i \in DOMAIN u /\ IsCompaction(u[i])
      BY <1>1
    <3>3. QED
      BY <3>1, <3>2
  <2>2. QED
    BY <2>1 DEF LastCompaction
<1> HIDE DEF c
<1>4. both = D \union After(s, E)
  <2>1. ASSUME NEW i \in DOMAIN s
        PROVE  (\E k \in 1..i : k <= c /\ u[k].id = u[c].kept) <=> (\E k \in 1..i : k <= c /\ s[k].id = s[c].kept)
    <3>1. \A k \in 1..i : k \in DOMAIN s /\ u[k] = s[k]
      BY <1>1
    <3>2. (\E k \in 1..i : k <= c) => u[c] = s[c]
      BY <1>1, <1>2
    <3>3. QED
      BY <3>1, <3>2
  <2>2. \A i \in DOMAIN s : i \in both <=> i \in D
    BY <1>1, <2>1 DEF Kept
  <2>3. \A j \in E : Len(s) + j \in both
    <3> SUFFICES ASSUME NEW j \in E
                 PROVE  Len(s) + j \in both
      OBVIOUS
    <3>1. Len(s) + j \in DOMAIN u /\ ~IsCompaction(u[Len(s) + j])
      BY <1>1
    <3>2. Len(s) + j > c
      BY <1>1, <1>2
    <3>3. QED
      BY <3>1, <3>2 DEF Kept
  <2>4. both \subseteq DOMAIN u
    BY DEF Kept
  <2>5. D \subseteq DOMAIN s
    BY DEF Kept
  <2> HIDE DEF both, D
  <2>6. QED
    BY <1>1, <2>2, <2>3, <2>4, <2>5 DEF After
<1>5. Splits(both, s, D, t, E)
  BY <1>1, <1>2, <1>4 DEF Splits
<1>6. Picked(t, E) = t
  BY PickedAll
<1> HIDE DEF both, D, E
<1>7. Picked(s \o t, both) = Picked(s, D) \o t
  <2>1. Picked(s \o t, both) = Picked(s, D) \o Picked(t, E)
    BY <1>5, PickedFromConcat
  <2>2. QED
    BY <1>6, <2>1
<1>8. Summary(u) = Summary(s)
  BY <1>1, <1>2, <1>3 DEF Summary, c
<1> DEFINE x == Summary(s)
           y == Picked(s, D)
<1>9. Context(s) = x \o y /\ x \in Seq(Entries) /\ y \in Seq(Entries)
  BY ContextTyped DEF c, D
<1>10. Context(u) = x \o (y \o t)
  <2>1. Context(u) = Summary(u) \o Picked(u, both)
    BY <1>1, <1>3, ContextTyped DEF both
  <2>2. Picked(u, both) = y \o t
    BY <1>7 DEF u
  <2> HIDE DEF x, y
  <2>3. QED
    BY <1>8, <2>1, <2>2 DEF x
<1> HIDE DEF x, y
<1>11. x \o (y \o t) = (x \o y) \o t
  BY <1>9, ConcatAssociative
<1>12. QED
  BY <1>9, <1>10, <1>11 DEF u

\* After a compaction the context begins with its summary.
LEMMA ContextCompacted ==
  ASSUME NEW s \in Seq(Entries), NEW e \in Entries, IsCompaction(e)
  PROVE  Context(Append(s, e)) # <<>> /\ Context(Append(s, e)) \in Seq(Entries)
<1> DEFINE t == Append(s, e)
<1>1. t \in Seq(Entries) /\ Len(t) = Len(s) + 1 /\ t[Len(s) + 1] = e
  BY AppendProperties
<1>2. Len(s) \in Nat /\ DOMAIN t = 1..(Len(s) + 1)
  BY <1>1, LenProperties
<1> HIDE DEF t
<1>3. Len(s) + 1 <= LastCompaction(t) /\ LastCompaction(t) \in Nat
  BY <1>1, <1>2, LastCompactionTyped
<1>4. LastCompaction(t) # 0
  BY <1>2, <1>3
<1>5. QED
  BY <1>1, <1>4, ContextTyped DEF t

-----------------------------------------------------------------------------
(* Types.                                                                  *)

\* What is said, and what is recorded, is of the right type.
LEMMA Kinds ==
  /\ \A role \in Roles, n \in Nat :
       /\ Message(role, n) \in Messages /\ Message(role, n).role = role /\ Message(role, n).id = n
       /\ Message(role, n).stop = "none"
  /\ \A stop \in Stops, n \in Nat :
       /\ Assistant(stop, n) \in Messages /\ Assistant(stop, n).role = "assistant" /\ Assistant(stop, n).id = n
       /\ Assistant(stop, n).stop = stop
  /\ \A n \in Nat, kept \in Nat :
       /\ Compaction(n, kept) \in Entries /\ IsCompaction(Compaction(n, kept))
       /\ Compaction(n, kept).id = n /\ Compaction(n, kept).kept = kept /\ ~IsSaid(Compaction(n, kept))
       /\ Compaction(n, kept).role = "compaction"
  /\ \A m \in Messages : m \in Entries /\ ~IsCompaction(m) /\ m.id \in Nat /\ m.role \in Roles
  /\ \A e \in Entries : e.id \in Nat
<1>1. \A role \in Roles, n \in Nat :
        /\ Message(role, n) \in Messages /\ Message(role, n).role = role /\ Message(role, n).id = n
        /\ Message(role, n).stop = "none"
  BY DEF Message, Messages
<1>2. \A stop \in Stops, n \in Nat :
        /\ Assistant(stop, n) \in Messages /\ Assistant(stop, n).role = "assistant" /\ Assistant(stop, n).id = n
        /\ Assistant(stop, n).stop = stop
  BY DEF Assistant, Messages, Roles
<1>3. \A n \in Nat, kept \in Nat :
        /\ Compaction(n, kept) \in Entries /\ IsCompaction(Compaction(n, kept))
        /\ Compaction(n, kept).id = n /\ Compaction(n, kept).kept = kept /\ ~IsSaid(Compaction(n, kept))
        /\ Compaction(n, kept).role = "compaction"
  BY DEF Compaction, Entries, IsCompaction, IsSaid
<1>4. \A m \in Messages : m \in Entries /\ ~IsCompaction(m) /\ m.id \in Nat /\ m.role \in Roles
  BY DEF Messages, Entries, IsCompaction, Roles
<1>5. \A e \in Entries : e.id \in Nat
  BY DEF Messages, Entries
<1>6. QED
  BY <1>1, <1>2, <1>3, <1>4, <1>5

\* Messages are entries ...
LEMMA MessagesAreEntries == \A s \in Seq(Messages) : s \in Seq(Entries)
<1>1. Messages \subseteq Entries
  BY DEF Entries
<1>2. QED
  BY <1>1, SeqMonotonic

\* ... and results of shell commands are messages.
LEMMA BashAreMessages == \A s \in Seq({m \in Messages : m.role = "bash"}) : s \in Seq(Messages)
<1>1. {m \in Messages : m.role = "bash"} \subseteq Messages
  OBVIOUS
<1> DEFINE B == {m \in Messages : m.role = "bash"}
<1> HIDE DEF B
<1>2. B \subseteq Messages
  BY <1>1 DEF B
<1>3. \A s \in Seq(B) : s \in Seq(Messages)
  BY <1>2, SeqMonotonic
<1>4. QED
  BY <1>3 DEF B

\* Adding to a sequence.
LEMMA Adding ==
  ASSUME NEW S, NEW s \in Seq(S)
  PROVE  /\ \A e \in S : Append(s, e) \in Seq(S) /\ Append(s, e) = s \o <<e>> /\ <<e>> \in Seq(S)
         /\ \A t \in Seq(S) : s \o t \in Seq(S)
         /\ \A t \in Seq(S) : s # <<>> => s \o t # <<>> /\ Head(s \o t) = Head(s)
         /\ s \o <<>> = s /\ <<>> \o s = s
<1>1. \A e \in S : Append(s, e) \in Seq(S) /\ Append(s, e) = s \o <<e>> /\ <<e>> \in Seq(S)
  BY AppendProperties, AppendIsConcat, EmptySeq
<1>2. \A t \in Seq(S) : s \o t \in Seq(S)
  BY ConcatProperties
<1>3. s \o <<>> = s /\ <<>> \o s = s
  BY ConcatEmptySeq
<1>4. ASSUME NEW t \in Seq(S), s # <<>>
      PROVE  s \o t # <<>> /\ Head(s \o t) = Head(s)
  <2>1. Len(s) \in Nat /\ Len(s) # 0 /\ 1 \in 1..Len(s)
    BY <1>4, EmptySeq, LenProperties
  <2>2. (s \o t)[1] = s[1] /\ s \o t # <<>>
    BY <2>1, PlacesOfConcat, ConcatEqualIffEmpty, <1>4
  <2>3. QED
    BY <2>2
<1>5. QED
  BY <1>1, <1>2, <1>3, <1>4

\* What a run begins with is announced.
Announced(ms) == [i \in DOMAIN ms |-> MessageEnd(ms[i])]

\* What is announced waits.
LEMMA AnnouncedIs ==
  /\ <<>> \in Seq(Messages) /\ Announced(<<>>) \in Seq(Events) /\ Waiting(Announced(<<>>)) = <<>>
  /\ \A m \in Messages : /\ <<m>> \in Seq(Messages) /\ Announced(<<m>>) \in Seq(Events)
                         /\ Waiting(Announced(<<m>>)) = <<m>>
<1>1. Announced(<<>>) = <<>> /\ \A m : Announced(<<m>>) = <<MessageEnd(m)>>
  BY DEF Announced
<1>2. \A m \in Messages : <<m>> \in Seq(Messages) /\ <<MessageEnd(m)>> \in Seq(Events)
  BY EventKinds
<1>3. <<>> \in Seq(Messages) /\ <<>> \in Seq(Events)
  BY EmptySeq
<1>4. QED
  BY <1>1, <1>2, <1>3, WaitingOne

\* The types, and how the parts fit.
Types ==
  /\ messages \in Seq(Entries) /\ log \in Seq(Entries) /\ loaded \in Seq(Entries) \union {Nil}
  /\ queue \in Seq(Events) /\ lastAssistant \in Messages \union {Nil}
  /\ pendingBash \in Seq({m \in Messages : m.role = "bash"})
  /\ isStreaming \in BOOLEAN /\ aborted \in BOOLEAN /\ sleepAborted \in BOOLEAN
  /\ settling \in BOOLEAN /\ connected \in BOOLEAN
  /\ compacting \in [Owners -> [kept : Nat, willRetry : BOOLEAN] \union {Nil}]
  /\ place \in [Prompts -> Places]
  /\ made \in Nat /\ retryAttempt \in 0..MaxRetries
  /\ run \in {"none", "llm", "tool"}
  /\ awaitedBy \in Prompts \union {"timer", Nil}
  /\ working \in {"extension", "sleeping", "compacting"}
  /\ op \in {"none", "newSession", "switchSession", "restoring", "fork", "compact"}

RunFits ==
  /\ isStreaming <=> run # "none"
  /\ isStreaming \/ awaitedBy \notin Prompts
  /\ \A p \in Prompts : awaitedBy = p <=> place[p] = "running"

QueueFits ==
  /\ working # "extension" => queue # <<>> /\ Head(queue) = AgentEnd
  /\ working = "compacting" <=> compacting["events"] # Nil

CompactingFits ==
  /\ \A p \in Prompts : place[p] = "compacting" <=> compacting[p] # Nil
  /\ compacting["user"] # Nil => op = "compact" /\ ~settling

OpFits ==
  /\ settling => isStreaming /\ op \in {"newSession", "switchSession", "compact"}
  /\ SessionIsNext => ~isStreaming
  /\ connected <=> op \in {"none", "fork"}
  /\ loaded # Nil => op \in {"switchSession", "fork"} /\ ~settling

\* What is said next, and what the LLM answers next.
LEMMA Saying ==
  ASSUME Types, NEW role \in Roles, NEW m, m = Message(role, made + 1)
  PROVE  /\ m \in Messages /\ m \in Entries /\ m.id = made + 1 /\ m.role = role /\ made + 1 \in Nat
         /\ ~IsCompaction(m)
<1>1. made + 1 \in Nat
  BY DEF Types
<1>2. m \in Messages /\ m.id = made + 1 /\ m.role = role
  BY <1>1, Kinds
<1>3. QED
  BY <1>1, <1>2, Kinds

\* What the LLM answers next.
LEMMA Answering ==
  ASSUME Types, NEW stop \in Stops, NEW m, m = Assistant(stop, made + 1)
  PROVE  m \in Messages /\ m \in Entries /\ m.id = made + 1 /\ m.role = "assistant" /\ made + 1 \in Nat
<1>1. made + 1 \in Nat
  BY DEF Types
<1>2. m \in Messages /\ m.id = made + 1 /\ m.role = "assistant"
  BY <1>1, Kinds
<1>3. QED
  BY <1>1, <1>2, Kinds

\* TypeOK consists of these parts ...
LEMMA TypeOKParts == TypeOK <=> Types /\ RunFits /\ QueueFits /\ CompactingFits /\ OpFits
BY DEF TypeOK, Types, RunFits, QueueFits, CompactingFits, OpFits

\* ... also in the next state.
LEMMA TypeOKPartsPrimed == TypeOK' <=> Types' /\ RunFits' /\ QueueFits' /\ CompactingFits' /\ OpFits'
BY TypeOKParts, PTL

\* Dropping an answer leaves entries.
LEMMA DropTyped ==
  ASSUME NEW ms \in Seq(Entries)
  PROVE  DropLastAssistant(ms) \in Seq(Entries)
BY FrontAndLast DEF DropLastAssistant

\* The model values are different.
LEMMA OwnersDiffer ==
  /\ \A p \in Prompts : p \in Owners /\ p # "events" /\ p # "user" /\ p # "timer" /\ p # Nil
  /\ "events" \in Owners /\ "user" \in Owners /\ "events" # "user"
BY AgentSessionAssumption DEF Owners

\* A compaction keeps from an entry of the session.
LEMMA CutPointsTyped ==
  ASSUME log \in Seq(Entries), NEW kept \in CutPoints(log)
  PROVE  kept \in Nat /\ \E k \in DOMAIN log : log[k].id = kept
<1>1. PICK k \in DOMAIN log : log[k].id = kept
  BY DEF CutPoints
<1>2. log[k] \in Entries
  BY LenProperties, ElementOfSeq
<1>3. QED
  BY <1>1, <1>2, Kinds

\* A compaction that is prepared belongs to its owner, and keeps from an entry of the session.
LEMMA PrepareTyped ==
  ASSUME Types, NEW o \in Owners, NEW willRetry \in BOOLEAN, Prepare(o, willRetry)
  PROVE  /\ compacting' \in [Owners -> [kept : Nat, willRetry : BOOLEAN] \union {Nil}]
         /\ compacting'[o] # Nil
         /\ \A other \in Owners \ {o} : compacting'[other] = compacting[other]
         /\ \E k \in DOMAIN log : log[k].id = compacting'[o].kept
<1>1. PICK kept \in CutPoints(log) :
        compacting' = [compacting EXCEPT ![o] = [kept |-> kept, willRetry |-> willRetry]]
  BY DEF Prepare
<1>2. kept \in Nat /\ \E k \in DOMAIN log : log[k].id = kept
  BY CutPointsTyped DEF Types
<1> DEFINE c == [kept |-> kept, willRetry |-> willRetry]
<1>3. c \in [kept : Nat, willRetry : BOOLEAN] /\ c.kept = kept /\ c # Nil
  BY <1>2, NilAssumption
<1> HIDE DEF c
<1>4. compacting' = [compacting EXCEPT ![o] = c]
  BY <1>1 DEF c
<1>5. compacting \in [Owners -> [kept : Nat, willRetry : BOOLEAN] \union {Nil}]
  BY DEF Types
<1>6. QED
  BY <1>2, <1>3, <1>4, <1>5

-----------------------------------------------------------------------------
(* Every step keeps the types.                                             *)

\* The types in the beginning.
LEMMA InitTyped == ASSUME Init PROVE TypeOK
<1> USE AgentSessionAssumption DEF Init
<1>1. Types
  <2>1. /\ messages \in Seq(Entries) /\ log \in Seq(Entries) /\ queue \in Seq(Events)
        /\ pendingBash \in Seq({m \in Messages : m.role = "bash"})
    BY EmptySeq
  <2>2. made \in Nat
    BY DEF Earlier
  <2>3. /\ compacting \in [Owners -> [kept : Nat, willRetry : BOOLEAN] \union {Nil}]
        /\ place \in [Prompts -> Places]
    BY DEF Places
  <2>4. retryAttempt \in 0..MaxRetries
    OBVIOUS
  <2>5. /\ isStreaming = FALSE /\ aborted = FALSE /\ sleepAborted = FALSE /\ settling = FALSE /\ connected = TRUE
        /\ loaded = Nil /\ lastAssistant = Nil /\ run = "none" /\ awaitedBy = Nil /\ working = "extension"
        /\ op = "none"
    OBVIOUS
  <2>6. QED
    BY ONLY <2>1, <2>2, <2>3, <2>4, <2>5 DEF Types
<1>2. RunFits
  BY DEF RunFits
<1>3. QueueFits
  BY OwnersDiffer DEF QueueFits
<1>4. CompactingFits
  BY OwnersDiffer DEF CompactingFits
<1>5. OpFits
  BY DEF OpFits, SessionIsNext
<1>6. QED
  BY <1>1, <1>2, <1>3, <1>4, <1>5, TypeOKParts

\* A run that begins.
LEMMA StartTyped ==
  ASSUME Types, NEW by, NEW ms \in Seq(Messages), Announced(ms) \in Seq(Events), StartRun(by, ms)
  PROVE  /\ messages' = messages \o ms /\ messages' \in Seq(Entries) /\ made' \in Nat
         /\ isStreaming' = TRUE /\ run' = "llm" /\ awaitedBy' = by /\ aborted' = FALSE
         /\ queue' = (IF connected THEN queue \o Announced(ms) ELSE queue) /\ queue' \in Seq(Events)
         /\ queue # <<>> => queue' # <<>> /\ Head(queue') = Head(queue)
<1>1. /\ messages' = messages \o ms /\ made' = made + Len(ms)
      /\ isStreaming' = TRUE /\ run' = "llm" /\ awaitedBy' = by /\ aborted' = FALSE
      /\ queue' = IF connected THEN queue \o Announced(ms) ELSE queue
  BY DEF StartRun, Announced
<1>2. messages \in Seq(Entries) /\ queue \in Seq(Events) /\ made \in Nat
  BY DEF Types
<1>3. ms \in Seq(Entries) /\ Len(ms) \in Nat
  BY MessagesAreEntries, LenProperties
<1>4. messages \o ms \in Seq(Entries)
  BY <1>2, <1>3, Adding
<1>5. /\ queue \o Announced(ms) \in Seq(Events)
      /\ queue # <<>> => queue \o Announced(ms) # <<>> /\ Head(queue \o Announced(ms)) = Head(queue)
  BY <1>2, Adding
<1>6. made + Len(ms) \in Nat
  BY <1>2, <1>3
<1>7. QED
  BY <1>1, <1>2, <1>4, <1>5, <1>6

\* What an action pushes when the agent is heard.
LEMMA PushTyped ==
  ASSUME Types, NEW events \in Seq(Events), queue' = IF connected THEN queue \o events ELSE queue
  PROVE  queue' \in Seq(Events) /\ (queue # <<>> => queue' # <<>> /\ Head(queue') = Head(queue))
<1>1. queue \in Seq(Events)
  BY DEF Types
<1>2. QED
  BY <1>1, Adding

\* The events of an answer.
AnswerEvents(stop, m) == <<MessageEnd(m)>> \o (IF stop = "toolUse" THEN <<>> ELSE <<AgentEnd>>)

\* An answer's events announce it.
LEMMA AnswerEventsTyped ==
  ASSUME NEW stop, NEW m \in Messages
  PROVE  AnswerEvents(stop, m) \in Seq(Events) /\ Waiting(AnswerEvents(stop, m)) = <<m>>
<1>1. <<MessageEnd(m)>> \in Seq(Events) /\ <<AgentEnd>> \in Seq(Events) /\ <<>> \in Seq(Events)
  BY EventKinds, EmptySeq, Adding
<1> DEFINE a == <<MessageEnd(m)>>
           b == IF stop = "toolUse" THEN <<>> ELSE <<AgentEnd>>
<1>2. a \in Seq(Events) /\ b \in Seq(Events) /\ Waiting(a) = <<m>> /\ Waiting(b) = <<>>
  BY <1>1, WaitingOne
<1>3. <<m>> \o <<>> = <<m>>
  OBVIOUS
<1> HIDE DEF a, b
<1>4. a \o b \in Seq(Events) /\ Waiting(a \o b) = Waiting(a) \o Waiting(b)
  BY <1>2, WaitingConcat, Adding
<1>5. QED
  BY <1>2, <1>3, <1>4 DEF AnswerEvents, a, b

\* A run that ends lets go of its prompt.
LEMMA LlmAnswersTyped ==
  ASSUME TypeOK, NEW stop \in Stops, LlmAnswers(stop)
  PROVE  TypeOK'
<1> DEFINE m == Assistant(stop, made + 1)
<1>1. Types /\ RunFits /\ QueueFits /\ CompactingFits /\ OpFits
  BY TypeOKParts
<1>2. m \in Messages /\ made' \in Nat /\ m \in Entries
  <2>1. made' = made + 1
    BY DEF LlmAnswers
  <2>2. QED
    BY <1>1, <2>1, Answering
<1>3. messages' \in Seq(Entries)
  BY <1>1, <1>2, Adding DEF Types, LlmAnswers
<1>4. queue' \in Seq(Events) /\ (queue # <<>> => queue' # <<>> /\ Head(queue') = Head(queue))
  <2>1. queue' = IF connected THEN queue \o AnswerEvents(stop, m) ELSE queue
    BY DEF LlmAnswers, AnswerEvents
  <2>2. AnswerEvents(stop, m) \in Seq(Events)
    BY <1>2, AnswerEventsTyped
  <2>3. QED
    BY <1>1, <2>1, <2>2, PushTyped
<1> HIDE DEF m
<1>5. CASE stop = "toolUse"
  <2>1. /\ run' = "tool" /\ UNCHANGED <<isStreaming, awaitedBy, settling, place>>
        /\ UNCHANGED <<aborted, log, working, lastAssistant, retryAttempt, sleepAborted, pendingBash,
                       connected, compacting, op, loaded>>
        /\ run = "llm"
    BY <1>5 DEF LlmAnswers
  <2>2. Types'
    BY <1>1, <1>2, <1>3, <1>4, <2>1 DEF Types
  <2>3. RunFits' /\ QueueFits' /\ CompactingFits' /\ OpFits'
    BY <1>1, <1>4, <2>1 DEF RunFits, QueueFits, CompactingFits, OpFits, SessionIsNext
  <2>4. QED
    BY <2>2, <2>3, TypeOKPartsPrimed
<1>6. CASE stop # "toolUse"
  <2>1. /\ run' = "none" /\ isStreaming' = FALSE /\ awaitedBy' = Nil /\ settling' = FALSE
        /\ place' = IF awaitedBy \in Prompts THEN [place EXCEPT ![awaitedBy] = "settled"] ELSE place
        /\ UNCHANGED <<aborted, log, working, lastAssistant, retryAttempt, sleepAborted, pendingBash,
                       connected, compacting, op, loaded>>
        /\ run = "llm"
    BY <1>6 DEF LlmAnswers
  <2>2. place' \in [Prompts -> Places]
    BY <1>1, <2>1 DEF Types, Places
  <2>3. Types'
    BY <1>1, <1>2, <1>3, <1>4, <2>1, <2>2 DEF Types
  <2>4. RunFits'
    BY <1>1, <2>1, OwnersDiffer DEF RunFits, Types
  <2>5. QueueFits' /\ OpFits'
    BY <1>1, <1>4, <2>1 DEF QueueFits, OpFits, SessionIsNext
  <2>6. CompactingFits'
    BY <1>1, <2>1 DEF CompactingFits, RunFits, Types
  <2>7. QED
    BY <2>3, <2>4, <2>5, <2>6, TypeOKPartsPrimed
<1>7. QED
  BY <1>5, <1>6

\* A tool's result goes on with the run.
LEMMA ToolReturnsTyped ==
  ASSUME TypeOK, ToolReturns
  PROVE  TypeOK'
<1> DEFINE m == Message("toolResult", made + 1)
<1>1. Types /\ RunFits /\ QueueFits /\ CompactingFits /\ OpFits
  BY TypeOKParts
<1>2. m \in Messages /\ made' \in Nat /\ m \in Entries
  <2>1. made' = made + 1
    BY DEF ToolReturns
  <2>2. QED
    BY <1>1, <2>1, Saying DEF Roles
<1>3. messages' \in Seq(Entries)
  BY <1>1, <1>2, Adding DEF Types, ToolReturns
<1>4. queue' \in Seq(Events) /\ (queue # <<>> => queue' # <<>> /\ Head(queue') = Head(queue))
  <2>1. <<MessageEnd(m)>> \in Seq(Events) /\ Append(queue, MessageEnd(m)) = queue \o <<MessageEnd(m)>>
    BY <1>1, <1>2, EventKinds, Adding DEF Types
  <2>2. queue' = IF connected THEN queue \o <<MessageEnd(m)>> ELSE queue
    BY <2>1 DEF ToolReturns
  <2>3. QED
    BY <1>1, <2>1, <2>2, PushTyped
<1> HIDE DEF m
<1>5. /\ run = "tool" /\ run' = "llm"
      /\ UNCHANGED <<isStreaming, awaitedBy, aborted, log, working, lastAssistant, retryVars, pendingBash,
                     connected, compacting, promptVars, opVars>>
  BY DEF ToolReturns
<1>6. Types'
  BY <1>1, <1>2, <1>3, <1>4, <1>5 DEF Types, retryVars, promptVars, opVars
<1>7. RunFits' /\ QueueFits' /\ CompactingFits' /\ OpFits'
  BY <1>1, <1>4, <1>5 DEF RunFits, QueueFits, CompactingFits, OpFits, SessionIsNext, promptVars, opVars
<1>8. QED
  BY <1>6, <1>7, TypeOKPartsPrimed

\* Whoever waited for a compaction goes on.
LEMMA GoesOnTyped ==
  ASSUME TypeOK, NEW o \in Owners, compacting[o] # Nil, GoesOn(o),
         messages' \in Seq(Entries), log' \in Seq(Entries), made' \in Nat
  PROVE  TypeOK'
<1>1. Types /\ RunFits /\ QueueFits /\ CompactingFits /\ OpFits
  BY TypeOKParts
<1>2. /\ compacting' = [compacting EXCEPT ![o] = Nil]
      /\ queue' = IF o = "events" THEN Tail(queue) ELSE queue
      /\ working' = IF o = "events" THEN "extension" ELSE working
      /\ place' = IF o \in Prompts THEN [place EXCEPT ![o] = "ready"] ELSE place
      /\ connected' = (connected \/ o = "user")
      /\ op' = IF o = "user" THEN "none" ELSE op
      /\ UNCHANGED <<isStreaming, run, awaitedBy, aborted, loaded, lastAssistant, retryAttempt, sleepAborted,
                     pendingBash, settling>>
  BY DEF GoesOn, agentVars, retryVars
<1>3. /\ compacting' \in [Owners -> [kept : Nat, willRetry : BOOLEAN] \union {Nil}]
      /\ compacting'[o] = Nil /\ \A other \in Owners \ {o} : compacting'[other] = compacting[other]
  BY <1>1, <1>2 DEF Types
<1>4. place' \in [Prompts -> Places] /\ \A p \in Prompts : place'[p] = IF p = o THEN "ready" ELSE place[p]
  BY <1>1, <1>2 DEF Types, Places
<1>5. queue' \in Seq(Events)
  <2>1. o = "events" => queue # <<>>
    BY <1>1 DEF QueueFits
  <2>2. QED
    BY <1>1, <1>2, <2>1, WaitingHead DEF Types
<1>6. Types'
  <2>1. connected' \in BOOLEAN
    BY <1>2
  <2>2. working' \in {"extension", "sleeping", "compacting"} /\ op' \in {"none", "newSession", "switchSession", "restoring", "fork", "compact"}
    BY <1>1, <1>2 DEF Types
  <2>3. QED
    BY <1>1, <1>2, <1>3, <1>4, <1>5, <2>1, <2>2 DEF Types
<1>7. RunFits'
  <2>1. \A p \in Prompts : place'[p] = "running" <=> place[p] = "running"
    BY <1>1, <1>4 DEF CompactingFits
  <2>2. QED
    BY <1>1, <1>2, <2>1 DEF RunFits
<1>8. QueueFits'
  <2>1. CASE o = "events"
    BY <1>2, <1>3, <2>1 DEF QueueFits
  <2>2. CASE o # "events"
    BY <1>1, <1>2, <1>3, <2>2, OwnersDiffer DEF QueueFits
  <2>3. QED
    BY <2>1, <2>2
<1>9. CompactingFits'
  <2>1. \A p \in Prompts : place'[p] = "compacting" <=> compacting'[p] # Nil
    BY <1>1, <1>3, <1>4, OwnersDiffer DEF CompactingFits
  <2>2. compacting'["user"] # Nil => op' = "compact" /\ ~settling'
    BY <1>1, <1>2, <1>3, OwnersDiffer DEF CompactingFits
  <2>3. QED
    BY <2>1, <2>2 DEF CompactingFits
<1>10. OpFits'
  <2>1. CASE o = "user"
    BY <1>1, <1>2, <2>1 DEF OpFits, CompactingFits, SessionIsNext
  <2>2. CASE o # "user"
    BY <1>1, <1>2, <2>2 DEF OpFits, SessionIsNext, Types
  <2>3. QED
    BY <2>1, <2>2
<1>11. QED
  BY <1>6, <1>7, <1>8, <1>9, <1>10, TypeOKPartsPrimed

\* A compaction that ends leaves its summary at the end of the session.
LEMMA CompactionEndsTyped ==
  ASSUME TypeOK, NEW o \in Owners, CompactionEnds(o)
  PROVE  TypeOK' /\ log' = Append(log, Compaction(made + 1, compacting[o].kept))
         /\ Compaction(made + 1, compacting[o].kept) \in Entries /\ compacting[o].kept \in Nat
         /\ Context(log') \in Seq(Entries) /\ Context(log') # <<>>
<1> DEFINE e == Compaction(made + 1, compacting[o].kept)
<1>1. Types
  BY TypeOKParts
<1>2. /\ compacting[o] # Nil /\ made' = made + 1 /\ log' = Append(log, e)
      /\ messages' = Reloaded(log', compacting[o].willRetry) /\ GoesOn(o)
  BY DEF CompactionEnds
<1>3. compacting[o].kept \in Nat /\ made \in Nat /\ log \in Seq(Entries)
  BY <1>1, <1>2 DEF Types
<1>4. e \in Entries /\ IsCompaction(e) /\ made' \in Nat
  <2>1. made + 1 \in Nat
    BY <1>3
  <2>2. QED
    BY <1>2, <1>3, <2>1, Kinds
<1> HIDE DEF e
<1>5. log' \in Seq(Entries) /\ Context(log') \in Seq(Entries) /\ Context(log') # <<>>
  BY <1>2, <1>3, <1>4, Adding, ContextCompacted
<1>6. messages' \in Seq(Entries)
  BY <1>2, <1>5, FrontAndLast DEF Reloaded
<1>7. TypeOK'
  BY <1>2, <1>4, <1>5, <1>6, GoesOnTyped
<1>8. QED
  BY <1>2, <1>3, <1>4, <1>5, <1>7 DEF e

\* One that fails leaves the session alone.
LEMMA CompactionFailsTyped ==
  ASSUME TypeOK, NEW o \in Owners, CompactionFails(o)
  PROVE  TypeOK'
<1>1. Types
  BY TypeOKParts
<1>2. /\ compacting[o] # Nil /\ GoesOn(o) /\ UNCHANGED <<messages, log, made>>
  BY DEF CompactionFails
<1>3. messages' \in Seq(Entries) /\ log' \in Seq(Entries) /\ made' \in Nat
  BY <1>1, <1>2 DEF Types
<1>4. QED
  BY <1>2, <1>3, GoesOnTyped

\* The head of the queue has been worked on, and nothing was awaited for it.
LEMMA HeadGoneTyped ==
  ASSUME TypeOK, queue # <<>>, queue' = Tail(queue), working' = "extension", working # "compacting",
         messages' \in Seq(Entries), log' \in Seq(Entries), lastAssistant' \in Messages \union {Nil},
         retryAttempt' \in 0..MaxRetries, sleepAborted' \in BOOLEAN,
         UNCHANGED <<isStreaming, run, awaitedBy, aborted, loaded, pendingBash, connected, compacting,
                     place, op, settling, made>>
  PROVE  TypeOK'
<1>1. Types /\ RunFits /\ QueueFits /\ CompactingFits /\ OpFits
  BY TypeOKParts
<1>2. queue' \in Seq(Events)
  BY <1>1, WaitingHead DEF Types
<1>3. Types'
  BY <1>1, <1>2 DEF Types
<1>4. RunFits' /\ QueueFits' /\ CompactingFits' /\ OpFits'
  BY <1>1 DEF RunFits, QueueFits, CompactingFits, OpFits, SessionIsNext
<1>5. QED
  BY <1>3, <1>4, TypeOKPartsPrimed

\* The message at the head of the queue.
LEMMA HeadMessage ==
  ASSUME Types, HeadIs("message_end")
  PROVE  /\ Head(queue).message \in Messages
         /\ Unsaved = <<Head(queue).message>> \o Waiting(Tail(queue))
         /\ Tail(queue) \in Seq(Events) /\ Waiting(Tail(queue)) \in Seq(Messages)
<1>1. queue \in Seq(Events) /\ queue # <<>> /\ Head(queue).type = "message_end"
  BY DEF Types, HeadIs
<1>2. Head(queue) \in Events /\ Tail(queue) \in Seq(Events)
  BY <1>1, WaitingHead
<1>3. Head(queue).message \in Messages
  BY <1>1, <1>2, EventKinds
<1>4. QED
  BY <1>1, <1>2, <1>3, WaitingHead, WaitingPicked DEF Unsaved

\* Persisting a message.
LEMMA HandleMessageEndTyped ==
  ASSUME TypeOK, HandleMessageEnd
  PROVE  TypeOK'
<1> DEFINE m == Head(queue).message
<1>1. Types /\ HeadIs("message_end")
  BY TypeOKParts DEF HandleMessageEnd
<1>2. m \in Messages /\ m \in Entries
  BY <1>1, HeadMessage, Kinds
<1>3. /\ queue' = Tail(queue) /\ log' = Append(log, m)
      /\ lastAssistant' = IF IsAssistant(m) THEN m ELSE lastAssistant
      /\ retryAttempt' = 0 \/ retryAttempt' = retryAttempt
      /\ UNCHANGED <<messages, isStreaming, run, awaitedBy, aborted, working, sleepAborted, pendingBash, connected,
                     compacting, place, op, settling, loaded, made>>
  BY DEF HandleMessageEnd, agentVars, promptVars, opVars
<1> HIDE DEF m
<1>4. queue # <<>> /\ working = "extension"
  BY <1>1 DEF HeadIs
<1>5. /\ messages' \in Seq(Entries) /\ log' \in Seq(Entries) /\ lastAssistant' \in Messages \union {Nil}
      /\ sleepAborted' \in BOOLEAN
  BY <1>1, <1>2, <1>3, Adding DEF Types
<1>6. retryAttempt' \in 0..MaxRetries
  BY <1>1, <1>3, AgentSessionAssumption DEF Types
<1>7. QED
  BY <1>3, <1>4, <1>5, <1>6, HeadGoneTyped

\* A compaction that begins, or for which there is nothing to do.
LEMMA CompactsTyped ==
  ASSUME Types, NEW o \in Owners, NEW m, NEW skipAborted, Compacts(o, m, skipAborted)
  PROVE  /\ messages' \in Seq(Entries)
         /\ compacting' \in [Owners -> [kept : Nat, willRetry : BOOLEAN] \union {Nil}]
         /\ compacting'[o] # Nil
         /\ \A other \in Owners \ {o} : compacting'[other] = compacting[other]
         /\ \E k \in DOMAIN log : log[k].id = compacting'[o].kept
<1>1. messages \in Seq(Entries)
  BY DEF Types
<1>2. messages' = DropLastAssistant(messages) \/ messages' = messages
  BY DEF Compacts
<1>3. messages' \in Seq(Entries)
  BY <1>1, <1>2, DropTyped
<1>4. Prepare(o, TRUE) \/ Prepare(o, FALSE)
  BY DEF Compacts
<1>5. QED
  BY <1>3, <1>4, PrepareTyped

\* Without a compaction at most an answer is dropped.
LEMMA CompactsNotTyped ==
  ASSUME Types, NEW m, CompactsNot(m)
  PROVE  /\ messages' \in Seq(Entries) /\ compacting' = compacting
         /\ messages' = DropLastAssistant(messages) \/ messages' = messages
<1>1. messages \in Seq(Entries)
  BY DEF Types
<1>2. messages' = DropLastAssistant(messages) \/ messages' = messages
  BY DEF CompactsNot
<1>3. QED
  BY <1>1, <1>2, DropTyped DEF CompactsNot

\* What happens at the head of the queue when its agent_end is worked on.
LEMMA AgentEndSteps ==
  ASSUME Types, HandleAgentEnd
  PROVE  /\ queue # <<>> /\ Head(queue) = AgentEnd /\ working = "extension" /\ lastAssistant' = Nil
         /\ UNCHANGED <<isStreaming, run, awaitedBy, aborted, session, log, sleepAborted, pendingBash, connected,
                        place, waitsFor, op, settling, loaded, timers, made, failures, toolTurns, ran>>
         /\ messages' \in Seq(Entries) /\ (messages' = DropLastAssistant(messages) \/ messages' = messages)
         /\ retryAttempt' \in 0..MaxRetries
         /\ \/ queue' = Tail(queue) /\ working' = "extension" /\ compacting' = compacting
            \/ queue' = queue /\ working' = "sleeping" /\ compacting' = compacting
            \/ /\ queue' = queue /\ working' = "compacting" /\ compacting'["events"] # Nil
               /\ compacting' \in [Owners -> [kept : Nat, willRetry : BOOLEAN] \union {Nil}]
               /\ \A other \in Owners \ {"events"} : compacting'[other] = compacting[other]
               /\ \E k \in DOMAIN log : log[k].id = compacting'["events"].kept
<1>1. /\ HeadIs("agent_end") /\ lastAssistant' = Nil
      /\ UNCHANGED <<isStreaming, run, awaitedBy, aborted, session, log, sleepAborted, pendingBash, connected,
                     place, waitsFor, op, settling, loaded, timers, made, failures, toolTurns, ran>>
  BY DEF HandleAgentEnd, agentVars, promptVars, opVars
<1>2. queue # <<>> /\ working = "extension" /\ Head(queue).type = "agent_end"
  BY <1>1 DEF HeadIs
<1>3. Head(queue) = AgentEnd
  <2>1. Head(queue) \in Events
    BY <1>2, WaitingHead DEF Types
  <2>2. QED
    BY <1>2, <2>1, EventKinds
<1>4. /\ messages \in Seq(Entries) /\ DropLastAssistant(messages) \in Seq(Entries)
      /\ retryAttempt \in 0..MaxRetries /\ 0 \in 0..MaxRetries /\ MaxRetries \in Nat
  BY DropTyped, AgentSessionAssumption DEF Types
<1>5. CASE lastAssistant = Nil
  <2>1. queue' = Tail(queue) /\ UNCHANGED <<messages, retryAttempt, working, compacting>>
    BY <1>5 DEF HandleAgentEnd
  <2>2. QED
    BY <1>1, <1>2, <1>3, <1>4, <2>1
<1>6. CASE lastAssistant # Nil
  <2> DEFINE m == lastAssistant
  <2>1. RetryStarts(m) \/ RetriesExhausted(m) \/ RunChecked(m)
    BY <1>6 DEF HandleAgentEnd
  <2> HIDE DEF m
  <2>2. CASE RetryStarts(m)
    <3>1. /\ retryAttempt < MaxRetries /\ retryAttempt' = retryAttempt + 1
          /\ messages' = DropLastAssistant(messages) /\ working' = "sleeping" /\ UNCHANGED <<queue, compacting>>
      BY <2>2 DEF RetryStarts
    <3>2. retryAttempt' \in 0..MaxRetries
      BY <1>4, <3>1
    <3>3. QED
      BY <1>1, <1>2, <1>3, <1>4, <3>1, <3>2
  <2>3. CASE RetriesExhausted(m)
    <3>1. retryAttempt' = 0 /\ queue' = Tail(queue) /\ UNCHANGED <<messages, working, compacting>>
      BY <2>3 DEF RetriesExhausted
    <3>2. QED
      BY <1>1, <1>2, <1>3, <1>4, <3>1
  <2>4. CASE RunChecked(m)
    <3>1. retryAttempt' = retryAttempt
      BY <2>4 DEF RunChecked
    <3>2. CASE Compacts("events", m, TRUE) /\ working' = "compacting" /\ UNCHANGED queue
      <4>1. messages' = DropLastAssistant(messages) \/ messages' = messages
        BY <3>2 DEF Compacts
      <4>2. QED
        BY <1>1, <1>2, <1>3, <1>4, <3>1, <3>2, <4>1, CompactsTyped, OwnersDiffer
    <3>3. CASE CompactsNot(m) /\ queue' = Tail(queue) /\ UNCHANGED working
      BY <1>1, <1>2, <1>3, <1>4, <3>1, <3>3, CompactsNotTyped
    <3>4. QED
      BY <2>4, <3>2, <3>3 DEF RunChecked
  <2>5. QED
    BY <2>1, <2>2, <2>3, <2>4
<1>7. QED
  BY <1>5, <1>6

\* What is awaited then belongs to the head, which stays.
LEMMA HandleAgentEndTyped ==
  ASSUME TypeOK, HandleAgentEnd
  PROVE  TypeOK'
<1>1. Types /\ RunFits /\ QueueFits /\ CompactingFits /\ OpFits
  BY TypeOKParts
<1>2. /\ queue # <<>> /\ Head(queue) = AgentEnd /\ working = "extension" /\ lastAssistant' = Nil
      /\ UNCHANGED <<isStreaming, run, awaitedBy, aborted, log, sleepAborted, pendingBash, connected,
                     place, op, settling, loaded, made>>
      /\ messages' \in Seq(Entries) /\ retryAttempt' \in 0..MaxRetries
  BY <1>1, AgentEndSteps
<1>3. CASE queue' = Tail(queue) /\ working' = "extension" /\ compacting' = compacting
  <2>1. log' \in Seq(Entries) /\ lastAssistant' \in Messages \union {Nil} /\ sleepAborted' \in BOOLEAN
    BY <1>1, <1>2 DEF Types
  <2>2. QED
    BY <1>2, <1>3, <2>1, HeadGoneTyped
<1>4. CASE queue' = queue /\ working' = "sleeping" /\ compacting' = compacting
  <2>1. Types'
    BY <1>1, <1>2, <1>4 DEF Types
  <2>2. RunFits' /\ QueueFits' /\ CompactingFits' /\ OpFits'
    BY <1>1, <1>2, <1>4 DEF RunFits, QueueFits, CompactingFits, OpFits, SessionIsNext
  <2>3. QED
    BY <2>1, <2>2, TypeOKPartsPrimed
<1>5. CASE /\ queue' = queue /\ working' = "compacting" /\ compacting'["events"] # Nil
           /\ compacting' \in [Owners -> [kept : Nat, willRetry : BOOLEAN] \union {Nil}]
           /\ \A other \in Owners \ {"events"} : compacting'[other] = compacting[other]
  <2>1. Types'
    BY <1>1, <1>2, <1>5 DEF Types
  <2>2. RunFits' /\ QueueFits' /\ OpFits'
    BY <1>1, <1>2, <1>5 DEF RunFits, QueueFits, OpFits, SessionIsNext
  <2>3. CompactingFits'
    BY <1>1, <1>2, <1>5, OwnersDiffer DEF CompactingFits
  <2>4. QED
    BY <2>1, <2>2, <2>3, TypeOKPartsPrimed
<1>6. QED
  BY <1>1, <1>3, <1>4, <1>5, AgentEndSteps

\* Nothing is awaited when a listener throws.
LEMMA ListenerThrowsTyped ==
  ASSUME TypeOK, ListenerThrows
  PROVE  TypeOK'
<1>1. Types
  BY TypeOKParts
<1>2. /\ queue # <<>> /\ working = "extension" /\ queue' = Tail(queue)
      /\ UNCHANGED <<messages, isStreaming, run, awaitedBy, aborted, log, working, lastAssistant, retryAttempt,
                     sleepAborted, pendingBash, connected, compacting, place, op, settling, loaded, made>>
  BY DEF ListenerThrows, agentVars, retryVars, promptVars, opVars
<1>3. /\ messages' \in Seq(Entries) /\ log' \in Seq(Entries) /\ lastAssistant' \in Messages \union {Nil}
      /\ retryAttempt' \in 0..MaxRetries /\ sleepAborted' \in BOOLEAN
  BY <1>1, <1>2 DEF Types
<1>4. QED
  BY <1>2, <1>3, HeadGoneTyped

\* The head goes when its backoff ends.
LEMMA SleepEndsTyped ==
  ASSUME TypeOK, SleepEnds
  PROVE  TypeOK'
<1>1. Types /\ QueueFits
  BY TypeOKParts
<1>2. /\ working = "sleeping" /\ working' = "extension" /\ queue' = Tail(queue) /\ sleepAborted' = FALSE
      /\ retryAttempt' = 0 \/ retryAttempt' = retryAttempt
      /\ UNCHANGED <<messages, isStreaming, run, awaitedBy, aborted, log, lastAssistant,
                     pendingBash, connected, compacting, place, op, settling, loaded, made>>
  BY DEF SleepEnds, agentVars, promptVars, opVars
<1>3. /\ messages' \in Seq(Entries) /\ log' \in Seq(Entries) /\ lastAssistant' \in Messages \union {Nil}
      /\ sleepAborted' \in BOOLEAN
  BY <1>1, <1>2 DEF Types
<1>4. retryAttempt' \in 0..MaxRetries
  BY <1>1, <1>2, AgentSessionAssumption DEF Types
<1>5. queue # <<>>
  BY <1>1, <1>2 DEF QueueFits
<1>6. QED
  BY <1>2, <1>3, <1>4, <1>5, HeadGoneTyped

\* A run has begun.
LEMMA StartedTyped ==
  ASSUME TypeOK, ~isStreaming, ~SessionIsNext, NEW by \in Prompts \union {"timer", Nil},
         NEW ms \in Seq(Messages), Announced(ms) \in Seq(Events), StartRun(by, ms),
         place' \in [Prompts -> Places], \A p \in Prompts : place'[p] = IF p = by THEN "running" ELSE place[p],
         \A p \in Prompts : p = by => place[p] # "compacting",
         UNCHANGED <<log, working, lastAssistant, retryAttempt, sleepAborted, pendingBash, connected, compacting,
                     op, settling, loaded>>
  PROVE  TypeOK'
<1>1. Types /\ RunFits /\ QueueFits /\ CompactingFits /\ OpFits
  BY TypeOKParts
<1>2. /\ messages' \in Seq(Entries) /\ made' \in Nat
      /\ isStreaming' = TRUE /\ run' = "llm" /\ awaitedBy' = by /\ aborted' = FALSE
      /\ queue' \in Seq(Events)
      /\ queue # <<>> => queue' # <<>> /\ Head(queue') = Head(queue)
  BY <1>1, StartTyped
<1>3. Types'
  <2>1. /\ messages' \in Seq(Entries) /\ queue' \in Seq(Events) /\ made' \in Nat
        /\ isStreaming' = TRUE /\ run' = "llm" /\ awaitedBy' \in Prompts \union {"timer", Nil} /\ aborted' = FALSE
    BY <1>2
  <2>2. QED
    BY <1>1, <2>1 DEF Types
<1>4. RunFits'
  <2>1. \A p \in Prompts : place[p] # "running"
    BY <1>1 DEF RunFits
  <2>2. \A p \in Prompts : awaitedBy' = p <=> place'[p] = "running"
    BY <1>2, <2>1
  <2>3. QED
    BY <1>2, <2>2 DEF RunFits
<1>5. QueueFits' /\ CompactingFits' /\ OpFits'
  BY <1>1, <1>2 DEF QueueFits, CompactingFits, OpFits, SessionIsNext
<1>6. QED
  BY <1>3, <1>4, <1>5, TypeOKPartsPrimed

\* A timer's run is awaited by no prompt.
LEMMA TimerFiresTyped ==
  ASSUME TypeOK, NEW kind \in {"retry", "compaction"}, TimerFires(kind)
  PROVE  TypeOK'
<1>1. Types /\ RunFits /\ QueueFits /\ CompactingFits /\ OpFits
  BY TypeOKParts
<1>2. /\ ~SessionIsNext
      /\ UNCHANGED <<log, working, lastAssistant, retryAttempt, sleepAborted, pendingBash, connected, compacting,
                     place, op, settling, loaded>>
  BY DEF TimerFires, retryVars, promptVars, opVars
<1>3. CASE Refused
  <2>1. UNCHANGED <<messages, isStreaming, run, awaitedBy, aborted, queue, made>>
    BY <1>3 DEF TimerFires, agentVars
  <2>2. Types'
    BY <1>1, <1>2, <2>1 DEF Types
  <2>3. RunFits' /\ QueueFits' /\ CompactingFits' /\ OpFits'
    BY <1>1, <1>2, <2>1 DEF RunFits, QueueFits, CompactingFits, OpFits, SessionIsNext
  <2>4. QED
    BY <2>2, <2>3, TypeOKPartsPrimed
<1>4. CASE ~Refused
  <2>1. StartRun("timer", <<>>) /\ ~isStreaming
    BY <1>4 DEF TimerFires, Refused
  <2>2. <<>> \in Seq(Messages) /\ Announced(<<>>) \in Seq(Events)
    BY AnnouncedIs
  <2>3. /\ place' \in [Prompts -> Places]
        /\ \A p \in Prompts : p # "timer" /\ place'[p] = place[p]
    BY <1>1, <1>2, OwnersDiffer DEF Types
  <2>4. QED
    BY <1>2, <2>1, <2>2, <2>3, StartedTyped
<1>5. QED
  BY <1>3, <1>4

\* A prompt goes on, and the agent is left alone.
LEMMA PlaceTyped ==
  ASSUME TypeOK, NEW p \in Prompts, NEW to \in Places, place' = [place EXCEPT ![p] = to],
         place[p] \notin {"running", "compacting"}, to # "running",
         messages' \in Seq(Entries), log' \in Seq(Entries),
         pendingBash' \in Seq({m \in Messages : m.role = "bash"}),
         compacting' \in [Owners -> [kept : Nat, willRetry : BOOLEAN] \union {Nil}],
         to = "compacting" <=> compacting'[p] # Nil,
         \A other \in Owners \ {p} : compacting'[other] = compacting[other],
         UNCHANGED <<isStreaming, run, awaitedBy, aborted, queue, working, lastAssistant, retryAttempt,
                     sleepAborted, connected, op, settling, loaded, made>>
  PROVE  TypeOK'
<1>1. Types /\ RunFits /\ QueueFits /\ CompactingFits /\ OpFits
  BY TypeOKParts
<1>2. place' \in [Prompts -> Places] /\ \A q \in Prompts : place'[q] = IF q = p THEN to ELSE place[q]
  BY <1>1 DEF Types
<1>3. Types'
  BY <1>1, <1>2 DEF Types
<1>4. RunFits'
  BY <1>1, <1>2 DEF RunFits
<1>5. QueueFits' /\ OpFits'
  BY <1>1, OwnersDiffer DEF QueueFits, OpFits, SessionIsNext
<1>6. CompactingFits'
  <2>1. \A q \in Prompts : place'[q] = "compacting" <=> compacting'[q] # Nil
    BY <1>1, <1>2, OwnersDiffer DEF CompactingFits
  <2>2. compacting'["user"] = compacting["user"]
    BY OwnersDiffer
  <2>3. QED
    BY <1>1, <2>1, <2>2 DEF CompactingFits
<1>7. QED
  BY <1>3, <1>4, <1>5, <1>6, TypeOKPartsPrimed

\* A call of prompt().
LEMMA PromptTyped ==
  ASSUME TypeOK, NEW p \in Prompts, Prompt(p)
  PROVE  TypeOK'
<1>1. Types /\ CompactingFits
  BY TypeOKParts
<1>2. /\ place[p] = "none" /\ place' = [place EXCEPT ![p] = "called"]
      /\ messages' = messages \o pendingBash /\ log' = log \o pendingBash /\ pendingBash' = <<>>
      /\ UNCHANGED <<isStreaming, run, awaitedBy, aborted, queue, working, lastAssistant, retryAttempt,
                     sleepAborted, connected, compacting, op, settling, loaded, made>>
  BY DEF Prompt, agentVars, retryVars, opVars
<1>3. /\ messages \in Seq(Entries) /\ log \in Seq(Entries) /\ pendingBash \in Seq(Entries)
      /\ compacting \in [Owners -> [kept : Nat, willRetry : BOOLEAN] \union {Nil}]
  BY <1>1, BashAreMessages, MessagesAreEntries DEF Types
<1>4. messages' \in Seq(Entries) /\ log' \in Seq(Entries)
  BY <1>2, <1>3, Adding
<1>5. pendingBash' \in Seq({m \in Messages : m.role = "bash"})
  BY <1>2, EmptySeq
<1>6. compacting[p] = Nil
  BY <1>1, <1>2 DEF CompactingFits
<1>7. "called" \in Places
  BY DEF Places
<1>8. QED
  BY <1>2, <1>3, <1>4, <1>5, <1>6, <1>7, PlaceTyped

\* What a prompt finds before it is sent.
LEMMA PromptCheckSteps ==
  ASSUME TypeOK, NEW p \in Prompts, PromptChecks(p)
  PROVE  /\ place[p] = "called" /\ messages' \in Seq(Entries)
         /\ messages' = DropLastAssistant(messages) \/ messages' = messages
         /\ compacting' \in [Owners -> [kept : Nat, willRetry : BOOLEAN] \union {Nil}]
         /\ \A other \in Owners \ {p} : compacting'[other] = compacting[other]
         /\ compacting'[p] # Nil => \E k \in DOMAIN log : log[k].id = compacting'[p].kept
         /\ \E to \in Places : /\ to # "running" /\ place' = [place EXCEPT ![p] = to]
                               /\ to = "compacting" <=> compacting'[p] # Nil
         /\ UNCHANGED <<isStreaming, run, awaitedBy, aborted, session, log, queue, working, lastAssistant,
                        retryAttempt, retryPromise, sleepAborted, pendingBash, connected, waitsFor, op, settling,
                        loaded, timers, made>>
<1> DEFINE last == LastPlace({i \in DOMAIN messages : IsAssistant(messages[i])})
<1>1. Types /\ CompactingFits
  BY TypeOKParts
<1>2. /\ place[p] = "called"
      /\ UNCHANGED <<isStreaming, run, awaitedBy, aborted, session, log, queue, working, lastAssistant,
                     retryAttempt, retryPromise, sleepAborted, pendingBash, connected, waitsFor, op, settling,
                     loaded, timers, made>>
  BY DEF PromptChecks, agentVars, retryVars, opVars
<1>3. /\ messages \in Seq(Entries) /\ compacting \in [Owners -> [kept : Nat, willRetry : BOOLEAN] \union {Nil}]
      /\ compacting[p] = Nil /\ p \in Owners
  BY <1>1, <1>2, OwnersDiffer DEF Types, CompactingFits
<1>4. {"rejected", "ready", "compacting"} \subseteq Places
  BY DEF Places
<1>5. \/ place' = [place EXCEPT ![p] = "rejected"] /\ UNCHANGED <<messages, compacting>>
      \/ place' = [place EXCEPT ![p] = "ready"] /\ UNCHANGED <<messages, compacting>>
      \/ place' = [place EXCEPT ![p] = "ready"] /\ CompactsNot(messages[last])
      \/ place' = [place EXCEPT ![p] = "compacting"] /\ Compacts(p, messages[last], FALSE)
  BY DEF PromptChecks
<1> HIDE DEF last
<1>6. CASE UNCHANGED <<messages, compacting>> /\ \E to \in {"rejected", "ready"} : place' = [place EXCEPT ![p] = to]
  BY <1>2, <1>3, <1>4, <1>6
<1>7. CASE place' = [place EXCEPT ![p] = "ready"] /\ CompactsNot(messages[last])
  BY <1>1, <1>2, <1>3, <1>4, <1>7, CompactsNotTyped
<1>8. CASE place' = [place EXCEPT ![p] = "compacting"] /\ Compacts(p, messages[last], FALSE)
  <2>1. messages' = DropLastAssistant(messages) \/ messages' = messages
    BY <1>8 DEF Compacts
  <2>2. QED
    BY <1>1, <1>2, <1>3, <1>4, <1>8, <2>1, CompactsTyped
<1>9. QED
  BY <1>5, <1>6, <1>7, <1>8

\* Its check: it waits just when a compaction is its own.
LEMMA PromptChecksTyped ==
  ASSUME TypeOK, NEW p \in Prompts, PromptChecks(p)
  PROVE  TypeOK'
<1>1. Types
  BY TypeOKParts
<1>2. /\ place[p] = "called" /\ messages' \in Seq(Entries)
      /\ compacting' \in [Owners -> [kept : Nat, willRetry : BOOLEAN] \union {Nil}]
      /\ \A other \in Owners \ {p} : compacting'[other] = compacting[other]
      /\ UNCHANGED <<isStreaming, run, awaitedBy, aborted, log, queue, working, lastAssistant,
                     retryAttempt, sleepAborted, pendingBash, connected, op, settling, loaded, made>>
  BY PromptCheckSteps
<1>3. PICK to \in Places : /\ to # "running" /\ place' = [place EXCEPT ![p] = to]
                           /\ to = "compacting" <=> compacting'[p] # Nil
  BY PromptCheckSteps
<1>4. log' \in Seq(Entries) /\ pendingBash' \in Seq({m \in Messages : m.role = "bash"})
  BY <1>1, <1>2 DEF Types
<1>5. QED
  BY <1>2, <1>3, <1>4, PlaceTyped

\* A prompt goes on by itself.
LEMMA PlaceOnlyTyped ==
  ASSUME TypeOK, NEW p \in Prompts, NEW to \in Places, place' = [place EXCEPT ![p] = to],
         place[p] \notin {"running", "compacting"}, to \notin {"running", "compacting"},
         UNCHANGED <<messages, isStreaming, run, awaitedBy, aborted, log, queue, working, lastAssistant,
                     retryAttempt, sleepAborted, pendingBash, connected, compacting, op, settling, loaded, made>>
  PROVE  TypeOK'
<1>1. Types /\ CompactingFits
  BY TypeOKParts
<1>2. /\ messages' \in Seq(Entries) /\ log' \in Seq(Entries)
      /\ pendingBash' \in Seq({m \in Messages : m.role = "bash"})
      /\ compacting' \in [Owners -> [kept : Nat, willRetry : BOOLEAN] \union {Nil}]
      /\ compacting'[p] = Nil
  BY <1>1 DEF Types, CompactingFits
<1>3. QED
  BY <1>2, PlaceTyped

\* Its run is awaited by it.
LEMMA PromptSendsTyped ==
  ASSUME TypeOK, NEW p \in Prompts, PromptSends(p)
  PROVE  TypeOK'
<1> DEFINE m == Message("user", made + 1)
<1>1. Types /\ CompactingFits
  BY TypeOKParts
<1>2. /\ place[p] = "ready" /\ ~SessionIsNext
      /\ UNCHANGED <<log, working, lastAssistant, retryAttempt, sleepAborted, pendingBash, connected, compacting,
                     op, settling, loaded>>
  BY DEF PromptSends, retryVars, opVars
<1>3. CASE isStreaming
  <2>1. place' = [place EXCEPT ![p] = "rejected"] /\ UNCHANGED <<messages, isStreaming, run, awaitedBy, aborted, queue, made>>
    BY <1>3 DEF PromptSends, agentVars
  <2>2. "rejected" \in Places
    BY DEF Places
  <2>3. QED
    BY <1>2, <2>1, <2>2, PlaceOnlyTyped
<1>4. CASE ~isStreaming
  <2>1. place' = [place EXCEPT ![p] = "running"] /\ StartRun(p, <<m>>)
    BY <1>4 DEF PromptSends
  <2>2. m \in Messages
    BY <1>1, Saying DEF Roles
  <2> HIDE DEF m
  <2>3. <<m>> \in Seq(Messages) /\ Announced(<<m>>) \in Seq(Events)
    BY <2>2, AnnouncedIs
  <2>4. /\ place' \in [Prompts -> Places]
        /\ \A q \in Prompts : place'[q] = IF q = p THEN "running" ELSE place[q]
    BY <1>1, <2>1 DEF Types, Places
  <2>5. QED
    BY <1>2, <1>4, <2>1, <2>3, <2>4, StartedTyped
<1>5. QED
  BY <1>3, <1>4

\* It waits for retries ...
LEMMA PromptWaitsTyped ==
  ASSUME TypeOK, NEW p \in Prompts, PromptWaits(p)
  PROVE  TypeOK'
<1>1. /\ place[p] = "settled"
      /\ place' = [place EXCEPT ![p] = "returned"] \/ place' = [place EXCEPT ![p] = "waiting"]
      /\ UNCHANGED <<messages, isStreaming, run, awaitedBy, aborted, log, queue, working, lastAssistant,
                     retryAttempt, sleepAborted, pendingBash, connected, compacting, op, settling, loaded, made>>
  BY DEF PromptWaits, agentVars, retryVars, opVars
<1>2. "returned" \in Places /\ "waiting" \in Places
  BY DEF Places
<1>3. QED
  BY <1>1, <1>2, PlaceOnlyTyped

\* ... and returns.
LEMMA PromptReturnsTyped ==
  ASSUME TypeOK, NEW p \in Prompts, PromptReturns(p)
  PROVE  TypeOK'
<1>1. /\ place[p] = "waiting" /\ place' = [place EXCEPT ![p] = "returned"]
      /\ UNCHANGED <<messages, isStreaming, run, awaitedBy, aborted, log, queue, working, lastAssistant,
                     retryAttempt, sleepAborted, pendingBash, connected, compacting, op, settling, loaded, made>>
  BY DEF PromptReturns, agentVars, retryVars, opVars
<1>2. "returned" \in Places
  BY DEF Places
<1>3. QED
  BY <1>1, <1>2, PlaceOnlyTyped

\* An abort of the run or the retry.
LEMMA AbortTyped ==
  ASSUME TypeOK, Abort
  PROVE  TypeOK'
<1>1. Types /\ RunFits /\ QueueFits /\ CompactingFits /\ OpFits
  BY TypeOKParts
<1>2. /\ sleepAborted' = (working = "sleeping") /\ aborted' = isStreaming
      /\ UNCHANGED <<messages, isStreaming, run, awaitedBy, log, queue, working, lastAssistant, retryAttempt,
                     pendingBash, connected, compacting, place, op, settling, loaded, made>>
  BY DEF Abort, Cancelled, promptVars, opVars
<1>3. aborted' \in BOOLEAN /\ sleepAborted' \in BOOLEAN
  BY <1>1, <1>2 DEF Types
<1>4. Types'
  BY <1>1, <1>2, <1>3 DEF Types
<1>5. RunFits' /\ QueueFits' /\ CompactingFits' /\ OpFits'
  BY <1>1, <1>2 DEF RunFits, QueueFits, CompactingFits, OpFits, SessionIsNext
<1>6. QED
  BY <1>4, <1>5, TypeOKPartsPrimed

\* Something is recorded, or put off, and the rest is left alone.
LEMMA RecordedTyped ==
  ASSUME TypeOK, messages' \in Seq(Entries), log' \in Seq(Entries), made' \in Nat,
         pendingBash' \in Seq({m \in Messages : m.role = "bash"}),
         UNCHANGED <<isStreaming, run, awaitedBy, aborted, queue, working, lastAssistant, retryAttempt, sleepAborted,
                     connected, compacting, place, op, settling, loaded>>
  PROVE  TypeOK'
<1>1. Types /\ RunFits /\ QueueFits /\ CompactingFits /\ OpFits
  BY TypeOKParts
<1>2. Types'
  BY <1>1 DEF Types
<1>3. RunFits' /\ QueueFits' /\ CompactingFits' /\ OpFits'
  BY <1>1 DEF RunFits, QueueFits, CompactingFits, OpFits, SessionIsNext
<1>4. QED
  BY <1>2, <1>3, TypeOKPartsPrimed

\* A shell command's result, put off or not.
LEMMA BashTyped ==
  ASSUME TypeOK, NEW b, Bash(b)
  PROVE  TypeOK'
<1> DEFINE m == Message("bash", made + 1)
<1>1. Types
  BY TypeOKParts
<1>2. m \in Messages /\ m.role = "bash" /\ m \in Entries /\ made + 1 \in Nat
  BY <1>1, Saying DEF Roles
<1>3. /\ made' = made + 1
      /\ \/ pendingBash' = Append(pendingBash, m) /\ UNCHANGED <<messages, log>>
         \/ messages' = Append(messages, m) /\ log' = Append(log, m) /\ UNCHANGED pendingBash
      /\ UNCHANGED <<isStreaming, run, awaitedBy, aborted, queue, working, lastAssistant, retryAttempt, sleepAborted,
                     connected, compacting, place, op, settling, loaded>>
  BY DEF Bash, agentVars, retryVars, promptVars, opVars
<1> HIDE DEF m
<1>4. messages' \in Seq(Entries) /\ log' \in Seq(Entries)
  <2>1. messages \in Seq(Entries) /\ log \in Seq(Entries)
    BY <1>1 DEF Types
  <2>2. Append(messages, m) \in Seq(Entries) /\ Append(log, m) \in Seq(Entries)
    BY <1>2, <2>1, Adding
  <2>3. QED
    BY <1>3, <2>1, <2>2
<1>5. pendingBash' \in Seq({n \in Messages : n.role = "bash"})
  <2> DEFINE B == {n \in Messages : n.role = "bash"}
  <2>1. m \in B /\ pendingBash \in Seq(B)
    BY <1>1, <1>2 DEF Types
  <2> HIDE DEF B
  <2>2. pendingBash' \in Seq(B)
    BY <1>3, <2>1, Adding
  <2>3. QED
    BY <2>2 DEF B
<1>6. QED
  BY <1>2, <1>3, <1>4, <1>5, RecordedTyped

\* A custom message, recorded or sent.
LEMMA SendCustomMessageTyped ==
  ASSUME TypeOK, NEW b, SendCustomMessage(b)
  PROVE  TypeOK'
<1> DEFINE m == Message("custom", made + 1)
<1>1. Types
  BY TypeOKParts
<1>2. m \in Messages /\ m \in Entries /\ made + 1 \in Nat
  BY <1>1, Saying DEF Roles
<1>3. /\ ~isStreaming /\ ~SessionIsNext
      /\ UNCHANGED <<working, lastAssistant, retryAttempt, sleepAborted, pendingBash, connected, compacting, place,
                     op, settling, loaded>>
  BY DEF SendCustomMessage, retryVars, promptVars, opVars
<1>4. \/ /\ made' = made + 1 /\ messages' = Append(messages, m) /\ log' = Append(log, m)
         /\ UNCHANGED <<isStreaming, run, awaitedBy, aborted, queue>>
      \/ StartRun(Nil, <<m>>) /\ UNCHANGED log
  BY DEF SendCustomMessage, agentVars
<1> HIDE DEF m
<1>5. CASE /\ made' = made + 1 /\ messages' = Append(messages, m) /\ log' = Append(log, m)
           /\ UNCHANGED <<isStreaming, run, awaitedBy, aborted, queue>>
  <2>1. messages' \in Seq(Entries) /\ log' \in Seq(Entries) /\ pendingBash' \in Seq({n \in Messages : n.role = "bash"})
    BY <1>1, <1>2, <1>3, <1>5, Adding DEF Types
  <2>2. QED
    BY <1>2, <1>3, <1>5, <2>1, RecordedTyped
<1>6. CASE StartRun(Nil, <<m>>) /\ UNCHANGED log
  <2>1. <<m>> \in Seq(Messages) /\ Announced(<<m>>) \in Seq(Events)
    BY <1>2, AnnouncedIs
  <2>2. /\ place' \in [Prompts -> Places] /\ \A p \in Prompts : p # Nil /\ place'[p] = place[p]
    BY <1>1, <1>3, OwnersDiffer DEF Types
  <2>3. QED
    BY <1>3, <1>6, <2>1, <2>2, StartedTyped
<1>7. QED
  BY <1>4, <1>5, <1>6

\* A session operation settles with the run it aborted.
LEMMA InterruptTyped ==
  ASSUME TypeOK, NEW operation \in {"newSession", "switchSession", "compact"}, Interrupt(operation)
  PROVE  TypeOK'
<1>1. Types /\ RunFits /\ QueueFits /\ CompactingFits /\ OpFits
  BY TypeOKParts
<1>2. /\ op = "none" /\ op' = operation /\ settling' = isStreaming /\ connected' = FALSE
      /\ sleepAborted' = (working = "sleeping") /\ aborted' = isStreaming
      /\ UNCHANGED <<messages, isStreaming, run, awaitedBy, log, queue, working, lastAssistant, retryAttempt,
                     pendingBash, compacting, place, loaded, made>>
  BY DEF Interrupt, Cancelled, promptVars
<1>3. aborted' \in BOOLEAN /\ sleepAborted' \in BOOLEAN /\ settling' \in BOOLEAN
  BY <1>1, <1>2 DEF Types
<1>4. Types'
  BY <1>1, <1>2, <1>3 DEF Types
<1>5. RunFits' /\ QueueFits' /\ CompactingFits'
  BY <1>1, <1>2 DEF RunFits, QueueFits, CompactingFits
<1>6. OpFits'
  BY <1>1, <1>2 DEF OpFits, SessionIsNext
<1>7. QED
  BY <1>4, <1>5, <1>6, TypeOKPartsPrimed

\* The session or the agent's messages are replaced.
LEMMA SessionTyped ==
  ASSUME TypeOK, messages' \in Seq(Entries), log' \in Seq(Entries), loaded' \in Seq(Entries) \union {Nil},
         op' \in {"none", "newSession", "switchSession", "restoring", "fork", "compact"},
         OpFits', compacting["user"] # Nil => op' = op,
         connected' \in BOOLEAN,
         UNCHANGED <<isStreaming, run, awaitedBy, aborted, queue, working, lastAssistant, retryAttempt, sleepAborted,
                     pendingBash, compacting, place, settling, made>>
  PROVE  TypeOK'
<1>1. Types /\ RunFits /\ QueueFits /\ CompactingFits /\ OpFits
  BY TypeOKParts
<1>2. Types'
  BY <1>1 DEF Types
<1>3. RunFits' /\ QueueFits' /\ CompactingFits'
  BY <1>1 DEF RunFits, QueueFits, CompactingFits
<1>4. QED
  BY <1>2, <1>3, TypeOKPartsPrimed

\* An empty session.
LEMMA NewSessionTyped ==
  ASSUME TypeOK, NewSession
  PROVE  TypeOK'
<1>1. Types /\ CompactingFits /\ OpFits
  BY TypeOKParts
<1>2. /\ op = "newSession" /\ ~settling /\ op' = "none" /\ connected' = TRUE /\ log' = <<>> /\ messages' = <<>>
      /\ UNCHANGED <<isStreaming, run, awaitedBy, aborted, loaded, queue, working, lastAssistant, retryAttempt,
                     sleepAborted, pendingBash, compacting, place, settling, made>>
  BY DEF NewSession, agentVars, retryVars, promptVars
<1>3. messages' \in Seq(Entries) /\ log' \in Seq(Entries) /\ loaded' \in Seq(Entries) \union {Nil}
  BY <1>1, <1>2, EmptySeq DEF Types
<1>4. OpFits' /\ compacting["user"] = Nil
  BY <1>1, <1>2 DEF OpFits, SessionIsNext, CompactingFits
<1>5. QED
  BY <1>2, <1>3, <1>4, SessionTyped

\* The session that was there before.
LEMMA EarlierTyped ==
  /\ Earlier \in Seq(Entries) /\ Len(Earlier) = 2 /\ DOMAIN Earlier = {1, 2}
  /\ Earlier[1] = Message("user", 1) /\ Earlier[2] = Assistant("stop", 2)
  /\ \A i \in {1, 2} : ~IsCompaction(Earlier[i]) /\ Earlier[i].role \notin {"bash", "toolResult"} /\ Earlier[i].id = i
<1>1. /\ Message("user", 1) \in Entries /\ Message("user", 1).role = "user" /\ Message("user", 1).id = 1
      /\ Assistant("stop", 2) \in Entries /\ Assistant("stop", 2).role = "assistant" /\ Assistant("stop", 2).id = 2
  BY Kinds DEF Roles, Stops
<1>2. /\ Earlier = <<Message("user", 1), Assistant("stop", 2)>>
      /\ Earlier[1] = Message("user", 1) /\ Earlier[2] = Assistant("stop", 2) /\ Len(Earlier) = 2
      /\ DOMAIN Earlier = {1, 2}
  BY DEF Earlier
<1>3. Earlier \in Seq(Entries)
  BY <1>1 DEF Earlier
<1>4. QED
  BY <1>1, <1>2, <1>3 DEF IsCompaction

\* That session is opened.
LEMMA OpenSessionTyped ==
  ASSUME TypeOK, OpenSession
  PROVE  TypeOK'
<1>1. Types /\ CompactingFits /\ OpFits
  BY TypeOKParts
<1>2. /\ op = "switchSession" /\ SessionIsNext /\ log' = Earlier /\ loaded' = Context(Earlier)
      /\ UNCHANGED <<messages, isStreaming, run, awaitedBy, aborted, queue, working, lastAssistant, retryAttempt,
                     sleepAborted, pendingBash, connected, compacting, place, op, settling, made>>
  BY DEF OpenSession, agentVars, retryVars, promptVars
<1>3. messages' \in Seq(Entries) /\ log' \in Seq(Entries) /\ loaded' \in Seq(Entries) \union {Nil}
  BY <1>1, <1>2, EarlierTyped, ContextTyped DEF Types
<1>4. OpFits'
  BY <1>1, <1>2 DEF OpFits, SessionIsNext
<1>5. connected' \in BOOLEAN /\ op' = op
  BY <1>1, <1>2 DEF Types
<1>6. op' \in {"none", "newSession", "switchSession", "restoring", "fork", "compact"}
  BY <1>2
<1>7. QED
  BY <1>2, <1>3, <1>4, <1>5, <1>6, SessionTyped

\* The agent gets the messages that were read.
LEMMA GivenTyped ==
  ASSUME TypeOK, SwitchGives \/ ForkEnds
  PROVE  TypeOK'
<1>1. Types /\ CompactingFits /\ OpFits
  BY TypeOKParts
<1>2. /\ loaded # Nil /\ messages' = loaded /\ loaded' = Nil
      /\ \/ op = "switchSession" /\ op' = "restoring"
         \/ op = "fork" /\ op' = "none"
      /\ UNCHANGED <<isStreaming, run, awaitedBy, aborted, log, queue, working, lastAssistant, retryAttempt,
                     sleepAborted, pendingBash, connected, compacting, place, settling, made>>
  BY DEF SwitchGives, ForkEnds, agentVars, retryVars, promptVars
<1>3. messages' \in Seq(Entries) /\ log' \in Seq(Entries) /\ loaded' \in Seq(Entries) \union {Nil} /\ connected' \in BOOLEAN
  BY <1>1, <1>2 DEF Types
<1>4. OpFits'
  <2>1. ~settling /\ (connected <=> op \in {"none", "fork"}) /\ UNCHANGED <<connected, settling, isStreaming>>
    BY <1>1, <1>2 DEF OpFits
  <2>2. loaded' = Nil /\ op' \in {"restoring", "none"}
    BY <1>2
  <2>3. connected' <=> op' \in {"none", "fork"}
    BY <1>2, <2>1
  <2>4. ~SessionIsNext'
    BY <2>2 DEF SessionIsNext
  <2>5. QED
    BY <2>1, <2>2, <2>3, <2>4 DEF OpFits
<1>5. compacting["user"] = Nil
  BY <1>1, <1>2 DEF CompactingFits
<1>6. QED
  BY <1>2, <1>3, <1>4, <1>5, SessionTyped

\* The session listens again.
LEMMA SwitchEndsTyped ==
  ASSUME TypeOK, SwitchEnds
  PROVE  TypeOK'
<1>1. Types /\ CompactingFits /\ OpFits
  BY TypeOKParts
<1>2. /\ op = "restoring" /\ op' = "none" /\ connected' = TRUE
      /\ UNCHANGED <<messages, isStreaming, run, awaitedBy, aborted, log, loaded, queue, working, lastAssistant,
                     retryAttempt, sleepAborted, pendingBash, compacting, place, settling, made>>
  BY DEF SwitchEnds, agentVars, retryVars, promptVars
<1>3. messages' \in Seq(Entries) /\ log' \in Seq(Entries) /\ loaded' \in Seq(Entries) \union {Nil}
  BY <1>1, <1>2 DEF Types
<1>4. OpFits'
  <2>1. ~settling /\ loaded = Nil
    BY <1>1, <1>2 DEF OpFits
  <2>2. QED
    BY <1>2, <2>1 DEF OpFits, SessionIsNext
<1>5. compacting["user"] = Nil
  BY <1>1, <1>2 DEF CompactingFits
<1>6. QED
  BY <1>2, <1>3, <1>4, <1>5, SessionTyped

\* What is there before a prompt.
LEMMA PrefixTyped ==
  ASSUME NEW s \in Seq(Entries), NEW i \in DOMAIN s
  PROVE  /\ i \in Nat /\ i - 1 \in Nat /\ i - 1 < Len(s) /\ Len(s) \in Nat /\ DOMAIN s = 1..Len(s)
         /\ SubSeq(s, 1, i - 1) \in Seq(Entries) /\ DOMAIN SubSeq(s, 1, i - 1) = 1..(i - 1)
         /\ Len(SubSeq(s, 1, i - 1)) = i - 1
         /\ \A j \in 1..(i - 1) : j \in DOMAIN s /\ SubSeq(s, 1, i - 1)[j] = s[j]
<1>1. Len(s) \in Nat /\ DOMAIN s = 1..Len(s) /\ i \in 1..Len(s)
  BY LenProperties
<1>2. /\ i \in Nat /\ i - 1 \in Nat /\ i - 1 < Len(s)
      /\ \A j \in 1..(i - 1) : j \in 1..Len(s)
  BY <1>1
<1>3. \A j \in 1..(i - 1) : s[j] \in Entries
  BY <1>2, ElementOfSeq
<1>4. /\ SubSeq(s, 1, i - 1) \in Seq(Entries)
      /\ Len(SubSeq(s, 1, i - 1)) = IF 1 <= i - 1 THEN (i - 1) - 1 + 1 ELSE 0
      /\ \A j \in 1..((i - 1) - 1 + 1) : SubSeq(s, 1, i - 1)[j] = s[1 + j - 1]
  <2>1. 1 \in Int /\ i - 1 \in Int
    BY <1>2
  <2>2. QED
    BY <1>3, <2>1, SubSeqProperties
<1>5. Len(SubSeq(s, 1, i - 1)) = i - 1 /\ \A j \in 1..(i - 1) : SubSeq(s, 1, i - 1)[j] = s[j]
  BY <1>2, <1>4
<1>6. DOMAIN SubSeq(s, 1, i - 1) = 1..(i - 1)
  BY <1>4, <1>5, LenProperties
<1>7. QED
  BY <1>1, <1>2, <1>4, <1>5, <1>6

\* A fork's messages are entries.
LEMMA ForkTyped ==
  ASSUME TypeOK, NEW i \in DOMAIN log, Fork(i)
  PROVE  TypeOK'
<1>1. Types /\ CompactingFits /\ OpFits
  BY TypeOKParts
<1>2. /\ op = "none" /\ op' = "fork" /\ log' = SubSeq(log, 1, i - 1) /\ loaded' = Context(log')
      /\ UNCHANGED <<messages, isStreaming, run, awaitedBy, aborted, queue, working, lastAssistant, retryAttempt,
                     sleepAborted, pendingBash, connected, compacting, place, settling, made>>
  BY DEF Fork, agentVars, retryVars, promptVars
<1>3. log' \in Seq(Entries)
  BY <1>1, <1>2, PrefixTyped DEF Types
<1>4. messages' \in Seq(Entries) /\ loaded' \in Seq(Entries) \union {Nil} /\ connected' \in BOOLEAN
  BY <1>1, <1>2, <1>3, ContextTyped DEF Types
<1>5. OpFits' /\ compacting["user"] = Nil
  BY <1>1, <1>2 DEF OpFits, SessionIsNext, CompactingFits
<1>6. QED
  BY <1>2, <1>3, <1>4, <1>5, SessionTyped

\* compact() prepares its compaction, or gives up.
LEMMA CompactTyped ==
  ASSUME TypeOK, Compact
  PROVE  TypeOK'
<1>1. Types /\ RunFits /\ QueueFits /\ CompactingFits /\ OpFits
  BY TypeOKParts
<1>2. /\ op = "compact" /\ ~settling /\ compacting["user"] = Nil
      /\ UNCHANGED <<messages, isStreaming, run, awaitedBy, aborted, log, queue, working, lastAssistant, retryAttempt,
                     sleepAborted, pendingBash, place, settling, loaded, made>>
      /\ \/ Prepare("user", FALSE) /\ UNCHANGED <<op, connected>>
         \/ op' = "none" /\ connected' = TRUE /\ UNCHANGED compacting
  BY DEF Compact, agentVars, retryVars, promptVars
<1>3. CASE Prepare("user", FALSE) /\ UNCHANGED <<op, connected>>
  <2>1. /\ compacting' \in [Owners -> [kept : Nat, willRetry : BOOLEAN] \union {Nil}]
        /\ \A other \in Owners \ {"user"} : compacting'[other] = compacting[other]
    BY <1>1, <1>3, PrepareTyped, OwnersDiffer
  <2>2. Types'
    BY <1>1, <1>2, <1>3, <2>1 DEF Types
  <2>3. RunFits' /\ OpFits'
    BY <1>1, <1>2, <1>3 DEF RunFits, OpFits, SessionIsNext
  <2>4. QueueFits' /\ CompactingFits'
    BY <1>1, <1>2, <1>3, <2>1, OwnersDiffer DEF QueueFits, CompactingFits
  <2>5. QED
    BY <2>2, <2>3, <2>4, TypeOKPartsPrimed
<1>4. CASE op' = "none" /\ connected' = TRUE /\ UNCHANGED compacting
  <2>1. /\ messages' \in Seq(Entries) /\ log' \in Seq(Entries) /\ loaded' \in Seq(Entries) \union {Nil}
    BY <1>1, <1>2 DEF Types
  <2>2. OpFits'
    BY <1>1, <1>2, <1>4 DEF OpFits, SessionIsNext
  <2>3. QED
    BY <1>2, <1>4, <2>1, <2>2, SessionTyped
<1>5. QED
  BY <1>2, <1>3, <1>4

\* Every step keeps the types.
LEMMA NextTyped ==
  ASSUME TypeOK, [Next]_vars
  PROVE  TypeOK'
<1>1. CASE UNCHANGED vars
  <2>1. UNCHANGED <<messages, log, loaded, queue, lastAssistant, pendingBash, isStreaming, aborted, sleepAborted,
                    settling, connected, compacting, place, made, retryAttempt, run, awaitedBy, working, op>>
    BY <1>1 DEF vars, agentVars, retryVars, promptVars, opVars
  <2>2. QED
    BY <2>1 DEF TypeOK, SessionIsNext
<1>2. CASE Next
  <2>1. CASE Answer
    BY <2>1, LlmAnswersTyped DEF Answer
  <2>2. CASE ToolReturns
    BY <2>2, ToolReturnsTyped
  <2>3. CASE HandleMessageEnd
    BY <2>3, HandleMessageEndTyped
  <2>4. CASE HandleAgentEnd
    BY <2>4, HandleAgentEndTyped
  <2>5. CASE ListenerThrows
    BY <2>5, ListenerThrowsTyped
  <2>6. CASE SleepEnds
    BY <2>6, SleepEndsTyped
  <2>7. CASE \E kind \in {"retry", "compaction"} : TimerFires(kind)
    BY <2>7, TimerFiresTyped
  <2>8. CASE \E o \in Owners : CompactionEnds(o)
    BY <2>8, CompactionEndsTyped
  <2>9. CASE \E o \in Owners : CompactionFails(o)
    BY <2>9, CompactionFailsTyped
  <2>10. CASE \E p \in Prompts : Prompt(p)
    BY <2>10, PromptTyped
  <2>11. CASE \E p \in Prompts : Prompting(p)
    BY <2>11, PromptChecksTyped, PromptSendsTyped, PromptWaitsTyped, PromptReturnsTyped DEF Prompting
  <2>12. CASE Abort
    BY <2>12, AbortTyped
  <2>13. CASE \E b \in Commands : Bash(b)
    BY <2>13, BashTyped
  <2>14. CASE \E b \in Commands : SendCustomMessage(b)
    BY <2>14, SendCustomMessageTyped
  <2>15. CASE BeginOtherSession
    BY <2>15, InterruptTyped DEF BeginOtherSession
  <2>16. CASE NewSession
    BY <2>16, NewSessionTyped
  <2>17. CASE OpenSession
    BY <2>17, OpenSessionTyped
  <2>18. CASE SwitchGives \/ ForkEnds
    BY <2>18, GivenTyped
  <2>19. CASE SwitchEnds
    BY <2>19, SwitchEndsTyped
  <2>20. CASE \E i \in DOMAIN log : Fork(i)
    BY <2>20, ForkTyped
  <2>21. CASE BeginCompact
    BY <2>21, InterruptTyped DEF BeginCompact
  <2>22. CASE Compact
    BY <2>22, CompactTyped
  <2>23. QED
    BY <1>2, <2>1, <2>2, <2>3, <2>4, <2>5, <2>6, <2>7, <2>8, <2>9, <2>10, <2>11, <2>12, <2>13, <2>14, <2>15,
       <2>16, <2>17, <2>18, <2>19, <2>20, <2>21, <2>22 DEF Next
<1>3. QED
  BY <1>1, <1>2

-----------------------------------------------------------------------------
(* The session and the messages that wait, as sequences.                   *)

\* n is the last number given: the session s and what waits, w, are in order.
Ordered(s, w, n) ==
  /\ \A i, j \in DOMAIN s : i < j /\ IsSaid(s[i]) /\ IsSaid(s[j]) => s[i].id < s[j].id
  /\ \A k \in DOMAIN w : w[k].id >= 3 /\ w[k].id <= n
  /\ \A j, k \in DOMAIN w : j < k => w[j].id < w[k].id
  /\ \A i \in DOMAIN s : IsSaid(s[i]) => s[i].id <= n
  /\ \A i \in DOMAIN s, k \in DOMAIN w : IsSaid(s[i]) => s[i].id < w[k].id

EndsInBash(s) == s # <<>> /\ s[Len(s)].role = "bash"

\* No shell command is before a tool result, and none will be; calling: a tool runs.
Answered(s, w, calling) ==
  /\ \A i \in DOMAIN s : i > 1 /\ s[i].role = "toolResult" => s[i - 1].role # "bash"
  /\ \A k \in DOMAIN w : w[k].role # "bash"
  /\ w # <<>> /\ w[1].role = "toolResult" => ~EndsInBash(s)
  /\ calling /\ w = <<>> => ~EndsInBash(s)

\* Every compaction keeps from an entry before it.
Owned(s) == \A c \in DOMAIN s : IsCompaction(s[c]) => \E k \in 1..(c - 1) : s[k].id = s[c].kept

\* An entry with that id.
IdIn(id, s) == \E k \in DOMAIN s : s[k].id = id

\* A sequence with one more at its end ...
LEMMA OneMore ==
  ASSUME NEW S, NEW s \in Seq(S), NEW e \in S
  PROVE  /\ Len(s) \in Nat /\ DOMAIN s = 1..Len(s)
         /\ s \o <<e>> \in Seq(S) /\ Append(s, e) = s \o <<e>> /\ Len(s \o <<e>>) = Len(s) + 1
         /\ DOMAIN (s \o <<e>>) = 1..(Len(s) + 1) /\ s \o <<e>> # <<>>
         /\ \A i \in 1..Len(s) : (s \o <<e>>)[i] = s[i]
         /\ (s \o <<e>>)[Len(s) + 1] = e
<1>1. <<e>> \in Seq(S) /\ Len(<<e>>) = 1 /\ DOMAIN <<e>> = 1..1 /\ <<e>>[1] = e
  OBVIOUS
<1>2. 1 \in DOMAIN <<e>>
  BY <1>1
<1>3. /\ Len(s) \in Nat /\ DOMAIN s = 1..Len(s)
      /\ s \o <<e>> \in Seq(S) /\ DOMAIN (s \o <<e>>) = 1..(Len(s) + 1) /\ Len(s \o <<e>>) = Len(s) + 1
      /\ \A i \in 1..Len(s) : (s \o <<e>>)[i] = s[i]
  BY <1>1, PlacesOfConcat
<1>4. (s \o <<e>>)[Len(s) + 1] = e
  BY <1>1, <1>2, PlacesOfConcat
<1>5. Append(s, e) = s \o <<e>>
  BY Adding
<1>6. s \o <<e>> # <<>>
  BY <1>3, EmptySeq
<1>7. QED
  BY <1>3, <1>4, <1>5, <1>6

\* ... and with one more at its begin.
LEMMA OneLess ==
  ASSUME NEW S, NEW w \in Seq(S), NEW m \in S
  PROVE  /\ Len(w) \in Nat /\ DOMAIN w = 1..Len(w) /\ DOMAIN (<<m>> \o w) = 1..(Len(w) + 1)
         /\ (<<m>> \o w)[1] = m /\ \A k \in 1..Len(w) : (<<m>> \o w)[k + 1] = w[k]
         /\ <<m>> \o w # <<>>
<1>1. <<m>> \in Seq(S) /\ Len(<<m>>) = 1 /\ DOMAIN <<m>> = 1..1 /\ <<m>>[1] = m
  OBVIOUS
<1>2. /\ Len(w) \in Nat /\ DOMAIN w = 1..Len(w) /\ DOMAIN (<<m>> \o w) = 1..(1 + Len(w))
      /\ Len(<<m>> \o w) = 1 + Len(w)
      /\ \A k \in 1..Len(w) : (<<m>> \o w)[1 + k] = w[k]
  BY <1>1, PlacesOfConcat
<1>3. (<<m>> \o w)[1] = <<m>>[1]
  BY <1>1, PlacesOfConcat
<1>4. <<m>> \o w # <<>>
  BY <1>2, EmptySeq
<1>5. QED
  BY <1>1, <1>2, <1>3, <1>4

\* Order: a message with the next number is added to what waits.
LEMMA OrderedSaid ==
  ASSUME NEW s \in Seq(Entries), NEW w \in Seq(Messages), NEW n \in Nat, n >= 2, Ordered(s, w, n),
         NEW m \in Messages, m.id = n + 1
  PROVE  Ordered(s, w \o <<m>>, n + 1)
<1>1. \A i \in DOMAIN s : s[i].id \in Nat
  BY Kinds, ElementOfSeq, LenProperties
<1>2. \A k \in DOMAIN w : w[k].id \in Nat
  BY Kinds, ElementOfSeq, LenProperties
<1> DEFINE wm == w \o <<m>>
<1>3. /\ Len(w) \in Nat /\ DOMAIN w = 1..Len(w) /\ DOMAIN wm = 1..(Len(w) + 1)
      /\ \A k \in 1..Len(w) : wm[k] = w[k]
      /\ wm[Len(w) + 1] = m
  BY OneMore
<1> HIDE DEF wm
<1>4. \A k \in DOMAIN wm : (k \in DOMAIN w /\ wm[k] = w[k]) \/ (k = Len(w) + 1 /\ wm[k] = m)
  BY <1>3
<1>5. \A k \in DOMAIN wm : wm[k].id >= 3 /\ wm[k].id <= n + 1
  BY <1>2, <1>4 DEF Ordered
<1>6. ASSUME NEW j \in DOMAIN wm, NEW k \in DOMAIN wm, j < k
      PROVE  wm[j].id < wm[k].id
  <2>1. j \in DOMAIN w /\ wm[j] = w[j] /\ w[j].id <= n
    BY <1>3, <1>4, <1>6 DEF Ordered
  <2>2. CASE k \in DOMAIN w
    BY <1>3, <1>6, <2>1, <2>2 DEF Ordered
  <2>3. CASE k = Len(w) + 1
    BY <1>2, <1>3, <2>1, <2>3
  <2>4. QED
    BY <1>4, <2>2, <2>3
<1>7. \A i \in DOMAIN s : IsSaid(s[i]) => s[i].id <= n + 1
  BY <1>1 DEF Ordered
<1>8. ASSUME NEW i \in DOMAIN s, NEW k \in DOMAIN wm, IsSaid(s[i])
      PROVE  s[i].id < wm[k].id
  BY <1>1, <1>4, <1>8 DEF Ordered
<1>9. Ordered(s, wm, n + 1)
  BY <1>5, <1>6, <1>7, <1>8 DEF Ordered
<1>10. QED
  BY <1>9 DEF wm

\* Order: numbers go on.
LEMMA OrderedLater ==
  ASSUME NEW s \in Seq(Entries), NEW w \in Seq(Messages), NEW n \in Nat, NEW n2 \in Nat, n2 >= n, Ordered(s, w, n)
  PROVE  Ordered(s, w, n2)
<1>1. \A i \in DOMAIN s : s[i].id \in Nat
  BY Kinds, ElementOfSeq, LenProperties
<1>2. \A k \in DOMAIN w : w[k].id \in Nat
  BY Kinds, ElementOfSeq, LenProperties
<1>3. QED
  BY <1>1, <1>2 DEF Ordered

\* Order: what waits first goes into the session, or is lost.
LEMMA OrderedSaved ==
  ASSUME NEW s \in Seq(Entries), NEW w \in Seq(Messages), NEW n \in Nat, NEW m \in Messages,
         Ordered(s, <<m>> \o w, n)
  PROVE  Ordered(s \o <<m>>, w, n) /\ Ordered(s, w, n)
<1>1. m \in Entries
  BY Kinds
<1>2. /\ DOMAIN s = 1..Len(s) /\ Len(s) \in Nat /\ DOMAIN (s \o <<m>>) = 1..(Len(s) + 1)
      /\ \A i \in 1..Len(s) : (s \o <<m>>)[i] = s[i]
      /\ (s \o <<m>>)[Len(s) + 1] = m
  BY <1>1, OneMore
<1>3. /\ DOMAIN w = 1..Len(w) /\ Len(w) \in Nat /\ DOMAIN (<<m>> \o w) = 1..(Len(w) + 1)
      /\ (<<m>> \o w)[1] = m /\ \A k \in 1..Len(w) : (<<m>> \o w)[k + 1] = w[k]
  BY OneLess
<1>4. \A i \in DOMAIN s : s[i].id \in Nat
  BY Kinds, ElementOfSeq, LenProperties
<1>5. m.id \in Nat /\ \A k \in DOMAIN w : w[k].id \in Nat
  BY Kinds, ElementOfSeq, LenProperties
<1> DEFINE mw == <<m>> \o w
           sm == s \o <<m>>
<1>6. /\ \A k \in 1..Len(w) : w[k].id >= 3 /\ w[k].id <= n /\ m.id < w[k].id
      /\ m.id <= n
      /\ \A j, k \in 1..Len(w) : j < k => w[j].id < w[k].id
      /\ \A i \in 1..Len(s), k \in 1..Len(w) : IsSaid(s[i]) => s[i].id < w[k].id
      /\ \A i \in 1..Len(s) : IsSaid(s[i]) => s[i].id < m.id
  <2>1. 1 \in 1..(Len(w) + 1) /\ \A k \in 1..Len(w) : k + 1 \in 1..(Len(w) + 1) /\ 1 < k + 1
    BY <1>3
  <2> HIDE DEF mw
  <2>2. Ordered(s, mw, n) /\ DOMAIN mw = 1..(Len(w) + 1) /\ mw[1] = m /\ \A k \in 1..Len(w) : mw[k + 1] = w[k]
    BY <1>3 DEF mw
  <2>3. DOMAIN w = 1..Len(w) /\ DOMAIN s = 1..Len(s)
    BY <1>2, <1>3
  <2>4. /\ \A k \in 1..(Len(w) + 1) : mw[k].id >= 3 /\ mw[k].id <= n
        /\ \A j, k \in 1..(Len(w) + 1) : j < k => mw[j].id < mw[k].id
        /\ \A i \in 1..Len(s), k \in 1..(Len(w) + 1) : IsSaid(s[i]) => s[i].id < mw[k].id
    BY <2>2, <2>3 DEF Ordered
  <2>5. \A k \in 1..Len(w) : w[k].id >= 3 /\ w[k].id <= n /\ m.id < w[k].id
    BY <2>1, <2>2, <2>4
  <2>6. m.id <= n
    BY <2>1, <2>2, <2>4
  <2>7. ASSUME NEW j \in 1..Len(w), NEW k \in 1..Len(w), j < k
        PROVE  w[j].id < w[k].id
    <3>1. j + 1 \in 1..(Len(w) + 1) /\ k + 1 \in 1..(Len(w) + 1) /\ j + 1 < k + 1
      BY <1>3, <2>7
    <3>2. QED
      BY <2>2, <2>4, <3>1
  <2>8. \A i \in 1..Len(s), k \in 1..Len(w) : IsSaid(s[i]) => s[i].id < w[k].id
    BY <2>1, <2>2, <2>4
  <2>9. \A i \in 1..Len(s) : IsSaid(s[i]) => s[i].id < m.id
    BY <2>1, <2>2, <2>4
  <2>10. QED
    BY <2>5, <2>6, <2>7, <2>8, <2>9
<1>7. /\ \A i, j \in 1..Len(s) : i < j /\ IsSaid(s[i]) /\ IsSaid(s[j]) => s[i].id < s[j].id
      /\ \A i \in 1..Len(s) : IsSaid(s[i]) => s[i].id <= n
  BY <1>2 DEF Ordered
<1>8. Ordered(s, w, n)
  BY <1>2, <1>3, <1>6, <1>7 DEF Ordered
<1> HIDE DEF sm
<1>9. DOMAIN sm = 1..(Len(s) + 1) /\ sm[Len(s) + 1] = m /\ \A i \in 1..Len(s) : sm[i] = s[i]
  BY <1>2 DEF sm
<1>10. Ordered(sm, w, n)
  <2>1. \A i, j \in DOMAIN sm : i < j /\ IsSaid(sm[i]) /\ IsSaid(sm[j]) => sm[i].id < sm[j].id
    <3>1. SUFFICES ASSUME NEW i \in 1..(Len(s) + 1), NEW j \in 1..(Len(s) + 1), i < j, IsSaid(sm[i]), IsSaid(sm[j])
                   PROVE  sm[i].id < sm[j].id
      BY <1>9
    <3>2. i \in 1..Len(s) /\ sm[i] = s[i]
      BY <1>2, <1>9, <3>1
    <3>3. CASE j \in 1..Len(s)
      BY <1>7, <1>9, <3>1, <3>2, <3>3
    <3>4. CASE j = Len(s) + 1
      BY <1>6, <1>9, <3>1, <3>2, <3>4
    <3>5. QED
      BY <1>2, <3>3, <3>4
  <2>2. \A i \in DOMAIN sm : (i \in 1..Len(s) /\ sm[i] = s[i]) \/ sm[i] = m
    BY <1>2, <1>9
  <2>3. \A i \in DOMAIN sm : IsSaid(sm[i]) => sm[i].id <= n
    BY <1>6, <1>7, <2>2
  <2>4. \A i \in DOMAIN sm, k \in DOMAIN w : IsSaid(sm[i]) => sm[i].id < w[k].id
    BY <1>3, <1>6, <2>2
  <2>5. QED
    BY <1>3, <1>6, <2>1, <2>3, <2>4 DEF Ordered
<1>11. QED
  BY <1>8, <1>10 DEF sm

\* Order: entries that no run said may be anywhere.
LEMMA OrderedRecorded ==
  ASSUME NEW s \in Seq(Entries), NEW t \in Seq(Entries), NEW w, NEW n, \A j \in DOMAIN t : ~IsSaid(t[j]),
         Ordered(s, w, n)
  PROVE  Ordered(s \o t, w, n)
<1> DEFINE st == s \o t
<1>1. /\ DOMAIN s = 1..Len(s) /\ Len(s) \in Nat /\ DOMAIN t = 1..Len(t) /\ Len(t) \in Nat
      /\ DOMAIN st = 1..(Len(s) + Len(t)) /\ \A i \in DOMAIN s : st[i] = s[i]
      /\ \A j \in DOMAIN t : st[Len(s) + j] = t[j]
      /\ \A i \in DOMAIN st : i \in DOMAIN s \/ \E j \in DOMAIN t : i = Len(s) + j
  BY PlacesOfConcat
<1> HIDE DEF st
<1>2. \A i \in DOMAIN st : IsSaid(st[i]) => i \in DOMAIN s /\ st[i] = s[i]
  BY <1>1
<1>3. Ordered(st, w, n)
  BY <1>2 DEF Ordered
<1>4. QED
  BY <1>3 DEF st

\* Order: the begin of a session.
LEMMA OrderedReplaced ==
  ASSUME NEW s, NEW s2, NEW w, NEW n, Ordered(s, w, n), DOMAIN s2 \subseteq DOMAIN s, \A i \in DOMAIN s2 : s2[i] = s[i]
  PROVE  Ordered(s2, w, n)
BY DEF Ordered

\* Order: the earlier session has the numbers before all others.
LEMMA OrderedEarlier ==
  ASSUME NEW w \in Seq(Messages), NEW n \in Nat, n >= 2, NEW s, Ordered(s, w, n)
  PROVE  Ordered(Earlier, w, n)
<1>1. DOMAIN Earlier = 1..2 /\ Earlier[1].id = 1 /\ Earlier[2].id = 2
  BY DEF Earlier, Message, Assistant
<1>2. \A k \in DOMAIN w : w[k].id \in Nat
  BY Kinds, ElementOfSeq, LenProperties
<1>3. QED
  BY <1>1, <1>2 DEF Ordered

\* Answered: a result is announced while its tool runs, behind the call.
LEMMA AnsweredSaid ==
  ASSUME NEW s, NEW w \in Seq(Messages), NEW calling \in BOOLEAN, NEW calls \in BOOLEAN, NEW m \in Messages,
         Answered(s, w, calling), m.role # "bash", m.role = "toolResult" => calling
  PROVE  Answered(s, w \o <<m>>, calls)
<1> DEFINE wm == w \o <<m>>
<1>1. /\ DOMAIN w = 1..Len(w) /\ Len(w) \in Nat /\ DOMAIN wm = 1..(Len(w) + 1) /\ wm # <<>>
      /\ \A i \in 1..Len(w) : wm[i] = w[i]
      /\ wm[Len(w) + 1] = m
  BY OneMore
<1>2. w = <<>> => Len(w) = 0
  OBVIOUS
<1>3. w # <<>> => 1 \in 1..Len(w)
  BY <1>1, EmptySeq
<1> HIDE DEF wm
<1>4. \A k \in DOMAIN wm : wm[k].role # "bash"
  BY <1>1 DEF Answered
<1>5. wm[1].role = "toolResult" => ~EndsInBash(s)
  BY <1>1, <1>2, <1>3 DEF Answered
<1>6. Answered(s, wm, calls)
  BY <1>1, <1>4, <1>5 DEF Answered
<1>7. QED
  BY <1>6 DEF wm

\* Answered: what waits first goes into the session.
LEMMA AnsweredSaved ==
  ASSUME NEW s \in Seq(Entries), NEW w \in Seq(Messages), NEW m \in Messages, NEW calling \in BOOLEAN,
         NEW calls \in BOOLEAN, Answered(s, <<m>> \o w, calling)
  PROVE  Answered(s \o <<m>>, w, calls)
<1> DEFINE mw == <<m>> \o w
           sm == s \o <<m>>
<1>1. m \in Entries
  BY Kinds
<1>2. /\ DOMAIN s = 1..Len(s) /\ Len(s) \in Nat /\ DOMAIN sm = 1..(Len(s) + 1) /\ Len(sm) = Len(s) + 1
      /\ \A i \in 1..Len(s) : sm[i] = s[i]
      /\ sm[Len(s) + 1] = m
  BY <1>1, OneMore
<1>3. /\ DOMAIN w = 1..Len(w) /\ Len(w) \in Nat /\ DOMAIN mw = 1..(Len(w) + 1) /\ mw # <<>>
      /\ mw[1] = m /\ \A k \in 1..Len(w) : mw[k + 1] = w[k]
  BY OneLess
<1>4. s # <<>> <=> Len(s) > 0
  BY <1>2, EmptySeq
<1> HIDE DEF mw, sm
<1>5. Answered(s, mw, calling)
  BY DEF mw
<1>6. m.role # "bash" /\ (m.role = "toolResult" => ~EndsInBash(s))
  <2>1. 1 \in DOMAIN mw
    BY <1>3
  <2>2. QED
    BY <1>3, <1>5, <2>1 DEF Answered
<1>7. \A k \in DOMAIN w : w[k].role # "bash"
  <2>1. \A k \in 1..Len(w) : k + 1 \in DOMAIN mw
    BY <1>3
  <2>2. QED
    BY <1>3, <1>5, <2>1 DEF Answered
<1>8. ~EndsInBash(sm)
  BY <1>2, <1>6 DEF EndsInBash
<1>9. ASSUME NEW i \in DOMAIN sm, i > 1, sm[i].role = "toolResult"
      PROVE  sm[i - 1].role # "bash"
  <2>1. CASE i \in 1..Len(s)
    <3>1. i \in DOMAIN s /\ i - 1 \in 1..Len(s) /\ sm[i] = s[i] /\ sm[i - 1] = s[i - 1]
      BY <1>2, <1>9, <2>1
    <3>2. QED
      BY <1>5, <1>9, <3>1 DEF Answered
  <2>2. CASE i = Len(s) + 1
    <3>1. i - 1 = Len(s) /\ Len(s) \in 1..Len(s) /\ sm[i] = m /\ sm[i - 1] = s[Len(s)] /\ s # <<>>
      BY <1>2, <1>4, <1>9, <2>2
    <3>2. QED
      BY <1>6, <1>9, <3>1 DEF EndsInBash
  <2>3. QED
    BY <1>2, <2>1, <2>2
<1>10. Answered(sm, w, calls)
  BY <1>7, <1>8, <1>9 DEF Answered
<1>11. QED
  BY <1>10 DEF sm

\* Answered: nothing waits when something else is recorded, and no tool runs when a shell command is.
LEMMA AnsweredRecorded ==
  ASSUME NEW s \in Seq(Entries), NEW t \in Seq(Entries), \A j \in DOMAIN t : ~IsSaid(t[j]), NEW calling \in BOOLEAN,
         calling => \A j \in DOMAIN t : t[j].role # "bash",
         Answered(s, <<>>, calling)
  PROVE  Answered(s \o t, <<>>, calling)
<1> DEFINE st == s \o t
<1>1. /\ DOMAIN s = 1..Len(s) /\ Len(s) \in Nat /\ DOMAIN t = 1..Len(t) /\ Len(t) \in Nat
      /\ DOMAIN st = 1..(Len(s) + Len(t)) /\ Len(st) = Len(s) + Len(t) /\ \A i \in DOMAIN s : st[i] = s[i]
      /\ \A j \in DOMAIN t : st[Len(s) + j] = t[j]
      /\ \A i \in DOMAIN st : i \in DOMAIN s \/ \E j \in DOMAIN t : i = Len(s) + j
  BY PlacesOfConcat
<1>2. (s # <<>> <=> Len(s) > 0) /\ (st # <<>> => Len(st) > 0)
  <2>1. st \in Seq(Entries)
    BY PlacesOfConcat
  <2> HIDE DEF st
  <2>2. QED
    BY <1>1, <2>1, EmptySeq
<1> HIDE DEF st
<1>3. ASSUME NEW i \in DOMAIN st, i > 1, st[i].role = "toolResult"
      PROVE  st[i - 1].role # "bash"
  <2>1. i \in DOMAIN s
    BY <1>1, <1>3 DEF IsSaid
  <2>2. i - 1 \in DOMAIN s
    BY <1>1, <1>3, <2>1
  <2>3. QED
    BY <1>1, <1>3, <2>1, <2>2 DEF Answered
<1>4. calling => ~EndsInBash(st)
  <2>1. SUFFICES ASSUME calling, st # <<>>
                 PROVE  st[Len(st)].role # "bash"
    BY DEF EndsInBash
  <2>2. Len(st) \in DOMAIN st
    BY <1>1, <1>2, <2>1
  <2>3. CASE Len(st) \in DOMAIN s
    <3>1. Len(st) \in 1..Len(s) /\ Len(st) = Len(s) + Len(t) /\ Len(s) \in Nat /\ Len(t) \in Nat
      BY <1>1, <2>3
    <3>2. Len(st) = Len(s) /\ Len(s) > 0
      BY <3>1
    <3>3. s # <<>>
      BY <1>2, <3>2
    <3>4. QED
      BY <1>1, <2>1, <2>3, <3>2, <3>3 DEF Answered, EndsInBash
  <2>4. CASE \E j \in DOMAIN t : Len(st) = Len(s) + j
    BY <1>1, <2>1, <2>4
  <2>5. QED
    BY <1>1, <2>2, <2>3, <2>4
<1>5. Answered(st, <<>>, calling)
  BY <1>3, <1>4 DEF Answered
<1>6. QED
  BY <1>5 DEF st

\* A compaction that is appended to a session keeps from an entry of it.
LEMMA OwnedRecorded ==
  ASSUME NEW s \in Seq(Entries), NEW t \in Seq(Entries), Owned(s),
         \A j \in DOMAIN t : IsCompaction(t[j]) => IdIn(t[j].kept, s)
  PROVE  Owned(s \o t) /\ \A id : IdIn(id, s) => IdIn(id, s \o t)
<1> DEFINE st == s \o t
<1>1. /\ DOMAIN s = 1..Len(s) /\ Len(s) \in Nat /\ DOMAIN t = 1..Len(t) /\ Len(t) \in Nat
      /\ DOMAIN st = 1..(Len(s) + Len(t)) /\ Len(st) = Len(s) + Len(t) /\ \A i \in DOMAIN s : st[i] = s[i]
      /\ \A j \in DOMAIN t : st[Len(s) + j] = t[j]
      /\ \A i \in DOMAIN st : i \in DOMAIN s \/ \E j \in DOMAIN t : i = Len(s) + j
  BY PlacesOfConcat
<1> HIDE DEF st
<1>2. ASSUME NEW c \in DOMAIN st, IsCompaction(st[c])
      PROVE  \E k \in 1..(c - 1) : st[k].id = st[c].kept
  <2>1. CASE c \in DOMAIN s
    <3>1. PICK k \in 1..(c - 1) : s[k].id = s[c].kept
      BY <1>1, <1>2, <2>1 DEF Owned
    <3>2. k \in DOMAIN s
      BY <1>1, <2>1
    <3>3. QED
      BY <1>1, <2>1, <3>1, <3>2
  <2>2. CASE \E j \in DOMAIN t : c = Len(s) + j
    <3>1. PICK j \in DOMAIN t : c = Len(s) + j
      BY <2>2
    <3>2. PICK k \in DOMAIN s : s[k].id = t[j].kept
      BY <1>1, <1>2, <3>1 DEF IdIn
    <3>3. k \in 1..(c - 1)
      BY <1>1, <3>1
    <3>4. QED
      BY <1>1, <3>1, <3>2, <3>3
  <2>3. QED
    BY <1>1, <2>1, <2>2
<1>3. \A id : IdIn(id, s) => IdIn(id, st)
  BY <1>1 DEF IdIn
<1>4. QED
  BY <1>2, <1>3 DEF Owned, st

-----------------------------------------------------------------------------
(* What a step does to the session and to the messages that wait.          *)

Grows == made' \in Nat /\ made' >= made /\ happened \subseteq happened'

\* A compaction that is under way was so before, or keeps from an entry that is there.
PendingFrom ==
  \A o \in Owners : compacting'[o] # Nil => compacting'[o] = compacting[o] \/ IdIn(compacting'[o].kept, log)

\* Nothing; a tool may be called while nobody listens.
Same ==
  /\ Grows /\ PendingFrom
  /\ log' = log /\ Unsaved' = Unsaved
  /\ run' = "tool" => run = "tool" \/ "unheard" \in happened'

\* A message is announced.
Said(m) ==
  /\ Grows /\ PendingFrom
  /\ log' = log /\ Unsaved' = Unsaved \o <<m>>
  /\ m.id = made + 1 /\ made' = made + 1
  /\ m.role # "bash" /\ (m.role = "toolResult" => run = "tool")

\* The first message that waits is persisted.
Saved(m) ==
  /\ Grows /\ PendingFrom
  /\ Unsaved = <<m>> \o Unsaved' /\ log' = log \o <<m>>
  /\ run' = run

\* An event is lost.
Lost ==
  /\ Grows /\ PendingFrom
  /\ log' = log /\ "throw" \in happened'
  /\ Unsaved' = Unsaved \/ \E m \in Messages : Unsaved = <<m>> \o Unsaved'

\* Something that no run said goes into the session.
Recorded(t) ==
  /\ Grows /\ PendingFrom
  /\ log' = log \o t /\ Unsaved' = Unsaved
  /\ \A j \in DOMAIN t : ~IsSaid(t[j])
  /\ \A j \in DOMAIN t : IsCompaction(t[j]) => \E o \in Owners : compacting[o] # Nil /\ t[j].kept = compacting[o].kept
  /\ run' = run
  /\ run = "tool" => \A j \in DOMAIN t : t[j].role # "bash"
  /\ Unsaved # <<>> => "behind" \in happened'

\* Another session takes the place of this one: the begin of it, or an earlier one.
Replaced ==
  /\ Grows /\ UNCHANGED compacting
  /\ Unsaved' = Unsaved
  /\ \/ log' = Earlier
     \/ DOMAIN log' \subseteq DOMAIN log /\ \A i \in DOMAIN log' : log'[i] = log[i] /\ i - 1 \in {0} \union DOMAIN log'
  /\ Unsaved # <<>> \/ run' = "tool" => "behind" \in happened'
  /\ \A o \in Owners : compacting[o] # Nil => "orphaned" \in happened'

Shaped ==
  \/ Same
  \/ \E m \in Messages : Said(m)
  \/ \E m \in Messages : Saved(m)
  \/ Lost
  \/ \E t \in Seq(Entries) : Recorded(t)
  \/ Replaced

InOrder == made >= 2 /\ Ordered(log, Unsaved, made)
AfterCall == happened \intersect {"behind", "unheard", "throw"} = {} => Answered(log, Unsaved, run = "tool")
KeptOwn ==
  "orphaned" \notin happened =>
    Owned(log) /\ \A o \in Owners : compacting[o] # Nil => IdIn(compacting[o].kept, log)

\* What waits are messages.
LEMMA WaitingTyped == ASSUME Types PROVE Unsaved \in Seq(Messages)
BY WaitingPicked DEF Types, Unsaved

\* Order through every step ...
LEMMA InOrderKept ==
  ASSUME Types, Types', InOrder, Shaped
  PROVE  InOrder'
<1>1. /\ log \in Seq(Entries) /\ log' \in Seq(Entries) /\ made \in Nat /\ made' \in Nat /\ made >= 2
      /\ Ordered(log, Unsaved, made)
  BY DEF Types, InOrder
<1>2. Unsaved \in Seq(Messages) /\ Unsaved' \in Seq(Messages)
  <2>1. Unsaved \in Seq(Messages)
    BY WaitingTyped
  <2>2. Unsaved' \in Seq(Messages)
    BY WaitingPicked DEF Types, Unsaved
  <2>3. QED
    BY <2>1, <2>2
<1>3. made' >= 2
  <2>1. made' >= made
    BY DEF Shaped, Same, Said, Saved, Lost, Recorded, Replaced, Grows
  <2>2. QED
    BY ONLY <1>1, <2>1
<1>4. Ordered(log', Unsaved', made')
  <2>1. CASE Same
    BY <1>1, <1>2, <2>1, OrderedLater DEF Same, Grows
  <2>2. CASE \E m \in Messages : Said(m)
    BY <1>1, <1>2, <2>2, OrderedSaid DEF Said
  <2>3. CASE \E m \in Messages : Saved(m)
    <3>1. PICK m \in Messages : Saved(m)
      BY <2>3
    <3>2. Unsaved = <<m>> \o Unsaved' /\ log' = log \o <<m>> /\ made' >= made
      BY <3>1 DEF Saved, Grows
    <3>3. Ordered(log, <<m>> \o Unsaved', made)
      BY <1>1, <3>2
    <3>4. Ordered(log \o <<m>>, Unsaved', made)
      BY <1>1, <1>2, <3>3, OrderedSaved
    <3>5. Ordered(log', Unsaved', made)
      BY <3>2, <3>4
    <3>6. QED
      BY <1>1, <1>2, <3>2, <3>5, OrderedLater
  <2>4. CASE Lost
    <3>1. log' = log /\ made' >= made
      BY <2>4 DEF Lost, Grows
    <3>2. CASE Unsaved' = Unsaved
      BY <1>1, <1>2, <3>1, <3>2, OrderedLater
    <3>3. CASE \E m \in Messages : Unsaved = <<m>> \o Unsaved'
      <4>1. PICK m \in Messages : Unsaved = <<m>> \o Unsaved'
        BY <3>3
      <4>2. Ordered(log, <<m>> \o Unsaved', made)
        BY <1>1, <4>1
      <4>3. Ordered(log, Unsaved', made)
        BY <1>1, <1>2, <4>2, OrderedSaved
      <4>4. QED
        BY <1>1, <1>2, <3>1, <4>3, OrderedLater
    <3>4. QED
      BY <2>4, <3>2, <3>3 DEF Lost
  <2>5. CASE \E t \in Seq(Entries) : Recorded(t)
    <3>1. PICK t \in Seq(Entries) : Recorded(t)
      BY <2>5
    <3>2. log' = log \o t /\ Unsaved' = Unsaved /\ made' >= made /\ \A j \in DOMAIN t : ~IsSaid(t[j])
      BY <3>1 DEF Recorded, Grows
    <3>3. Ordered(log', Unsaved, made)
      BY <1>1, <3>2, OrderedRecorded
    <3>4. QED
      BY <1>1, <1>2, <3>2, <3>3, OrderedLater
  <2>6. CASE Replaced
    <3>1. Unsaved' = Unsaved /\ made' >= made
      BY <2>6 DEF Replaced, Grows
    <3>2. CASE log' = Earlier
      <4>1. Ordered(log', Unsaved, made)
        BY <1>1, <1>2, <3>2, OrderedEarlier
      <4>2. QED
        BY <1>1, <1>2, <3>1, <4>1, OrderedLater
    <3>3. CASE DOMAIN log' \subseteq DOMAIN log /\ \A i \in DOMAIN log' : log'[i] = log[i]
      <4>1. Ordered(log', Unsaved, made)
        BY <1>1, <3>3, OrderedReplaced
      <4>2. QED
        BY <1>1, <1>2, <3>1, <4>1, OrderedLater
    <3>4. QED
      BY <2>6, <3>2, <3>3 DEF Replaced
  <2>7. QED
    BY <2>1, <2>2, <2>3, <2>4, <2>5, <2>6 DEF Shaped
<1>5. QED
  BY <1>3, <1>4 DEF InOrder

\* ... results after their calls ...
LEMMA AfterCallKept ==
  ASSUME Types, Types', AfterCall, Shaped
  PROVE  AfterCall'
<1>1. log \in Seq(Entries) /\ log' \in Seq(Entries)
  BY DEF Types
<1>2. Unsaved \in Seq(Messages) /\ Unsaved' \in Seq(Messages)
  <2>1. Unsaved \in Seq(Messages)
    BY WaitingTyped
  <2>2. Unsaved' \in Seq(Messages)
    BY WaitingPicked DEF Types, Unsaved
  <2>3. QED
    BY <2>1, <2>2
<1> DEFINE calling == run = "tool"
           calls == run' = "tool"
<1>3. SUFFICES ASSUME happened' \intersect {"behind", "unheard", "throw"} = {}
               PROVE  Answered(log', Unsaved', calls)
  BY DEF AfterCall
<1>4. happened \subseteq happened'
  BY DEF Shaped, Same, Said, Saved, Lost, Recorded, Replaced, Grows
<1>5. Answered(log, Unsaved, calling)
  BY <1>3, <1>4 DEF AfterCall
<1>6. calling \in BOOLEAN /\ calls \in BOOLEAN
  OBVIOUS
<1>7. CASE Same
  <2>1. log' = log /\ Unsaved' = Unsaved /\ (calls => calling)
    BY <1>3, <1>7 DEF Same
  <2> HIDE DEF calling, calls
  <2>2. QED
    BY <1>5, <1>6, <2>1 DEF Answered
<1>8. CASE \E m \in Messages : Said(m)
  <2>1. PICK m \in Messages : Said(m)
    BY <1>8
  <2>2. log' = log /\ Unsaved' = Unsaved \o <<m>> /\ m.role # "bash" /\ (m.role = "toolResult" => calling)
    BY <2>1 DEF Said
  <2> HIDE DEF calling, calls
  <2>3. Answered(log, Unsaved \o <<m>>, calls)
    BY <1>2, <1>5, <1>6, <2>2, AnsweredSaid
  <2>4. QED
    BY <2>2, <2>3
<1>9. CASE \E m \in Messages : Saved(m)
  <2>1. PICK m \in Messages : Saved(m)
    BY <1>9
  <2>2. Unsaved = <<m>> \o Unsaved' /\ log' = log \o <<m>>
    BY <2>1 DEF Saved
  <2> HIDE DEF calling, calls
  <2>3. Answered(log, <<m>> \o Unsaved', calling)
    BY <1>5, <2>2
  <2>4. Answered(log \o <<m>>, Unsaved', calls)
    BY <1>1, <1>2, <1>6, <2>3, AnsweredSaved
  <2>5. QED
    BY <2>2, <2>4
<1>10. CASE Lost
  BY <1>3, <1>10 DEF Lost
<1>11. CASE \E t \in Seq(Entries) : Recorded(t)
  <2>1. PICK t \in Seq(Entries) : Recorded(t)
    BY <1>11
  <2>2. /\ log' = log \o t /\ Unsaved' = Unsaved /\ Unsaved = <<>> /\ (calls <=> calling)
        /\ \A j \in DOMAIN t : ~IsSaid(t[j])
        /\ calling => \A j \in DOMAIN t : t[j].role # "bash"
    BY <1>3, <2>1 DEF Recorded
  <2>3. calls = calling
    BY <1>6, <2>2
  <2> HIDE DEF calling, calls
  <2>4. Answered(log, <<>>, calling)
    BY <1>5, <2>2
  <2>5. Answered(log \o t, <<>>, calling)
    BY <1>1, <1>6, <2>2, <2>4, AnsweredRecorded
  <2>6. QED
    BY <2>2, <2>3, <2>5
<1>12. CASE Replaced
  <2>1. Unsaved' = <<>> /\ ~calls
    BY <1>3, <1>12 DEF Replaced
  <2> HIDE DEF calling, calls
  <2>2. ASSUME NEW i \in DOMAIN log', i > 1, log'[i].role = "toolResult"
        PROVE  log'[i - 1].role # "bash"
    <3>1. CASE log' = Earlier
      BY <2>2, <3>1 DEF Earlier, Message, Assistant
    <3>2. CASE /\ DOMAIN log' \subseteq DOMAIN log
               /\ \A k \in DOMAIN log' : log'[k] = log[k] /\ k - 1 \in {0} \union DOMAIN log'
      <4>1. i \in DOMAIN log /\ i - 1 \in DOMAIN log'
        BY <1>1, <2>2, <3>2, LenProperties
      <4>2. QED
        BY <1>5, <2>2, <3>2, <4>1 DEF Answered
    <3>3. QED
      BY <1>12, <3>1, <3>2 DEF Replaced
  <2>3. QED
    BY <2>1, <2>2 DEF Answered
<1>13. QED
  BY <1>7, <1>8, <1>9, <1>10, <1>11, <1>12 DEF Shaped

\* ... and compactions that keep their own.
LEMMA KeptOwnKept ==
  ASSUME Types, Types', KeptOwn, Shaped
  PROVE  KeptOwn'
<1>1. log \in Seq(Entries) /\ log' \in Seq(Entries)
  BY DEF Types
<1>2. SUFFICES ASSUME "orphaned" \notin happened'
               PROVE  Owned(log') /\ \A o \in Owners : compacting'[o] # Nil => IdIn(compacting'[o].kept, log')
  BY DEF KeptOwn
<1>3. happened \subseteq happened'
  BY DEF Shaped, Same, Said, Saved, Lost, Recorded, Replaced, Grows
<1>4. Owned(log) /\ \A o \in Owners : compacting[o] # Nil => IdIn(compacting[o].kept, log)
  BY <1>2, <1>3 DEF KeptOwn
<1>5. PendingFrom => \A o \in Owners : compacting'[o] # Nil => IdIn(compacting'[o].kept, log)
  BY <1>4 DEF PendingFrom
<1>6. CASE PendingFrom /\ log' = log
  BY <1>4, <1>5, <1>6
<1>7. ASSUME PendingFrom, NEW t \in Seq(Entries), log' = log \o t,
             \A j \in DOMAIN t : IsCompaction(t[j]) => \E o \in Owners : compacting[o] # Nil /\ t[j].kept = compacting[o].kept
      PROVE  Owned(log') /\ \A o \in Owners : compacting'[o] # Nil => IdIn(compacting'[o].kept, log')
  <2>1. \A j \in DOMAIN t : IsCompaction(t[j]) => IdIn(t[j].kept, log)
    BY <1>4, <1>7
  <2>2. Owned(log \o t) /\ \A id : IdIn(id, log) => IdIn(id, log \o t)
    BY <1>1, <1>4, <1>7, <2>1, OwnedRecorded
  <2>3. QED
    BY <1>5, <1>7, <2>2
<1>8. CASE \E m \in Messages : Saved(m)
  <2>1. PICK m \in Messages : Saved(m)
    BY <1>8
  <2>2. <<m>> \in Seq(Entries) /\ log' = log \o <<m>> /\ PendingFrom /\ \A j \in DOMAIN <<m>> : ~IsCompaction(<<m>>[j])
    BY <2>1, Kinds DEF Saved
  <2>3. QED
    BY <1>7, <2>2
<1>9. CASE \E t \in Seq(Entries) : Recorded(t)
  BY <1>7, <1>9 DEF Recorded
<1>10. CASE Replaced
  <2>1. \A o \in Owners : compacting'[o] = Nil
    BY <1>2, <1>10 DEF Replaced
  <2>2. CASE log' = Earlier
    <3>1. \A c \in DOMAIN Earlier : ~IsCompaction(Earlier[c])
      BY DEF Earlier, Message, Assistant, IsCompaction
    <3>2. QED
      BY <2>1, <2>2, <3>1 DEF Owned
  <2>3. CASE DOMAIN log' \subseteq DOMAIN log /\ \A i \in DOMAIN log' : log'[i] = log[i]
    <3>1. ASSUME NEW c \in DOMAIN log', IsCompaction(log'[c])
          PROVE  \E k \in 1..(c - 1) : log'[k].id = log'[c].kept
      <4>1. PICK k \in 1..(c - 1) : log[k].id = log[c].kept
        BY <1>4, <2>3, <3>1 DEF Owned
      <4>2. k \in DOMAIN log'
        BY <1>1, <3>1, LenProperties
      <4>3. QED
        BY <2>3, <3>1, <4>1, <4>2
    <3>2. QED
      BY <2>1, <3>1 DEF Owned
  <2>4. QED
    BY <1>10, <2>2, <2>3 DEF Replaced
<1>11. QED
  BY <1>6, <1>8, <1>9, <1>10 DEF Shaped, Same, Said, Lost

-----------------------------------------------------------------------------
(* The shape of every step.                                                *)

\* A step that leaves the session and what waits alone.
LEMMA SameShape ==
  ASSUME Types', log' = log, Unsaved' = Unsaved, made' = made, happened \subseteq happened', run' = run \/ run' = "none",
         PendingFrom
  PROVE  Shaped
<1>1. made' \in Nat
  BY DEF Types
<1>2. Grows
  BY <1>1 DEF Grows
<1>3. Same
  BY <1>2 DEF Same
<1>4. QED
  BY <1>3 DEF Shaped

\* No compaction begins.
LEMMA NothingBegins == UNCHANGED compacting => PendingFrom
BY DEF PendingFrom

\* A message is announced, if the session listens.
LEMMA PushShape ==
  ASSUME Types, Types', NEW m \in Messages, m.id = made + 1, made' = made + 1, log' = log,
         NEW events \in Seq(Events), Waiting(events) = <<m>>,
         queue' = IF connected THEN queue \o events ELSE queue,
         happened \subseteq happened', UNCHANGED compacting, m.role # "bash", m.role = "toolResult" => run = "tool",
         run' = "tool" => connected \/ "unheard" \in happened'
  PROVE  Shaped
<1>1. Grows /\ PendingFrom
  BY NothingBegins DEF Grows, Types
<1>2. CASE connected
  <2>1. queue \in Seq(Events) /\ queue' = queue \o events
    BY <1>2 DEF Types
  <2>2. Waiting(queue \o events) = Waiting(queue) \o <<m>>
    BY <2>1, WaitingConcat
  <2>3. Unsaved' = Unsaved \o <<m>>
    BY <2>1, <2>2 DEF Unsaved
  <2>4. Said(m)
    BY <1>1, <2>3 DEF Said
  <2>5. QED
    BY <2>4 DEF Shaped
<1>3. CASE ~connected
  <2>1. Unsaved' = Unsaved
    BY <1>3 DEF Unsaved
  <2>2. Same
    BY <1>1, <1>3, <2>1 DEF Same
  <2>3. QED
    BY <2>2 DEF Shaped
<1>4. QED
  BY <1>2, <1>3

\* Something that no run said goes into the session.
LEMMA RecordedShape ==
  ASSUME Types', NEW t \in Seq(Entries), log' = log \o t, Unsaved' = Unsaved, made' >= made, happened \subseteq happened',
         \A j \in DOMAIN t : ~IsSaid(t[j]), \A j \in DOMAIN t : ~IsCompaction(t[j]),
         UNCHANGED <<run, compacting>>, run # "tool", Unsaved # <<>> => "behind" \in happened'
  PROVE  Shaped
<1>1. Grows /\ PendingFrom
  BY NothingBegins DEF Grows, Types
<1>2. Recorded(t)
  BY <1>1 DEF Recorded
<1>3. QED
  BY <1>2 DEF Shaped

\* An answer is announced, or not heard.
LEMMA LlmAnswersShape ==
  ASSUME TypeOK, TypeOK', NEW stop \in Stops, LlmAnswers(stop)
  PROVE  Shaped
<1> DEFINE m == Assistant(stop, made + 1)
<1>1. Types /\ Types'
  BY TypeOKParts, TypeOKPartsPrimed
<1>2. m \in Messages /\ m.id = made + 1 /\ m.role = "assistant"
  BY <1>1, Answering
<1>3. /\ made' = made + 1 /\ UNCHANGED <<log, compacting>> /\ happened \subseteq happened'
      /\ run' = "tool" => stop = "toolUse"
      /\ ~connected /\ stop = "toolUse" => "unheard" \in happened'
  BY DEF LlmAnswers, Note, When
<1>4. queue' = IF connected THEN queue \o AnswerEvents(stop, m) ELSE queue
  BY DEF LlmAnswers, AnswerEvents
<1> HIDE DEF m
<1>5. AnswerEvents(stop, m) \in Seq(Events) /\ Waiting(AnswerEvents(stop, m)) = <<m>>
  BY <1>2, AnswerEventsTyped
<1>6. connected \in BOOLEAN /\ (run' = "tool" => connected \/ "unheard" \in happened')
  BY <1>1, <1>3 DEF Types
<1>7. QED
  BY <1>1, <1>2, <1>3, <1>4, <1>5, <1>6, PushShape

\* A result is announced, or not heard.
LEMMA ToolReturnsShape ==
  ASSUME TypeOK, TypeOK', ToolReturns
  PROVE  Shaped
<1> DEFINE m == Message("toolResult", made + 1)
<1>1. Types /\ Types'
  BY TypeOKParts, TypeOKPartsPrimed
<1>2. m \in Messages /\ m.id = made + 1 /\ m.role = "toolResult"
  BY <1>1, Saying DEF Roles
<1>3. made' = made + 1 /\ UNCHANGED <<log, compacting, happened>> /\ run = "tool" /\ run' = "llm"
  BY DEF ToolReturns
<1>4. <<MessageEnd(m)>> \in Seq(Events) /\ Append(queue, MessageEnd(m)) = queue \o <<MessageEnd(m)>>
  BY <1>1, <1>2, EventKinds, Adding DEF Types
<1>5. queue' = IF connected THEN queue \o <<MessageEnd(m)>> ELSE queue
  BY <1>4 DEF ToolReturns
<1>6. Waiting(<<MessageEnd(m)>>) = <<m>>
  BY <1>2, WaitingOne
<1> HIDE DEF m
<1>7. QED
  BY <1>1, <1>2, <1>3, <1>4, <1>5, <1>6, PushShape

\* The head's message is persisted.
LEMMA HandleMessageEndShape ==
  ASSUME TypeOK, TypeOK', HandleMessageEnd
  PROVE  Shaped
<1> DEFINE m == Head(queue).message
<1>1. Types /\ Types' /\ HeadIs("message_end")
  BY TypeOKParts, TypeOKPartsPrimed DEF HandleMessageEnd
<1>2. m \in Messages /\ m \in Entries /\ Unsaved = <<m>> \o Waiting(Tail(queue))
  BY <1>1, HeadMessage, Kinds
<1>3. /\ queue' = Tail(queue) /\ log' = Append(log, m)
      /\ UNCHANGED <<run, compacting, made>> /\ happened \subseteq happened'
  BY DEF HandleMessageEnd, agentVars, Note
<1> HIDE DEF m
<1>4. log' = log \o <<m>>
  BY <1>1, <1>2, <1>3, Adding DEF Types
<1>5. Unsaved = <<m>> \o Unsaved'
  BY <1>2, <1>3 DEF Unsaved
<1>6. Grows /\ PendingFrom
  BY <1>1, <1>3, NothingBegins DEF Grows, Types
<1>7. Saved(m)
  BY <1>3, <1>4, <1>5, <1>6 DEF Saved
<1>8. QED
  BY <1>2, <1>7 DEF Shaped

\* When the head of the queue is an agent_end, it can go.
LEMMA EndGone ==
  ASSUME Types, queue # <<>>, Head(queue) = AgentEnd, queue' = Tail(queue)
  PROVE  Unsaved' = Unsaved
<1>1. Head(queue).type # "message_end"
  BY EventKinds
<1>2. Waiting(queue) = Waiting(Tail(queue))
  BY <1>1, WaitingHead DEF Types
<1>3. QED
  BY <1>2 DEF Unsaved

\* An agent_end is no message; a compaction it begins keeps from the session.
LEMMA HandleAgentEndShape ==
  ASSUME TypeOK, TypeOK', HandleAgentEnd
  PROVE  Shaped
<1>1. Types /\ Types'
  BY TypeOKParts, TypeOKPartsPrimed
<1>2. /\ queue # <<>> /\ Head(queue) = AgentEnd /\ UNCHANGED <<run, log, made>>
      /\ queue' = Tail(queue) \/ queue' = queue
  BY <1>1, AgentEndSteps
<1>3. PendingFrom
  <2>1. \/ compacting' = compacting
        \/ /\ \A other \in Owners \ {"events"} : compacting'[other] = compacting[other]
           /\ IdIn(compacting'["events"].kept, log)
    BY <1>1, AgentEndSteps DEF IdIn
  <2>2. QED
    BY <2>1 DEF PendingFrom
<1>4. Unsaved' = Unsaved
  BY <1>1, <1>2, EndGone DEF Unsaved
<1>5. happened \subseteq happened'
  BY DEF HandleAgentEnd, RetryStarts, RetriesExhausted, RunChecked, Note
<1>6. QED
  BY <1>1, <1>2, <1>3, <1>4, <1>5, SameShape

\* The head is lost, a message or not.
LEMMA ListenerThrowsShape ==
  ASSUME TypeOK, TypeOK', ListenerThrows
  PROVE  Shaped
<1>1. Types /\ Types'
  BY TypeOKParts, TypeOKPartsPrimed
<1>2. /\ queue # <<>> /\ queue' = Tail(queue) /\ UNCHANGED <<log, compacting, made>> /\ happened \subseteq happened'
      /\ "throw" \in happened'
  BY DEF ListenerThrows, Note
<1>3. Unsaved' = Unsaved \/ \E m \in Messages : Unsaved = <<m>> \o Unsaved'
  <2>1. queue \in Seq(Events)
    BY <1>1 DEF Types
  <2>2. Waiting(queue) = Waiting(Tail(queue)) \/ \E m \in Messages : Waiting(queue) = <<m>> \o Waiting(Tail(queue))
    BY <1>2, <2>1, WaitingHead, EventKinds
  <2>3. QED
    BY <1>2, <2>2 DEF Unsaved
<1>4. Grows /\ PendingFrom
  BY <1>1, <1>2, NothingBegins DEF Grows, Types
<1>5. Lost
  BY <1>2, <1>3, <1>4 DEF Lost
<1>6. QED
  BY <1>5 DEF Shaped

\* The head that goes is an agent_end.
LEMMA SleepEndsShape ==
  ASSUME TypeOK, TypeOK', SleepEnds
  PROVE  Shaped
<1>1. Types /\ Types' /\ QueueFits
  BY TypeOKParts, TypeOKPartsPrimed
<1>2. working = "sleeping" /\ queue' = Tail(queue) /\ UNCHANGED <<run, log, compacting, made, happened>>
  BY DEF SleepEnds, agentVars
<1>3. Unsaved' = Unsaved
  BY <1>1, <1>2, EndGone DEF QueueFits
<1>4. QED
  BY <1>1, <1>2, <1>3, NothingBegins, SameShape

\* A compaction ends, however it ends.
LEMMA GoesOnSame ==
  ASSUME TypeOK, NEW o \in Owners, compacting[o] # Nil, GoesOn(o)
  PROVE  Unsaved' = Unsaved /\ PendingFrom /\ UNCHANGED run
<1>1. Types /\ QueueFits
  BY TypeOKParts
<1>2. /\ compacting' = [compacting EXCEPT ![o] = Nil] /\ UNCHANGED run
      /\ queue' = IF o = "events" THEN Tail(queue) ELSE queue
  BY DEF GoesOn, agentVars
<1>3. Unsaved' = Unsaved
  <2>1. CASE o = "events"
    BY <1>1, <1>2, <2>1, EndGone DEF QueueFits
  <2>2. CASE o # "events"
    BY <1>2, <2>2 DEF Unsaved
  <2>3. QED
    BY <2>1, <2>2
<1>4. PendingFrom
  BY <1>1, <1>2 DEF PendingFrom, Types
<1>5. QED
  BY <1>2, <1>3, <1>4

\* The summary is recorded.
LEMMA CompactionEndsShape ==
  ASSUME TypeOK, TypeOK', NEW o \in Owners, CompactionEnds(o)
  PROVE  Shaped
<1> DEFINE e == Compaction(made + 1, compacting[o].kept)
<1>1. Types /\ Types'
  BY TypeOKParts, TypeOKPartsPrimed
<1>2. /\ compacting[o] # Nil /\ GoesOn(o) /\ made' = made + 1 /\ happened \subseteq happened'
      /\ Unsaved # <<>> => "behind" \in happened'
  BY DEF CompactionEnds, Note, When
<1>3. log' = Append(log, e) /\ e \in Entries /\ e.kept = compacting[o].kept /\ ~IsSaid(e) /\ e.role = "compaction"
  <2>1. log' = Append(log, e) /\ compacting[o].kept \in Nat
    BY CompactionEndsTyped
  <2>2. made \in Nat /\ made + 1 \in Nat
    BY <1>1 DEF Types
  <2>3. QED
    BY <2>1, <2>2, Kinds
<1> HIDE DEF e
<1>4. log' = log \o <<e>> /\ <<e>> \in Seq(Entries)
  BY <1>1, <1>3, Adding DEF Types
<1>5. Grows
  BY <1>1, <1>2 DEF Grows, Types
<1>6. Recorded(<<e>>)
  BY <1>2, <1>3, <1>4, <1>5, GoesOnSame DEF Recorded
<1>7. QED
  BY <1>4, <1>6 DEF Shaped

\* Nothing is recorded.
LEMMA CompactionFailsShape ==
  ASSUME TypeOK, TypeOK', NEW o \in Owners, CompactionFails(o)
  PROVE  Shaped
<1>1. Types'
  BY TypeOKPartsPrimed
<1>2. compacting[o] # Nil /\ GoesOn(o) /\ UNCHANGED <<log, made>> /\ happened \subseteq happened'
  BY DEF CompactionFails, Note
<1>3. QED
  BY <1>1, <1>2, GoesOnSame, SameShape


\* A step of a caller or timer that leaves the session alone, or a run that begins with
\* a message of the caller.
LEMMA StartShape ==
  ASSUME Types, Types', NEW by, NEW m \in Messages, m.id = made + 1, m.role \in {"user", "custom"},
         StartRun(by, <<m>>), log' = log, UNCHANGED compacting, happened \subseteq happened'
  PROVE  Shaped
<1>1. <<m>> \in Seq(Messages) /\ Announced(<<m>>) \in Seq(Events) /\ Waiting(Announced(<<m>>)) = <<m>> /\ Len(<<m>>) = 1
  BY AnnouncedIs
<1>2. /\ queue' = (IF connected THEN queue \o Announced(<<m>>) ELSE queue) /\ run' = "llm"
  BY <1>1, StartTyped
<1>3. made' = made + 1
  BY <1>1 DEF StartRun
<1>4. QED
  BY <1>1, <1>2, <1>3, PushShape

\* agent.continue() announces nothing.
LEMMA TimerFiresShape ==
  ASSUME TypeOK, TypeOK', NEW kind \in {"retry", "compaction"}, TimerFires(kind)
  PROVE  Shaped
<1>1. Types /\ Types' /\ RunFits
  BY TypeOKParts, TypeOKPartsPrimed
<1>2. UNCHANGED <<log, compacting>> /\ happened \subseteq happened'
  BY DEF TimerFires, Note
<1>3. CASE Refused
  <2>1. UNCHANGED <<queue, made, run>>
    BY <1>3 DEF TimerFires, agentVars
  <2>2. QED
    BY <1>1, <1>2, <2>1, NothingBegins, SameShape DEF Unsaved
<1>4. CASE ~Refused
  <2>1. StartRun("timer", <<>>)
    BY <1>4 DEF TimerFires
  <2>2. <<>> \in Seq(Messages) /\ Announced(<<>>) \in Seq(Events) /\ Waiting(Announced(<<>>)) = <<>> /\ Len(<<>>) = 0
    BY AnnouncedIs
  <2>3. /\ queue' = (IF connected THEN queue \o Announced(<<>>) ELSE queue) /\ run' = "llm"
    BY <1>1, <2>1, <2>2, StartTyped
  <2>4. Announced(<<>>) = <<>>
    BY DEF Announced
  <2>5. Unsaved' = Unsaved
    <3>1. queue \o <<>> = queue
      BY <1>1 DEF Types
    <3>2. QED
      BY <2>3, <2>4, <3>1 DEF Unsaved
  <2>6. made' = made
    BY <1>1, <2>1 DEF StartRun, Types
  <2>7. Grows /\ PendingFrom
    BY <1>1, <1>2, <2>6, NothingBegins DEF Grows, Types
  <2>8. Same
    BY <1>2, <2>3, <2>5, <2>7 DEF Same
  <2>9. QED
    BY <2>8 DEF Shaped
<1>5. QED
  BY <1>3, <1>4

\* What was put off is no message of a run.
LEMMA PutOffIs ==
  ASSUME Types
  PROVE  /\ pendingBash \in Seq(Entries) /\ \A j \in DOMAIN pendingBash : pendingBash[j].role = "bash"
         /\ \A j \in DOMAIN pendingBash : ~IsSaid(pendingBash[j]) /\ ~IsCompaction(pendingBash[j])
<1> DEFINE B == {m \in Messages : m.role = "bash"}
<1>1. pendingBash \in Seq(B)
  BY DEF Types
<1>2. pendingBash \in Seq(Entries)
  BY <1>1, BashAreMessages, MessagesAreEntries
<1> HIDE DEF B
<1>3. \A j \in DOMAIN pendingBash : pendingBash[j] \in B
  BY <1>1, ElementOfSeq, LenProperties
<1>4. \A j \in DOMAIN pendingBash : pendingBash[j].role = "bash"
  BY <1>3 DEF B
<1>5. QED
  BY <1>2, <1>4 DEF IsSaid, IsCompaction

\* What was put off is recorded.
LEMMA PromptShape ==
  ASSUME TypeOK, TypeOK', NEW p \in Prompts, Prompt(p)
  PROVE  Shaped
<1>1. Types /\ Types' /\ RunFits
  BY TypeOKParts, TypeOKPartsPrimed
<1>2. /\ ~isStreaming /\ log' = log \o pendingBash /\ UNCHANGED <<run, compacting, queue, made>>
      /\ happened \subseteq happened' /\ (pendingBash # <<>> /\ Unsaved # <<>> => "behind" \in happened')
  BY DEF Prompt, agentVars, Note, When
<1>3. Unsaved' = Unsaved /\ run # "tool" /\ made' >= made
  BY <1>1, <1>2 DEF Unsaved, RunFits, Types
<1>4. CASE pendingBash = <<>>
  <2>1. log \o <<>> = log
    BY <1>1 DEF Types
  <2>2. log' = log
    BY <1>2, <1>4, <2>1
  <2>3. QED
    BY <1>1, <1>2, <1>3, <2>2, NothingBegins, SameShape
<1>5. CASE pendingBash # <<>>
  BY <1>1, <1>2, <1>3, <1>5, PutOffIs, RecordedShape
<1>6. QED
  BY <1>4, <1>5

\* The check may begin a compaction.
LEMMA PromptChecksShape ==
  ASSUME TypeOK, TypeOK', NEW p \in Prompts, PromptChecks(p)
  PROVE  Shaped
<1>1. Types'
  BY TypeOKPartsPrimed
<1>2. UNCHANGED <<run, log, queue, made>> /\ Unsaved' = Unsaved
  BY PromptCheckSteps DEF Unsaved
<1>3. PendingFrom
  <2>1. /\ \A other \in Owners \ {p} : compacting'[other] = compacting[other]
        /\ compacting'[p] # Nil => IdIn(compacting'[p].kept, log)
    BY PromptCheckSteps DEF IdIn
  <2>2. QED
    BY <2>1 DEF PendingFrom
<1>4. happened \subseteq happened'
  BY DEF PromptChecks, Note
<1>5. QED
  BY <1>1, <1>2, <1>3, <1>4, SameShape

\* The prompt is announced.
LEMMA PromptSendsShape ==
  ASSUME TypeOK, TypeOK', NEW p \in Prompts, PromptSends(p)
  PROVE  Shaped
<1> DEFINE m == Message("user", made + 1)
<1>1. Types /\ Types'
  BY TypeOKParts, TypeOKPartsPrimed
<1>2. UNCHANGED <<log, compacting>> /\ happened \subseteq happened'
  BY DEF PromptSends, Note
<1>3. m \in Messages /\ m.id = made + 1 /\ m.role = "user"
  BY <1>1, Saying DEF Roles
<1>4. UNCHANGED <<run, queue, made>> \/ StartRun(p, <<m>>)
  BY DEF PromptSends, agentVars
<1> HIDE DEF m
<1>5. CASE UNCHANGED <<run, queue, made>>
  BY <1>1, <1>2, <1>5, NothingBegins, SameShape DEF Unsaved
<1>6. CASE StartRun(p, <<m>>)
  BY <1>1, <1>2, <1>3, <1>6, StartShape
<1>7. QED
  BY <1>4, <1>5, <1>6

\* Steps of callers that neither the session nor the queue sees.
LEMMA UnseenShape ==
  ASSUME TypeOK, TypeOK',
         \/ \E p \in Prompts : PromptWaits(p) \/ PromptReturns(p)
         \/ Abort
         \/ BeginOtherSession \/ BeginCompact
         \/ SwitchGives \/ SwitchEnds \/ ForkEnds
  PROVE  Shaped
<1>1. Types'
  BY TypeOKPartsPrimed
<1>2. UNCHANGED <<run, log, queue, made, compacting>> /\ happened \subseteq happened'
  BY DEF PromptWaits, PromptReturns, Abort, BeginOtherSession, BeginCompact, Interrupt, Cancelled, SwitchGives,
         SwitchEnds, ForkEnds, agentVars, Note
<1>3. QED
  BY <1>1, <1>2, NothingBegins, SameShape DEF Unsaved

\* The result is recorded while no run is under way.
LEMMA BashShape ==
  ASSUME TypeOK, TypeOK', NEW b, Bash(b)
  PROVE  Shaped
<1> DEFINE m == Message("bash", made + 1)
<1>1. Types /\ Types' /\ RunFits
  BY TypeOKParts, TypeOKPartsPrimed
<1>2. m \in Entries /\ ~IsSaid(m) /\ ~IsCompaction(m)
  <2>1. m \in Messages /\ m.role = "bash"
    BY <1>1, Saying DEF Roles
  <2>2. QED
    BY <2>1, Kinds DEF IsSaid
<1>3. /\ made' = made + 1 /\ UNCHANGED <<run, compacting, queue>> /\ happened \subseteq happened'
      /\ \/ isStreaming /\ log' = log
         \/ ~isStreaming /\ log' = Append(log, m) /\ (Unsaved # <<>> => "behind" \in happened')
  BY DEF Bash, agentVars, Note, When
<1> HIDE DEF m
<1>4. Unsaved' = Unsaved /\ made' >= made
  BY <1>1, <1>3 DEF Unsaved, Types
<1>5. CASE log' = log
  <2>1. Grows /\ PendingFrom
    BY <1>1, <1>3, <1>4, NothingBegins DEF Grows, Types
  <2>2. Same
    BY <1>3, <1>4, <1>5, <2>1 DEF Same
  <2>3. QED
    BY <2>2 DEF Shaped
<1>6. CASE ~isStreaming /\ log' = Append(log, m) /\ (Unsaved # <<>> => "behind" \in happened')
  <2>1. log' = log \o <<m>> /\ <<m>> \in Seq(Entries)
    BY <1>1, <1>2, <1>6, Adding DEF Types
  <2>2. run # "tool"
    BY <1>1, <1>6 DEF RunFits
  <2>3. \A j \in DOMAIN <<m>> : ~IsSaid(<<m>>[j]) /\ ~IsCompaction(<<m>>[j])
    BY <1>2
  <2>4. QED
    BY <1>1, <1>3, <1>4, <1>6, <2>1, <2>2, <2>3, RecordedShape
<1>7. QED
  BY <1>3, <1>5, <1>6

\* The custom message is recorded or announced.
LEMMA SendCustomMessageShape ==
  ASSUME TypeOK, TypeOK', NEW b, SendCustomMessage(b)
  PROVE  Shaped
<1> DEFINE m == Message("custom", made + 1)
<1>1. Types /\ Types' /\ RunFits
  BY TypeOKParts, TypeOKPartsPrimed
<1>2. m \in Entries /\ ~IsSaid(m) /\ ~IsCompaction(m) /\ m \in Messages /\ m.id = made + 1 /\ m.role = "custom"
  <2>1. m \in Messages /\ m \in Entries /\ m.id = made + 1 /\ m.role = "custom" /\ ~IsCompaction(m)
    BY <1>1, Saying DEF Roles
  <2>2. QED
    BY <2>1 DEF IsSaid
<1>3. /\ ~isStreaming /\ UNCHANGED compacting /\ happened \subseteq happened'
      /\ \/ /\ made' = made + 1 /\ log' = Append(log, m) /\ (Unsaved # <<>> => "behind" \in happened')
            /\ UNCHANGED <<run, queue>>
         \/ StartRun(Nil, <<m>>) /\ log' = log
  BY DEF SendCustomMessage, agentVars, Note, When
<1> HIDE DEF m
<1>4. CASE StartRun(Nil, <<m>>) /\ log' = log
  BY <1>1, <1>2, <1>3, <1>4, StartShape
<1>5. CASE /\ made' = made + 1 /\ log' = Append(log, m) /\ (Unsaved # <<>> => "behind" \in happened')
           /\ UNCHANGED <<run, queue>>
  <2>1. log' = log \o <<m>> /\ <<m>> \in Seq(Entries)
    BY <1>1, <1>2, <1>5, Adding DEF Types
  <2>2. run # "tool" /\ made' >= made
    BY <1>1, <1>3, <1>5 DEF RunFits, Types
  <2>3. \A j \in DOMAIN <<m>> : ~IsSaid(<<m>>[j]) /\ ~IsCompaction(<<m>>[j])
    BY <1>2
  <2>4. Unsaved' = Unsaved
    BY <1>5 DEF Unsaved
  <2>5. QED
    BY <1>1, <1>3, <1>5, <2>1, <2>2, <2>3, <2>4, RecordedShape
<1>6. QED
  BY <1>3, <1>4, <1>5

\* An empty session is the begin of any.
LEMMA NewSessionShape ==
  ASSUME TypeOK, TypeOK', NewSession
  PROVE  Shaped
<1>1. Types /\ Types' /\ RunFits /\ OpFits
  BY TypeOKParts, TypeOKPartsPrimed
<1>2. /\ op = "newSession" /\ ~settling /\ log' = <<>> /\ UNCHANGED <<run, queue, compacting, made, loaded>>
      /\ happened \subseteq happened' /\ (Unsaved # <<>> => "behind" \in happened')
      /\ \A o \in Owners : compacting[o] # Nil => "orphaned" \in happened'
  BY DEF NewSession, agentVars, Note, When, Orphaned
<1>3. loaded = Nil /\ ~isStreaming /\ run # "tool"
  BY <1>1, <1>2 DEF OpFits, SessionIsNext, RunFits
<1>4. Grows /\ Unsaved' = Unsaved
  BY <1>1, <1>2 DEF Grows, Types, Unsaved
<1>5. DOMAIN log' = {}
  BY <1>2
<1>6. Replaced
  BY <1>2, <1>3, <1>4, <1>5 DEF Replaced
<1>7. QED
  BY <1>6 DEF Shaped

\* An earlier session takes the place of this one.
LEMMA OpenSessionShape ==
  ASSUME TypeOK, TypeOK', OpenSession
  PROVE  Shaped
<1>1. Types /\ Types' /\ RunFits /\ OpFits
  BY TypeOKParts, TypeOKPartsPrimed
<1>2. /\ SessionIsNext /\ log' = Earlier /\ UNCHANGED <<run, queue, compacting, made>>
      /\ happened \subseteq happened' /\ (queue # <<>> => "behind" \in happened')
      /\ \A o \in Owners : compacting[o] # Nil => "orphaned" \in happened'
  BY DEF OpenSession, agentVars, Note, When, Orphaned
<1>3. run # "tool"
  BY <1>1, <1>2 DEF OpFits, RunFits
<1>4. Grows /\ Unsaved' = Unsaved
  BY <1>1, <1>2 DEF Grows, Types, Unsaved
<1>5. Unsaved # <<>> => queue # <<>>
  BY WaitingOne DEF Unsaved
<1>6. Replaced
  BY <1>2, <1>3, <1>4, <1>5 DEF Replaced
<1>7. QED
  BY <1>6 DEF Shaped

\* A fork is the begin of the session.
LEMMA ForkShape ==
  ASSUME TypeOK, TypeOK', NEW i \in DOMAIN log, Fork(i)
  PROVE  Shaped
<1>1. Types /\ Types' /\ RunFits
  BY TypeOKParts, TypeOKPartsPrimed
<1>2. /\ log' = SubSeq(log, 1, i - 1) /\ UNCHANGED <<run, queue, compacting, made>>
      /\ happened \subseteq happened' /\ (queue # <<>> \/ isStreaming => "behind" \in happened')
      /\ \A o \in Owners : compacting[o] # Nil => "orphaned" \in happened'
  BY DEF Fork, agentVars, Note, When, Orphaned
<1>3. run = "tool" => isStreaming
  BY <1>1 DEF RunFits
<1>4. Grows /\ Unsaved' = Unsaved
  BY <1>1, <1>2 DEF Grows, Types, Unsaved
<1>5. Unsaved # <<>> => queue # <<>>
  BY WaitingOne DEF Unsaved
<1>6. /\ DOMAIN log' \subseteq DOMAIN log
      /\ \A j \in DOMAIN log' : log'[j] = log[j] /\ j - 1 \in {0} \union DOMAIN log'
  <2>1. /\ i \in Nat /\ DOMAIN log' = 1..(i - 1)
        /\ \A j \in 1..(i - 1) : j \in DOMAIN log /\ log'[j] = log[j]
    BY <1>1, <1>2, PrefixTyped DEF Types
  <2>2. \A j \in 1..(i - 1) : j - 1 \in {0} \union 1..(i - 1)
    BY <2>1
  <2>3. QED
    BY <2>1, <2>2
<1>7. Replaced
  BY <1>2, <1>3, <1>4, <1>5, <1>6 DEF Replaced
<1>8. QED
  BY <1>7 DEF Shaped

\* compact() may begin a compaction.
LEMMA CompactShape ==
  ASSUME TypeOK, TypeOK', Compact
  PROVE  Shaped
<1>1. Types /\ Types'
  BY TypeOKParts, TypeOKPartsPrimed
<1>2. UNCHANGED <<run, log, queue, made, happened>> /\ Unsaved' = Unsaved
  BY DEF Compact, agentVars, Unsaved
<1>3. PendingFrom
  <2>1. CASE Prepare("user", FALSE)
    <3>1. /\ \A other \in Owners \ {"user"} : compacting'[other] = compacting[other]
          /\ IdIn(compacting'["user"].kept, log)
      BY <1>1, <2>1, PrepareTyped, OwnersDiffer DEF IdIn
    <3>2. QED
      BY <3>1 DEF PendingFrom
  <2>2. CASE UNCHANGED compacting
    BY <2>2, NothingBegins
  <2>3. QED
    BY <2>1, <2>2 DEF Compact
<1>4. QED
  BY <1>1, <1>2, <1>3, SameShape

\* Every step has one of the shapes.
LEMMA NextShape ==
  ASSUME TypeOK, TypeOK', [Next]_vars
  PROVE  Shaped
<1>1. CASE UNCHANGED vars
  <2>1. UNCHANGED <<run, log, queue, made, compacting, happened>> /\ Types'
    BY <1>1, TypeOKPartsPrimed DEF vars, agentVars
  <2>2. QED
    BY <2>1, NothingBegins, SameShape DEF Unsaved
<1>2. CASE Next
  <2>1. CASE Answer
    BY <2>1, LlmAnswersShape DEF Answer
  <2>2. CASE ToolReturns
    BY <2>2, ToolReturnsShape
  <2>3. CASE HandleMessageEnd
    BY <2>3, HandleMessageEndShape
  <2>4. CASE HandleAgentEnd
    BY <2>4, HandleAgentEndShape
  <2>5. CASE ListenerThrows
    BY <2>5, ListenerThrowsShape
  <2>6. CASE SleepEnds
    BY <2>6, SleepEndsShape
  <2>7. CASE \E kind \in {"retry", "compaction"} : TimerFires(kind)
    BY <2>7, TimerFiresShape
  <2>8. CASE \E o \in Owners : CompactionEnds(o)
    BY <2>8, CompactionEndsShape
  <2>9. CASE \E o \in Owners : CompactionFails(o)
    BY <2>9, CompactionFailsShape
  <2>10. CASE \E p \in Prompts : Prompt(p)
    BY <2>10, PromptShape
  <2>11. CASE \E p \in Prompts : PromptChecks(p)
    BY <2>11, PromptChecksShape
  <2>12. CASE \E p \in Prompts : PromptSends(p)
    BY <2>12, PromptSendsShape
  <2>13. CASE \/ \E p \in Prompts : PromptWaits(p) \/ PromptReturns(p)
              \/ Abort \/ BeginOtherSession \/ BeginCompact
              \/ SwitchGives \/ SwitchEnds \/ ForkEnds
    BY <2>13, UnseenShape
  <2>14. CASE \E b \in Commands : Bash(b)
    BY <2>14, BashShape
  <2>15. CASE \E b \in Commands : SendCustomMessage(b)
    BY <2>15, SendCustomMessageShape
  <2>16. CASE NewSession
    BY <2>16, NewSessionShape
  <2>17. CASE OpenSession
    BY <2>17, OpenSessionShape
  <2>18. CASE \E i \in DOMAIN log : Fork(i)
    BY <2>18, ForkShape
  <2>19. CASE Compact
    BY <2>19, CompactShape
  <2>20. QED
    BY <1>2, <2>1, <2>2, <2>3, <2>4, <2>5, <2>6, <2>7, <2>8, <2>9, <2>10, <2>11, <2>12, <2>13, <2>14, <2>15,
       <2>16, <2>17, <2>18, <2>19 DEF Next, Prompting
<1>3. QED
  BY <1>1, <1>2

-----------------------------------------------------------------------------
(* The agent's messages and the session.                                   *)

Matches == NoErrors(messages) = NoErrors(Context(log) \o Unsaved)

\* What DropLastAssistant takes out was an error.
LEMMA DropMatches ==
  ASSUME NEW ms \in Seq(Entries), ms # <<>> /\ IsAssistant(Last(ms)) => IsError(Last(ms))
  PROVE  NoErrors(DropLastAssistant(ms)) = NoErrors(ms)
<1>1. CASE ~(ms # <<>> /\ IsAssistant(Last(ms)))
  BY <1>1 DEF DropLastAssistant
<1>2. CASE ms # <<>> /\ IsAssistant(Last(ms))
  <2>1. /\ Front(ms) \in Seq(Entries) /\ Last(ms) \in Entries /\ ms = Front(ms) \o <<Last(ms)>>
        /\ DropLastAssistant(ms) = Front(ms) /\ IsError(Last(ms))
    BY <1>2, FrontAndLast DEF DropLastAssistant
  <2> DEFINE f == Front(ms)
             l == Last(ms)
  <2> HIDE DEF f, l
  <2>2. f \in Seq(Entries) /\ <<l>> \in Seq(Entries) /\ ms = f \o <<l>> /\ IsError(l)
    BY <2>1 DEF f, l
  <2>3. NoErrors(ms) = NoErrors(f) \o NoErrors(<<l>>)
    BY <2>2, NoErrorsConcat, Zenon
  <2>4. NoErrors(<<l>>) = <<>> /\ NoErrors(f) \in Seq(Entries)
    BY <2>2, NoErrorsOne, NoErrorsTyped
  <2>5. NoErrors(ms) = NoErrors(f)
    BY <2>3, <2>4, ConcatEmptySeq, Zenon
  <2>6. QED
    BY <2>1, <2>5 DEF f
<1>3. QED
  BY <1>1, <1>2

\* What is said is added on both sides.
LEMMA MatchesMore ==
  ASSUME NEW a \in Seq(Entries), NEW b \in Seq(Entries), NEW t \in Seq(Entries), NoErrors(a) = NoErrors(b)
  PROVE  NoErrors(a \o t) = NoErrors(b \o t)
<1>1. NoErrors(a \o t) = NoErrors(a) \o NoErrors(t)
  BY NoErrorsConcat, Zenon
<1>2. NoErrors(b \o t) = NoErrors(b) \o NoErrors(t)
  BY NoErrorsConcat, Zenon
<1>3. QED
  BY <1>1, <1>2, Zenon

\* A context and what waits, when a message is added to what waits ...
LEMMA WaitsMore ==
  ASSUME NEW c \in Seq(Entries), NEW w \in Seq(Entries), NEW t \in Seq(Entries)
  PROVE  c \o (w \o t) = (c \o w) \o t /\ c \o w \in Seq(Entries)
<1>1. (c \o w) \o t = c \o (w \o t)
  BY ConcatAssociative, SMTT(30)
<1>2. QED
  BY <1>1, ConcatProperties, Zenon

\* ... and when what waits goes into the session.
LEMMA ContextSaved ==
  ASSUME NEW s \in Seq(Entries), NEW w \in Seq(Entries), NEW m \in Messages
  PROVE  Context(s \o <<m>>) \o w = Context(s) \o (<<m>> \o w)
<1>1. <<m>> \in Seq(Entries) /\ \A j \in DOMAIN <<m>> : ~IsCompaction(<<m>>[j])
  BY Kinds
<1>2. Context(s \o <<m>>) = Context(s) \o <<m>>
  BY <1>1, ContextMore
<1>3. Context(s) \in Seq(Entries)
  BY ContextTyped
<1> DEFINE c == Context(s)
           t == <<m>>
<1> HIDE DEF c, t
<1>4. c \in Seq(Entries) /\ t \in Seq(Entries) /\ Context(s \o t) = c \o t
  BY <1>1, <1>2, <1>3 DEF c, t
<1>5. (c \o t) \o w = c \o (t \o w)
  BY <1>4, ConcatAssociative, SMTT(30)
<1>6. QED
  BY <1>4, <1>5 DEF c, t

\* The messages of a session that the agent gets.
LEMMA ReloadedMatches ==
  ASSUME NEW s \in Seq(Entries), NEW willRetry \in BOOLEAN, Context(s) # <<>>
  PROVE  NoErrors(Reloaded(s, willRetry)) = NoErrors(Context(s))
<1> DEFINE ms == Context(s)
<1>1. ms \in Seq(Entries) /\ ms # <<>>
  BY ContextTyped
<1>2. Reloaded(s, willRetry) = IF willRetry /\ IsError(Last(ms)) THEN Front(ms) ELSE ms
  BY DEF Reloaded
<1> HIDE DEF ms
<1>3. CASE willRetry /\ IsError(Last(ms))
  <2>1. Front(ms) \in Seq(Entries) /\ Last(ms) \in Entries /\ ms = Front(ms) \o <<Last(ms)>>
    BY <1>1, FrontAndLast
  <2> DEFINE f == Front(ms)
             l == Last(ms)
  <2> HIDE DEF f, l
  <2>2. f \in Seq(Entries) /\ <<l>> \in Seq(Entries) /\ ms = f \o <<l>> /\ IsError(l)
    BY <1>3, <2>1 DEF f, l
  <2>3. NoErrors(ms) = NoErrors(f) \o NoErrors(<<l>>)
    BY <2>2, NoErrorsConcat, Zenon
  <2>4. NoErrors(<<l>>) = <<>> /\ NoErrors(f) \in Seq(Entries)
    BY <2>2, NoErrorsOne, NoErrorsTyped
  <2>5. NoErrors(ms) = NoErrors(f)
    BY <2>3, <2>4, ConcatEmptySeq, Zenon
  <2>6. QED
    BY <1>2, <1>3, <2>5 DEF f, ms
<1>4. CASE ~(willRetry /\ IsError(Last(ms)))
  BY <1>2, <1>4 DEF ms
<1>5. QED
  BY <1>3, <1>4

\* Where the session and the agent are.
Matched == op \in {"none", "compact", "restoring"} => Matches
Handed ==
  /\ loaded # Nil => loaded = Context(log)
  /\ loaded # Nil \/ op = "restoring" => Unsaved = <<>> /\ ~isStreaming
  /\ op = "fork" => loaded # Nil
CompactsAlone ==
  op = "compact" =>
    /\ queue = <<>> /\ ~isStreaming /\ timers = [retry |-> 0, compaction |-> 0]
    /\ \A o \in Owners \ {"user"} : compacting[o] = Nil
    /\ \A p \in Prompts : place[p] \in {"none", "returned", "rejected"}
Follows == Undisturbed => Matched /\ Handed /\ CompactsAlone

\* Steps that leave the session alone, and the agent's messages but for errors.
LEMMA FollowsSame ==
  ASSUME Follows, UNCHANGED <<log, loaded, op, isStreaming>>, Unsaved' = Unsaved,
         NoErrors(messages') = NoErrors(messages), happened \subseteq happened',
         Undisturbed /\ CompactsAlone => CompactsAlone'
  PROVE  Follows'
<1>1. SUFFICES ASSUME Undisturbed'
               PROVE  Matched' /\ Handed' /\ CompactsAlone'
  BY DEF Follows
<1>2. Undisturbed
  BY <1>1 DEF Undisturbed
<1>3. Matched /\ Handed /\ CompactsAlone
  BY <1>2 DEF Follows
<1>4. Context(log') = Context(log)
  OBVIOUS
<1>5. Matched' /\ Handed'
  BY <1>3, <1>4 DEF Matched, Matches, Handed
<1>6. QED
  BY <1>2, <1>3, <1>5


\* What was undisturbed until now, and what can not have befallen it.
LEMMA Calm ==
  ASSUME happened \subseteq happened', Undisturbed'
  PROVE  /\ Undisturbed
         /\ \A kind \in {"overlap", "cut", "throw", "behind", "apart", "dropped", "orphaned"} : kind \notin happened'
BY DEF Undisturbed

\* When something is said, the agent has its messages and no compact() is under way.
LEMMA FollowsSaid ==
  ASSUME TypeOK, Follows, NEW t \in Seq(Messages), messages' = messages \o t,
         Unsaved' = IF connected THEN Unsaved \o t ELSE Unsaved,
         UNCHANGED <<log, loaded, op>>, happened \subseteq happened',
         Undisturbed' => loaded = Nil /\ op \notin {"restoring", "compact"}
  PROVE  Follows'
<1>1. SUFFICES ASSUME Undisturbed'
               PROVE  Matched' /\ Handed' /\ CompactsAlone'
  BY DEF Follows
<1>2. Undisturbed /\ loaded = Nil /\ op \notin {"restoring", "compact"}
  BY <1>1, Calm
<1>3. Matched /\ Handed /\ Types /\ OpFits
  BY <1>2, TypeOKParts DEF Follows
<1>4. Handed' /\ CompactsAlone'
  BY <1>2, <1>3 DEF Handed, CompactsAlone
<1>5. CASE op # "none"
  BY <1>2, <1>4, <1>5 DEF Matched
<1>6. CASE op = "none"
  <2>1. Unsaved' = Unsaved \o t /\ Matches
    BY <1>3, <1>6 DEF OpFits, Matched
  <2> DEFINE c == Context(log)
  <2>2. c \in Seq(Entries) /\ Unsaved \in Seq(Entries) /\ t \in Seq(Entries) /\ messages \in Seq(Entries)
    BY <1>3, ContextTyped, WaitingTyped, MessagesAreEntries DEF Types
  <2>3. Context(log') = c
    OBVIOUS
  <2>4. NoErrors(messages) = NoErrors(c \o Unsaved)
    BY <2>1 DEF Matches
  <2> HIDE DEF c
  <2>5. c \o (Unsaved \o t) = (c \o Unsaved) \o t /\ c \o Unsaved \in Seq(Entries)
    BY <2>2, WaitsMore, SMTT(30)
  <2>6. NoErrors(messages \o t) = NoErrors((c \o Unsaved) \o t)
    BY <2>2, <2>4, <2>5, MatchesMore
  <2>7. NoErrors(messages') = NoErrors(Context(log') \o Unsaved')
    BY <2>1, <2>3, <2>5, <2>6
  <2>8. QED
    BY <1>4, <2>7 DEF Matched, Matches
<1>7. QED
  BY <1>5, <1>6

\* Whatever is announced waits, if the session listens.
LEMMA UnsavedMore ==
  ASSUME Types, NEW events \in Seq(Events), queue' = IF connected THEN queue \o events ELSE queue
  PROVE  Unsaved' = IF connected THEN Unsaved \o Waiting(events) ELSE Unsaved
<1>1. queue \in Seq(Events)
  BY DEF Types
<1>2. Waiting(queue \o events) = Waiting(queue) \o Waiting(events)
  BY <1>1, WaitingConcat
<1>3. QED
  BY <1>2 DEF Unsaved

\* While a run is under way, the agent has its messages and no compact() is under way.
LEMMA RunningAlone ==
  ASSUME TypeOK, Follows, Undisturbed, isStreaming
  PROVE  loaded = Nil /\ op \notin {"restoring", "compact"}
BY DEF Follows, Handed, CompactsAlone

\* An answer is added to the agent's messages and to what waits ...
LEMMA LlmAnswersFollows ==
  ASSUME TypeOK, Follows, NEW stop \in Stops, LlmAnswers(stop)
  PROVE  Follows'
<1> DEFINE m == Assistant(stop, made + 1)
<1>1. Types /\ RunFits
  BY TypeOKParts
<1>2. m \in Messages /\ m \in Entries
  BY <1>1, Answering
<1>3. run = "llm" /\ messages' = Append(messages, m) /\ UNCHANGED <<log, loaded, op>> /\ happened \subseteq happened'
  BY DEF LlmAnswers, Note
<1>4. queue' = IF connected THEN queue \o AnswerEvents(stop, m) ELSE queue
  BY DEF LlmAnswers, AnswerEvents
<1> HIDE DEF m
<1>5. AnswerEvents(stop, m) \in Seq(Events) /\ Waiting(AnswerEvents(stop, m)) = <<m>>
  BY <1>2, AnswerEventsTyped
<1>6. Unsaved' = IF connected THEN Unsaved \o <<m>> ELSE Unsaved
  BY <1>1, <1>4, <1>5, UnsavedMore
<1>7. messages' = messages \o <<m>> /\ <<m>> \in Seq(Messages)
  BY <1>1, <1>2, <1>3, Adding DEF Types
<1>8. Undisturbed' => loaded = Nil /\ op \notin {"restoring", "compact"}
  BY <1>1, <1>3, Calm, RunningAlone DEF RunFits
<1>9. QED
  BY <1>3, <1>6, <1>7, <1>8, FollowsSaid

\* ... and so is a result.
LEMMA ToolReturnsFollows ==
  ASSUME TypeOK, Follows, ToolReturns
  PROVE  Follows'
<1> DEFINE m == Message("toolResult", made + 1)
<1>1. Types /\ RunFits
  BY TypeOKParts
<1>2. m \in Messages /\ m \in Entries
  BY <1>1, Saying DEF Roles
<1>3. run = "tool" /\ messages' = Append(messages, m) /\ UNCHANGED <<log, loaded, op, happened>>
  BY DEF ToolReturns, opVars
<1>4. <<MessageEnd(m)>> \in Seq(Events) /\ Append(queue, MessageEnd(m)) = queue \o <<MessageEnd(m)>>
  BY <1>1, <1>2, EventKinds, Adding DEF Types
<1>5. queue' = IF connected THEN queue \o <<MessageEnd(m)>> ELSE queue
  BY <1>4 DEF ToolReturns
<1>6. Waiting(<<MessageEnd(m)>>) = <<m>>
  BY <1>2, WaitingOne
<1> HIDE DEF m
<1>7. Unsaved' = IF connected THEN Unsaved \o <<m>> ELSE Unsaved
  BY <1>1, <1>4, <1>5, <1>6, UnsavedMore
<1>8. messages' = messages \o <<m>> /\ <<m>> \in Seq(Messages)
  BY <1>1, <1>2, <1>3, Adding DEF Types
<1>9. Undisturbed' => loaded = Nil /\ op \notin {"restoring", "compact"}
  BY <1>1, <1>3, Calm, RunningAlone DEF RunFits
<1>10. QED
  BY <1>3, <1>7, <1>8, <1>9, FollowsSaid

\* A run begins.
LEMMA StartFollows ==
  ASSUME TypeOK, Follows, NEW by, NEW t \in Seq(Messages), Announced(t) \in Seq(Events), Waiting(Announced(t)) = t,
         StartRun(by, t), UNCHANGED <<log, loaded, op>>, happened \subseteq happened',
         Undisturbed' => loaded = Nil /\ op \notin {"restoring", "compact"}
  PROVE  Follows'
<1>1. Types
  BY TypeOKParts
<1>2. messages' = messages \o t /\ queue' = (IF connected THEN queue \o Announced(t) ELSE queue)
  BY <1>1, StartTyped
<1>3. Unsaved' = IF connected THEN Unsaved \o t ELSE Unsaved
  BY <1>1, <1>2, UnsavedMore
<1>4. QED
  BY <1>2, <1>3, FollowsSaid

\* agent.continue() says nothing, and the agent has its messages.
LEMMA TimerFiresFollows ==
  ASSUME TypeOK, Follows, NEW kind \in {"retry", "compaction"}, TimerFires(kind)
  PROVE  Follows'
<1>1. Types /\ UNCHANGED <<log, loaded, op, compacting, place>> /\ happened \subseteq happened' /\ timers[kind] > 0
      /\ (loaded # Nil \/ op = "restoring" => "apart" \in happened')
  BY TypeOKParts DEF TimerFires, Note, Apart, When, opVars, promptVars
<1>2. Undisturbed /\ CompactsAlone => op # "compact"
  BY <1>1 DEF CompactsAlone
<1>3. CASE Refused
  <2>1. UNCHANGED <<messages, queue, isStreaming>>
    BY <1>3 DEF TimerFires, agentVars
  <2>2. Undisturbed /\ CompactsAlone => CompactsAlone'
    BY <1>1, <1>2 DEF CompactsAlone
  <2>3. QED
    BY <1>1, <2>1, <2>2, FollowsSame DEF Unsaved
<1>4. CASE ~Refused
  <2>1. StartRun("timer", <<>>)
    BY <1>4 DEF TimerFires
  <2>2. Undisturbed' => loaded = Nil /\ op \notin {"restoring", "compact"}
    BY <1>1, <1>2, Calm DEF Follows
  <2>3. QED
    BY <1>1, <2>1, <2>2, AnnouncedIs, StartFollows
<1>5. QED
  BY <1>3, <1>4

\* A prompt is said when the agent has its messages.
LEMMA PromptSendsFollows ==
  ASSUME TypeOK, Follows, NEW p \in Prompts, PromptSends(p)
  PROVE  Follows'
<1> DEFINE m == Message("user", made + 1)
<1>1. Types /\ UNCHANGED <<log, loaded, op>> /\ happened \subseteq happened' /\ place[p] = "ready"
      /\ (loaded # Nil \/ op = "restoring" => "apart" \in happened')
  BY TypeOKParts DEF PromptSends, Note, Apart, When, opVars
<1>2. Undisturbed /\ CompactsAlone => op # "compact"
  BY <1>1 DEF CompactsAlone
<1>3. m \in Messages
  BY <1>1, Saying DEF Roles
<1>4. \/ UNCHANGED <<messages, queue, isStreaming>>
      \/ StartRun(p, <<m>>)
  BY DEF PromptSends, agentVars
<1> HIDE DEF m
<1>5. CASE UNCHANGED <<messages, queue, isStreaming>>
  <2>1. Undisturbed /\ CompactsAlone => CompactsAlone'
    BY <1>1, <1>2 DEF CompactsAlone
  <2>2. QED
    BY <1>1, <1>5, <2>1, FollowsSame DEF Unsaved
<1>6. CASE StartRun(p, <<m>>)
  <2>1. Undisturbed' => loaded = Nil /\ op \notin {"restoring", "compact"}
    BY <1>1, <1>2, Calm DEF Follows
  <2>2. <<m>> \in Seq(Messages) /\ Announced(<<m>>) \in Seq(Events) /\ Waiting(Announced(<<m>>)) = <<m>>
    BY <1>3, AnnouncedIs
  <2>3. QED
    BY <1>1, <1>6, <2>1, <2>2, StartFollows
<1>7. QED
  BY <1>4, <1>5, <1>6

\* When nothing waits, no message is at the head of the queue.
LEMMA HeadWaits ==
  ASSUME Types, HeadIs("message_end")
  PROVE  Unsaved # <<>> /\ queue # <<>>
<1>1. Unsaved = <<Head(queue).message>> \o Waiting(Tail(queue)) /\ Head(queue).message \in Messages
      /\ Waiting(Tail(queue)) \in Seq(Messages)
  BY HeadMessage
<1> DEFINE m == Head(queue).message
           w == Waiting(Tail(queue))
<1> HIDE DEF m, w
<1>2. m \in Messages /\ w \in Seq(Messages) /\ Unsaved = <<m>> \o w
  BY <1>1 DEF m, w
<1>3. Unsaved # <<>>
  BY <1>2, OneLess
<1>4. QED
  BY <1>3 DEF HeadIs

\* A message goes from what waits into the session's context.
LEMMA HandleMessageEndFollows ==
  ASSUME TypeOK, Follows, HandleMessageEnd
  PROVE  Follows'
<1> DEFINE m == Head(queue).message
<1>1. Types /\ HeadIs("message_end")
  BY TypeOKParts DEF HandleMessageEnd
<1>2. /\ log' = Append(log, m) /\ queue' = Tail(queue) /\ UNCHANGED <<messages, loaded, op>>
      /\ happened \subseteq happened'
  BY DEF HandleMessageEnd, Note, opVars
<1>3. m \in Messages /\ m \in Entries /\ Unsaved = <<m>> \o Unsaved' /\ Unsaved' \in Seq(Messages)
  <2>1. Unsaved' = Waiting(Tail(queue))
    BY <1>2 DEF Unsaved
  <2>2. QED
    BY <1>1, <2>1, HeadMessage, Kinds
<1> HIDE DEF m
<1>4. SUFFICES ASSUME Undisturbed'
               PROVE  Matched' /\ Handed' /\ CompactsAlone'
  BY DEF Follows
<1>5. Undisturbed
  BY <1>2, <1>4, Calm
<1>6. Matched /\ loaded = Nil /\ op \notin {"restoring", "compact"} /\ op # "fork"
  BY <1>1, <1>5, HeadWaits DEF Follows, Handed, CompactsAlone
<1>7. Handed' /\ CompactsAlone'
  BY <1>2, <1>6 DEF Handed, CompactsAlone
<1>8. ASSUME op = "none"
      PROVE  Matches'
  <2>1. log \in Seq(Entries) /\ log' = log \o <<m>> /\ Unsaved' \in Seq(Entries)
    BY <1>1, <1>2, <1>3, Adding, MessagesAreEntries DEF Types
  <2>2. Context(log \o <<m>>) \o Unsaved' = Context(log) \o (<<m>> \o Unsaved')
    BY <1>3, <2>1, ContextSaved
  <2>3. Context(log') \o Unsaved' = Context(log) \o Unsaved
    BY <1>3, <2>1, <2>2
  <2>4. QED
    BY <1>2, <1>6, <1>8, <2>3 DEF Matched, Matches
<1>9. QED
  BY <1>2, <1>6, <1>7, <1>8 DEF Matched

\* The agent loses nothing but an error.
LEMMA HandleAgentEndFollows ==
  ASSUME TypeOK, Follows, HandleAgentEnd
  PROVE  Follows'
<1>1. Types
  BY TypeOKParts
<1>2. /\ queue # <<>> /\ Head(queue) = AgentEnd /\ UNCHANGED <<log, loaded, op, isStreaming>>
      /\ queue' = Tail(queue) \/ queue' = queue
      /\ messages' = DropLastAssistant(messages) \/ messages' = messages
  BY <1>1, AgentEndSteps
<1>3. Unsaved' = Unsaved
  BY <1>1, <1>2, EndGone DEF Unsaved
<1>4. happened \subseteq happened'
  BY DEF HandleAgentEnd, RetryStarts, RetriesExhausted, RunChecked, Note
<1>5. messages' = messages \/ (messages' = DropLastAssistant(messages) /\ Dropped \subseteq happened')
  <2>1. CASE lastAssistant = Nil
    BY <2>1 DEF HandleAgentEnd
  <2>2. CASE RetryStarts(lastAssistant)
    BY <2>2 DEF RetryStarts, Note
  <2>3. CASE RetriesExhausted(lastAssistant)
    BY <2>3 DEF RetriesExhausted
  <2>4. CASE RunChecked(lastAssistant)
    BY <2>4 DEF RunChecked, Compacts, CompactsNot, DroppedFor, Note
  <2>5. QED
    BY <2>1, <2>2, <2>3, <2>4 DEF HandleAgentEnd
<1>6. CASE Undisturbed'
  <2>1. messages \in Seq(Entries) /\ "dropped" \notin happened'
    BY <1>1, <1>4, <1>6, Calm DEF Types
  <2>2. NoErrors(messages') = NoErrors(messages)
    BY <1>5, <2>1, DropMatches DEF Dropped, When
  <2>3. Undisturbed /\ CompactsAlone => CompactsAlone'
    BY <1>2 DEF CompactsAlone
  <2>4. QED
    BY <1>2, <1>3, <1>4, <2>2, <2>3, FollowsSame
<1>7. QED
  BY <1>6 DEF Follows

\* A listener that throws is an exception of its own.
LEMMA ListenerThrowsFollows ==
  ASSUME TypeOK, Follows, ListenerThrows
  PROVE  Follows'
<1>1. "throw" \in happened' /\ happened \subseteq happened'
  BY DEF ListenerThrows, Note
<1>2. ~Undisturbed'
  BY <1>1, Calm
<1>3. QED
  BY <1>2 DEF Follows

\* A backoff ends: the head was an agent_end.
LEMMA SleepEndsFollows ==
  ASSUME TypeOK, Follows, SleepEnds
  PROVE  Follows'
<1>1. Types /\ QueueFits
  BY TypeOKParts
<1>2. working = "sleeping" /\ queue' = Tail(queue) /\ UNCHANGED <<messages, log, loaded, op, isStreaming, happened>>
  BY DEF SleepEnds, agentVars, opVars
<1>3. Unsaved' = Unsaved /\ queue # <<>>
  BY <1>1, <1>2, EndGone DEF QueueFits
<1>4. Undisturbed /\ CompactsAlone => CompactsAlone'
  BY <1>2, <1>3 DEF CompactsAlone
<1>5. QED
  BY <1>2, <1>3, <1>4, FollowsSame

\* The agent loses nothing but an error.
LEMMA PromptChecksFollows ==
  ASSUME TypeOK, Follows, NEW p \in Prompts, PromptChecks(p)
  PROVE  Follows'
<1> DEFINE last == LastPlace({i \in DOMAIN messages : IsAssistant(messages[i])})
<1>1. Types
  BY TypeOKParts
<1>2. /\ UNCHANGED <<log, loaded, op, isStreaming, queue>> /\ Unsaved' = Unsaved /\ place[p] = "called"
      /\ messages' = DropLastAssistant(messages) \/ messages' = messages
  BY PromptCheckSteps DEF Unsaved
<1>3. happened \subseteq happened'
  BY DEF PromptChecks, Note
<1>4. messages' = messages \/ (messages' = DropLastAssistant(messages) /\ Dropped \subseteq happened')
  <2>1. place'[p] # "rejected" /\ last # 0 => DroppedFor(messages[last]) \subseteq happened'
    BY DEF PromptChecks, Note
  <2>2. \/ UNCHANGED messages
        \/ /\ last # 0 /\ CompactsNot(messages[last]) /\ place' = [place EXCEPT ![p] = "ready"]
        \/ /\ last # 0 /\ Compacts(p, messages[last], FALSE) /\ place' = [place EXCEPT ![p] = "compacting"]
    BY DEF PromptChecks
  <2> HIDE DEF last
  <2>3. \A to : place' = [place EXCEPT ![p] = to] => place'[p] = to
    BY <1>1 DEF Types
  <2>4. CASE last # 0 /\ CompactsNot(messages[last]) /\ place' = [place EXCEPT ![p] = "ready"]
    BY <2>1, <2>3, <2>4 DEF CompactsNot, DroppedFor
  <2>5. CASE last # 0 /\ Compacts(p, messages[last], FALSE) /\ place' = [place EXCEPT ![p] = "compacting"]
    BY <2>1, <2>3, <2>5 DEF Compacts, DroppedFor
  <2>6. QED
    BY <2>2, <2>4, <2>5
<1>5. CASE Undisturbed'
  <2>1. messages \in Seq(Entries) /\ "dropped" \notin happened'
    BY <1>1, <1>3, <1>5, Calm DEF Types
  <2>2. NoErrors(messages') = NoErrors(messages)
    BY <1>4, <2>1, DropMatches DEF Dropped, When
  <2>3. Undisturbed /\ CompactsAlone => CompactsAlone'
    BY <1>2 DEF CompactsAlone
  <2>4. QED
    BY <1>2, <1>3, <2>2, <2>3, FollowsSame
<1>6. QED
  BY <1>5 DEF Follows

\* Steps of callers that change nothing here.
LEMMA UnseenFollows ==
  ASSUME TypeOK, Follows, Abort \/ \E p \in Prompts : PromptWaits(p) \/ PromptReturns(p)
  PROVE  Follows'
<1>1. UNCHANGED <<messages, log, loaded, op, isStreaming, queue>> /\ happened \subseteq happened'
  BY DEF Abort, Cancelled, PromptWaits, PromptReturns, agentVars, opVars, Note
<1>2. Undisturbed /\ CompactsAlone => CompactsAlone'
  <2>1. CASE Abort
    BY <1>1, <2>1 DEF Abort, CompactsAlone, promptVars
  <2>2. CASE \E p \in Prompts : PromptWaits(p) \/ PromptReturns(p)
    BY <1>1, <2>2 DEF PromptWaits, PromptReturns, CompactsAlone
  <2>3. QED
    BY <2>1, <2>2
<1>3. QED
  BY <1>1, <1>2, FollowsSame DEF Unsaved

\* After a compaction the agent has the session's context; nothing waited.
LEMMA CompactionEndsFollows ==
  ASSUME TypeOK, Follows, NEW o \in Owners, CompactionEnds(o)
  PROVE  Follows'
<1>1. Types /\ Types' /\ CompactingFits /\ OpFits
  BY TypeOKParts, TypeOKPartsPrimed, CompactionEndsTyped
<1>2. /\ compacting[o] # Nil /\ GoesOn(o) /\ messages' = Reloaded(log', compacting[o].willRetry)
      /\ happened \subseteq happened'
      /\ Unsaved # <<>> => "behind" \in happened'
      /\ loaded # Nil \/ op = "restoring" => "apart" \in happened'
  BY DEF CompactionEnds, Note, When, Apart
<1>3. UNCHANGED <<loaded, isStreaming>> /\ op' = IF o = "user" THEN "none" ELSE op
  BY <1>2 DEF GoesOn, agentVars
<1>4. Unsaved' = Unsaved
  BY <1>2, GoesOnSame
<1>5. log' \in Seq(Entries) /\ Context(log') # <<>> /\ Context(log') \in Seq(Entries) /\ compacting[o].willRetry \in BOOLEAN
  BY <1>1, <1>2, CompactionEndsTyped DEF Types
<1>6. NoErrors(messages') = NoErrors(Context(log'))
  BY <1>2, <1>5, ReloadedMatches
<1>7. SUFFICES ASSUME Undisturbed'
               PROVE  Matched' /\ Handed' /\ CompactsAlone'
  BY DEF Follows
<1>8. Undisturbed /\ Unsaved = <<>> /\ loaded = Nil /\ op # "restoring"
  BY <1>2, <1>7, Calm
<1>9. Handed /\ CompactsAlone
  BY <1>8 DEF Follows
<1>10. op' \notin {"restoring", "compact", "fork"}
  <2>1. op = "compact" => o = "user"
    BY <1>2, <1>9 DEF CompactsAlone
  <2>2. op # "fork"
    BY <1>8, <1>9 DEF Handed
  <2>3. QED
    BY <1>3, <1>8, <2>1, <2>2
<1>11. Handed' /\ CompactsAlone'
  BY <1>3, <1>8, <1>10 DEF Handed, CompactsAlone
<1>12. Matches'
  <2> DEFINE c == Context(log')
  <2> HIDE DEF c
  <2>1. c \in Seq(Entries)
    BY <1>5 DEF c
  <2>2. c \o <<>> = c
    BY <2>1
  <2>3. Context(log') \o Unsaved' = Context(log')
    BY <1>4, <1>8, <2>2 DEF c
  <2>4. QED
    BY <1>6, <2>3 DEF Matches
<1>13. QED
  BY <1>11, <1>12 DEF Matched

\* Without a summary nothing changes.
LEMMA CompactionFailsFollows ==
  ASSUME TypeOK, Follows, NEW o \in Owners, CompactionFails(o)
  PROVE  Follows'
<1>1. Types /\ CompactingFits
  BY TypeOKParts
<1>2. compacting[o] # Nil /\ GoesOn(o) /\ UNCHANGED <<messages, log>> /\ happened \subseteq happened'
  BY DEF CompactionFails, Note
<1>3. UNCHANGED <<loaded, isStreaming>> /\ op' = IF o = "user" THEN "none" ELSE op
  BY <1>2 DEF GoesOn, agentVars
<1>4. Unsaved' = Unsaved
  BY <1>2, GoesOnSame
<1>5. o = "user" => op = "compact"
  BY <1>1, <1>2 DEF CompactingFits
<1>6. SUFFICES ASSUME Undisturbed'
               PROVE  Matched' /\ Handed' /\ CompactsAlone'
  BY DEF Follows
<1>7. Undisturbed
  BY <1>2, <1>6, Calm
<1>8. Matched /\ Handed /\ CompactsAlone
  BY <1>7 DEF Follows
<1>9. op = "compact" => o = "user"
  BY <1>2, <1>8 DEF CompactsAlone
<1>10. Matched'
  BY <1>2, <1>3, <1>4, <1>5, <1>8 DEF Matched, Matches
<1>11. Handed' /\ CompactsAlone'
  BY <1>2, <1>3, <1>4, <1>5, <1>8, <1>9 DEF Handed, CompactsAlone
<1>12. QED
  BY <1>10, <1>11

\* What is recorded goes into both, when nothing waits.
LEMMA FollowsRecorded ==
  ASSUME TypeOK, Follows, NEW t \in Seq(Entries), \A j \in DOMAIN t : ~IsCompaction(t[j]),
         messages' = messages \o t, log' = log \o t, UNCHANGED <<queue, loaded, op, isStreaming, timers, compacting>>,
         happened \subseteq happened',
         Undisturbed' => loaded = Nil /\ op # "restoring" /\ (t = <<>> \/ Unsaved = <<>>),
         Undisturbed' => op # "compact" \/ place' = place
  PROVE  Follows'
<1>1. SUFFICES ASSUME Undisturbed'
               PROVE  Matched' /\ Handed' /\ CompactsAlone'
  BY DEF Follows
<1>2. Undisturbed /\ loaded = Nil /\ op # "restoring" /\ (t = <<>> \/ Unsaved = <<>>)
  BY <1>1, Calm
<1>3. Matched /\ Handed /\ CompactsAlone /\ Types
  BY <1>2, TypeOKParts DEF Follows
<1>4. Handed'
  BY <1>2, <1>3 DEF Handed
<1>5. CompactsAlone'
  BY <1>1, <1>3 DEF CompactsAlone
<1>6. ASSUME op \in {"none", "compact"}
      PROVE  Matches'
  <2> DEFINE c == Context(log)
             u == Unsaved
  <2>1. /\ c \in Seq(Entries) /\ u \in Seq(Entries) /\ messages \in Seq(Entries) /\ log \in Seq(Entries)
        /\ NoErrors(messages) = NoErrors(c \o u)
    BY <1>3, <1>6, ContextTyped, WaitingTyped, MessagesAreEntries DEF Types, Matched, Matches
  <2>2. Context(log') = c \o t /\ Unsaved' = u /\ (t = <<>> \/ u = <<>>)
    BY <1>2, <2>1, ContextMore DEF Unsaved
  <2> HIDE DEF c, u
  <2>3. (c \o t) \o u = (c \o u) \o t /\ c \o u \in Seq(Entries)
    <3>1. CASE t = <<>>
      <4>1. c \o <<>> = c /\ c \o u \in Seq(Entries) /\ (c \o u) \o <<>> = c \o u
        BY <2>1, ConcatProperties, ConcatEmptySeq
      <4>2. QED
        BY <3>1, <4>1
    <3>2. CASE u = <<>>
      <4>1. c \o <<>> = c /\ c \o t \in Seq(Entries) /\ (c \o t) \o <<>> = c \o t
        BY <2>1, ConcatProperties, ConcatEmptySeq
      <4>2. QED
        BY <2>1, <3>2, <4>1
    <3>3. QED
      BY <2>2, <3>1, <3>2
  <2>4. NoErrors(messages \o t) = NoErrors((c \o u) \o t)
    BY <2>1, <2>3, MatchesMore
  <2>5. NoErrors(messages') = NoErrors(Context(log') \o Unsaved')
    BY <2>2, <2>3, <2>4
  <2>6. QED
    BY <2>5 DEF Matches
<1>7. Matched'
  BY <1>2, <1>6 DEF Matched
<1>8. QED
  BY <1>4, <1>5, <1>7

\* A message that is recorded at once.
LEMMA AddedFollows ==
  ASSUME TypeOK, Follows, NEW m \in Messages, messages' = Append(messages, m), log' = Append(log, m),
         UNCHANGED <<queue, loaded, op, isStreaming, timers, compacting, place>>, happened \subseteq happened',
         Undisturbed' => loaded = Nil /\ op # "restoring" /\ Unsaved = <<>>
  PROVE  Follows'
<1>1. m \in Entries /\ ~IsCompaction(m) /\ messages \in Seq(Entries) /\ log \in Seq(Entries)
  BY Kinds, TypeOKParts DEF Types
<1>2. messages' = messages \o <<m>> /\ log' = log \o <<m>> /\ <<m>> \in Seq(Entries)
  BY <1>1, Adding
<1>3. \A j \in DOMAIN <<m>> : ~IsCompaction(<<m>>[j])
  BY <1>1
<1>4. QED
  BY <1>2, <1>3, FollowsRecorded

\* What was put off goes into both; in quiet, so no other session is being opened.
LEMMA PromptFollows ==
  ASSUME TypeOK, Follows, NEW p \in Prompts, Prompt(p)
  PROVE  Follows'
<1>1. Types /\ OpFits
  BY TypeOKParts
<1>2. /\ messages' = messages \o pendingBash /\ log' = log \o pendingBash
      /\ UNCHANGED <<queue, loaded, op, isStreaming, timers, compacting>>
      /\ happened \subseteq happened'
      /\ ~Quiet => "overlap" \in happened'
      /\ pendingBash # <<>> /\ Unsaved # <<>> => "behind" \in happened'
  BY DEF Prompt, agentVars, opVars, Note, When
<1>3. Undisturbed' => Quiet /\ (pendingBash = <<>> \/ Unsaved = <<>>)
  BY <1>2, Calm
<1>4. Quiet => op = "none" /\ loaded = Nil
  BY <1>1 DEF Quiet, OpFits
<1>5. pendingBash \in Seq(Entries) /\ \A j \in DOMAIN pendingBash : ~IsCompaction(pendingBash[j])
  BY <1>1, PutOffIs
<1>6. QED
  BY <1>2, <1>3, <1>4, <1>5, FollowsRecorded

\* A result goes into both, or is put off.
LEMMA BashFollows ==
  ASSUME TypeOK, Follows, NEW b, Bash(b)
  PROVE  Follows'
<1> DEFINE m == Message("bash", made + 1)
<1>1. Types
  BY TypeOKParts
<1>2. m \in Messages
  BY <1>1, Saying DEF Roles
<1>3. /\ UNCHANGED <<queue, loaded, op, isStreaming, timers, compacting, place>> /\ happened \subseteq happened'
      /\ \/ UNCHANGED <<messages, log>>
         \/ /\ messages' = Append(messages, m) /\ log' = Append(log, m)
            /\ Unsaved # <<>> => "behind" \in happened'
            /\ loaded # Nil \/ op = "restoring" => "apart" \in happened'
  BY DEF Bash, agentVars, opVars, promptVars, Note, When, Apart
<1> HIDE DEF m
<1>4. CASE UNCHANGED <<messages, log>>
  <2>1. Undisturbed /\ CompactsAlone => CompactsAlone'
    BY <1>3 DEF CompactsAlone
  <2>2. QED
    BY <1>3, <1>4, <2>1, FollowsSame DEF Unsaved
<1>5. CASE /\ messages' = Append(messages, m) /\ log' = Append(log, m)
           /\ Unsaved # <<>> => "behind" \in happened'
           /\ loaded # Nil \/ op = "restoring" => "apart" \in happened'
  <2>1. Undisturbed' => loaded = Nil /\ op # "restoring" /\ Unsaved = <<>>
    BY <1>3, <1>5, Calm
  <2>2. QED
    BY <1>2, <1>3, <1>5, <2>1, AddedFollows
<1>6. QED
  BY <1>3, <1>4, <1>5

\* A custom message goes into both, or begins a run.
LEMMA SendCustomMessageFollows ==
  ASSUME TypeOK, Follows, NEW b, SendCustomMessage(b)
  PROVE  Follows'
<1> DEFINE m == Message("custom", made + 1)
<1>1. Types /\ OpFits
  BY TypeOKParts
<1>2. m \in Messages
  BY <1>1, Saying DEF Roles
<1>3. /\ UNCHANGED <<loaded, op, timers, compacting, place>> /\ happened \subseteq happened'
      /\ \/ /\ messages' = Append(messages, m) /\ log' = Append(log, m) /\ UNCHANGED <<queue, isStreaming>>
            /\ Unsaved # <<>> => "behind" \in happened'
            /\ loaded # Nil \/ op = "restoring" => "apart" \in happened'
         \/ Quiet /\ StartRun(Nil, <<m>>) /\ log' = log
  BY DEF SendCustomMessage, agentVars, opVars, promptVars, Note, When, Apart
<1> HIDE DEF m
<1>4. CASE Quiet /\ StartRun(Nil, <<m>>) /\ log' = log
  <2>1. loaded = Nil /\ op \notin {"restoring", "compact"}
    BY <1>1, <1>4 DEF Quiet, OpFits
  <2>2. <<m>> \in Seq(Messages) /\ Announced(<<m>>) \in Seq(Events) /\ Waiting(Announced(<<m>>)) = <<m>>
    BY <1>2, AnnouncedIs
  <2>3. QED
    BY <1>3, <1>4, <2>1, <2>2, StartFollows
<1>5. CASE /\ messages' = Append(messages, m) /\ log' = Append(log, m) /\ UNCHANGED <<queue, isStreaming>>
           /\ Unsaved # <<>> => "behind" \in happened'
           /\ loaded # Nil \/ op = "restoring" => "apart" \in happened'
  <2>1. Undisturbed' => loaded = Nil /\ op # "restoring" /\ Unsaved = <<>>
    BY <1>3, <1>5, Calm
  <2>2. QED
    BY <1>2, <1>3, <1>5, <2>1, AddedFollows
<1>6. QED
  BY <1>3, <1>4, <1>5

\* newSession(), switchSession() or compact() begins.
LEMMA InterruptFollows ==
  ASSUME TypeOK, Follows, NEW operation \in {"newSession", "switchSession", "compact"}, Interrupt(operation),
         happened \subseteq happened', operation = "compact" => Quiet \/ "cut" \in happened'
  PROVE  Follows'
<1>1. Types /\ OpFits
  BY TypeOKParts
<1>2. /\ op = "none" /\ op' = operation /\ UNCHANGED <<messages, log, loaded, queue, compacting, place, timers, isStreaming>>
  BY DEF Interrupt, Cancelled, promptVars
<1>3. SUFFICES ASSUME Undisturbed'
               PROVE  Matched' /\ Handed' /\ CompactsAlone'
  BY DEF Follows
<1>4. Undisturbed /\ (operation = "compact" => Quiet)
  BY <1>3, Calm
<1>5. Matched /\ loaded = Nil
  BY <1>1, <1>2, <1>4 DEF Follows, OpFits
<1>6. Matched'
  BY <1>2, <1>5 DEF Matched, Matches, Unsaved
<1>7. Handed'
  BY <1>2, <1>5 DEF Handed
<1>8. CompactsAlone'
  BY <1>2, <1>4 DEF CompactsAlone, Quiet
<1>9. QED
  BY <1>6, <1>7, <1>8

\* The context of an empty session.
LEMMA NoContext == Context(<<>>) = <<>>
<1>1. LastCompaction(<<>>) = 0
  BY DEF LastCompaction, LastPlace
<1>2. Kept(<<>>, 0) = {}
  BY DEF Kept
<1>3. Picked(<<>>, {}) = <<>>
  BY PickedNone
<1>4. <<>> \in Seq(Entries) /\ <<>> \o <<>> = <<>> /\ Summary(<<>>) = <<>>
  BY <1>1 DEF Summary
<1>5. Context(<<>>) = <<>> \o <<>>
  BY <1>1, <1>2, <1>3, <1>4, ContextTyped
<1>6. QED
  BY <1>4, <1>5

\* An empty session, and nothing waited.
LEMMA NewSessionFollows ==
  ASSUME TypeOK, Follows, NewSession
  PROVE  Follows'
<1>1. Types /\ OpFits
  BY TypeOKParts
<1>2. /\ op = "newSession" /\ op' = "none" /\ log' = <<>> /\ messages' = <<>> /\ UNCHANGED <<queue, loaded>>
      /\ happened \subseteq happened' /\ (Unsaved # <<>> => "behind" \in happened')
  BY DEF NewSession, Note, When
<1>3. SUFFICES ASSUME Undisturbed'
               PROVE  Matched' /\ Handed' /\ CompactsAlone'
  BY DEF Follows
<1>4. Unsaved' = <<>> /\ loaded' = Nil
  <2>1. Unsaved = <<>>
    BY <1>2, <1>3, Calm
  <2>2. QED
    BY <1>1, <1>2, <2>1 DEF OpFits, Unsaved
<1>5. Context(<<>>) = <<>>
  BY NoContext
<1>6. Matches'
  <2>1. <<>> \o <<>> = <<>>
    OBVIOUS
  <2>2. QED
    BY <1>2, <1>4, <1>5, <2>1 DEF Matches
<1>7. QED
  BY <1>2, <1>4, <1>6 DEF Matched, Handed, CompactsAlone

\* Another session is there, and the agent has not got its messages yet.
LEMMA LoadedFollows ==
  ASSUME TypeOK, log' \in Seq(Entries), loaded' = Context(log'), UNCHANGED <<queue, isStreaming>>, ~isStreaming \/ ~Undisturbed',
         happened \subseteq happened', op' \in {"switchSession", "fork"}, queue # <<>> => "behind" \in happened'
  PROVE  Follows'
<1>1. SUFFICES ASSUME Undisturbed'
               PROVE  Matched' /\ Handed' /\ CompactsAlone'
  BY DEF Follows
<1>2. queue' = <<>> /\ ~isStreaming'
  BY <1>1, Calm
<1>3. Unsaved' = <<>>
  BY <1>2, WaitingOne DEF Unsaved
<1>4. loaded' # Nil
  BY ContextTyped, NilAssumption
<1>5. QED
  BY <1>2, <1>3, <1>4 DEF Matched, Handed, CompactsAlone

\* The messages of the session that is opened are read ...
LEMMA OpenSessionFollows ==
  ASSUME TypeOK, Follows, OpenSession
  PROVE  Follows'
<1>1. OpFits
  BY TypeOKParts
<1>2. /\ op = "switchSession" /\ SessionIsNext /\ log' = Earlier /\ loaded' = Context(Earlier)
      /\ UNCHANGED <<queue, isStreaming, op>> /\ happened \subseteq happened' /\ (queue # <<>> => "behind" \in happened')
  BY DEF OpenSession, agentVars, Note, When
<1>3. log' \in Seq(Entries) /\ loaded' = Context(log') /\ ~isStreaming
  BY <1>1, <1>2, EarlierTyped DEF OpFits
<1>4. QED
  BY <1>2, <1>3, LoadedFollows

\* ... and so are those of a fork ...
LEMMA ForkFollows ==
  ASSUME TypeOK, Follows, NEW i \in DOMAIN log, Fork(i)
  PROVE  Follows'
<1>1. Types
  BY TypeOKParts
<1>2. /\ op' = "fork" /\ log' = SubSeq(log, 1, i - 1) /\ loaded' = Context(log')
      /\ UNCHANGED <<queue, isStreaming>> /\ happened \subseteq happened'
      /\ (queue # <<>> \/ isStreaming => "behind" \in happened')
  BY DEF Fork, agentVars, Note, When
<1>3. log' \in Seq(Entries)
  BY <1>1, <1>2, PrefixTyped DEF Types
<1>4. ~isStreaming \/ ~Undisturbed'
  BY <1>2, Calm
<1>5. QED
  BY <1>2, <1>3, <1>4, LoadedFollows

\* ... whereupon the agent gets them.
LEMMA GivenFollows ==
  ASSUME TypeOK, Follows, SwitchGives \/ ForkEnds
  PROVE  Follows'
<1>1. Types
  BY TypeOKParts
<1>2. /\ loaded # Nil /\ messages' = loaded /\ loaded' = Nil /\ op' \in {"restoring", "none"}
      /\ UNCHANGED <<log, queue, isStreaming, happened>>
  BY DEF SwitchGives, ForkEnds, agentVars
<1>3. SUFFICES ASSUME Undisturbed'
               PROVE  Matched' /\ Handed' /\ CompactsAlone'
  BY DEF Follows
<1>4. loaded = Context(log) /\ Unsaved = <<>> /\ ~isStreaming
  BY <1>2, <1>3, Calm DEF Follows, Handed
<1>5. Unsaved' = <<>> /\ ~isStreaming' /\ Context(log') = Context(log)
  BY <1>2, <1>4 DEF Unsaved
<1>6. Matches'
  <2> DEFINE c == Context(log)
  <2>1. c \in Seq(Entries)
    BY <1>1, ContextTyped DEF Types
  <2>2. messages' = c /\ Context(log') = c
    BY <1>2, <1>4, <1>5
  <2> HIDE DEF c
  <2>3. c \o <<>> = c
    BY <2>1
  <2>4. QED
    BY <1>5, <2>2, <2>3 DEF Matches
<1>7. QED
  BY <1>2, <1>5, <1>6 DEF Matched, Handed, CompactsAlone

\* The session listens again.
LEMMA SwitchEndsFollows ==
  ASSUME TypeOK, Follows, SwitchEnds
  PROVE  Follows'
<1>1. OpFits
  BY TypeOKParts
<1>2. op = "restoring" /\ op' = "none" /\ UNCHANGED <<messages, log, loaded, queue, happened>>
  BY DEF SwitchEnds
<1>3. loaded = Nil
  BY <1>1, <1>2 DEF OpFits
<1>4. SUFFICES ASSUME Undisturbed'
               PROVE  Matched' /\ Handed' /\ CompactsAlone'
  BY DEF Follows
<1>5. Matches
  BY <1>2, <1>4, Calm DEF Follows, Matched
<1>6. Matches'
  BY <1>2, <1>5 DEF Matches, Unsaved
<1>7. QED
  BY <1>2, <1>3, <1>6 DEF Matched, Handed, CompactsAlone

\* compact() goes on in quiet.
LEMMA CompactFollows ==
  ASSUME TypeOK, Follows, Compact
  PROVE  Follows'
<1>1. Types /\ OpFits
  BY TypeOKParts
<1>2. /\ op = "compact" /\ UNCHANGED <<messages, log, loaded, queue, isStreaming, timers, place, happened>>
      /\ \/ Prepare("user", FALSE) /\ op' = op
         \/ op' = "none" /\ UNCHANGED compacting
  BY DEF Compact, agentVars, promptVars
<1>3. loaded = Nil
  BY <1>1, <1>2 DEF OpFits
<1>4. SUFFICES ASSUME Undisturbed'
               PROVE  Matched' /\ Handed' /\ CompactsAlone'
  BY DEF Follows
<1>5. Matches /\ CompactsAlone
  BY <1>2, <1>4, Calm DEF Follows, Matched
<1>6. Matches'
  BY <1>2, <1>5 DEF Matches, Unsaved
<1>7. Handed'
  BY <1>2, <1>3 DEF Handed
<1>8. \A o \in Owners \ {"user"} : op' = "compact" => compacting'[o] = compacting[o]
  BY <1>1, <1>2, PrepareTyped, OwnersDiffer
<1>9. CompactsAlone'
  BY <1>2, <1>5, <1>8 DEF CompactsAlone
<1>10. QED
  BY <1>6, <1>7, <1>9 DEF Matched

\* The session and the agent, through every step.
LEMMA NextFollows ==
  ASSUME TypeOK, Follows, [Next]_vars
  PROVE  Follows'
<1>1. CASE UNCHANGED vars
  <2>1. UNCHANGED <<messages, log, loaded, op, isStreaming, queue, timers, compacting, place, happened>>
    BY <1>1 DEF vars, agentVars, opVars, promptVars
  <2>2. Undisturbed /\ CompactsAlone => CompactsAlone'
    BY <2>1 DEF CompactsAlone
  <2>3. QED
    BY <2>1, <2>2, FollowsSame DEF Unsaved
<1>2. CASE Next
  <2>1. CASE Answer
    BY <2>1, LlmAnswersFollows DEF Answer
  <2>2. CASE ToolReturns
    BY <2>2, ToolReturnsFollows
  <2>3. CASE HandleMessageEnd
    BY <2>3, HandleMessageEndFollows
  <2>4. CASE HandleAgentEnd
    BY <2>4, HandleAgentEndFollows
  <2>5. CASE ListenerThrows
    BY <2>5, ListenerThrowsFollows
  <2>6. CASE SleepEnds
    BY <2>6, SleepEndsFollows
  <2>7. CASE \E kind \in {"retry", "compaction"} : TimerFires(kind)
    BY <2>7, TimerFiresFollows
  <2>8. CASE \E o \in Owners : CompactionEnds(o)
    BY <2>8, CompactionEndsFollows
  <2>9. CASE \E o \in Owners : CompactionFails(o)
    BY <2>9, CompactionFailsFollows
  <2>10. CASE \E p \in Prompts : Prompt(p)
    BY <2>10, PromptFollows
  <2>11. CASE \E p \in Prompts : PromptChecks(p)
    BY <2>11, PromptChecksFollows
  <2>12. CASE \E p \in Prompts : PromptSends(p)
    BY <2>12, PromptSendsFollows
  <2>13. CASE Abort \/ \E p \in Prompts : PromptWaits(p) \/ PromptReturns(p)
    BY <2>13, UnseenFollows
  <2>14. CASE \E b \in Commands : Bash(b)
    BY <2>14, BashFollows
  <2>15. CASE \E b \in Commands : SendCustomMessage(b)
    BY <2>15, SendCustomMessageFollows
  <2>16. CASE BeginOtherSession
    <3>1. /\ happened \subseteq happened'
          /\ Interrupt("newSession") \/ Interrupt("switchSession")
      BY <2>16 DEF BeginOtherSession, Note
    <3>2. "newSession" # "compact" /\ "switchSession" # "compact"
      OBVIOUS
    <3>3. QED
      BY <3>1, <3>2, InterruptFollows
  <2>17. CASE BeginCompact
    <3>1. /\ happened \subseteq happened' /\ Interrupt("compact")
          /\ Quiet \/ "cut" \in happened'
      BY <2>17 DEF BeginCompact, Note, When
    <3>2. QED
      BY <3>1, InterruptFollows
  <2>18. CASE NewSession
    BY <2>18, NewSessionFollows
  <2>19. CASE OpenSession
    BY <2>19, OpenSessionFollows
  <2>20. CASE SwitchGives \/ ForkEnds
    BY <2>20, GivenFollows
  <2>21. CASE SwitchEnds
    BY <2>21, SwitchEndsFollows
  <2>22. CASE \E i \in DOMAIN log : Fork(i)
    BY <2>22, ForkFollows
  <2>23. CASE Compact
    BY <2>23, CompactFollows
  <2>24. QED
    BY <1>2, <2>1, <2>2, <2>3, <2>4, <2>5, <2>6, <2>7, <2>8, <2>9, <2>10, <2>11, <2>12, <2>13, <2>14, <2>15,
       <2>16, <2>17, <2>18, <2>19, <2>20, <2>21, <2>22, <2>23 DEF Next, Prompting
<1>3. QED
  BY <1>1, <1>2

-----------------------------------------------------------------------------
(* Prompts and retries.                                                    *)

Idle == {"none", "rejected", "returned"}
IsAnswer(e) == e.type = "message_end" /\ IsAssistant(e.message)

Numbered ==
  /\ waitsFor \in [Prompts -> Nat] /\ retryPromise \in Nat
  /\ timers \in [retry : Nat, compaction : Nat]

\* A retry that is under way was promised; its timer runs after all else.
Promised ==
  /\ connected
  /\ retryAttempt > 0 \/ working = "sleeping" \/ timers.retry > 0 => retryPromise # 0
  /\ timers.retry > 0 => timers.retry = 1 /\ queue = <<>> /\ ~isStreaming

\* At most one prompt is under way, and what it awaits is the promise of the run
\* that is under way.
Alone == \A p, q \in Prompts : p # q => place[p] \in Idle \/ place[q] \in Idle
Awaiting(waits, promise, streaming) ==
  \A p \in Prompts : place[p] = "waiting" =>
    waits[p] # 0 /\ promise \in {0, waits[p]} /\ (streaming => promise = waits[p])

\* The queue holds events of one run, whose last answer is followed by its end; if that
\* answer is to be tried again, this was promised.
RunEnds(q, streaming, judged, promise) ==
  \A i \in DOMAIN q :
    /\ q[i].type = "agent_end" =>
         /\ i = Len(q) /\ ~streaming
         /\ i = 1 /\ judged # Nil /\ judged.stop = "retryable" => promise # 0
         /\ i > 1 => IsAnswer(q[i - 1]) /\ (q[i - 1].message.stop = "retryable" => promise # 0)
    /\ IsAnswer(q[i]) /\ q[i].message.stop # "toolUse" =>
         i + 1 \in DOMAIN q /\ q[i + 1].type = "agent_end"

RetrySound ==
  Uninterrupted => /\ Promised /\ Alone /\ Awaiting(waitsFor, retryPromise, isStreaming)
          /\ RunEnds(queue, isStreaming, lastAssistant, retryPromise)

\* What else a retry depends on stays as it is.
LEMMA RetryUnseen ==
  ASSUME Numbered, RetrySound, happened \subseteq happened',
         UNCHANGED <<retryAttempt, retryPromise, working, timers, queue, isStreaming, place, waitsFor, lastAssistant>>,
         connected => connected'
  PROVE  Numbered' /\ RetrySound'
<1>1. Numbered'
  BY DEF Numbered
<1>2. Uninterrupted' => Uninterrupted
  BY DEF Uninterrupted
<1>3. RetrySound'
  BY <1>2 DEF RetrySound, Promised, Alone, Awaiting, RunEnds, IsAnswer
<1>4. QED
  BY <1>1, <1>3

\* Nothing is said of what is interrupted.
LEMMA RetryInterrupted ==
  ASSUME Numbered, ~Uninterrupted', waitsFor' = waitsFor, timers' = timers, retryPromise' \in {0, retryPromise}
  PROVE  Numbered' /\ RetrySound'
BY DEF Numbered, RetrySound

\* A prompt that goes on, but not to wait, when no other is under way.
LEMMA RetryPlaced ==
  ASSUME Types, Numbered, RetrySound, happened \subseteq happened', NEW p \in Prompts, NEW to,
         to # "waiting", place' = [place EXCEPT ![p] = to],
         place[p] \notin Idle \/ \A q \in Prompts : place[q] \in Idle,
         UNCHANGED <<retryAttempt, retryPromise, working, timers, queue, isStreaming, waitsFor, lastAssistant, connected>>
  PROVE  Numbered' /\ RetrySound'
<1>1. Numbered'
  BY DEF Numbered
<1>2. \A q \in Prompts : place'[q] = IF q = p THEN to ELSE place[q]
  BY DEF Types
<1>3. ASSUME Uninterrupted'
      PROVE  /\ Promised' /\ Alone' /\ Awaiting(waitsFor, retryPromise, isStreaming)'
             /\ RunEnds(queue, isStreaming, lastAssistant, retryPromise)'
  <2>1. Uninterrupted
    BY <1>3 DEF Uninterrupted
  <2>2. Promised' /\ RunEnds(queue, isStreaming, lastAssistant, retryPromise)'
    BY <2>1 DEF RetrySound, Promised, RunEnds, IsAnswer
  <2>3. Alone'
    <3>1. SUFFICES ASSUME NEW q \in Prompts, NEW r \in Prompts, q # r
                   PROVE  place'[q] \in Idle \/ place'[r] \in Idle
      BY DEF Alone
    <3>2. place[q] \in Idle \/ place[r] \in Idle
      BY <2>1, <3>1 DEF RetrySound, Alone
    <3>3. q # p => (place[q] \in Idle \/ place[p] \in Idle)
      BY <2>1 DEF RetrySound, Alone
    <3>4. r # p => (place[r] \in Idle \/ place[p] \in Idle)
      BY <2>1 DEF RetrySound, Alone
    <3>5. QED
      BY <1>2, <3>1, <3>2, <3>3, <3>4
  <2>4. Awaiting(waitsFor, retryPromise, isStreaming)'
    BY <1>2, <2>1 DEF RetrySound, Awaiting
  <2>5. QED
    BY <2>2, <2>3, <2>4
<1>4. QED
  BY <1>1, <1>3 DEF RetrySound

\* The end of a run is the last of the queue, and what it was judged by is before it.
LEMMA EndIsLast ==
  ASSUME Types, NEW streaming, NEW judged, NEW promise, RunEnds(queue, streaming, judged, promise),
         queue # <<>>, Head(queue) = AgentEnd
  PROVE  /\ Tail(queue) = <<>> /\ Len(queue) = 1 /\ queue[1] = AgentEnd /\ ~streaming
         /\ judged # Nil /\ judged.stop = "retryable" => promise # 0
<1>1. queue \in Seq(Events)
  BY DEF Types
<1>2. Len(queue) \in Nat /\ Len(queue) # 0 /\ 1 \in DOMAIN queue /\ queue[1] = AgentEnd
  BY <1>1
<1>3. /\ 1 = Len(queue) /\ ~streaming
      /\ judged # Nil /\ judged.stop = "retryable" => promise # 0
  BY <1>2, EventKinds DEF RunEnds
<1>4. Tail(queue) = <<>>
  <2>1. Tail(queue) \in Seq(Events) /\ Len(Tail(queue)) = 0
    BY <1>1, <1>2, <1>3
  <2>2. QED
    BY <2>1, EmptySeq
<1>5. QED
  BY <1>2, <1>3, <1>4

\* An empty queue, and one with nothing but an end that is being worked on.
LEMMA RunOver ==
  /\ \A streaming, judged, promise : RunEnds(<<>>, streaming, judged, promise)
  /\ \A promise : RunEnds(<<AgentEnd>>, FALSE, Nil, promise)
<1>1. \A streaming, judged, promise : RunEnds(<<>>, streaming, judged, promise)
  BY DEF RunEnds
<1>2. DOMAIN <<AgentEnd>> = {1} /\ <<AgentEnd>>[1] = AgentEnd /\ Len(<<AgentEnd>>) = 1
  OBVIOUS
<1>3. ~IsAnswer(AgentEnd)
  BY EventKinds DEF IsAnswer
<1>4. \A promise : RunEnds(<<AgentEnd>>, FALSE, Nil, promise)
  BY <1>2, <1>3 DEF RunEnds
<1>5. QED
  BY <1>1, <1>4

\* A message that is no last answer, announced while the run goes on.
LEMMA RunGoesOn ==
  ASSUME NEW q \in Seq(Events), NEW judged, NEW promise, RunEnds(q, TRUE, judged, promise),
         NEW m \in Messages, ~IsAssistant(m) \/ m.stop = "toolUse"
  PROVE  RunEnds(q \o <<MessageEnd(m)>>, TRUE, judged, promise)
<1> DEFINE r == q \o <<MessageEnd(m)>>
<1>1. /\ Len(q) \in Nat /\ Len(r) = Len(q) + 1 /\ DOMAIN q = 1..Len(q) /\ DOMAIN r = 1..(Len(q) + 1)
      /\ \A i \in 1..Len(q) : r[i] = q[i]
      /\ r[Len(q) + 1] = MessageEnd(m)
  OBVIOUS
<1>2. MessageEnd(m).type = "message_end" /\ MessageEnd(m).message = m
  BY EventKinds
<1> HIDE DEF r
<1>3. ASSUME NEW i \in DOMAIN r
      PROVE  /\ r[i].type # "agent_end"
             /\ IsAnswer(r[i]) /\ r[i].message.stop # "toolUse" => i + 1 \in DOMAIN r /\ r[i + 1].type = "agent_end"
  <2>1. CASE i \in 1..Len(q)
    <3>1. q[i].type # "agent_end"
      BY <1>1, <2>1 DEF RunEnds
    <3>2. IsAnswer(q[i]) /\ q[i].message.stop # "toolUse" => i + 1 \in DOMAIN q /\ q[i + 1].type = "agent_end"
      BY <1>1, <2>1 DEF RunEnds
    <3>3. \A j \in DOMAIN q : q[j].type # "agent_end"
      BY DEF RunEnds
    <3>4. QED
      BY <1>1, <2>1, <3>1, <3>2, <3>3
  <2>2. CASE i = Len(q) + 1
    BY <1>1, <1>2, <2>2 DEF IsAnswer
  <2>3. QED
    BY <1>1, <2>1, <2>2
<1>4. RunEnds(r, TRUE, judged, promise)
  BY <1>3 DEF RunEnds
<1>5. QED
  BY <1>4 DEF r

\* The last answer, and the end.
LEMMA RunIsOver ==
  ASSUME NEW q \in Seq(Events), NEW judged, NEW before, RunEnds(q, TRUE, judged, before),
         NEW promise, before # 0 => promise # 0,
         NEW m \in Messages, IsAssistant(m), m.stop = "retryable" => promise # 0
  PROVE  RunEnds(q \o (<<MessageEnd(m)>> \o <<AgentEnd>>), FALSE, judged, promise)
<1> DEFINE e == <<MessageEnd(m)>> \o <<AgentEnd>>
           r == q \o e
<1>0. /\ e \in Seq(Events) /\ Len(e) = 2 /\ e[1] = MessageEnd(m) /\ e[2] = AgentEnd
  <2>1. MessageEnd(m) \in Events /\ AgentEnd \in Events
    BY EventKinds
  <2>2. \A a, b \in Events : LET c == <<a>> \o <<b>>
                            IN  c \in Seq(Events) /\ Len(c) = 2 /\ c[1] = a /\ c[2] = b
    OBVIOUS
  <2>3. QED
    BY <2>1, <2>2
<1> HIDE DEF e
<1>1. /\ Len(q) \in Nat /\ Len(r) = Len(q) + 2 /\ DOMAIN q = 1..Len(q) /\ DOMAIN r = 1..(Len(q) + 2)
      /\ \A i \in 1..Len(q) : r[i] = q[i]
      /\ r[Len(q) + 1] = MessageEnd(m) /\ r[Len(q) + 2] = AgentEnd
  <2>1. /\ Len(q) \in Nat /\ DOMAIN q = 1..Len(q) /\ Len(r) = Len(q) + Len(e) /\ r \in Seq(Events)
        /\ \A i \in 1..(Len(q) + Len(e)) : r[i] = IF i <= Len(q) THEN q[i] ELSE e[i - Len(q)]
    <3>1. Len(q) \in Nat /\ DOMAIN q = 1..Len(q)
      OBVIOUS
    <3>2. /\ q \o e \in Seq(Events) /\ Len(q \o e) = Len(q) + Len(e)
          /\ \A i \in 1..(Len(q) + Len(e)) : (q \o e)[i] = IF i <= Len(q) THEN q[i] ELSE e[i - Len(q)]
      BY ONLY <1>0, q \in Seq(Events), ConcatProperties, Zenon
    <3>3. QED
      BY ONLY <3>1, <3>2 DEF r
  <2> HIDE DEF r
  <2>2. DOMAIN r = 1..Len(r)
    BY <2>1
  <2>3. /\ Len(q) + 1 \in 1..(Len(q) + Len(e)) /\ ~(Len(q) + 1 <= Len(q)) /\ (Len(q) + 1) - Len(q) = 1
        /\ Len(q) + 2 \in 1..(Len(q) + Len(e)) /\ ~(Len(q) + 2 <= Len(q)) /\ (Len(q) + 2) - Len(q) = 2
        /\ \A i \in 1..Len(q) : i \in 1..(Len(q) + Len(e)) /\ i <= Len(q)
    BY <1>0, <2>1
  <2>4. r[Len(q) + 1] = e[1] /\ r[Len(q) + 2] = e[2] /\ \A i \in 1..Len(q) : r[i] = q[i]
    BY <2>1, <2>3
  <2>5. QED
    BY <1>0, <2>1, <2>2, <2>4
<1>2. /\ MessageEnd(m).type = "message_end" /\ MessageEnd(m).message = m
      /\ AgentEnd.type = "agent_end"
  BY EventKinds
<1>3. \A j \in DOMAIN q : q[j].type # "agent_end"
  BY DEF RunEnds
<1>4. \A j \in DOMAIN q : ~(IsAnswer(q[j]) /\ q[j].message.stop # "toolUse")
  BY <1>3 DEF RunEnds
<1> HIDE DEF r
<1>5. \A i \in 1..Len(q) : r[i].type # "agent_end" /\ ~(IsAnswer(r[i]) /\ r[i].message.stop # "toolUse")
  BY <1>1, <1>3, <1>4
<1>6. IsAnswer(r[Len(q) + 1]) /\ r[Len(q) + 1].message = m /\ r[Len(q) + 1].type # "agent_end"
  BY <1>1, <1>2 DEF IsAnswer
<1>7. ~IsAnswer(r[Len(q) + 2]) /\ r[Len(q) + 2].type = "agent_end"
  BY <1>1, <1>2 DEF IsAnswer
<1>8. ASSUME NEW i \in DOMAIN r
      PROVE  /\ r[i].type = "agent_end" =>
                  /\ i = Len(r)
                  /\ i = 1 /\ judged # Nil /\ judged.stop = "retryable" => promise # 0
                  /\ i > 1 => IsAnswer(r[i - 1]) /\ (r[i - 1].message.stop = "retryable" => promise # 0)
             /\ IsAnswer(r[i]) /\ r[i].message.stop # "toolUse" =>
                  i + 1 \in DOMAIN r /\ r[i + 1].type = "agent_end"
  <2>1. CASE i \in 1..Len(q)
    BY <1>5, <2>1
  <2>2. CASE i = Len(q) + 1
    <3>1. i + 1 = Len(q) + 2 /\ i + 1 \in DOMAIN r
      BY <1>1, <2>2
    <3>2. QED
      BY <1>6, <1>7, <2>2, <3>1
  <2>3. CASE i = Len(q) + 2
    <3>1. i - 1 = Len(q) + 1 /\ i = Len(r) /\ i # 1
      BY <1>1, <2>3
    <3>2. QED
      BY <1>6, <1>7, <2>3, <3>1
  <2>4. QED
    BY <1>1, <2>1, <2>2, <2>3
<1>9. RunEnds(r, FALSE, judged, promise)
  BY <1>8 DEF RunEnds
<1>10. QED
  BY <1>9 DEF r, e

\* An answer: if the agent is heard, a failed one promises the retry.
LEMMA LlmAnswersRetry ==
  ASSUME TypeOK, Numbered, RetrySound, NEW stop \in Stops, LlmAnswers(stop)
  PROVE  Numbered' /\ RetrySound'
<1> DEFINE m == Assistant(stop, made + 1)
<1>1. Types /\ RunFits /\ queue \in Seq(Events)
  BY TypeOKParts DEF Types
<1>2. m \in Messages /\ m.id # 0 /\ m.id \in Nat /\ IsAssistant(m) /\ m.stop = stop
  <2>1. m \in Messages /\ m.id = made + 1 /\ m.role = "assistant" /\ made + 1 \in Nat
    BY <1>1, Answering
  <2>2. made + 1 # 0
    BY <1>1 DEF Types
  <2>3. QED
    BY <2>1, <2>2 DEF Assistant, IsAssistant
<1>3. /\ UNCHANGED <<retryAttempt, working, timers, waitsFor, lastAssistant, connected>>
      /\ happened \subseteq happened' /\ isStreaming
  BY <1>1 DEF LlmAnswers, Note, RunFits
<1>4. retryPromise' \in {retryPromise, RetryPromised(m)} /\ retryPromise' \in Nat
  <2>1. retryPromise' \in {retryPromise, RetryPromised(m)}
    BY DEF LlmAnswers
  <2>2. QED
    BY <1>2, <2>1 DEF RetryPromised, Numbered
<1>5. Numbered'
  BY <1>3, <1>4 DEF Numbered
<1>6. ASSUME Uninterrupted'
      PROVE  /\ Promised' /\ Alone' /\ Awaiting(waitsFor, retryPromise, isStreaming)'
             /\ RunEnds(queue, isStreaming, lastAssistant, retryPromise)'
  <2>1. /\ Promised /\ Alone /\ Awaiting(waitsFor, retryPromise, TRUE)
        /\ RunEnds(queue, TRUE, lastAssistant, retryPromise)
    <3>1. Uninterrupted /\ isStreaming = TRUE
      BY <1>1, <1>3, <1>6 DEF Uninterrupted, Types
    <3>2. QED
      BY <3>1 DEF RetrySound
  <2>2. connected /\ timers.retry \in Nat /\ ~(timers.retry > 0)
    BY <1>3, <2>1 DEF Promised, Numbered
  <2>3. retryPromise # 0 => retryPromise' = retryPromise
    BY <1>4 DEF RetryPromised
  <2>4. Promised'
    BY <1>3, <2>1, <2>2, <2>3 DEF Promised
  <2>5. CASE stop = "toolUse"
    <3>1. /\ UNCHANGED <<isStreaming, place, retryPromise>> /\ isStreaming = TRUE
          /\ queue' = queue \o (<<MessageEnd(m)>> \o <<>>)
      BY <1>1, <1>3, <2>2, <2>5 DEF LlmAnswers, Types
    <3>2. <<MessageEnd(m)>> \o <<>> = <<MessageEnd(m)>>
      OBVIOUS
    <3>3. RunEnds(queue \o <<MessageEnd(m)>>, TRUE, lastAssistant, retryPromise)
      BY <1>1, <1>2, <2>1, <2>5, RunGoesOn
    <3> HIDE DEF m
    <3>4. RunEnds(queue', isStreaming', lastAssistant', retryPromise')
      BY <1>3, <3>1, <3>2, <3>3
    <3>5. Alone' /\ Awaiting(waitsFor, retryPromise, isStreaming)'
      BY <1>3, <2>1, <3>1 DEF Alone, Awaiting
    <3>6. QED
      BY <2>4, <3>4, <3>5
  <2>6. CASE stop # "toolUse"
    <3>1. /\ isStreaming' = FALSE /\ retryPromise' = RetryPromised(m)
          /\ place' = IF awaitedBy \in Prompts THEN [place EXCEPT ![awaitedBy] = "settled"] ELSE place
          /\ queue' = queue \o (<<MessageEnd(m)>> \o <<AgentEnd>>)
      BY <2>2, <2>6 DEF LlmAnswers
    <3>3. m.stop = "retryable" => retryPromise' # 0
      BY <1>2, <2>2, <3>1 DEF RetryPromised
    <3>4. RunEnds(queue \o (<<MessageEnd(m)>> \o <<AgentEnd>>), FALSE, lastAssistant, retryPromise')
      BY <1>1, <1>2, <2>1, <2>3, <3>3, RunIsOver
    <3> HIDE DEF m
    <3>5. RunEnds(queue', isStreaming', lastAssistant', retryPromise')
      BY <1>3, <3>1, <3>4
    <3>6. \A p \in Prompts : place'[p] \in Idle => place[p] \in Idle
      BY <1>1, <3>1 DEF Types, Idle
    <3>7. \A p \in Prompts : place[p] \in Idle => place'[p] \in Idle
      <4>1. \A p \in Prompts : awaitedBy = p => place[p] = "running"
        BY <1>1 DEF RunFits
      <4>2. QED
        BY <1>1, <3>1, <4>1 DEF Types, Idle
    <3>8. Alone'
      BY <2>1, <3>7 DEF Alone
    <3>9. \A p \in Prompts : place'[p] = "waiting" => place[p] = "waiting"
      BY <1>1, <3>1 DEF Types
    <3>10. Awaiting(waitsFor, retryPromise, isStreaming)'
      BY <1>3, <2>1, <2>3, <3>1, <3>9 DEF Awaiting
    <3>11. QED
      BY <2>4, <3>5, <3>8, <3>10
  <2>7. QED
    BY <2>5, <2>6
<1>7. QED
  BY <1>5, <1>6 DEF RetrySound

\* A tool's result.
LEMMA ToolReturnsRetry ==
  ASSUME TypeOK, Numbered, RetrySound, ToolReturns
  PROVE  Numbered' /\ RetrySound'
<1> DEFINE m == Message("toolResult", made + 1)
<1>1. Types /\ RunFits /\ queue \in Seq(Events)
  BY TypeOKParts DEF Types
<1>2. m \in Messages /\ ~IsAssistant(m)
  <2>1. m \in Messages /\ m.role = "toolResult"
    BY <1>1, Saying DEF Roles
  <2>2. QED
    BY <2>1 DEF IsAssistant
<1>3. /\ UNCHANGED <<retryAttempt, retryPromise, working, timers, place, waitsFor, lastAssistant, connected,
                     isStreaming, happened>>
      /\ queue' = IF connected THEN Append(queue, MessageEnd(m)) ELSE queue
      /\ isStreaming = TRUE
  BY <1>1 DEF ToolReturns, RunFits, Types, retryVars, promptVars
<1>4. Append(queue, MessageEnd(m)) = queue \o <<MessageEnd(m)>>
  BY <1>1, <1>2, EventKinds, Adding
<1> HIDE DEF m
<1>5. Numbered'
  BY <1>3 DEF Numbered
<1>6. ASSUME Uninterrupted'
      PROVE  /\ Promised' /\ Alone' /\ Awaiting(waitsFor, retryPromise, isStreaming)'
             /\ RunEnds(queue, isStreaming, lastAssistant, retryPromise)'
  <2>1. /\ Promised /\ Alone /\ Awaiting(waitsFor, retryPromise, isStreaming)
        /\ RunEnds(queue, TRUE, lastAssistant, retryPromise)
    BY <1>3, <1>6 DEF RetrySound, Uninterrupted
  <2>2. timers.retry \in Nat /\ ~(timers.retry > 0) /\ connected
    BY <1>3, <2>1 DEF Promised, Numbered
  <2>3. RunEnds(queue \o <<MessageEnd(m)>>, TRUE, lastAssistant, retryPromise)
    BY <1>1, <1>2, <2>1, RunGoesOn
  <2>4. RunEnds(queue', isStreaming', lastAssistant', retryPromise')
    BY <1>3, <1>4, <2>2, <2>3
  <2>5. Promised' /\ Alone' /\ Awaiting(waitsFor, retryPromise, isStreaming)'
    BY <1>3, <2>1, <2>2 DEF Promised, Alone, Awaiting
  <2>6. QED
    BY <2>4, <2>5
<1>7. QED
  BY <1>5, <1>6 DEF RetrySound

\* The rest of a queue; the answer it began with is the one its end is judged by.
LEMMA RunEndsTail ==
  ASSUME NEW q \in Seq(Events), q # <<>>, NEW streaming, NEW judged, NEW promise,
         RunEnds(q, streaming, judged, promise), Head(q).type = "message_end",
         NEW m, m = Head(q).message
  PROVE  RunEnds(Tail(q), streaming, IF IsAssistant(m) THEN m ELSE judged, promise)
<1> DEFINE r == Tail(q)
           j == IF IsAssistant(m) THEN m ELSE judged
<1>1. /\ Len(q) \in Nat /\ Len(q) # 0 /\ DOMAIN q = 1..Len(q) /\ Len(r) = Len(q) - 1 /\ DOMAIN r = 1..(Len(q) - 1)
      /\ \A i \in 1..(Len(q) - 1) : r[i] = q[i + 1]
      /\ q[1] = Head(q)
  OBVIOUS
<1> HIDE DEF r, j
<1>2. SUFFICES ASSUME NEW i \in DOMAIN r
               PROVE  /\ r[i].type = "agent_end" =>
                           /\ i = Len(r) /\ ~streaming
                           /\ i = 1 /\ j # Nil /\ j.stop = "retryable" => promise # 0
                           /\ i > 1 => IsAnswer(r[i - 1]) /\ (r[i - 1].message.stop = "retryable" => promise # 0)
                      /\ IsAnswer(r[i]) /\ r[i].message.stop # "toolUse" =>
                           i + 1 \in DOMAIN r /\ r[i + 1].type = "agent_end"
  <2>1. RunEnds(r, streaming, j, promise)
    BY <1>2 DEF RunEnds
  <2>2. QED
    BY <2>1 DEF r, j
<1>3. i \in Nat /\ i + 1 \in DOMAIN q /\ i + 1 > 1 /\ (i + 1) - 1 = i /\ r[i] = q[i + 1]
  BY <1>1
<1>4. r[i].type = "agent_end" =>
        /\ i + 1 = Len(q) /\ ~streaming
        /\ IsAnswer(q[i]) /\ (q[i].message.stop = "retryable" => promise # 0)
  BY <1>3 DEF RunEnds
<1>5. i = 1 => q[i].message = m
  BY <1>1
<1>6. i = 1 /\ r[i].type = "agent_end" => (j.stop = "retryable" => promise # 0)
  BY <1>4, <1>5 DEF IsAnswer, j
<1>7. i > 1 => r[i - 1] = q[i]
  BY <1>1, <1>3
<1>8. IsAnswer(r[i]) /\ r[i].message.stop # "toolUse" =>
        i + 2 \in DOMAIN q /\ q[i + 2].type = "agent_end"
  <2>1. (i + 1) + 1 = i + 2
    BY <1>3
  <2>2. IsAnswer(q[i + 1]) /\ q[i + 1].message.stop # "toolUse" =>
          (i + 1) + 1 \in DOMAIN q /\ q[(i + 1) + 1].type = "agent_end"
    BY <1>3 DEF RunEnds
  <2>3. QED
    BY <1>3, <2>1, <2>2
<1>9. i + 2 \in DOMAIN q => i + 1 \in DOMAIN r /\ r[i + 1] = q[i + 2]
  BY <1>1, <1>3
<1>10. r[i].type = "agent_end" => i = Len(r)
  BY <1>1, <1>3, <1>4
<1>11. QED
  BY <1>4, <1>6, <1>7, <1>8, <1>9, <1>10

\* A message is persisted; a good answer keeps the promise, and its run has ended.
LEMMA HandleMessageEndRetry ==
  ASSUME TypeOK, Numbered, RetrySound, HandleMessageEnd
  PROVE  Numbered' /\ RetrySound'
<1> DEFINE m == Head(queue).message
           recovered == IsAssistant(m) /\ ~IsError(m) /\ retryAttempt > 0
<1>1. Types /\ queue \in Seq(Events)
  BY TypeOKParts DEF Types
<1>2. queue # <<>> /\ working = "extension" /\ Head(queue).type = "message_end"
  BY DEF HandleMessageEnd, HeadIs
<1>3. /\ queue' = Tail(queue)
      /\ lastAssistant' = IF IsAssistant(m) THEN m ELSE lastAssistant
      /\ retryAttempt' = IF recovered THEN 0 ELSE retryAttempt
      /\ retryPromise' = IF recovered THEN 0 ELSE retryPromise
      /\ happened' = happened \union When(recovered /\ m.stop = "toolUse", "early")
      /\ UNCHANGED <<isStreaming, working, connected, place, waitsFor, timers>>
  BY DEF HandleMessageEnd, agentVars, promptVars, Note
<1>4. m \in Messages
  BY <1>1, HeadMessage DEF HandleMessageEnd
<1> HIDE DEF m
<1>5. Numbered'
  BY <1>3 DEF Numbered
<1>6. ASSUME Uninterrupted'
      PROVE  /\ Promised' /\ Alone' /\ Awaiting(waitsFor, retryPromise, isStreaming)'
             /\ RunEnds(queue, isStreaming, lastAssistant, retryPromise)'
  <2>1. /\ Promised /\ Alone /\ Awaiting(waitsFor, retryPromise, isStreaming)
        /\ RunEnds(queue, isStreaming, lastAssistant, retryPromise)
    BY <1>3, <1>6 DEF RetrySound, Uninterrupted
  <2>2. timers.retry \in Nat /\ ~(timers.retry > 0) /\ connected
    BY <1>2, <2>1 DEF Promised, Numbered
  <2>3. Alone'
    BY <1>3, <2>1 DEF Alone
  <2>4. RunEnds(queue', isStreaming', lastAssistant', retryPromise)
    BY <1>1, <1>2, <1>3, <2>1, RunEndsTail DEF m
  <2>5. CASE ~recovered
    <3>1. retryPromise' = retryPromise /\ retryAttempt' = retryAttempt
      BY <1>3, <2>5
    <3>2. Promised' /\ Awaiting(waitsFor, retryPromise, isStreaming)'
      BY <1>2, <1>3, <2>1, <2>2, <3>1 DEF Promised, Awaiting
    <3>3. QED
      BY <2>3, <2>4, <3>1, <3>2
  <2>6. CASE recovered
    <3>1. retryPromise' = 0 /\ retryAttempt' = 0 /\ IsAssistant(m) /\ ~IsError(m)
      BY <1>3, <2>6
    <3>2. m.stop # "toolUse" /\ m.stop # "retryable"
      BY <1>3, <1>6, <2>6 DEF When, Uninterrupted, IsError
    <3>3. Len(queue) \in Nat /\ 1 \in DOMAIN queue /\ DOMAIN queue = 1..Len(queue) /\ queue[1] = Head(queue)
      BY <1>1, <1>2
    <3>4. IsAnswer(queue[1]) /\ queue[1].message.stop # "toolUse"
      BY <1>2, <3>1, <3>2, <3>3 DEF IsAnswer, m
    <3>5. 2 \in DOMAIN queue /\ queue[2].type = "agent_end"
      <4>1. 1 + 1 = 2
        OBVIOUS
      <4>2. QED
        BY <2>1, <3>3, <3>4, <4>1 DEF RunEnds
    <3>6. ~isStreaming /\ Len(queue) = 2
      BY <2>1, <3>5 DEF RunEnds
    <3>7. queue' = <<queue[2]>>
      <4>1. Tail(queue) \in Seq(Events) /\ Len(Tail(queue)) = 1 /\ Tail(queue)[1] = queue[2]
        <5>1. /\ Tail(queue) \in Seq(Events) /\ Len(Tail(queue)) = Len(queue) - 1
              /\ \A i \in 1..Len(Tail(queue)) : Tail(queue)[i] = queue[i + 1]
          BY <1>1, <1>2, HeadTailProperties
        <5>2. Len(Tail(queue)) = 1 /\ 1 \in 1..Len(Tail(queue)) /\ 1 + 1 = 2
          BY <3>6, <5>1
        <5>3. QED
          BY <5>1, <5>2
      <4>2. \A e \in Events : <<e>> \in Seq(Events) /\ Len(<<e>>) = 1 /\ <<e>>[1] = e
        OBVIOUS
      <4>3. queue[2] \in Events
        BY <1>1, <3>5, ElementOfSeq
      <4>4. \A i \in 1..Len(Tail(queue)) : Tail(queue)[i] = <<queue[2]>>[i]
        <5>1. <<queue[2]>>[1] = queue[2]
          OBVIOUS
        <5>2. \A i \in 1..Len(Tail(queue)) : i = 1
          <6>1. \A n : n = 1 => \A i \in 1..n : i = 1
            OBVIOUS
          <6>2. QED
            BY ONLY <4>1, <6>1
        <5>3. QED
          BY <4>1, <5>1, <5>2
      <4>5. <<queue[2]>> \in Seq(Events) /\ Len(<<queue[2]>>) = Len(Tail(queue))
        BY <4>1, <4>2, <4>3
      <4>6. Tail(queue) = <<queue[2]>>
        BY <4>1, <4>4, <4>5, SeqEqual
      <4>7. QED
        BY <1>3, <4>6
    <3>8. queue[2] = AgentEnd
      BY <1>1, <3>5, EventKinds, ElementOfSeq
    <3>9. RunEnds(<<AgentEnd>>, isStreaming', lastAssistant', retryPromise')
      <4>1. lastAssistant' = m /\ ~isStreaming'
        BY <1>3, <3>1, <3>6
      <4>2. DOMAIN <<AgentEnd>> = {1} /\ <<AgentEnd>>[1] = AgentEnd /\ Len(<<AgentEnd>>) = 1
        OBVIOUS
      <4>3. ~IsAnswer(AgentEnd)
        BY EventKinds DEF IsAnswer
      <4>4. QED
        BY <3>2, <4>1, <4>2, <4>3 DEF RunEnds
    <3>10. RunEnds(queue', isStreaming', lastAssistant', retryPromise')
      BY <3>7, <3>8, <3>9
    <3>11. Promised'
      BY <1>2, <1>3, <2>2, <3>1 DEF Promised
    <3>12. Awaiting(waitsFor, retryPromise, isStreaming)'
      BY <1>3, <2>1, <3>1, <3>6 DEF Awaiting
    <3>13. QED
      BY <2>3, <3>10, <3>11, <3>12
  <2>7. QED
    BY <2>5, <2>6
<1>7. QED
  BY <1>5, <1>6 DEF RetrySound

\* The end of a run: no other has begun, and if it is tried again this was promised.
LEMMA HandleAgentEndRetry ==
  ASSUME TypeOK, Numbered, RetrySound, HandleAgentEnd
  PROVE  Numbered' /\ RetrySound'
<1> DEFINE m == lastAssistant
<1>1. Types
  BY TypeOKParts
<1>2. /\ queue # <<>> /\ Head(queue) = AgentEnd /\ working = "extension" /\ lastAssistant' = Nil
      /\ UNCHANGED <<isStreaming, connected, place, waitsFor, timers>>
      /\ retryAttempt' \in 0..MaxRetries /\ retryAttempt \in 0..MaxRetries
      /\ \/ queue' = Tail(queue) /\ working' = "extension"
         \/ queue' = queue /\ working' = "sleeping"
         \/ queue' = queue /\ working' = "compacting"
  BY <1>1, AgentEndSteps DEF Types
<1>3. \/ UNCHANGED <<retryAttempt, retryPromise>> /\ working' # "sleeping"
      \/ retryAttempt' = 0 /\ retryPromise' = 0 /\ working' # "sleeping"
      \/ /\ m # Nil /\ m.stop = "retryable" /\ m \in Messages
         /\ retryPromise' = IF retryPromise = 0 THEN m.id ELSE retryPromise
  <2>1. CASE m = Nil
    BY <1>2, <2>1 DEF HandleAgentEnd
  <2>2. CASE m # Nil /\ RetryStarts(m)
    BY <1>1, <2>2 DEF RetryStarts, Types
  <2>3. CASE RetriesExhausted(m)
    BY <1>2, <2>3 DEF RetriesExhausted
  <2>4. CASE RunChecked(m)
    BY <1>2, <2>4 DEF RunChecked
  <2>5. QED
    BY <2>1, <2>2, <2>3, <2>4 DEF HandleAgentEnd
<1>4. happened \subseteq happened'
  BY DEF HandleAgentEnd, RetryStarts, RetriesExhausted, RunChecked, Note
<1>5. Numbered'
  <2>1. \A n \in Messages : n.id \in Nat
    BY DEF Messages
  <2>2. retryPromise' \in Nat
    BY <1>3, <2>1 DEF Numbered
  <2>3. QED
    BY <1>2, <2>2 DEF Numbered
<1>6. ASSUME Uninterrupted'
      PROVE  /\ Promised' /\ Alone' /\ Awaiting(waitsFor, retryPromise, isStreaming)'
             /\ RunEnds(queue, isStreaming, lastAssistant, retryPromise)'
  <2>1. /\ Promised /\ Alone /\ Awaiting(waitsFor, retryPromise, isStreaming)
        /\ RunEnds(queue, isStreaming, lastAssistant, retryPromise)
    BY <1>4, <1>6 DEF RetrySound, Uninterrupted
  <2>2. /\ Tail(queue) = <<>> /\ Len(queue) = 1 /\ queue[1] = AgentEnd /\ ~isStreaming
        /\ m # Nil /\ m.stop = "retryable" => retryPromise # 0
    BY <1>1, <1>2, <2>1, EndIsLast
  <2>3. queue = <<AgentEnd>>
    BY <1>1, <2>2 DEF Types
  <2>4. queue' = <<>> \/ queue' = <<AgentEnd>>
    BY <1>2, <2>2, <2>3
  <2>5. RunEnds(queue, isStreaming, lastAssistant, retryPromise)'
    <3>1. isStreaming' = FALSE /\ lastAssistant' = Nil
      BY <1>1, <1>2, <2>2 DEF Types
    <3>2. RunEnds(queue', isStreaming', lastAssistant', retryPromise')
      BY <2>4, <3>1, RunOver
    <3>3. QED
      BY <3>2
  <2>6. timers.retry \in Nat /\ ~(timers.retry > 0) /\ connected
    BY <1>2, <2>1 DEF Promised, Numbered
  <2>7. retryPromise' \in {retryPromise, 0}
    BY <1>3, <2>2
  <2>8. Promised'
    <3>1. retryAttempt' > 0 \/ working' = "sleeping" => retryPromise' # 0
      BY <1>2, <1>3, <2>1, <2>2 DEF Promised
    <3>2. QED
      BY <1>2, <2>6, <3>1 DEF Promised
  <2>9. Alone' /\ Awaiting(waitsFor, retryPromise, isStreaming)'
    BY <1>2, <2>1, <2>2, <2>7 DEF Alone, Awaiting
  <2>10. QED
    BY <2>5, <2>8, <2>9
<1>7. QED
  BY <1>5, <1>6 DEF RetrySound

\* A listener that throws interrupts.
LEMMA ListenerThrowsRetry ==
  ASSUME Numbered, RetrySound, ListenerThrows
  PROVE  Numbered' /\ RetrySound'
<1>1. "throw" \in happened' /\ UNCHANGED <<waitsFor, timers, retryPromise>>
  BY DEF ListenerThrows, Note, retryVars, promptVars
<1>2. ~Uninterrupted'
  BY <1>1 DEF Uninterrupted
<1>3. QED
  BY <1>1, <1>2, RetryInterrupted

\* The backoff ends, and the timer is the only thing left.
LEMMA SleepEndsRetry ==
  ASSUME TypeOK, Numbered, RetrySound, SleepEnds
  PROVE  Numbered' /\ RetrySound'
<1>1. Types /\ queue # <<>> /\ Head(queue) = AgentEnd
  BY TypeOKParts DEF QueueFits, SleepEnds
<1>2. /\ working = "sleeping" /\ working' = "extension" /\ queue' = Tail(queue)
      /\ UNCHANGED <<isStreaming, lastAssistant, connected, place, waitsFor, happened>>
      /\ \/ retryAttempt' = 0 /\ retryPromise' = 0 /\ UNCHANGED timers
         \/ timers' = [timers EXCEPT !.retry = @ + 1] /\ UNCHANGED <<retryAttempt, retryPromise>>
  BY DEF SleepEnds, agentVars, promptVars
<1>3. /\ timers.retry \in Nat /\ timers.compaction \in Nat /\ timers' \in [retry : Nat, compaction : Nat]
      /\ timers'.retry \in {timers.retry, timers.retry + 1}
  BY <1>2 DEF Numbered
<1>4. Numbered'
  BY <1>2, <1>3 DEF Numbered
<1>5. ASSUME Uninterrupted'
      PROVE  /\ Promised' /\ Alone' /\ Awaiting(waitsFor, retryPromise, isStreaming)'
             /\ RunEnds(queue, isStreaming, lastAssistant, retryPromise)'
  <2>1. /\ Promised /\ Alone /\ Awaiting(waitsFor, retryPromise, isStreaming)
        /\ RunEnds(queue, isStreaming, lastAssistant, retryPromise)
    BY <1>2, <1>5 DEF RetrySound, Uninterrupted
  <2>2. Tail(queue) = <<>> /\ ~isStreaming
    BY <1>1, <2>1, EndIsLast
  <2>3. RunEnds(queue', isStreaming', lastAssistant', retryPromise')
    BY <1>2, <2>2, RunOver
  <2>4. connected /\ retryPromise # 0 /\ ~(timers.retry > 0)
    BY <1>1, <1>2, <2>1 DEF Promised
  <2>5. Promised'
    <3>1. timers'.retry > 0 => timers'.retry = 1 /\ retryPromise' = retryPromise
      BY <1>2, <1>3, <2>4
    <3>2. retryAttempt' > 0 => retryPromise' = retryPromise
      BY <1>2
    <3>3. QED
      BY <1>2, <2>2, <2>4, <3>1, <3>2 DEF Promised
  <2>6. Alone' /\ Awaiting(waitsFor, retryPromise, isStreaming)'
    BY <1>2, <2>1, <2>2 DEF Alone, Awaiting
  <2>7. QED
    BY <2>3, <2>5, <2>6
<1>6. QED
  BY <1>4, <1>5 DEF RetrySound

\* A run that begins when all that was promised is kept, or for the promise that a
\* prompt awaits.
LEMMA StartedRetry ==
  ASSUME Types, Numbered, NEW by, NEW ms \in Seq(Messages),
         \A i \in DOMAIN ms : ~IsAssistant(ms[i]), StartRun(by, ms),
         UNCHANGED <<retryAttempt, retryPromise, working, connected, waitsFor, lastAssistant>>,
         timers' \in [retry : Nat, compaction : Nat],
         Uninterrupted' => /\ Promised /\ queue = <<>> /\ timers'.retry = 0
                           /\ Alone'
                           /\ \A p \in Prompts : place'[p] = "waiting" => waitsFor[p] # 0 /\ retryPromise = waitsFor[p]
  PROVE  Numbered' /\ RetrySound'
<1>1. /\ isStreaming' = TRUE
      /\ queue' = IF connected THEN queue \o Announced(ms) ELSE queue
  BY DEF StartRun, Announced
<1>2. Numbered'
  BY DEF Numbered
<1>3. ASSUME Uninterrupted'
      PROVE  /\ Promised' /\ Alone' /\ Awaiting(waitsFor, retryPromise, isStreaming)'
             /\ RunEnds(queue, isStreaming, lastAssistant, retryPromise)'
  <2>1. Promised' /\ Alone'
    BY <1>3 DEF Promised
  <2>2. Awaiting(waitsFor, retryPromise, isStreaming)'
    BY <1>1, <1>3 DEF Awaiting
  <2>3. queue' = <<>> \o Announced(ms)
    BY <1>1, <1>3 DEF Promised
  <2>4. \A i \in DOMAIN ms : ms[i] \in Messages
    BY LenProperties, ElementOfSeq
  <2>5. /\ DOMAIN Announced(ms) = DOMAIN ms
        /\ \A i \in DOMAIN ms : Announced(ms)[i] = MessageEnd(ms[i])
    BY DEF Announced
  <2>6. <<>> \o Announced(ms) = Announced(ms)
    <3>1. Announced(ms) \in Seq(Events)
      <4>1. Len(ms) \in Nat /\ DOMAIN ms = 1..Len(ms)
        OBVIOUS
      <4>2. Announced(ms) \in [1..Len(ms) -> Events]
        BY <2>4, <4>1, EventKinds DEF Announced
      <4>3. QED
        BY <4>1, <4>2
    <3>2. QED
      BY <3>1
  <2>7. \A i \in DOMAIN queue' : queue'[i].type # "agent_end" /\ ~IsAnswer(queue'[i])
    <3>1. SUFFICES ASSUME NEW i \in DOMAIN ms
                   PROVE  Announced(ms)[i].type # "agent_end" /\ ~IsAnswer(Announced(ms)[i])
      BY <2>3, <2>5, <2>6
    <3>2. MessageEnd(ms[i]).type = "message_end" /\ MessageEnd(ms[i]).message = ms[i]
      BY <2>4, <3>1, EventKinds
    <3>3. QED
      BY <2>5, <3>1, <3>2 DEF IsAnswer
  <2>8. RunEnds(queue', isStreaming', lastAssistant', retryPromise')
    BY <2>7 DEF RunEnds
  <2>9. QED
    BY <2>1, <2>2, <2>8
<1>4. QED
  BY <1>2, <1>3 DEF RetrySound

\* A timer fires when no prompt has anything left to do; a compaction's does not begin
\* a run among the events of another.
LEMMA TimerFiresRetry ==
  ASSUME TypeOK, Numbered, RetrySound, NEW kind \in {"retry", "compaction"}, TimerFires(kind)
  PROVE  Numbered' /\ RetrySound'
<1>1. Types
  BY TypeOKParts
<1>2. /\ timers[kind] > 0 /\ timers' = [timers EXCEPT ![kind] = @ - 1]
      /\ \A p \in Prompts : ~PromptIsNext(p)
      /\ happened \subseteq happened'
      /\ UNCHANGED <<working, lastAssistant, retryAttempt, retryPromise, connected, place, waitsFor>>
  BY DEF TimerFires, Note, retryVars, promptVars
<1>3. /\ timers.retry \in Nat /\ timers.compaction \in Nat /\ timers' \in [retry : Nat, compaction : Nat]
      /\ kind = "retry" => timers'.retry = timers.retry - 1 /\ timers.retry > 0
      /\ kind = "compaction" => timers'.retry = timers.retry
  <2>1. CASE kind = "retry"
    BY <1>2, <2>1 DEF Numbered
  <2>2. CASE kind = "compaction"
    BY <1>2, <2>2 DEF Numbered
  <2>3. QED
    BY <2>1, <2>2
<1>4. Numbered'
  BY <1>2, <1>3 DEF Numbered
<1>5. CASE Refused
  <2>1. UNCHANGED <<isStreaming, queue>>
    BY <1>5 DEF TimerFires, agentVars
  <2>2. ASSUME Uninterrupted'
        PROVE  /\ Promised' /\ Alone' /\ Awaiting(waitsFor, retryPromise, isStreaming)'
               /\ RunEnds(queue, isStreaming, lastAssistant, retryPromise)'
    <3>1. /\ Promised /\ Alone /\ Awaiting(waitsFor, retryPromise, isStreaming)
          /\ RunEnds(queue, isStreaming, lastAssistant, retryPromise)
      BY <1>2, <2>2 DEF RetrySound, Uninterrupted
    <3>2. timers'.retry > 0 => timers.retry > 0 /\ timers'.retry = timers.retry
      BY <1>3, <3>1 DEF Promised
    <3>3. Promised'
      BY <1>2, <2>1, <3>1, <3>2 DEF Promised
    <3>4. Alone' /\ Awaiting(waitsFor, retryPromise, isStreaming)' /\ RunEnds(queue, isStreaming, lastAssistant, retryPromise)'
      BY <1>2, <2>1, <3>1 DEF Alone, Awaiting, RunEnds, IsAnswer
    <3>5. QED
      BY <3>3, <3>4
  <2>3. QED
    BY <1>4, <2>2 DEF RetrySound
<1>6. CASE ~Refused
  <2>1. /\ StartRun("timer", <<>>)
        /\ kind = "compaction" /\ (queue # <<>> \/ timers.retry > 0) => "raced" \in happened'
    BY <1>6 DEF TimerFires, Note, Raced, When
  <2>2. ASSUME Uninterrupted'
        PROVE  /\ Promised /\ queue = <<>> /\ timers'.retry = 0 /\ Alone'
               /\ \A p \in Prompts : place'[p] = "waiting" => waitsFor[p] # 0 /\ retryPromise = waitsFor[p]
    <3>1. Promised /\ Alone /\ Awaiting(waitsFor, retryPromise, isStreaming)
      BY <1>2, <2>2 DEF RetrySound, Uninterrupted
    <3>2. queue = <<>> /\ timers'.retry = 0
      <4>1. CASE kind = "retry"
        BY <1>3, <3>1, <4>1 DEF Promised
      <4>2. CASE kind = "compaction"
        BY <1>3, <2>1, <2>2, <4>2 DEF Uninterrupted
      <4>3. QED
        BY <4>1, <4>2
    <3>3. Alone' /\ \A p \in Prompts : place'[p] = "waiting" => waitsFor[p] # 0 /\ retryPromise = waitsFor[p]
      BY <1>2, <3>1 DEF Alone, Awaiting, PromptIsNext
    <3>4. QED
      BY <3>1, <3>2, <3>3
  <2>3. <<>> \in Seq(Messages) /\ \A i \in DOMAIN <<>> : ~IsAssistant(<<>>[i])
    OBVIOUS
  <2>4. QED
    BY <1>1, <1>2, <1>3, <2>1, <2>2, <2>3, StartedRetry
<1>7. QED
  BY <1>5, <1>6

\* Whoever waited for a compaction goes on: the event queue goes on behind a run's end,
\* a prompt to send its message.
LEMMA GoesOnRetry ==
  ASSUME TypeOK, Numbered, RetrySound, NEW o \in Owners, compacting[o] # Nil, GoesOn(o), happened \subseteq happened',
         timers' \in [retry : Nat, compaction : Nat], timers'.retry = timers.retry
  PROVE  Numbered' /\ RetrySound'
<1>1. Types /\ QueueFits /\ CompactingFits
  BY TypeOKParts
<1>2. /\ queue' = IF o = "events" THEN Tail(queue) ELSE queue
      /\ working' = IF o = "events" THEN "extension" ELSE working
      /\ place' = IF o \in Prompts THEN [place EXCEPT ![o] = "ready"] ELSE place
      /\ connected' = (connected \/ o = "user")
      /\ UNCHANGED <<isStreaming, lastAssistant, retryAttempt, retryPromise, waitsFor>>
  BY DEF GoesOn, agentVars, retryVars
<1>3. Numbered'
  BY <1>2 DEF Numbered
<1>4. ASSUME Uninterrupted'
      PROVE  /\ Promised' /\ Alone' /\ Awaiting(waitsFor, retryPromise, isStreaming)'
             /\ RunEnds(queue, isStreaming, lastAssistant, retryPromise)'
  <2>1. /\ Promised /\ Alone /\ Awaiting(waitsFor, retryPromise, isStreaming)
        /\ RunEnds(queue, isStreaming, lastAssistant, retryPromise)
    BY <1>4 DEF RetrySound, Uninterrupted
  <2>2. queue' = queue \/ queue' = <<>>
    <3>1. CASE o = "events"
      <4>1. queue # <<>> /\ Head(queue) = AgentEnd
        BY <1>1, <3>1 DEF QueueFits
      <4>2. QED
        BY <1>1, <1>2, <2>1, <3>1, <4>1, EndIsLast
    <3>2. QED
      BY <1>2, <3>1
  <2>3. RunEnds(queue', isStreaming', lastAssistant', retryPromise')
    BY <1>2, <2>1, <2>2, RunOver
  <2>4. Promised'
    BY <1>2, <2>1, <2>2 DEF Promised
  <2>5. \A p \in Prompts : place'[p] = IF p = o THEN "ready" ELSE place[p]
    BY <1>1, <1>2 DEF Types
  <2>6. \A p \in Prompts : p = o => place[p] = "compacting"
    BY <1>1 DEF CompactingFits
  <2>7. Alone'
    <3>1. \A p \in Prompts : place[p] \in Idle => place'[p] \in Idle
      BY <2>5, <2>6 DEF Idle
    <3>2. QED
      BY <2>1, <3>1 DEF Alone
  <2>8. Awaiting(waitsFor, retryPromise, isStreaming)'
    BY <1>2, <2>1, <2>5 DEF Awaiting
  <2>9. QED
    BY <2>3, <2>4, <2>7, <2>8
<1>5. QED
  BY <1>3, <1>4 DEF RetrySound

\* A compaction that ends, one way or the other.
LEMMA CompactedRetry ==
  ASSUME TypeOK, Numbered, RetrySound, NEW o \in Owners, CompactionEnds(o) \/ CompactionFails(o)
  PROVE  Numbered' /\ RetrySound'
<1>1. compacting[o] # Nil /\ GoesOn(o) /\ happened \subseteq happened'
  BY DEF CompactionEnds, CompactionFails, Note
<1>2. timers' = timers \/ timers' = [timers EXCEPT !.compaction = @ + 1]
  BY DEF CompactionEnds, CompactionFails
<1>3. timers' \in [retry : Nat, compaction : Nat] /\ timers'.retry = timers.retry
  BY <1>2 DEF Numbered
<1>4. QED
  BY <1>1, <1>3, GoesOnRetry

\* A prompt begins when no other is under way, or interrupts it.
LEMMA PromptRetry ==
  ASSUME TypeOK, Numbered, RetrySound, NEW p \in Prompts, Prompt(p)
  PROVE  Numbered' /\ RetrySound'
<1>1. Types
  BY TypeOKParts
<1>2. /\ place[p] = "none" /\ place' = [place EXCEPT ![p] = "called"]
      /\ UNCHANGED <<retryAttempt, retryPromise, working, timers, queue, isStreaming, waitsFor, lastAssistant, connected>>
      /\ happened \subseteq happened' /\ (~Quiet => "overlap" \in happened')
  BY DEF Prompt, Note, When, agentVars, retryVars
<1>3. CASE Quiet
  <2>1. \A q \in Prompts : place[q] \in Idle
    BY <1>3 DEF Quiet, Idle
  <2>2. QED
    BY <1>1, <1>2, <2>1, RetryPlaced
<1>4. CASE ~Quiet
  BY <1>2, <1>4, RetryInterrupted DEF Uninterrupted
<1>5. QED
  BY <1>3, <1>4

\* It is checked, and sent.
LEMMA PromptChecksRetry ==
  ASSUME TypeOK, Numbered, RetrySound, NEW p \in Prompts, PromptChecks(p)
  PROVE  Numbered' /\ RetrySound'
<1>1. Types
  BY TypeOKParts
<1>2. /\ place[p] = "called"
      /\ \E to \in {"rejected", "ready", "compacting"} : place' = [place EXCEPT ![p] = to]
      /\ UNCHANGED <<retryAttempt, retryPromise, working, timers, queue, isStreaming, waitsFor, lastAssistant, connected>>
      /\ happened \subseteq happened'
  BY DEF PromptChecks, Note, agentVars, retryVars
<1>3. place[p] \notin Idle
  BY <1>2 DEF Idle
<1>4. PICK to \in {"rejected", "ready", "compacting"} : place' = [place EXCEPT ![p] = to]
  BY <1>2
<1>5. QED
  BY <1>1, <1>2, <1>3, <1>4, RetryPlaced

LEMMA PromptSendsRetry ==
  ASSUME TypeOK, Numbered, RetrySound, NEW p \in Prompts, PromptSends(p)
  PROVE  Numbered' /\ RetrySound'
<1> DEFINE m == Message("user", made + 1)
<1>1. Types
  BY TypeOKParts
<1>2. /\ place[p] = "ready"
      /\ UNCHANGED <<retryAttempt, retryPromise, working, timers, waitsFor, lastAssistant, connected>>
      /\ happened \subseteq happened'
  BY DEF PromptSends, Note, retryVars
<1>3. place[p] \notin Idle
  BY <1>2 DEF Idle
<1>4. CASE isStreaming
  <2>1. place' = [place EXCEPT ![p] = "rejected"] /\ UNCHANGED <<isStreaming, queue>>
    BY <1>4 DEF PromptSends, agentVars
  <2>2. QED
    BY <1>1, <1>2, <1>3, <2>1, RetryPlaced
<1>5. CASE ~isStreaming
  <2>1. /\ place' = [place EXCEPT ![p] = "running"] /\ StartRun(p, <<m>>)
        /\ queue # <<>> \/ timers.retry > 0 => "raced" \in happened'
    BY <1>5 DEF PromptSends, Note, Raced, When
  <2>2. m \in Messages /\ m.role = "user"
    BY <1>1, Saying DEF Roles
  <2> HIDE DEF m
  <2>3. <<m>> \in Seq(Messages) /\ \A i \in DOMAIN <<m>> : ~IsAssistant(<<m>>[i])
    <3>1. ~IsAssistant(m)
      BY <2>2 DEF IsAssistant
    <3>2. QED
      BY <2>2, <3>1
  <2>4. timers.retry \in Nat /\ timers' \in [retry : Nat, compaction : Nat] /\ timers'.retry = timers.retry
    BY <1>2 DEF Numbered
  <2>5. ASSUME Uninterrupted'
        PROVE  /\ Promised /\ queue = <<>> /\ timers'.retry = 0 /\ Alone'
               /\ \A q \in Prompts : place'[q] = "waiting" => waitsFor[q] # 0 /\ retryPromise = waitsFor[q]
    <3>1. Promised /\ Alone
      BY <1>2, <2>5 DEF RetrySound, Uninterrupted
    <3>2. queue = <<>> /\ timers'.retry = 0
      BY <2>1, <2>4, <2>5 DEF Uninterrupted
    <3>3. \A q \in Prompts : place'[q] = IF q = p THEN "running" ELSE place[q]
      BY <1>1, <2>1 DEF Types
    <3>4. \A q \in Prompts : q # p => place[q] \in Idle
      BY <1>3, <3>1 DEF Alone
    <3>5. Alone'
      BY <3>3, <3>4 DEF Alone
    <3>6. \A q \in Prompts : place'[q] # "waiting"
      BY <3>3, <3>4 DEF Idle
    <3>7. QED
      BY <3>1, <3>2, <3>5, <3>6
  <2>6. QED
    BY <1>1, <1>2, <2>1, <2>3, <2>4, <2>5, StartedRetry
<1>6. QED
  BY <1>4, <1>5

\* It awaits the promise that is there, until there is another or none.
LEMMA PromptWaitsRetry ==
  ASSUME TypeOK, Numbered, RetrySound, NEW p \in Prompts, PromptWaits(p)
  PROVE  Numbered' /\ RetrySound'
<1>1. Types
  BY TypeOKParts
<1>2. /\ place[p] = "settled"
      /\ place' = [place EXCEPT ![p] = IF retryPromise = 0 THEN "returned" ELSE "waiting"]
      /\ waitsFor' = [waitsFor EXCEPT ![p] = retryPromise]
      /\ UNCHANGED <<retryAttempt, retryPromise, working, timers, queue, isStreaming, lastAssistant, connected, happened>>
  BY DEF PromptWaits, agentVars, retryVars
<1>3. /\ \A q \in Prompts : place'[q] = IF q = p THEN (IF retryPromise = 0 THEN "returned" ELSE "waiting") ELSE place[q]
      /\ \A q \in Prompts : waitsFor'[q] = IF q = p THEN retryPromise ELSE waitsFor[q]
      /\ waitsFor' \in [Prompts -> Nat]
  BY <1>1, <1>2 DEF Types, Numbered
<1>4. Numbered'
  BY <1>2, <1>3 DEF Numbered
<1>5. ASSUME Uninterrupted'
      PROVE  /\ Promised' /\ Alone' /\ Awaiting(waitsFor, retryPromise, isStreaming)'
             /\ RunEnds(queue, isStreaming, lastAssistant, retryPromise)'
  <2>1. /\ Promised /\ Alone /\ Awaiting(waitsFor, retryPromise, isStreaming)
        /\ RunEnds(queue, isStreaming, lastAssistant, retryPromise)
    BY <1>2, <1>5 DEF RetrySound, Uninterrupted
  <2>2. Promised' /\ RunEnds(queue, isStreaming, lastAssistant, retryPromise)'
    BY <1>2, <2>1 DEF Promised, RunEnds, IsAnswer
  <2>3. \A q \in Prompts : place[q] \in Idle => place'[q] \in Idle
    BY <1>2, <1>3 DEF Idle
  <2>4. Alone'
    BY <2>1, <2>3 DEF Alone
  <2>5. Awaiting(waitsFor, retryPromise, isStreaming)'
    BY <1>2, <1>3, <2>1 DEF Awaiting
  <2>6. QED
    BY <2>2, <2>4, <2>5
<1>6. QED
  BY <1>4, <1>5 DEF RetrySound

LEMMA PromptReturnsRetry ==
  ASSUME TypeOK, Numbered, RetrySound, NEW p \in Prompts, PromptReturns(p)
  PROVE  Numbered' /\ RetrySound'
<1>1. Types
  BY TypeOKParts
<1>2. /\ place[p] = "waiting" /\ place' = [place EXCEPT ![p] = "returned"]
      /\ waitsFor' = [waitsFor EXCEPT ![p] = 0]
      /\ UNCHANGED <<retryAttempt, retryPromise, working, timers, queue, isStreaming, lastAssistant, connected, happened>>
  BY DEF PromptReturns, agentVars, retryVars
<1>3. /\ \A q \in Prompts : place'[q] = IF q = p THEN "returned" ELSE place[q]
      /\ \A q \in Prompts : waitsFor'[q] = IF q = p THEN 0 ELSE waitsFor[q]
      /\ waitsFor' \in [Prompts -> Nat]
  BY <1>1, <1>2 DEF Types, Numbered
<1>4. Numbered'
  BY <1>2, <1>3 DEF Numbered
<1>5. ASSUME Uninterrupted'
      PROVE  /\ Promised' /\ Alone' /\ Awaiting(waitsFor, retryPromise, isStreaming)'
             /\ RunEnds(queue, isStreaming, lastAssistant, retryPromise)'
  <2>1. /\ Promised /\ Alone /\ Awaiting(waitsFor, retryPromise, isStreaming)
        /\ RunEnds(queue, isStreaming, lastAssistant, retryPromise)
    BY <1>2, <1>5 DEF RetrySound, Uninterrupted
  <2>2. Promised' /\ RunEnds(queue, isStreaming, lastAssistant, retryPromise)'
    BY <1>2, <2>1 DEF Promised, RunEnds, IsAnswer
  <2>3. \A q \in Prompts : place[q] \in Idle => place'[q] \in Idle
    BY <1>3 DEF Idle
  <2>4. Alone'
    BY <2>1, <2>3 DEF Alone
  <2>5. Awaiting(waitsFor, retryPromise, isStreaming)'
    BY <1>2, <1>3, <2>1 DEF Awaiting
  <2>6. QED
    BY <2>2, <2>4, <2>5
<1>6. QED
  BY <1>4, <1>5 DEF RetrySound

\* A custom message begins a run only when nothing is under way.
LEMMA SendCustomMessageRetry ==
  ASSUME TypeOK, Numbered, RetrySound, NEW b \in Commands, SendCustomMessage(b)
  PROVE  Numbered' /\ RetrySound'
<1> DEFINE m == Message("custom", made + 1)
<1>1. Types
  BY TypeOKParts
<1>2. /\ UNCHANGED <<retryAttempt, retryPromise, working, timers, place, waitsFor, lastAssistant, connected>>
      /\ happened \subseteq happened'
  BY DEF SendCustomMessage, Note, retryVars, promptVars
<1>3. UNCHANGED <<isStreaming, queue>> \/ (Quiet /\ StartRun(Nil, <<m>>))
  BY DEF SendCustomMessage, agentVars
<1>4. m \in Messages /\ m.role = "custom"
  BY <1>1, Saying DEF Roles
<1> HIDE DEF m
<1>5. CASE UNCHANGED <<isStreaming, queue>>
  BY <1>2, <1>5, RetryUnseen
<1>6. CASE Quiet /\ StartRun(Nil, <<m>>)
  <2>1. <<m>> \in Seq(Messages) /\ \A i \in DOMAIN <<m>> : ~IsAssistant(<<m>>[i])
    <3>1. ~IsAssistant(m)
      BY <1>4 DEF IsAssistant
    <3>2. QED
      BY <1>4, <3>1
  <2>2. /\ queue = <<>> /\ timers.retry = 0 /\ \A q \in Prompts : place[q] # "waiting"
    BY <1>6 DEF Quiet
  <2>3. timers' \in [retry : Nat, compaction : Nat] /\ timers'.retry = 0
    BY <1>2, <2>2 DEF Numbered
  <2>4. Uninterrupted' => Promised /\ Alone'
    BY <1>2 DEF RetrySound, Uninterrupted, Alone
  <2>5. QED
    BY <1>1, <1>2, <1>6, <2>1, <2>2, <2>3, <2>4, StartedRetry
<1>7. QED
  BY <1>3, <1>5, <1>6

\* An abort, another session and a compaction the user asks for interrupt.
LEMMA InterruptRetry ==
  ASSUME Numbered, RetrySound, Abort \/ BeginOtherSession \/ BeginCompact
  PROVE  Numbered' /\ RetrySound'
<1>1. "abort" \in happened' /\ UNCHANGED <<waitsFor, timers>> /\ Cancelled
  BY DEF Abort, BeginOtherSession, BeginCompact, Interrupt, Note, promptVars
<1>2. retryPromise' = 0
  BY <1>1 DEF Cancelled
<1>3. QED
  BY <1>1, <1>2, RetryInterrupted DEF Uninterrupted

\* Every step keeps it.
LEMMA NextRetry ==
  ASSUME TypeOK, Numbered, RetrySound, [Next]_vars
  PROVE  Numbered' /\ RetrySound'
<1>1. CASE UNCHANGED vars
  <2>1. /\ UNCHANGED <<retryAttempt, retryPromise, working, timers, queue, isStreaming, place, waitsFor, lastAssistant>>
        /\ UNCHANGED <<happened, connected>>
    BY <1>1 DEF vars, agentVars, retryVars, promptVars
  <2>2. QED
    BY <2>1, RetryUnseen
<1>2. CASE Next
  <2>1. CASE Answer
    BY <2>1, LlmAnswersRetry DEF Answer
  <2>2. CASE ToolReturns
    BY <2>2, ToolReturnsRetry
  <2>3. CASE HandleMessageEnd
    BY <2>3, HandleMessageEndRetry
  <2>4. CASE HandleAgentEnd
    BY <2>4, HandleAgentEndRetry
  <2>5. CASE ListenerThrows
    BY <2>5, ListenerThrowsRetry
  <2>6. CASE SleepEnds
    BY <2>6, SleepEndsRetry
  <2>7. CASE \E kind \in {"retry", "compaction"} : TimerFires(kind)
    BY <2>7, TimerFiresRetry
  <2>8. CASE \E o \in Owners : CompactionEnds(o) \/ CompactionFails(o)
    BY <2>8, CompactedRetry
  <2>9. CASE \E p \in Prompts : Prompt(p)
    BY <2>9, PromptRetry
  <2>10. CASE \E p \in Prompts : PromptChecks(p)
    BY <2>10, PromptChecksRetry
  <2>11. CASE \E p \in Prompts : PromptSends(p)
    BY <2>11, PromptSendsRetry
  <2>12. CASE \E p \in Prompts : PromptWaits(p)
    BY <2>12, PromptWaitsRetry
  <2>13. CASE \E p \in Prompts : PromptReturns(p)
    BY <2>13, PromptReturnsRetry
  <2>14. CASE Abort \/ BeginOtherSession \/ BeginCompact
    BY <2>14, InterruptRetry
  <2>15. CASE \E b \in Commands : Bash(b)
    <3>1. /\ UNCHANGED <<retryAttempt, retryPromise, working, timers, queue, isStreaming, place, waitsFor, lastAssistant,
                         connected>>
          /\ happened \subseteq happened'
      BY <2>15 DEF Bash, Note, agentVars, retryVars, promptVars
    <3>2. QED
      BY <3>1, RetryUnseen
  <2>16. CASE \E b \in Commands : SendCustomMessage(b)
    BY <2>16, SendCustomMessageRetry
  <2>17. CASE NewSession \/ OpenSession \/ SwitchGives \/ SwitchEnds \/ Compact
    <3>1. /\ UNCHANGED <<retryAttempt, retryPromise, working, timers, queue, isStreaming, place, waitsFor, lastAssistant>>
          /\ (connected => connected') /\ happened \subseteq happened'
      BY <2>17 DEF NewSession, OpenSession, SwitchGives, SwitchEnds, Compact, Prepare, Note, agentVars, retryVars,
                   promptVars
    <3>2. QED
      BY <3>1, RetryUnseen
  <2>18. CASE ForkEnds \/ \E i \in DOMAIN log : Fork(i)
    <3>1. /\ UNCHANGED <<retryAttempt, retryPromise, working, timers, queue, isStreaming, place, waitsFor, lastAssistant,
                         connected>>
          /\ happened \subseteq happened'
      BY <2>18 DEF Fork, ForkEnds, Note, agentVars, retryVars, promptVars
    <3>2. QED
      BY <3>1, RetryUnseen
  <2>19. QED
    BY <1>2, <2>1, <2>2, <2>3, <2>4, <2>5, <2>6, <2>7, <2>8, <2>9, <2>10, <2>11, <2>12, <2>13, <2>14, <2>15,
       <2>16, <2>17, <2>18 DEF Next, Prompting
<1>3. QED
  BY <1>1, <1>2

\* Only two steps make a prompt return.
LEMMA ReturningSteps ==
  ASSUME TypeOK, [Next]_vars, NEW p \in Prompts, Returning(p)
  PROVE  PromptWaits(p) \/ PromptReturns(p)
<1>1. place \in [Prompts -> Places] /\ place[p] # "returned" /\ place'[p] = "returned"
  BY TypeOKParts DEF Types, Returning
<1>2. ASSUME NEW q, NEW to, to # "returned", place' = [place EXCEPT ![q] = to]
      PROVE  FALSE
  BY <1>1, <1>2
<1>3. ASSUME place' = place
      PROVE  FALSE
  BY <1>1, <1>3
<1>4. Next
  BY <1>3 DEF vars, promptVars
<1>5. ~Answer
  <2>1. SUFFICES ASSUME NEW stop \in Stops, LlmAnswers(stop)
                 PROVE  FALSE
    BY DEF Answer
  <2>2. place' = place \/ place' = [place EXCEPT ![awaitedBy] = "settled"]
    BY <2>1 DEF LlmAnswers
  <2>3. QED
    BY <1>2, <1>3, <2>2
<1>6. ~\E o \in Owners : GoesOn(o)
  BY <1>2, <1>3 DEF GoesOn
<1>7. ~\E o \in Owners : CompactionEnds(o) \/ CompactionFails(o)
  BY <1>6 DEF CompactionEnds, CompactionFails
<1>8. ~\E q \in Prompts : Prompt(q) \/ PromptChecks(q) \/ PromptSends(q)
  BY <1>2 DEF Prompt, PromptChecks, PromptSends
<1>9. /\ ~ToolReturns /\ ~HandleMessageEnd /\ ~HandleAgentEnd /\ ~ListenerThrows /\ ~SleepEnds /\ ~Abort
      /\ ~\E kind \in {"retry", "compaction"} : TimerFires(kind)
  BY <1>3 DEF ToolReturns, HandleMessageEnd, HandleAgentEnd, ListenerThrows, SleepEnds, Abort, TimerFires, promptVars
<1>10. /\ ~BeginOtherSession /\ ~BeginCompact /\ ~NewSession /\ ~OpenSession /\ ~SwitchGives /\ ~SwitchEnds
       /\ ~ForkEnds /\ ~Compact
  BY <1>3 DEF BeginOtherSession, BeginCompact, Interrupt, NewSession, OpenSession, SwitchGives, SwitchEnds, ForkEnds,
              Compact, promptVars
<1>11. /\ ~\E b \in Commands : Bash(b) \/ SendCustomMessage(b)
       /\ ~\E i \in DOMAIN log : Fork(i)
  BY <1>3 DEF Bash, SendCustomMessage, Fork, promptVars
<1>12. PICK q \in Prompts : PromptWaits(q) \/ PromptReturns(q)
  BY <1>4, <1>5, <1>7, <1>8, <1>9, <1>10, <1>11 DEF Next, Prompting
<1>13. q = p
  BY <1>1, <1>12 DEF PromptWaits, PromptReturns
<1>14. QED
  BY <1>12, <1>13

\* The answer before the end is what the run is judged by.
LEMMA JudgedIs ==
  ASSUME Types, NEW streaming, NEW promise, RunEnds(queue, streaming, lastAssistant, promise),
         NEW i \in DOMAIN queue, queue[i] = AgentEnd, Judged # Nil, Judged.stop = "retryable"
  PROVE  promise # 0
<1> DEFINE answers == {j \in Ends(queue) : IsAssistant(queue[j].message)}
<1>1. queue \in Seq(Events) /\ Len(queue) \in Nat /\ DOMAIN queue = 1..Len(queue) /\ i \in 1..Len(queue)
  BY DEF Types
<1>2. queue[i].type = "agent_end" /\ i = Len(queue)
  BY EventKinds DEF RunEnds
<1>3. answers \in SUBSET (1..Len(queue)) /\ i \notin answers
  <2>1. answers \in SUBSET (1..Len(queue))
    BY <1>1, EndsTyped
  <2>2. QED
    BY <1>2, <2>1 DEF Ends
<1>4. Judged = IF answers = {} THEN lastAssistant ELSE queue[LastPlace(answers)].message
  BY DEF Judged
<1>5. CASE i = 1
  <2>1. answers = {}
    BY <1>1, <1>2, <1>3, <1>5
  <2>2. QED
    BY <1>2, <1>4, <1>5, <2>1 DEF RunEnds
<1>6. CASE i > 1
  <2>1. IsAnswer(queue[i - 1]) /\ (queue[i - 1].message.stop = "retryable" => promise # 0)
    BY <1>2, <1>6 DEF RunEnds
  <2>2. i - 1 \in answers
    <3>1. i - 1 \in DOMAIN queue
      BY <1>1, <1>6
    <3>2. QED
      BY <2>1, <3>1 DEF Ends, IsAnswer
  <2> HIDE DEF answers
  <2>3. LastPlace(answers) \in answers /\ \A j \in answers : j <= LastPlace(answers)
    BY <1>1, <1>3, <2>2, LastPlaceIs
  <2>4. LastPlace(answers) \in 1..Len(queue) /\ LastPlace(answers) # i /\ i - 1 <= LastPlace(answers)
    BY <1>3, <2>2, <2>3
  <2>5. LastPlace(answers) = i - 1
    BY <1>1, <1>2, <2>4
  <2>6. QED
    BY <1>4, <2>1, <2>2, <2>5
<1>7. QED
  BY <1>1, <1>5, <1>6

\* A retry that is under way was promised.
LEMMA PromisedRetry ==
  ASSUME Types, RetrySound, Uninterrupted, RetryUnderWay
  PROVE  retryPromise # 0
<1>1. Promised /\ RunEnds(queue, isStreaming, lastAssistant, retryPromise)
  BY DEF RetrySound
<1>2. CASE \E i \in DOMAIN queue : queue[i] = AgentEnd /\ Judged # Nil /\ Judged.stop = "retryable"
  BY <1>1, <1>2, JudgedIs
<1>3. QED
  BY <1>1, <1>2 DEF RetryUnderWay, Promised

\* In the beginning nothing was promised.
LEMMA RetryBegins == ASSUME Init PROVE Numbered /\ RetrySound
<1>1. /\ retryPromise = 0 /\ retryAttempt = 0 /\ queue = <<>> /\ working = "extension" /\ connected = TRUE
      /\ waitsFor = [p \in Prompts |-> 0] /\ place = [p \in Prompts |-> "none"]
      /\ timers = [retry |-> 0, compaction |-> 0]
  BY DEF Init
<1>2. Numbered
  BY <1>1 DEF Numbered
<1>3. Promised /\ Alone /\ Awaiting(waitsFor, retryPromise, isStreaming)
  BY <1>1 DEF Promised, Alone, Awaiting, Idle
<1>4. QED
  BY <1>1, <1>2, <1>3, RunOver DEF RetrySound

-----------------------------------------------------------------------------
(* The theorems.                                                           *)

Inv == TypeOK /\ InOrder /\ AfterCall /\ KeptOwn /\ Follows

\* In the beginning nothing is there.
LEMMA InvBegins == ASSUME Init PROVE Inv
<1>1. log = <<>> /\ queue = <<>> /\ made = Len(Earlier) /\ compacting = [o \in Owners |-> Nil]
  BY DEF Init
<1>2. Unsaved = <<>>
  BY <1>1, WaitingOne DEF Unsaved
<1>3. DOMAIN log = {} /\ DOMAIN Unsaved = {} /\ made = 2
  BY <1>1, <1>2, EarlierTyped
<1>4. InOrder
  BY <1>3 DEF InOrder, Ordered
<1>5. AfterCall
  BY <1>1, <1>2, <1>3 DEF AfterCall, Answered, EndsInBash
<1>6. KeptOwn
  BY <1>1, <1>3 DEF KeptOwn, Owned
<1>7. Matches
  <2>1. log = <<>> /\ messages = <<>> /\ <<>> \o <<>> = <<>>
    BY <1>1 DEF Init
  <2>2. QED
    BY <1>2, <2>1, NoContext DEF Matches
<1>8. op = "none" /\ loaded = Nil
  BY DEF Init
<1>9. Follows
  BY <1>7, <1>8 DEF Follows, Matched, Handed, CompactsAlone
<1>10. QED
  BY <1>4, <1>5, <1>6, <1>9, InitTyped DEF Inv

\* Every step keeps the invariant.
LEMMA InvKept == ASSUME Inv, [Next]_vars PROVE Inv'
<1>1. TypeOK /\ InOrder /\ AfterCall /\ KeptOwn /\ Follows
  BY DEF Inv
<1>2. TypeOK'
  BY <1>1, NextTyped
<1>3. Types /\ Types' /\ Shaped
  BY <1>1, <1>2, TypeOKParts, TypeOKPartsPrimed, NextShape
<1>4. InOrder' /\ AfterCall' /\ KeptOwn'
  BY <1>1, <1>3, InOrderKept, AfterCallKept, KeptOwnKept
<1>5. Follows'
  BY <1>1, NextFollows
<1>6. QED
  BY <1>2, <1>4, <1>5 DEF Inv

\* What holds in every state.
THEOREM AgentSessionInvariant == Spec => []Inv
<1>1. Init => Inv
  BY InvBegins
<1>2. Inv /\ [Next]_vars => Inv'
  BY InvKept
<1>3. QED
  BY <1>1, <1>2, PTL DEF Spec

\* QueueIsSound: whatever is awaited belongs to the head of the event queue or to a
\* caller, and the messages of the runs are persisted in the order they were announced
\* and once.
THEOREM QueueSound == Spec => []QueueIsSound
<1>1. Inv => QueueIsSound
  BY DEF Inv, QueueIsSound, InOrder, Ordered, PersistedInOrder
<1>2. QED
  BY <1>1, AgentSessionInvariant, PTL

\* ResultFollowsCall: no shell command comes between a tool call and its result.
THEOREM ResultsFollowCalls == Spec => []ResultFollowsCall
<1>1. Inv => ResultFollowsCall
  BY DEF Inv, ResultFollowsCall, AfterCall, Answered
<1>2. QED
  BY <1>1, AgentSessionInvariant, PTL

\* CompactionKeepsOwn: a compaction keeps the session from an entry before it of the same
\* session, whatever was recorded while its summary was written.
THEOREM CompactionsKeepOwn == Spec => []CompactionKeepsOwn
<1>1. Inv => CompactionKeepsOwn
  BY DEF Inv, CompactionKeepsOwn, KeptOwn, Owned
<1>2. QED
  BY <1>1, AgentSessionInvariant, PTL

\* SessionFollowsAgent: the session's context and the messages that wait are the agent's
\* messages, failed answers aside.
THEOREM SessionFollows == Spec => []SessionFollowsAgent
<1>1. Inv => SessionFollowsAgent
  <2>1. SUFFICES ASSUME Inv, Undisturbed, connected, loaded = Nil
                 PROVE  NoErrors(messages) = NoErrors(Context(log) \o Unsaved)
    BY DEF SessionFollowsAgent
  <2>2. OpFits /\ Matched /\ Handed
    BY <2>1, TypeOKParts DEF Inv, Follows
  <2>3. op = "none"
    BY <2>1, <2>2 DEF OpFits, Handed
  <2>4. QED
    BY <2>2, <2>3 DEF Matched, Matches
<1>2. QED
  BY <1>1, AgentSessionInvariant, PTL

\* PromptAwaitsRetry: prompt() does not return while its failed run is about to be tried
\* again, however long the extensions delay the news.
THEOREM PromptAwaits == Spec => PromptAwaitsRetry
<1>1. Spec => [](TypeOK /\ Numbered /\ RetrySound)
  <2>1. Init => Numbered /\ RetrySound
    BY RetryBegins
  <2>2. Inv => TypeOK
    BY DEF Inv
  <2>3. TypeOK /\ Numbered /\ RetrySound /\ [Next]_vars => Numbered' /\ RetrySound'
    BY NextRetry
  <2>4. QED
    BY <2>1, <2>2, <2>3, AgentSessionInvariant, PTL DEF Spec
<1>2. TypeOK /\ Numbered /\ RetrySound /\ [Next]_vars =>
        [\A p \in Prompts : Returning(p) /\ Uninterrupted => ~RetryUnderWay]_vars
  <2>1. SUFFICES ASSUME TypeOK, RetrySound, [Next]_vars,
                        NEW p \in Prompts, Returning(p), Uninterrupted, RetryUnderWay
                 PROVE  FALSE
    OBVIOUS
  <2>2. retryPromise # 0
    BY <2>1, TypeOKParts, PromisedRetry
  <2>3. PromptWaits(p) \/ PromptReturns(p)
    BY <2>1, ReturningSteps
  <2>4. CASE PromptWaits(p)
    <3>1. place' = [place EXCEPT ![p] = "waiting"]
      BY <2>2, <2>4 DEF PromptWaits
    <3>2. QED
      BY <2>1, <3>1, TypeOKParts DEF Returning, Types
  <2>5. CASE PromptReturns(p)
    <3>1. Awaiting(waitsFor, retryPromise, isStreaming)
      BY <2>1 DEF RetrySound
    <3>2. place[p] = "waiting" /\ retryPromise # waitsFor[p]
      BY <2>5 DEF PromptReturns
    <3>3. QED
      BY <2>2, <3>1, <3>2 DEF Awaiting
  <2>6. QED
    BY <2>3, <2>4, <2>5
<1>3. QED
  BY <1>1, <1>2, PTL DEF PromptAwaitsRetry, Spec
=============================================================================

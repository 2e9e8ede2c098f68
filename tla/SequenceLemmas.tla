---------------------------- MODULE SequenceLemmas ----------------------------
(***************************************************************************)
(* Facts about sequences that the proofs about queues and caches share.    *)
(***************************************************************************)
EXTENDS Integers, SequencesExt, SequenceTheorems, FiniteSetTheorems, TLAPS

\* A function on 1..n is a sequence of its values.
LEMMA FunctionIsSequence ==
  ASSUME NEW S, NEW n \in Nat, NEW f \in [1..n -> S]
  PROVE  f \in Seq(S) /\ Len(f) = n
  BY SeqDef

\* What is left of a sequence without its i-th element.
LEMMA Removal ==
  ASSUME NEW S, NEW s \in Seq(S), NEW i \in 1..Len(s)
  PROVE  /\ RemoveAt(s, i) \in Seq(S) /\ Len(RemoveAt(s, i)) = Len(s) - 1
         /\ \A j \in 1..(Len(s) - 1) :
               RemoveAt(s, i)[j] = IF j < i THEN s[j] ELSE s[j + 1]
<1>1. Len(s) \in Nat /\ i \in Int /\ 1 <= i /\ i <= Len(s) /\ \A j \in 1..Len(s) : s[j] \in S
  BY LenProperties, ElementOfSeq
<1> DEFINE u == SubSeq(s, 1, i - 1)
           v == SubSeq(s, i + 1, Len(s))
           t == u \o v
<1>2. u \in Seq(S) /\ Len(u) = i - 1 /\ \A j \in 1..(i - 1) : u[j] = s[j]
  <2>1. 1 \in Int /\ i - 1 \in Int /\ \A j \in 1..(i - 1) : s[j] \in S
    BY <1>1
  <2>2. /\ u \in Seq(S) /\ Len(u) = IF 1 <= i - 1 THEN (i - 1) - 1 + 1 ELSE 0
        /\ \A j \in 1..((i - 1) - 1 + 1) : u[j] = s[1 + j - 1]
    BY <2>1, SubSeqProperties
  <2> QED
    BY <2>2, <1>1
<1>3. v \in Seq(S) /\ Len(v) = Len(s) - i /\ \A j \in 1..(Len(s) - i) : v[j] = s[i + j]
  <2>1. i + 1 \in Int /\ Len(s) \in Int /\ \A j \in (i + 1)..Len(s) : s[j] \in S
    BY <1>1
  <2>2. /\ v \in Seq(S) /\ Len(v) = IF i + 1 <= Len(s) THEN Len(s) - (i + 1) + 1 ELSE 0
        /\ \A j \in 1..(Len(s) - (i + 1) + 1) : v[j] = s[(i + 1) + j - 1]
    BY <2>1, SubSeqProperties
  <2> QED
    BY <2>2, <1>1
<1> HIDE DEF u, v
<1>4. /\ t \in Seq(S) /\ Len(t) = Len(u) + Len(v)
      /\ \A j \in 1..(Len(u) + Len(v)) : t[j] = IF j <= Len(u) THEN u[j] ELSE v[j - Len(u)]
  <2>1. u \in Seq(S) /\ v \in Seq(S)
    BY <1>2, <1>3
  <2> QED
    BY <2>1, ConcatProperties
<1>5. RemoveAt(s, i) = t
  BY DEF RemoveAt, u, v
<1> HIDE DEF t
<1>6. Len(t) = Len(s) - 1
  BY <1>1, <1>2, <1>3, <1>4
<1>7. \A j \in 1..(Len(s) - 1) : t[j] = IF j < i THEN s[j] ELSE s[j + 1]
  <2> SUFFICES ASSUME NEW j \in 1..(Len(s) - 1)
               PROVE  t[j] = IF j < i THEN s[j] ELSE s[j + 1]
    OBVIOUS
  <2>1. CASE j < i
    <3>0. j \in 1..(Len(u) + Len(v)) /\ j <= Len(u) /\ j \in 1..(i - 1)
      BY <2>1, <1>1, <1>2, <1>3
    <3>1. t[j] = u[j]
      BY <3>0, <1>4
    <3> QED
      BY <2>1, <3>0, <3>1, <1>2
  <2>2. CASE ~(j < i)
    <3>1. j - (i - 1) \in 1..(Len(s) - i) /\ i + (j - (i - 1)) = j + 1
      BY <2>2, <1>1
    <3>2. t[j] = v[j - (i - 1)]
      <4>1. j \in 1..(Len(u) + Len(v)) /\ ~(j <= Len(u)) /\ Len(u) = i - 1
        BY <2>2, <1>1, <1>2, <1>3
      <4> QED
        BY <4>1, <1>4
    <3>3. v[j - (i - 1)] = s[i + (j - (i - 1))]
      BY <3>1, <1>3
    <3> QED
      BY <2>2, <3>1, <3>2, <3>3
  <2> QED
    BY <2>1, <2>2
<1> QED
  BY <1>4, <1>5, <1>6, <1>7

\* Removing an element of a sequence without repetitions.
LEMMA OneRemoved ==
  ASSUME NEW S, NEW s \in Seq(S), IsInjective(s), NEW i \in 1..Len(s)
  PROVE  /\ IsInjective(RemoveAt(s, i))
         /\ \A x : Contains(RemoveAt(s, i), x) <=> Contains(s, x) /\ x # s[i]
<1> DEFINE t == RemoveAt(s, i)
           old(j) == IF j < i THEN j ELSE j + 1
<1>1. /\ Len(s) \in Nat /\ DOMAIN s = 1..Len(s) /\ i \in Nat
      /\ \A m, n \in 1..Len(s) : s[m] = s[n] => m = n
  BY LenProperties DEF IsInjective
<1>2. t \in Seq(S) /\ Len(t) = Len(s) - 1 /\ \A j \in 1..Len(t) : t[j] = s[old(j)]
  BY <1>1, Removal
<1>3. DOMAIN t = 1..Len(t)
  BY <1>2, LenProperties
<1>4. \A j \in 1..Len(t) : old(j) \in 1..Len(s) /\ old(j) # i
  BY <1>1, <1>2
<1>5. \A j, k \in 1..Len(t) : old(j) = old(k) => j = k
  BY <1>1, <1>2
<1>6. \A n \in 1..Len(s) : n # i => \E j \in 1..Len(t) : old(j) = n
  <2> SUFFICES ASSUME NEW n \in 1..Len(s), n # i
               PROVE  \E j \in 1..Len(t) : old(j) = n
    OBVIOUS
  <2>1. CASE n < i
    <3>1. n \in 1..Len(t) /\ old(n) = n
      BY <1>1, <1>2, <2>1
    <3> QED
      BY <3>1
  <2>2. CASE ~(n < i)
    <3>1. n - 1 \in 1..Len(t) /\ old(n - 1) = n
      BY <1>1, <1>2, <2>2
    <3> QED
      BY <3>1
  <2> QED
    BY <2>1, <2>2
<1> HIDE DEF t, old
<1>7. IsInjective(t)
  <2> SUFFICES ASSUME NEW j \in 1..Len(t), NEW k \in 1..Len(t), t[j] = t[k]
               PROVE  j = k
    BY <1>3 DEF IsInjective
  <2>1. s[old(j)] = s[old(k)] /\ old(j) \in 1..Len(s) /\ old(k) \in 1..Len(s)
    BY <1>2, <1>4
  <2>2. old(j) = old(k)
    BY <1>1, <2>1
  <2> QED
    BY <1>5, <2>2
<1>8. \A x : Contains(t, x) <=> Contains(s, x) /\ x # s[i]
  <2> SUFFICES ASSUME NEW x
               PROVE  Contains(t, x) <=> Contains(s, x) /\ x # s[i]
    OBVIOUS
  <2>1. ASSUME Contains(t, x)
        PROVE  Contains(s, x) /\ x # s[i]
    <3>1. PICK j \in 1..Len(t) : t[j] = x
      BY <2>1 DEF Contains
    <3> QED
      BY <1>1, <1>2, <1>4, <3>1 DEF Contains
  <2>2. ASSUME Contains(s, x), x # s[i]
        PROVE  Contains(t, x)
    <3>1. PICK n \in 1..Len(s) : s[n] = x
      BY <2>2 DEF Contains
    <3>2. PICK j \in 1..Len(t) : old(j) = n
      BY <1>6, <2>2, <3>1
    <3> QED
      BY <1>2, <3>1, <3>2 DEF Contains
  <2> QED
    BY <2>1, <2>2
<1> QED
  BY <1>7, <1>8 DEF t

\* Appending an element that is not there.
LEMMA OneAppended ==
  ASSUME NEW S, NEW s \in Seq(S), IsInjective(s), NEW e \in S, ~Contains(s, e)
  PROVE  /\ IsInjective(Append(s, e))
         /\ \A x : Contains(Append(s, e), x) <=> Contains(s, x) \/ x = e
<1> DEFINE t == Append(s, e)
<1>1. /\ Len(s) \in Nat /\ DOMAIN s = 1..Len(s)
      /\ \A m, n \in 1..Len(s) : s[m] = s[n] => m = n
      /\ \A n \in 1..Len(s) : s[n] # e
  BY LenProperties DEF IsInjective, Contains
<1>2. /\ t \in Seq(S) /\ Len(t) = Len(s) + 1 /\ t[Len(s) + 1] = e
      /\ \A n \in 1..Len(s) : t[n] = s[n]
  BY AppendProperties
<1>3. DOMAIN t = 1..Len(t)
  BY <1>2, LenProperties
<1> HIDE DEF t
<1>4. /\ \A n \in 1..Len(t) : n \in 1..Len(s) \/ n = Len(s) + 1
      /\ \A n \in 1..Len(s) : n \in 1..Len(t) /\ n # Len(s) + 1
      /\ Len(s) + 1 \in 1..Len(t)
  BY <1>1, <1>2
<1>5. IsInjective(t)
  BY <1>1, <1>2, <1>3, <1>4 DEF IsInjective
<1>6. \A x : Contains(t, x) <=> Contains(s, x) \/ x = e
  BY <1>2, <1>4 DEF Contains
<1> QED
  BY <1>5, <1>6 DEF t

\* RemoveFirst removes the one place where the element is, if there is one.
LEMMA FirstPlace ==
  ASSUME NEW S, NEW s \in Seq(S), IsInjective(s), NEW e
  PROVE  IF Contains(s, e)
         THEN \E i \in 1..Len(s) : s[i] = e /\ RemoveFirst(s, e) = RemoveAt(s, i)
         ELSE RemoveFirst(s, e) = s
<1>1. CASE Contains(s, e)
  <2>1. PICK i \in 1..Len(s) : s[i] = e
    BY <1>1 DEF Contains
  <2>2. {j \in 1..Len(s) : s[j] = e} = {i}
    <3>1. \A m, n \in 1..Len(s) : s[m] = s[n] => m = n
      BY LenProperties DEF IsInjective
    <3> QED
      BY <2>1, <3>1
  <2>3. Min({i}) = i
    BY <2>1 DEF Min
  <2>4. SelectInSeq(s, LAMBDA v : v = e) = i
    BY <2>2, <2>3 DEF SelectInSeq
  <2>5. RemoveFirst(s, e) = RemoveAt(s, i)
    BY <2>1, <2>4 DEF RemoveFirst
  <2> QED
    BY <1>1, <2>1, <2>5
<1>2. CASE ~Contains(s, e)
  BY <1>2 DEF RemoveFirst, Contains
<1> QED
  BY <1>1, <1>2

\* Removing an element, wherever it is, from a sequence without repetitions.
LEMMA FirstRemoved ==
  ASSUME NEW S, NEW s \in Seq(S), IsInjective(s), NEW e
  PROVE  /\ RemoveFirst(s, e) \in Seq(S) /\ IsInjective(RemoveFirst(s, e))
         /\ \A x : Contains(RemoveFirst(s, e), x) <=> Contains(s, x) /\ x # e
         /\ Len(RemoveFirst(s, e)) = IF Contains(s, e) THEN Len(s) - 1 ELSE Len(s)
<1>1. CASE Contains(s, e)
  <2>1. PICK i \in 1..Len(s) : s[i] = e /\ RemoveFirst(s, e) = RemoveAt(s, i)
    BY <1>1, FirstPlace
  <2>2. /\ RemoveAt(s, i) \in Seq(S) /\ IsInjective(RemoveAt(s, i))
        /\ Len(RemoveAt(s, i)) = Len(s) - 1
    BY Removal, OneRemoved
  <2>3. \A x : Contains(RemoveAt(s, i), x) <=> Contains(s, x) /\ x # s[i]
    BY OneRemoved
  <2> QED
    BY <1>1, <2>1, <2>2, <2>3
<1>2. CASE ~Contains(s, e)
  BY <1>2, FirstPlace
<1> QED
  BY <1>1, <1>2

-----------------------------------------------------------------------------
(* The order of the elements *)

\* x stands before y.
Earlier(s, x, y) == \E i, j \in 1..Len(s) : i < j /\ s[i] = x /\ s[j] = y

\* Removing an element keeps the order of the others.
LEMMA RemovedOrder ==
  ASSUME NEW S, NEW s \in Seq(S), IsInjective(s), NEW i \in 1..Len(s)
  PROVE  \A x, y : Earlier(RemoveAt(s, i), x, y) <=> Earlier(s, x, y) /\ x # s[i] /\ y # s[i]
<1> DEFINE t == RemoveAt(s, i)
           old(j) == IF j < i THEN j ELSE j + 1
           new(n) == IF n < i THEN n ELSE n - 1
<1>1. /\ Len(s) \in Nat /\ DOMAIN s = 1..Len(s) /\ i \in Nat
      /\ \A m, n \in 1..Len(s) : s[m] = s[n] => m = n
  BY LenProperties DEF IsInjective
<1>2. Len(t) = Len(s) - 1 /\ \A j \in 1..Len(t) : t[j] = s[old(j)]
  BY <1>1, Removal
<1>3. /\ \A j \in 1..Len(t) : old(j) \in 1..Len(s) /\ old(j) # i
      /\ \A j, k \in 1..Len(t) : j < k => old(j) < old(k)
  BY <1>1, <1>2
<1>4. /\ \A n \in 1..Len(s) : n # i => new(n) \in 1..Len(t) /\ old(new(n)) = n
      /\ \A m, n \in 1..Len(s) : m # i /\ n # i /\ m < n => new(m) < new(n)
  BY <1>1, <1>2
<1> HIDE DEF t, old, new
<1> SUFFICES ASSUME NEW x, NEW y
             PROVE  Earlier(t, x, y) <=> Earlier(s, x, y) /\ x # s[i] /\ y # s[i]
  BY DEF t
<1>5. ASSUME Earlier(t, x, y)
      PROVE  Earlier(s, x, y) /\ x # s[i] /\ y # s[i]
  <2>1. PICK j, k \in 1..Len(t) : j < k /\ t[j] = x /\ t[k] = y
    BY <1>5 DEF Earlier
  <2>2. /\ old(j) \in 1..Len(s) /\ old(k) \in 1..Len(s) /\ old(j) < old(k)
        /\ old(j) # i /\ old(k) # i /\ s[old(j)] = x /\ s[old(k)] = y
    BY <1>2, <1>3, <2>1
  <2> QED
    BY <1>1, <2>2 DEF Earlier
<1>6. ASSUME Earlier(s, x, y), x # s[i], y # s[i]
      PROVE  Earlier(t, x, y)
  <2>1. PICK m, n \in 1..Len(s) : m < n /\ s[m] = x /\ s[n] = y
    BY <1>6 DEF Earlier
  <2>2. m # i /\ n # i
    BY <1>6, <2>1
  <2>3. /\ new(m) \in 1..Len(t) /\ new(n) \in 1..Len(t) /\ new(m) < new(n)
        /\ old(new(m)) = m /\ old(new(n)) = n
    BY <1>4, <2>1, <2>2
  <2>4. t[new(m)] = x /\ t[new(n)] = y
    BY <1>2, <2>1, <2>3
  <2> QED
    BY <2>3, <2>4 DEF Earlier
<1> QED
  BY <1>5, <1>6

\* So does removing it wherever it is.
LEMMA FirstRemovedOrder ==
  ASSUME NEW S, NEW s \in Seq(S), IsInjective(s), NEW e
  PROVE  \A x, y : Earlier(RemoveFirst(s, e), x, y) <=> Earlier(s, x, y) /\ x # e /\ y # e
<1>1. CASE Contains(s, e)
  <2>1. PICK i \in 1..Len(s) : s[i] = e /\ RemoveFirst(s, e) = RemoveAt(s, i)
    BY <1>1, FirstPlace
  <2> QED
    BY <2>1, RemovedOrder
<1>2. CASE ~Contains(s, e)
  <2>1. RemoveFirst(s, e) = s
    BY <1>2, FirstPlace
  <2>2. \A x, y : Earlier(s, x, y) => x # e /\ y # e
    BY <1>2 DEF Earlier, Contains
  <2> QED
    BY <2>1, <2>2
<1> QED
  BY <1>1, <1>2

\* What is appended stands after everything else.
LEMMA AppendedOrder ==
  ASSUME NEW S, NEW s \in Seq(S), NEW e \in S
  PROVE  \A x, y : Earlier(Append(s, e), x, y) <=> Earlier(s, x, y) \/ (Contains(s, x) /\ y = e)
<1> DEFINE t == Append(s, e)
<1>1. /\ Len(s) \in Nat /\ Len(t) = Len(s) + 1 /\ t[Len(s) + 1] = e
      /\ \A n \in 1..Len(s) : t[n] = s[n]
  BY AppendProperties, LenProperties
<1> HIDE DEF t
<1>2. /\ \A j, k \in 1..Len(t) : j < k => j \in 1..Len(s)
      /\ \A n \in 1..Len(t) : n \in 1..Len(s) \/ n = Len(s) + 1
      /\ \A n \in 1..Len(s) : n \in 1..Len(t) /\ n < Len(s) + 1
      /\ Len(s) + 1 \in 1..Len(t)
  BY <1>1
<1> SUFFICES ASSUME NEW x, NEW y
             PROVE  Earlier(t, x, y) <=> Earlier(s, x, y) \/ (Contains(s, x) /\ y = e)
  BY DEF t
<1>3. ASSUME Earlier(t, x, y)
      PROVE  Earlier(s, x, y) \/ (Contains(s, x) /\ y = e)
  <2>1. PICK j, k \in 1..Len(t) : j < k /\ t[j] = x /\ t[k] = y
    BY <1>3 DEF Earlier
  <2>2. j \in 1..Len(s) /\ s[j] = x
    BY <1>1, <1>2, <2>1
  <2>3. CASE k \in 1..Len(s)
    BY <1>1, <2>1, <2>2, <2>3 DEF Earlier
  <2>4. CASE k = Len(s) + 1
    BY <1>1, <2>1, <2>2, <2>4 DEF Contains
  <2> QED
    BY <1>2, <2>1, <2>3, <2>4
<1>4. ASSUME Earlier(s, x, y)
      PROVE  Earlier(t, x, y)
  BY <1>1, <1>2, <1>4 DEF Earlier
<1>5. ASSUME Contains(s, x), y = e
      PROVE  Earlier(t, x, y)
  <2>1. PICK j \in 1..Len(s) : s[j] = x
    BY <1>5 DEF Contains
  <2> QED
    BY <1>1, <1>2, <1>5, <2>1 DEF Earlier
<1> QED
  BY <1>3, <1>4, <1>5

-----------------------------------------------------------------------------
\* A sequence without repetitions has as many elements as it has places.
LEMMA CountOfDistinct ==
  ASSUME NEW S, NEW s \in Seq(S), IsInjective(s)
  PROVE  /\ IsFiniteSet({x \in S : Contains(s, x)})
         /\ Cardinality({x \in S : Contains(s, x)}) = Len(s)
<1> DEFINE C == {x \in S : Contains(s, x)}
<1>1. Len(s) \in Nat /\ DOMAIN s = 1..Len(s) /\ s \in [1..Len(s) -> S]
  BY LenProperties
<1>2. s \in [1..Len(s) -> C]
  BY <1>1 DEF Contains
<1>3. s \in Surjection(1..Len(s), C)
  BY <1>2 DEF Surjection, Contains
<1>4. s \in Injection(1..Len(s), C)
  BY <1>2 DEF Injection
<1> HIDE DEF C
<1>5. ExistsBijection(1..Len(s), C)
  BY <1>3, <1>4 DEF ExistsBijection, Bijection
<1> QED
  BY <1>1, <1>5, FS_CountingElements, FS_NatBijection DEF C

=============================================================================

-------------------------------- MODULE Queues --------------------------------
(***************************************************************************)
(* VecDeque::retain, which the queues of tests and mutations are filtered  *)
(* with, and what the proofs about them need to know of it.                *)
(***************************************************************************)
EXTENDS SequencesExt, FiniteSetTheorems, SequenceTheorems, TLAPS

\* What has been kept of the first i elements of a queue.
KeptUpTo(q, S) ==
    LET kept[i \in 0..Len(q)] ==
            IF i = 0 THEN <<>>
            ELSE IF q[i] \in S THEN Append(kept[i - 1], q[i]) ELSE kept[i - 1]
    IN  kept

\* The elements of a queue that are in S, in their order.
Keep(q, S) == KeptUpTo(q, S)[Len(q)]

-----------------------------------------------------------------------------
\* The least number of a set: sets of predecessors are ordered as the numbers are.
LEMMA LeastNatural ==
  ASSUME NEW P \in SUBSET Nat, P # {}
  PROVE  \E n \in P : \A m \in P : n <= m
<1> DEFINE Below == {1..n : n \in P}
<1>1. Below \subseteq FiniteSubsetsOf(Nat)
  BY FS_Interval DEF FiniteSubsetsOf
<1>2. Below # {}
  OBVIOUS
<1> HIDE DEF Below
<1>3. PICK b \in Below : \A c \in Below : <<c, b>> \notin StrictSubsetOrdering(Nat)
  BY <1>1, <1>2, FS_StrictSubsetOrderingWellFounded, WFMin
<1>4. PICK n \in P : b = 1..n
  BY DEF Below
<1>5. ASSUME NEW m \in P, m < n
      PROVE  FALSE
  <2>1. 1..m \in Below
    BY <1>5 DEF Below
  <2>2. 1..m \subseteq 1..n /\ n \in 1..n /\ n \notin 1..m
    BY <1>5
  <2>3. <<1..m, 1..n>> \in StrictSubsetOrdering(Nat)
    BY <2>2 DEF StrictSubsetOrdering
  <2> QED BY <2>1, <2>3, <1>3, <1>4
<1> QED BY <1>5

\* What the recursion of KeptUpTo says of the queues kept of each prefix.
KeptBy(f, q, S) ==
    f = [j \in 0..Len(q) |->
            IF j = 0 THEN <<>>
            ELSE IF q[j] \in S THEN Append(f[j - 1], q[j]) ELSE f[j - 1]]

\* Every prefix of a queue has been filtered by a function as the recursion describes it.
LEMMA KeptExists ==
  ASSUME NEW T, NEW q \in Seq(T), NEW S
  PROVE  \E f : KeptBy(f, q, S)
<1> DEFINE Step(f, i) == IF i = 0 THEN <<>>
                         ELSE IF q[i] \in S THEN Append(f[i - 1], q[i]) ELSE f[i - 1]
           Missing == {n \in 0..Len(q) : ~\E f : f = [i \in 0..n |-> Step(f, i)]}
<1>1. Missing \in SUBSET Nat
  OBVIOUS
<1>2. ASSUME Missing # {}
      PROVE  FALSE
  <2> HIDE DEF Missing
  <2>1. PICK n \in Missing : \A m \in Missing : n <= m
    BY <1>1, <1>2, LeastNatural
  <2> USE DEF Missing
  <2>2. n # 0
    <3>1. [i \in 0..0 |-> <<>>] = [i \in 0..0 |-> Step([j \in 0..0 |-> <<>>], i)]
      OBVIOUS
    <3> QED BY <3>1
  <2> HIDE DEF Missing
  <2>3. n \in 1..Len(q) /\ n - 1 \in 0..Len(q) /\ n - 1 \notin Missing
    <3>1. n \in 0..Len(q) /\ Len(q) \in Nat
      BY DEF Missing
    <3> QED BY <2>1, <2>2, <3>1
  <2> USE DEF Missing
  <2>4. PICK f : f = [i \in 0..(n - 1) |-> Step(f, i)]
    BY <2>3
  <2> DEFINE g == [i \in 0..n |-> Step(f, i)]
  <2> HIDE DEF Step, Missing
  <2>5. \A i \in 0..(n - 1) : g[i] = f[i]
    <3> SUFFICES ASSUME NEW i \in 0..(n - 1) PROVE g[i] = f[i]
      OBVIOUS
    <3>1. f[i] = Step(f, i)
      BY <2>4
    <3>2. i \in 0..n
      BY <2>3
    <3> QED BY <3>1, <3>2
  <2>6. \A i \in 0..n : Step(g, i) = Step(f, i)
    <3> SUFFICES ASSUME NEW i \in 0..n PROVE Step(g, i) = Step(f, i)
      OBVIOUS
    <3>1. i = 0 \/ g[i - 1] = f[i - 1]
      BY <2>5, <2>3
    <3> QED BY <3>1 DEF Step
  <2>7. g = [i \in 0..n |-> Step(g, i)]
    BY <2>6
  <2> QED BY <2>7 DEF Missing
<1>3. Len(q) \in 0..Len(q)
  OBVIOUS
<1> QED BY <1>2, <1>3 DEF KeptBy

\* The recursion of KeptUpTo, unfolded.
LEMMA KeptRecursion ==
  ASSUME NEW T, NEW q \in Seq(T), NEW S, NEW i \in 0..Len(q)
  PROVE  KeptUpTo(q, S)[i] =
           IF i = 0 THEN <<>>
           ELSE IF q[i] \in S THEN Append(KeptUpTo(q, S)[i - 1], q[i]) ELSE KeptUpTo(q, S)[i - 1]
<1>1. KeptUpTo(q, S) = CHOOSE f : KeptBy(f, q, S)
  BY DEF KeptUpTo, KeptBy
<1>2. \E f : KeptBy(f, q, S)
  BY KeptExists
<1>3. KeptBy(KeptUpTo(q, S), q, S)
  BY <1>1, <1>2
<1> QED BY <1>3 DEF KeptBy

\* What a filtered queue holds: it is a queue of the kept elements, and each of them once if the
\* queue it comes from held it once.
Kept(k, q, n, S) ==
    /\ k \in Seq({q[i] : i \in 1..n} \cap S)
    /\ {q[i] : i \in 1..n} \cap S \subseteq ToSet(k)
    /\ IsInjective(q) => IsInjective(k)

\* What is kept of each part of the queue, from its front, is what Kept says.
LEMMA KeptAsItGoes ==
  ASSUME NEW T, NEW q \in Seq(T), NEW S
  PROVE  \A n \in 0..Len(q) : Kept(KeptUpTo(q, S)[n], q, n, S)
<1> DEFINE Wrong == {n \in 0..Len(q) : ~Kept(KeptUpTo(q, S)[n], q, n, S)}
<1>1. ASSUME Wrong # {}
      PROVE  FALSE
  <2>0. Wrong \in SUBSET Nat
    OBVIOUS
  <2> HIDE DEF Wrong
  <2>1. PICK n \in Wrong : \A m \in Wrong : n <= m
    BY <2>0, <1>1, LeastNatural
  <2>2. n \in 0..Len(q) /\ Len(q) \in Nat /\ ~Kept(KeptUpTo(q, S)[n], q, n, S)
    BY DEF Wrong
  <2>3. n # 0
    <3>1. Kept(<<>>, q, 0, S)
      BY DEF Kept, IsInjective, ToSet
    <3> QED BY <3>1, <2>2, KeptRecursion
  <2>4. n \in 1..Len(q) /\ n - 1 \in 0..Len(q) /\ n - 1 \notin Wrong
    BY <2>1, <2>2, <2>3
  <2> DEFINE k == KeptUpTo(q, S)[n - 1]
             Before == {q[i] : i \in 1..(n - 1)}
             Upto == {q[i] : i \in 1..n}
  <2>5. Kept(k, q, n - 1, S)
    BY <2>4 DEF Wrong
  <2>6. Upto = Before \cup {q[n]}
    <3>1. 1..n = 1..(n - 1) \cup {n}
      BY <2>4
    <3> QED BY <3>1
  <2>7. CASE q[n] \notin S
    <3>1. KeptUpTo(q, S)[n] = k
      BY <2>2, <2>3, <2>7, KeptRecursion
    <3>2. Upto \cap S = Before \cap S
      BY <2>6, <2>7
    <3> QED BY <3>1, <3>2, <2>2, <2>5 DEF Kept
  <2>8. CASE q[n] \in S
    <3> DEFINE l == Append(k, q[n])
    <3>1. KeptUpTo(q, S)[n] = l
      BY <2>2, <2>3, <2>8, KeptRecursion
    <3>2. k \in Seq(Before \cap S) /\ Before \cap S \subseteq ToSet(k)
      BY <2>5 DEF Kept
    <3>3. Upto \cap S = (Before \cap S) \cup {q[n]}
      BY <2>6, <2>8
    <3> HIDE DEF k, Before, Upto
    <3>4. k \in Seq(Upto \cap S) /\ q[n] \in Upto \cap S
      BY <3>2, <3>3, SeqMonotonic
    <3>5. l \in Seq(Upto \cap S) /\ Len(l) = Len(k) + 1
      BY <3>4
    <3>6. \A i \in 1..Len(l) : l[i] = IF i = Len(l) THEN q[n] ELSE k[i]
      BY <3>4
    <3>7. ToSet(l) = ToSet(k) \cup {q[n]}
      BY <3>4, <3>5, <3>6 DEF ToSet
    <3>8. ASSUME IsInjective(q)
          PROVE  IsInjective(l)
      <4>1. IsInjective(k)
        BY <3>8, <2>5 DEF Kept
      <4>2. q[n] \notin Before
        BY <3>8, <2>4 DEF IsInjective, Before
      <4>3. \A i \in 1..Len(k) : k[i] # q[n]
        BY <3>2, <4>2
      <4> QED BY <4>1, <4>3, <3>4, <3>5, <3>6 DEF IsInjective
    <3>9. Kept(l, q, n, S)
      BY <3>2, <3>3, <3>5, <3>7, <3>8 DEF Kept, Upto
    <3> QED BY <3>1, <3>9, <2>2
  <2> QED BY <2>7, <2>8
<1> QED BY <1>1

\* Keep keeps the elements in S and no others, and none twice that was not there twice.
THEOREM KeepKeeps ==
  ASSUME NEW T, NEW q \in Seq(T), NEW S
  PROVE  /\ Keep(q, S) \in Seq(T)
         /\ ToSet(Keep(q, S)) = ToSet(q) \cap S
         /\ IsInjective(q) => IsInjective(Keep(q, S))
<1>1. Kept(Keep(q, S), q, Len(q), S)
  BY KeptAsItGoes DEF Keep
<1>2. {q[i] : i \in 1..Len(q)} = ToSet(q) /\ ToSet(q) \subseteq T
  BY DEF ToSet
<1>3. Keep(q, S) \in Seq(ToSet(q) \cap S) /\ ToSet(q) \cap S \subseteq ToSet(Keep(q, S))
  BY <1>1, <1>2 DEF Kept
<1>4. ToSet(Keep(q, S)) \subseteq ToSet(q) \cap S
  BY <1>3 DEF ToSet
<1>5. Keep(q, S) \in Seq(T)
  BY <1>2, <1>3, SeqMonotonic
<1> QED BY <1>1, <1>3, <1>4, <1>5 DEF Kept

\* What is popped from the front of a queue, and what is left of it.
THEOREM PopLeaves ==
  ASSUME NEW T, NEW q \in Seq(T), q # <<>>
  PROVE  /\ Head(q) = q[1] /\ q[1] \in T /\ 1 \in DOMAIN q
         /\ Tail(q) \in Seq(T) /\ Len(q) = Len(Tail(q)) + 1
         /\ \A i \in DOMAIN Tail(q) : i + 1 \in DOMAIN q /\ Tail(q)[i] = q[i + 1]
         /\ ToSet(q) = ToSet(Tail(q)) \cup {q[1]}
         /\ IsInjective(q) => IsInjective(Tail(q)) /\ q[1] \notin ToSet(Tail(q))
<1>1. /\ Head(q) = q[1] /\ q[1] \in T /\ 1 \in DOMAIN q
      /\ Tail(q) \in Seq(T) /\ Len(q) = Len(Tail(q)) + 1
      /\ \A i \in DOMAIN Tail(q) : i + 1 \in DOMAIN q /\ Tail(q)[i] = q[i + 1]
  OBVIOUS
<1>2. \A i \in DOMAIN q : i = 1 \/ (i - 1 \in DOMAIN Tail(q) /\ q[i] = Tail(q)[i - 1])
  OBVIOUS
<1>3. ToSet(q) \subseteq ToSet(Tail(q)) \cup {q[1]}
  <2> SUFFICES ASSUME NEW i \in DOMAIN q PROVE q[i] \in ToSet(Tail(q)) \cup {q[1]}
    BY DEF ToSet
  <2> QED BY <1>2 DEF ToSet
<1>4. ToSet(Tail(q)) \cup {q[1]} \subseteq ToSet(q)
  <2> SUFFICES ASSUME NEW i \in DOMAIN Tail(q) PROVE Tail(q)[i] \in ToSet(q)
    BY <1>1 DEF ToSet
  <2> QED BY <1>1 DEF ToSet
<1>5. ASSUME IsInjective(q)
      PROVE  IsInjective(Tail(q)) /\ q[1] \notin ToSet(Tail(q))
  <2> HIDE DEF IsInjective
  <2>1. \A i, j \in DOMAIN q : q[i] = q[j] => i = j
    BY <1>5 DEF IsInjective
  <2>2. \A i, j \in DOMAIN Tail(q) : Tail(q)[i] = Tail(q)[j] => i = j
    BY <2>1, <1>1
  <2>3. \A i \in DOMAIN Tail(q) : Tail(q)[i] # q[1]
    BY <2>1, <1>1
  <2> QED BY <2>2, <2>3 DEF IsInjective, ToSet
<1> QED BY <1>1, <1>3, <1>4, <1>5

\* A queue behind one more element.
THEOREM PushFrontHolds ==
  ASSUME NEW T, NEW q \in Seq(T), NEW e \in T
  PROVE  /\ <<e>> \o q \in Seq(T) /\ Len(<<e>> \o q) = Len(q) + 1 /\ (<<e>> \o q)[1] = e
         /\ \A i \in DOMAIN q : (<<e>> \o q)[i + 1] = q[i]
         /\ Head(<<e>> \o q) = e /\ Tail(<<e>> \o q) = q
         /\ ToSet(<<e>> \o q) = ToSet(q) \cup {e}
         /\ IsInjective(q) /\ e \notin ToSet(q) => IsInjective(<<e>> \o q)
<1> DEFINE p == <<e>> \o q
<1>1. /\ p \in Seq(T) /\ Len(p) = Len(q) + 1 /\ p[1] = e /\ p # <<>>
      /\ \A i \in DOMAIN q : i + 1 \in DOMAIN p /\ p[i + 1] = q[i]
      /\ \A i \in DOMAIN p : i = 1 \/ (i - 1 \in DOMAIN q /\ p[i] = q[i - 1])
  OBVIOUS
<1> HIDE DEF p
<1>2. Head(p) = e /\ Tail(p) = q
  <2>1. Tail(p) \in Seq(T) /\ Len(Tail(p)) = Len(q)
    BY <1>1, PopLeaves
  <2>2. ASSUME NEW i \in 1..Len(q)
        PROVE  Tail(p)[i] = q[i]
    <3>1. Tail(p)[i] = p[i + 1]
      BY <1>1, <2>1, PopLeaves
    <3> QED BY <1>1, <3>1
  <2> QED BY <1>1, <2>1, <2>2, SeqEqual
<1>3. ToSet(p) = ToSet(q) \cup {e}
  BY <1>1, <1>2, PopLeaves
<1>4. ASSUME IsInjective(q), e \notin ToSet(q)
      PROVE  IsInjective(p)
  <2>1. \A i \in DOMAIN q : q[i] # e
    BY <1>4 DEF ToSet
  <2>2. \A i, j \in DOMAIN q : q[i] = q[j] => i = j
    BY <1>4 DEF IsInjective
  <2>3. \A i, j \in DOMAIN p : p[i] = p[j] => i = j
    <3> SUFFICES ASSUME NEW i \in DOMAIN p, NEW j \in DOMAIN p, p[i] = p[j] PROVE i = j
      OBVIOUS
    <3>1. CASE i # 1 /\ j # 1
      BY <3>1, <1>1, <2>2
    <3>2. CASE i = 1 \/ j = 1
      BY <3>2, <1>1, <2>1
    <3> QED BY <3>1, <3>2
  <2> QED BY <2>3 DEF IsInjective
<1> QED BY <1>1, <1>2, <1>3, <1>4 DEF p

\* A queue is its first element before the rest.
COROLLARY PopAndPush ==
  ASSUME NEW T, NEW q \in Seq(T), q # <<>>
  PROVE  <<q[1]>> \o Tail(q) = q
<1> DEFINE p == <<q[1]>> \o Tail(q)
<1>1. /\ q[1] \in T /\ Tail(q) \in Seq(T) /\ Len(q) = Len(Tail(q)) + 1
      /\ \A i \in DOMAIN Tail(q) : Tail(q)[i] = q[i + 1]
  BY PopLeaves
<1>2. /\ p \in Seq(T) /\ Len(p) = Len(q) /\ p[1] = q[1]
      /\ \A i \in DOMAIN Tail(q) : p[i + 1] = Tail(q)[i]
  BY <1>1, PushFrontHolds
<1> HIDE DEF p
<1>3. ASSUME NEW i \in 1..Len(q)
      PROVE  p[i] = q[i]
  <2>1. CASE i # 1
    <3> DEFINE j == i - 1
    <3>1. j \in DOMAIN Tail(q) /\ i = j + 1
      BY <2>1, <1>1
    <3> HIDE DEF j
    <3> QED BY <3>1, <1>1, <1>2
  <2> QED BY <2>1, <1>2
<1>4. p = q
  BY <1>2, <1>3, SeqEqual
<1> QED BY <1>4 DEF p

\* What comes behind a queue is behind what is left of it.
LEMMA PopBefore ==
  ASSUME NEW T, NEW q \in Seq(T), NEW r \in Seq(T), q # <<>>
  PROVE  Tail(q \o r) = Tail(q) \o r
<1> DEFINE p == Tail(q \o r)
           s == Tail(q) \o r
<1>1. q \o r \in Seq(T) /\ q \o r # <<>> /\ Len(q \o r) = Len(q) + Len(r) /\ Len(q) >= 1
  OBVIOUS
<1>2. p \in Seq(T) /\ s \in Seq(T) /\ Len(p) = Len(s)
  BY <1>1
<1>3. ASSUME NEW i \in 1..Len(p)
      PROVE  p[i] = s[i]
  <2>1. p[i] = (q \o r)[i + 1]
    BY <1>1
  <2>2. Len(p) = (Len(q) + Len(r)) - 1 /\ Len(q) \in Nat /\ Len(r) \in Nat
    BY <1>1
  <2>3. CASE i < Len(q)
    BY <2>1, <2>2, <2>3, <1>1
  <2>4. CASE i >= Len(q)
    <3>1. s[i] = r[i - (Len(q) - 1)]
      BY <2>2, <2>4, <1>1
    <3>2. (q \o r)[i + 1] = r[(i + 1) - Len(q)]
      BY <2>2, <2>4, <1>1
    <3>3. i - (Len(q) - 1) = (i + 1) - Len(q)
      BY <2>2
    <3> QED BY <2>1, <3>1, <3>2, <3>3
  <2> QED BY <2>2, <2>3, <2>4
<1> HIDE DEF p, s
<1>4. p = s
  BY <1>2, <1>3
<1> QED BY <1>4 DEF p, s

\* What is left of a queue of which one element was taken from within.
LEMMA RemoveAtLeaves ==
  ASSUME NEW T, NEW q \in Seq(T), NEW i \in DOMAIN q
  PROVE  RemoveAt(q, i) \in Seq(T) /\ ToSet(RemoveAt(q, i)) \subseteq ToSet(q)
<1> DEFINE front == SubSeq(q, 1, i - 1)
           back == SubSeq(q, i + 1, Len(q))
<1>1. i \in 1..Len(q) /\ Len(q) \in Nat
  OBVIOUS
<1>2. front \in Seq(T) /\ \A k \in DOMAIN front : k \in DOMAIN q /\ front[k] = q[k]
  BY <1>1
<1>3. back \in Seq(T) /\ \A k \in DOMAIN back : k + i \in DOMAIN q /\ back[k] = q[k + i]
  BY <1>1
<1>4. RemoveAt(q, i) = front \o back
  BY DEF RemoveAt
<1> HIDE DEF front, back
<1>5. front \o back \in Seq(T) /\ \A k \in DOMAIN (front \o back) : \E j \in DOMAIN q : (front \o back)[k] = q[j]
  <2>1. front \o back \in Seq(T) /\ Len(front \o back) = Len(front) + Len(back) /\ Len(front) \in Nat /\ Len(back) \in Nat
    BY <1>2, <1>3
  <2>2. ASSUME NEW k \in DOMAIN (front \o back)
        PROVE  \E j \in DOMAIN q : (front \o back)[k] = q[j]
    <3>1. CASE k <= Len(front)
      <4>1. k \in DOMAIN front /\ (front \o back)[k] = front[k]
        BY <3>1, <2>1, <2>2, <1>2, <1>3
      <4> QED BY <4>1, <1>2
    <3>2. CASE k > Len(front)
      <4>1. k - Len(front) \in DOMAIN back /\ (front \o back)[k] = back[k - Len(front)]
        BY <3>2, <2>1, <2>2, <1>2, <1>3
      <4> QED BY <4>1, <1>3
    <3> QED BY <3>1, <3>2, <2>1, <2>2
  <2> QED BY <2>1, <2>2
<1> QED BY <1>4, <1>5 DEF ToSet

\* A queue that holds each element once is as long as there are elements.
LEMMA LengthIsCount ==
  ASSUME NEW T, NEW q \in Seq(T), IsInjective(q)
  PROVE  IsFiniteSet(ToSet(q)) /\ Cardinality(ToSet(q)) = Len(q)
<1>1. q \in [1..Len(q) -> ToSet(q)] /\ \A e \in ToSet(q) : \E i \in 1..Len(q) : q[i] = e
  BY DEF ToSet
<1>2. \A i, j \in 1..Len(q) : q[i] = q[j] => i = j
  BY DEF IsInjective
<1>3. q \in Bijection(1..Len(q), ToSet(q))
  BY <1>1, <1>2 DEF Bijection, Injection, Surjection
<1>4. IsFiniteSet(1..Len(q)) /\ Cardinality(1..Len(q)) = Len(q)
  <2>1. Len(q) \in Nat /\ 1 \in Int /\ Len(q) \in Int
    OBVIOUS
  <2>2. /\ IsFiniteSet(1..Len(q))
        /\ Cardinality(1..Len(q)) = IF 1 > Len(q) THEN 0 ELSE Len(q) - 1 + 1
    BY <2>1, FS_Interval
  <2> QED BY <2>1, <2>2
<1>5. ExistsBijection(1..Len(q), ToSet(q))
  BY <1>3 DEF ExistsBijection
<1> QED BY <1>4, <1>5, FS_Bijection
================================================================================

------------------------- MODULE RefereeLockProofs -------------------------
(***************************************************************************)
(* Lemmas about the queue of a lock of the referee: how many clients a     *)
(* wake-up takes out of it, which ones, and what is left. They hold for    *)
(* queues of any length and for any wake-up values.                        *)
(***************************************************************************)
EXTENDS RefereeLock, FiniteSetTheorems, SequenceTheorems, TLAPS

\* The ranks of the elements of a finite set of integers are 1, 2, ... in the
\* order of the elements.
LEMMA RankOrder ==
    ASSUME NEW I \in SUBSET Int, IsFiniteSet(I)
    PROVE  /\ Cardinality(I) \in Nat
           /\ \A i \in I : Rank(I, i) \in 1 .. Cardinality(I)
           /\ \A i, j \in I : i < j => Rank(I, i) < Rank(I, j)
           /\ \A k \in 1 .. Cardinality(I) : \E i \in I : Rank(I, i) = k
<1> DEFINE Below(i) == {j \in I : j <= i}
<1>1. ASSUME NEW i \in I
      PROVE  /\ IsFiniteSet(Below(i)) /\ Cardinality(Below(i)) \in Nat
             /\ Cardinality(Below(i)) <= Cardinality(I)
             /\ Cardinality(Below(i)) # 0
  <2>1. Below(i) \in SUBSET I /\ i \in Below(i)
    BY <1>1
  <2> HIDE DEF Below
  <2>2. IsFiniteSet(Below(i)) /\ Cardinality(Below(i)) <= Cardinality(I)
    BY <2>1, FS_Subset
  <2>3. Cardinality(Below(i)) \in Nat
    BY <2>2, FS_CardinalityType
  <2>4. Below(i) # {}
    BY <2>1
  <2> QED
    BY <2>2, <2>3, <2>4, FS_EmptySet
<1>2. Cardinality(I) \in Nat
  BY FS_CardinalityType
<1>3. \A i \in I : Rank(I, i) \in 1 .. Cardinality(I)
  BY <1>1, <1>2 DEF Rank
<1>4. ASSUME NEW i \in I, NEW j \in I, i < j
      PROVE  Rank(I, i) < Rank(I, j)
  <2>1. Below(i) \in SUBSET Below(j) /\ j \in Below(j) /\ j \notin Below(i)
    <3>1. i \in Int /\ j \in Int
      OBVIOUS
    <3>2. j <= j /\ ~(j <= i)
      BY <1>4, <3>1
    <3>3. \A x \in I : x <= i => x <= j
      <4>1. \A x \in Int : x <= i => x <= j
        BY <1>4, <3>1
      <4> QED
        BY <4>1
    <3> QED
      BY <3>2, <3>3
  <2> HIDE DEF Below
  <2>2. IsFiniteSet(Below(j)) /\ Below(i) # Below(j)
    BY <1>1, <2>1
  <2>3. /\ Cardinality(Below(i)) <= Cardinality(Below(j))
        /\ Cardinality(Below(i)) # Cardinality(Below(j))
    BY <2>1, <2>2, FS_Subset
  <2>4. Cardinality(Below(i)) \in Nat /\ Cardinality(Below(j)) \in Nat
    BY <1>1
  <2>5. Cardinality(Below(i)) < Cardinality(Below(j))
    BY <2>3, <2>4
  <2> QED
    BY <2>5 DEF Rank, Below
<1>5. \A k \in 1 .. Cardinality(I) : \E i \in I : Rank(I, i) = k
  <2> DEFINE n == Cardinality(I)
             f == [i \in I |-> Rank(I, i)]
  <2>1. f \in [I -> 1 .. n]
    BY <1>3
  <2>2. \A i, j \in I : f[i] = f[j] => i = j
    <3>1. SUFFICES ASSUME NEW i \in I, NEW j \in I, f[i] = f[j], i # j PROVE FALSE
      OBVIOUS
    <3>2. i < j \/ j < i
      BY <3>1
    <3>3. Rank(I, i) \in Int /\ Rank(I, j) \in Int /\ Rank(I, i) = Rank(I, j)
      BY <1>3, <3>1
    <3> QED
      BY <1>4, <3>2, <3>3
  <2>3. f \in Injection(I, 1 .. n)
    BY <2>1, <2>2 DEF Injection, IsInjective
  <2>4. IsFiniteSet(1 .. n) /\ Cardinality(1 .. n) = n
    BY <1>2, FS_Interval
  <2> HIDE DEF f
  <2>5. f \in Surjection(I, 1 .. n)
    BY <2>3, <2>4, FS_Injection
  <2>6. \A k \in 1 .. n : \E i \in I : f[i] = k
    BY <2>5 DEF Surjection
  <2> QED
    BY <2>6 DEF f
<1> QED
  BY <1>2, <1>3, <1>4, <1>5

\* A sequence has as many indices as its length says.
LEMMA SeqDomainSize ==
    ASSUME NEW X, NEW q \in Seq(X)
    PROVE  IsFiniteSet(DOMAIN q) /\ Cardinality(DOMAIN q) = Len(q)
<1>1. DOMAIN q = 1 .. Len(q) /\ Len(q) \in Nat
  OBVIOUS
<1> QED
  BY <1>1, FS_Interval

\* The indices of the entries that stay.
Stay(q, gone) == DOMAIN q \ gone

\* What stays in a queue, and in which order: entry k of the new queue is the
\* entry of rank k among those that stay (drop_from_queue()).
LEMMA UnlinkEntries ==
    ASSUME NEW X, NEW q \in Seq(X), NEW gone \in SUBSET DOMAIN q
    PROVE  /\ Unlink(q, gone) \in Seq(X)
           /\ Len(Unlink(q, gone)) = Len(q) - Cardinality(gone)
           /\ \A k \in DOMAIN Unlink(q, gone) : \E i \in Stay(q, gone) :
                 Rank(Stay(q, gone), i) = k /\ Unlink(q, gone)[k] = q[i]
           /\ \A i \in Stay(q, gone) :
                 /\ Rank(Stay(q, gone), i) \in DOMAIN Unlink(q, gone)
                 /\ Unlink(q, gone)[Rank(Stay(q, gone), i)] = q[i]
<1> DEFINE stay == Stay(q, gone)
           u == Unlink(q, gone)
           n == Cardinality(stay)
           Of(k) == CHOOSE i \in stay : Rank(stay, i) = k
<1>1. DOMAIN q = 1 .. Len(q) /\ Len(q) \in Nat
  OBVIOUS
<1>2. /\ IsFiniteSet(DOMAIN q) /\ Cardinality(DOMAIN q) = Len(q)
      /\ IsFiniteSet(gone) /\ Cardinality(gone) \in Nat /\ IsFiniteSet(stay)
      /\ n = Len(q) - Cardinality(gone)
  <2>1. IsFiniteSet(DOMAIN q) /\ Cardinality(DOMAIN q) = Len(q)
    BY SeqDomainSize
  <2>2. IsFiniteSet(gone)
    BY <2>1, FS_Subset
  <2>3. Cardinality(gone) \in Nat
    BY <2>2, FS_CardinalityType
  <2>4. DOMAIN q \cap gone = gone
    OBVIOUS
  <2>5. IsFiniteSet(stay) /\ n = Cardinality(DOMAIN q) - Cardinality(DOMAIN q \cap gone)
    BY <2>1, FS_Difference DEF Stay
  <2> QED
    BY <2>1, <2>2, <2>3, <2>4, <2>5
<1>3. stay \in SUBSET Int
  BY <1>1 DEF Stay
<1> HIDE DEF stay
<1>4. /\ n \in Nat
      /\ \A i \in stay : Rank(stay, i) \in 1 .. n
      /\ \A i, j \in stay : i < j => Rank(stay, i) < Rank(stay, j)
      /\ \A k \in 1 .. n : \E i \in stay : Rank(stay, i) = k
  BY <1>2, <1>3, RankOrder
<1>5. u = [k \in 1 .. n |-> q[Of(k)]]
  BY DEF Unlink, stay, Stay
<1>6. \A k \in 1 .. n : Of(k) \in stay /\ Rank(stay, Of(k)) = k
  BY <1>4
<1>7. \A i \in stay : Of(Rank(stay, i)) = i
  <2>1. SUFFICES ASSUME NEW i \in stay, NEW j \in stay, Rank(stay, j) = Rank(stay, i)
                 PROVE  j = i
    BY <1>4, <1>6
  <2>2. Rank(stay, i) \in Int /\ i \in Int /\ j \in Int
    BY <1>3, <1>4
  <2> QED
    BY <1>4, <2>1, <2>2
<1> HIDE DEF Of, n
<1>8. \A k \in 1 .. n : u[k] = q[Of(k)] /\ q[Of(k)] \in X
  BY <1>5, <1>6 DEF stay, Stay
<1> HIDE DEF u
<1>9. u \in Seq(X) /\ Len(u) = n /\ DOMAIN u = 1 .. n
  BY <1>4, <1>5, <1>8
<1> QED
  BY <1>2, <1>4, <1>6, <1>7, <1>8, <1>9 DEF u, n, stay

\* A wake-up takes num clients out of the queue, or all the eligible ones if
\* there are fewer.
LEMMA WakeCount ==
    ASSUME NEW X, NEW q \in Seq(X), NEW num \in Nat, NEW val
    PROVE  LET e == Cardinality(Eligible(q, val))
               w == Cardinality(ToWake(q, num, val))
           IN  /\ e \in Nat /\ e <= Len(q)
               /\ w = IF num <= e THEN num ELSE e
<1> DEFINE E == Eligible(q, val)
           W == ToWake(q, num, val)
           n == Cardinality(E)
           m == IF num <= n THEN num ELSE n
           f == [i \in W |-> Rank(E, i)]
<1>1. DOMAIN q = 1 .. Len(q) /\ Len(q) \in Nat
  OBVIOUS
<1>2. E \in SUBSET DOMAIN q /\ E \in SUBSET Int
  BY <1>1 DEF Eligible
<1>3. IsFiniteSet(DOMAIN q) /\ Cardinality(DOMAIN q) = Len(q)
  BY SeqDomainSize
<1>4. IsFiniteSet(E) /\ n <= Len(q)
  BY <1>2, <1>3, FS_Subset
<1>5. W = {i \in E : Rank(E, i) <= num}
  BY DEF ToWake
<1> HIDE DEF E, W
<1>6. /\ n \in Nat
      /\ \A i \in E : Rank(E, i) \in 1 .. n
      /\ \A i, j \in E : i < j => Rank(E, i) < Rank(E, j)
      /\ \A k \in 1 .. n : \E i \in E : Rank(E, i) = k
  BY <1>2, <1>4, RankOrder
<1> HIDE DEF n
<1>7. m \in Nat /\ m <= n /\ m <= num
  BY <1>6
<1>8. f \in [W -> 1 .. m]
  BY <1>5, <1>6
<1>9. \A i, j \in W : f[i] = f[j] => i = j
  <2>1. SUFFICES ASSUME NEW i \in W, NEW j \in W, f[i] = f[j], i # j PROVE FALSE
    OBVIOUS
  <2>2. i \in E /\ j \in E /\ i \in Int /\ j \in Int
    BY <1>2, <1>5
  <2>3. Rank(E, i) \in Int /\ Rank(E, j) \in Int /\ Rank(E, i) = Rank(E, j)
    BY <1>6, <2>1, <2>2
  <2>4. i < j \/ j < i
    BY <2>1, <2>2
  <2> QED
    BY <1>6, <2>2, <2>3, <2>4
<1>10. \A k \in 1 .. m : \E i \in W : f[i] = k
  <2>1. SUFFICES ASSUME NEW k \in 1 .. m PROVE \E i \in W : f[i] = k
    OBVIOUS
  <2>2. k \in 1 .. n /\ k <= num
    BY <1>6, <1>7
  <2>3. PICK i \in E : Rank(E, i) = k
    BY <1>6, <2>2
  <2>4. i \in W /\ f[i] = k
    BY <1>5, <2>2, <2>3
  <2> QED
    BY <2>4
<1> HIDE DEF m
<1>11. f \in Injection(W, 1 .. m) /\ f \in Surjection(W, 1 .. m)
  BY <1>8, <1>9, <1>10 DEF Injection, IsInjective, Surjection
<1>12. IsFiniteSet(1 .. m) /\ Cardinality(1 .. m) = m
  BY <1>7, FS_Interval
<1>13. Cardinality(W) = m
  BY <1>11, <1>12, FS_Injection
<1> QED
  BY <1>4, <1>6, <1>13 DEF m, n, E, W
=============================================================================

---------------------------- MODULE QueueOps_proofs ----------------------------
(* What the queue operators return: facts about every sequence, used by the  *)
(* proofs about the kernel.                                                  *)
EXTENDS QueueOps, FiniteSetTheorems, SequenceTheorems, TLAPS

\* Appending to a sequence an element it lacks (push_back on a queue).
LEMMA AppendNew ==
    ASSUME NEW S, NEW s \in Seq(S), NEW x \in S
    PROVE  /\ Append(s, x) \in Seq(S)
           /\ ToSet(Append(s, x)) = ToSet(s) \cup {x}
           /\ IsInjective(s) /\ x \notin ToSet(s) => IsInjective(Append(s, x))
<1> DEFINE r == Append(s, x)
<1>1. /\ r \in Seq(S) /\ Len(r) = Len(s) + 1
      /\ \A i \in 1 .. Len(r) : r[i] = IF i = Len(s) + 1 THEN x ELSE s[i]
    OBVIOUS
<1> HIDE DEF r
<1>2. ToSet(r) \subseteq ToSet(s) \cup {x} BY <1>1 DEF ToSet
<1>3. x \in ToSet(r)
    <2>1. Len(s) + 1 \in 1 .. Len(r) BY <1>1
    <2> QED BY <1>1, <2>1 DEF ToSet
<1>4. ToSet(s) \subseteq ToSet(r)
    <2> SUFFICES ASSUME NEW i \in 1 .. Len(s) PROVE s[i] \in ToSet(r) BY DEF ToSet
    <2>1. i \in 1 .. Len(r) /\ r[i] = s[i] BY <1>1
    <2> QED BY <2>1, <1>1 DEF ToSet
<1>5. IsInjective(s) /\ x \notin ToSet(s) => IsInjective(r)
    BY <1>1 DEF IsInjective, ToSet
<1> QED BY <1>1, <1>2, <1>3, <1>4, <1>5 DEF r

\* Two sequences one after the other (a run of push_back, a push_front).
LEMMA ConcatDisjoint ==
    ASSUME NEW S, NEW s \in Seq(S), NEW u \in Seq(S)
    PROVE  /\ s \o u \in Seq(S)
           /\ ToSet(s \o u) = ToSet(s) \cup ToSet(u)
           /\ IsInjective(s) /\ IsInjective(u) /\ ToSet(s) \cap ToSet(u) = {}
                => IsInjective(s \o u)
<1> DEFINE r == s \o u
<1>1. /\ r \in Seq(S) /\ Len(r) = Len(s) + Len(u)
      /\ \A i \in 1 .. Len(r) : r[i] = IF i <= Len(s) THEN s[i] ELSE u[i - Len(s)]
    OBVIOUS
<1> HIDE DEF r
<1>2. ToSet(r) \subseteq ToSet(s) \cup ToSet(u)
    <2> SUFFICES ASSUME NEW i \in 1 .. Len(r) PROVE r[i] \in ToSet(s) \cup ToSet(u)
        BY <1>1 DEF ToSet
    <2>1. CASE i <= Len(s) BY <2>1, <1>1 DEF ToSet
    <2>2. CASE i > Len(s)
        <3>1. i - Len(s) \in 1 .. Len(u) BY <1>1, <2>2
        <3> QED BY <1>1, <2>2, <3>1 DEF ToSet
    <2> QED BY <2>1, <2>2, <1>1
<1>3. ToSet(s) \subseteq ToSet(r)
    <2> SUFFICES ASSUME NEW i \in 1 .. Len(s) PROVE s[i] \in ToSet(r) BY DEF ToSet
    <2>1. i \in 1 .. Len(r) /\ r[i] = s[i] BY <1>1
    <2> QED BY <2>1, <1>1 DEF ToSet
<1>4. ToSet(u) \subseteq ToSet(r)
    <2> SUFFICES ASSUME NEW i \in 1 .. Len(u) PROVE u[i] \in ToSet(r) BY DEF ToSet
    <2>1. i + Len(s) \in 1 .. Len(r) /\ r[i + Len(s)] = u[i] BY <1>1
    <2>2. i + Len(s) \in DOMAIN r BY <2>1, <1>1
    <2> QED BY <2>1, <2>2 DEF ToSet
<1>5. ASSUME IsInjective(s), IsInjective(u), ToSet(s) \cap ToSet(u) = {}
      PROVE  IsInjective(r)
    <2> SUFFICES ASSUME NEW i \in 1 .. Len(r), NEW j \in 1 .. Len(r), r[i] = r[j], i < j
                 PROVE  FALSE
        BY <1>1 DEF IsInjective
    <2>1. CASE j <= Len(s) BY <2>1, <1>1, <1>5 DEF IsInjective
    <2>2. CASE i > Len(s)
        <3>1. i - Len(s) \in 1 .. Len(u) /\ j - Len(s) \in 1 .. Len(u) BY <1>1, <2>2
        <3>2. u[i - Len(s)] = u[j - Len(s)] BY <1>1, <2>2
        <3>3. i - Len(s) = j - Len(s) BY <3>1, <3>2, <1>5 DEF IsInjective
        <3> QED BY <3>3
    <2>3. CASE i <= Len(s) /\ j > Len(s)
        <3>1. j - Len(s) \in 1 .. Len(u) /\ u[j - Len(s)] = s[i] BY <1>1, <2>3
        <3>2. s[i] \in ToSet(s) /\ s[i] \in ToSet(u) BY <3>1, <2>3 DEF ToSet
        <3> QED BY <3>2, <1>5
    <2> QED BY <2>1, <2>2, <2>3, <1>1
<1> QED BY <1>1, <1>2, <1>3, <1>4, <1>5 DEF r

\* Taking the first element off (pop_front).
LEMMA TailOf ==
    ASSUME NEW S, NEW s \in Seq(S), s # <<>>
    PROVE  /\ Head(s) \in S /\ Head(s) \in ToSet(s) /\ Tail(s) \in Seq(S)
           /\ ToSet(s) = ToSet(Tail(s)) \cup {Head(s)}
           /\ IsInjective(s) => IsInjective(Tail(s)) /\ Head(s) \notin ToSet(Tail(s))
<1> DEFINE r == Tail(s)
<1>1. /\ r \in Seq(S) /\ Len(r) = Len(s) - 1 /\ Len(s) >= 1
      /\ \A i \in 1 .. Len(r) : r[i] = s[i + 1]
      /\ Head(s) = s[1]
    OBVIOUS
<1> HIDE DEF r
<1>2. s[1] \in S /\ s[1] \in ToSet(s) BY <1>1 DEF ToSet
<1>3. ToSet(s) \subseteq ToSet(r) \cup {s[1]}
    <2> SUFFICES ASSUME NEW i \in 1 .. Len(s), i # 1 PROVE s[i] \in ToSet(r) BY DEF ToSet
    <2>1. i - 1 \in 1 .. Len(r) /\ r[i - 1] = s[i] BY <1>1
    <2> QED BY <2>1, <1>1 DEF ToSet
<1>4. ToSet(r) \subseteq ToSet(s)
    <2> SUFFICES ASSUME NEW i \in 1 .. Len(r) PROVE r[i] \in ToSet(s) BY <1>1 DEF ToSet
    <2>1. i + 1 \in 1 .. Len(s) /\ r[i] = s[i + 1] BY <1>1
    <2> QED BY <2>1 DEF ToSet
<1>5. ASSUME IsInjective(s) PROVE IsInjective(r) /\ s[1] \notin ToSet(r)
    <2>1. \A i \in 1 .. Len(s) : \A j \in 1 .. Len(s) : s[i] = s[j] => i = j
        BY <1>5 DEF IsInjective
    <2>2. IsInjective(r) BY <1>1, <2>1 DEF IsInjective
    <2>3. \A i \in 1 .. Len(r) : r[i] # s[1] BY <1>1, <2>1
    <2> QED BY <1>1, <2>2, <2>3 DEF ToSet
<1> QED BY <1>1, <1>2, <1>3, <1>4, <1>5 DEF r

\* Taking an element off wherever it is (std::find and erase).
LEMMA RemoveFirstAt ==
    ASSUME NEW S, NEW s \in Seq(S), IsInjective(s), NEW i \in 1 .. Len(s)
    PROVE  LET r == RemoveFirst(s, s[i]) IN
           /\ r \in Seq(S) /\ Len(r) = Len(s) - 1
           /\ \A j \in 1 .. Len(r) : r[j] = IF j < i THEN s[j] ELSE s[j + 1]
<1> DEFINE e == s[i]
<1>1. {j \in 1 .. Len(s) : s[j] = e} = {i} BY DEF IsInjective
<1>2. Min({i}) = i BY DEF Min
<1>3. RemoveFirst(s, e) = RemoveAt(s, i)
    BY <1>1, <1>2 DEF RemoveFirst, SelectInSeq
<1> DEFINE a == SubSeq(s, 1, i - 1)
           b == SubSeq(s, i + 1, Len(s))
<1>4. a \in Seq(S) /\ Len(a) = i - 1 /\ \A j \in 1 .. i - 1 : a[j] = s[j]
    OBVIOUS
<1>5. /\ b \in Seq(S) /\ Len(b) = Len(s) - i
      /\ \A j \in 1 .. Len(s) - i : b[j] = s[i + j]
    OBVIOUS
<1> HIDE DEF a, b
<1>6. a \o b \in Seq(S) /\ Len(a \o b) = Len(s) - 1
    <2>1. a \in Seq(S) /\ b \in Seq(S) BY <1>4, <1>5
    <2>2. a \o b \in Seq(S) /\ Len(a \o b) = Len(a) + Len(b) BY <2>1
    <2>3. Len(s) \in Nat /\ (i - 1) + (Len(s) - i) = Len(s) - 1 OBVIOUS
    <2> QED BY <1>4, <1>5, <2>2, <2>3
<1>7. \A j \in 1 .. Len(s) - 1 : (a \o b)[j] = IF j < i THEN s[j] ELSE s[j + 1]
    BY <1>4, <1>5
<1>8. RemoveAt(s, i) = a \o b BY DEF a, b, RemoveAt
<1> QED BY <1>3, <1>6, <1>7, <1>8

LEMMA RemoveFirstOf ==
    ASSUME NEW S, NEW s \in Seq(S), IsInjective(s), NEW e
    PROVE  /\ RemoveFirst(s, e) \in Seq(S)
           /\ ToSet(RemoveFirst(s, e)) = ToSet(s) \ {e}
           /\ IsInjective(RemoveFirst(s, e))
<1>1. CASE \E i \in 1 .. Len(s) : s[i] = e
    <2>1. PICK i \in 1 .. Len(s) : s[i] = e BY <1>1
    <2> DEFINE r == RemoveFirst(s, e)
    <2>5. /\ r \in Seq(S) /\ Len(r) = Len(s) - 1
          /\ \A j \in 1 .. Len(r) : r[j] = IF j < i THEN s[j] ELSE s[j + 1]
        BY <2>1, RemoveFirstAt
    <2> HIDE DEF r
    <2>6. IsInjective(r)
        <3> SUFFICES ASSUME NEW j \in 1 .. Len(r), NEW k \in 1 .. Len(r), r[j] = r[k]
                     PROVE  j = k
            BY <2>5 DEF IsInjective
        <3> DEFINE at(m) == IF m < i THEN m ELSE m + 1
        <3>1. at(j) \in 1 .. Len(s) /\ at(k) \in 1 .. Len(s) BY <2>5
        <3>2. s[at(j)] = s[at(k)] BY <2>5
        <3>3. at(j) = at(k) BY <3>1, <3>2 DEF IsInjective
        <3> QED BY <3>3
    <2>7. \A x \in ToSet(s) \ {e} : x \in ToSet(r)
        <3> SUFFICES ASSUME NEW j \in 1 .. Len(s), s[j] # e PROVE s[j] \in ToSet(r)
            BY DEF ToSet
        <3>1. CASE j < i BY <3>1, <2>5 DEF ToSet
        <3>2. CASE j > i
            <4>1. j - 1 \in 1 .. Len(r) /\ r[j - 1] = s[j] BY <3>2, <2>5
            <4> QED BY <4>1, <2>5 DEF ToSet
        <3> QED BY <3>1, <3>2, <2>1
    <2>8. ToSet(r) \subseteq ToSet(s) \ {e} BY <2>1, <2>5 DEF ToSet, IsInjective
    <2> QED BY <2>5, <2>6, <2>7, <2>8 DEF r
<1>2. CASE ~ \E i \in 1 .. Len(s) : s[i] = e BY <1>2 DEF RemoveFirst, ToSet
<1> QED BY <1>1, <1>2

\* The rank of an element in a finite set of integers is an injection into
\* 1 .. Cardinality(S), so it is onto.
LEMMA RankIsOnto ==
    ASSUME NEW S \in SUBSET Int, IsFiniteSet(S)
    PROVE  LET rank == [x \in S |-> Cardinality({y \in S : y <= x})]
           IN  /\ rank \in Surjection(S, 1 .. Cardinality(S))
               /\ IsInjective(rank)
<1> DEFINE below(x) == {y \in S : y <= x}
           n == Cardinality(S)
           rank == [x \in S |-> Cardinality(below(x))]
<1>1. n \in Nat BY FS_CardinalityType
<1>2. \A x \in S : /\ IsFiniteSet(below(x)) /\ Cardinality(below(x)) \in Nat
                   /\ Cardinality(below(x)) <= n /\ Cardinality(below(x)) # 0
    <2> TAKE x \in S
    <2>1. below(x) \in SUBSET S /\ x \in below(x) OBVIOUS
    <2>2. IsFiniteSet(below(x)) /\ Cardinality(below(x)) <= n BY <2>1, FS_Subset
    <2>3. Cardinality(below(x)) \in Nat BY <2>2, FS_CardinalityType
    <2>4. Cardinality(below(x)) # 0 BY <2>1, <2>2, FS_EmptySet
    <2> QED BY <2>2, <2>3, <2>4
<1>3. rank \in [S -> 1 .. n] BY <1>1, <1>2
<1>4. ASSUME NEW x \in S, NEW y \in S, x < y PROVE rank[x] # rank[y]
    <2>0. \A z \in S : z \in Int OBVIOUS
    <2>1. \A z \in S : z <= x => z <= y BY <1>4, <2>0
    <2>2. y <= y /\ ~ (y <= x) BY <1>4, <2>0
    <2>3. below(x) \in SUBSET below(y) /\ y \in below(y) /\ y \notin below(x) BY <2>1, <2>2
    <2>4. Cardinality(below(x)) # Cardinality(below(y))
        BY <2>3, <1>2, FS_Subset
    <2> QED BY <2>4
<1>5. IsInjective(rank) BY <1>3, <1>4 DEF IsInjective
<1>6. rank \in Injection(S, 1 .. n) BY <1>3, <1>5 DEF Injection
<1>7. IsFiniteSet(1 .. n) /\ Cardinality(1 .. n) = n BY <1>1, FS_Interval
<1>8. rank \in Surjection(S, 1 .. n) BY <1>6, <1>7, FS_Injection
<1> QED BY <1>5, <1>8

\* InOrder lists every element of a finite set of integers once.
LEMMA InOrderOf ==
    ASSUME NEW S \in SUBSET Int, IsFiniteSet(S)
    PROVE  /\ InOrder(S) \in Seq(S)
           /\ DOMAIN InOrder(S) = 1 .. Cardinality(S)
           /\ ToSet(InOrder(S)) = S
           /\ IsInjective(InOrder(S))
<1> DEFINE below(x) == {y \in S : y <= x}
           n == Cardinality(S)
           rank == [x \in S |-> Cardinality(below(x))]
<1>1. n \in Nat BY FS_CardinalityType
<1>3. rank \in Surjection(S, 1 .. n) /\ IsInjective(rank) BY RankIsOnto
<1>5. IsInjective(rank) BY <1>3
<1>8. rank \in Surjection(S, 1 .. n) BY <1>3
<1>9. \A k \in 1 .. n : \E x \in S : rank[x] = k BY <1>8 DEF Surjection
<1> DEFINE r == InOrder(S)
<1>10. DOMAIN r = 1 .. n BY DEF InOrder
<1>11. \A k \in 1 .. n : r[k] \in S /\ rank[r[k]] = k
    <2> TAKE k \in 1 .. n
    <2>1. r[k] = CHOOSE x \in S : Cardinality(below(x)) = k BY DEF InOrder
    <2>2. \E x \in S : Cardinality(below(x)) = k BY <1>9
    <2>3. r[k] \in S /\ Cardinality(below(r[k])) = k BY <2>1, <2>2
    <2> QED BY <2>3
<1>12. r \in [1 .. n -> S] BY <1>10, <1>11 DEF InOrder
<1> HIDE DEF rank, r, n
<1>13. IsInjective(r) BY <1>10, <1>11 DEF IsInjective
<1>14. \A x \in S : rank[x] \in 1 .. n /\ r[rank[x]] = x
    BY <1>3, <1>5, <1>11 DEF IsInjective, Surjection
<1>15. ToSet(r) = S
    <2>1. \A k \in DOMAIN r : r[k] \in S BY <1>10, <1>11
    <2>2. \A x \in S : rank[x] \in DOMAIN r /\ r[rank[x]] = x BY <1>10, <1>14
    <2> QED BY <2>1, <2>2 DEF ToSet
<1>16. r \in Seq(S) BY <1>1, <1>12, IsASeq
<1> QED BY <1>10, <1>13, <1>15, <1>16 DEF n, r

\* Filter keeps the elements that are in S, once if they came once.
LEMMA FilterOf ==
    ASSUME NEW T, NEW s \in Seq(T), NEW S
    PROVE  /\ Filter(s, S) \in Seq(T)
           /\ ToSet(Filter(s, S)) = ToSet(s) \cap S
           /\ IsInjective(s) => IsInjective(Filter(s, S))
<1> DEFINE I == {i \in DOMAIN s : s[i] \in S}
           places == InOrder(I)
           r == [k \in DOMAIN places |-> s[places[k]]]
<1>1. DOMAIN s = 1 .. Len(s) /\ Len(s) \in Nat OBVIOUS
<1>2. IsFiniteSet(DOMAIN s) BY <1>1, FS_Interval
<1>3. I \in SUBSET Int /\ IsFiniteSet(I) BY <1>1, <1>2, FS_Subset
<1>4. Cardinality(I) \in Nat BY <1>3, FS_CardinalityType
<1>5. /\ places \in Seq(I) /\ DOMAIN places = 1 .. Cardinality(I)
      /\ ToSet(places) = I /\ IsInjective(places)
    BY <1>3, InOrderOf
<1>6. \A i \in I : i \in DOMAIN s /\ s[i] \in S OBVIOUS
<1>7. \A i \in DOMAIN s : s[i] \in S => i \in I OBVIOUS
<1>8. Filter(s, S) = r BY DEF Filter
<1> HIDE DEF I, places
<1>9. \A k \in DOMAIN places : places[k] \in I BY <1>5 DEF ToSet
<1>10. \A i \in I : \E k \in DOMAIN places : places[k] = i BY <1>5 DEF ToSet
<1>11. DOMAIN r = DOMAIN places /\ \A k \in DOMAIN r : r[k] = s[places[k]] OBVIOUS
<1> HIDE DEF r
<1>12. \A k \in 1 .. Cardinality(I) : r[k] \in T BY <1>5, <1>6, <1>9, <1>11, <1>1
<1>13. r \in [1 .. Cardinality(I) -> T] BY <1>5, <1>11, <1>12 DEF r
<1>14. r \in Seq(T) BY <1>4, <1>13, IsASeq
<1>15. ToSet(r) = ToSet(s) \cap S BY <1>6, <1>7, <1>9, <1>10, <1>11 DEF ToSet
<1>16. IsInjective(s) => IsInjective(r)
    BY <1>5, <1>6, <1>9, <1>11 DEF IsInjective
<1> QED BY <1>8, <1>14, <1>15, <1>16

\* Where the elements that Filter keeps were: each place of the result stands for
\* one place of s that holds an element of S, and each such place is stood for.
LEMMA FilterPlaces ==
    ASSUME NEW T, NEW s \in Seq(T), NEW S
    PROVE  \E at \in [DOMAIN Filter(s, S) -> DOMAIN s] :
              /\ \A k \in DOMAIN Filter(s, S) : Filter(s, S)[k] = s[at[k]] /\ s[at[k]] \in S
              /\ \A k, m \in DOMAIN Filter(s, S) : at[k] = at[m] => k = m
              /\ \A i \in DOMAIN s : s[i] \in S => \E k \in DOMAIN Filter(s, S) : at[k] = i
<1> DEFINE I == {i \in DOMAIN s : s[i] \in S}
           places == InOrder(I)
<1>1. DOMAIN s = 1 .. Len(s) /\ Len(s) \in Nat OBVIOUS
<1>2. IsFiniteSet(DOMAIN s) BY <1>1, FS_Interval
<1>3. I \in SUBSET Int /\ IsFiniteSet(I) BY <1>1, <1>2, FS_Subset
<1>4. /\ places \in Seq(I) /\ DOMAIN places = 1 .. Cardinality(I)
      /\ ToSet(places) = I /\ IsInjective(places)
    BY <1>3, InOrderOf
<1>5. Filter(s, S) = [k \in DOMAIN places |-> s[places[k]]] BY DEF Filter
<1>6. \A i \in I : i \in DOMAIN s /\ s[i] \in S OBVIOUS
<1>7. \A i \in DOMAIN s : s[i] \in S => i \in I OBVIOUS
<1> HIDE DEF I, places
<1>8. \A k \in DOMAIN places : places[k] \in I BY <1>4 DEF ToSet
<1>9. \A i \in I : \E k \in DOMAIN places : places[k] = i BY <1>4 DEF ToSet
<1> DEFINE at == [k \in DOMAIN places |-> places[k]]
<1>10. /\ DOMAIN Filter(s, S) = DOMAIN places
       /\ \A k \in DOMAIN places : Filter(s, S)[k] = s[at[k]]
    BY <1>5
<1>11. at \in [DOMAIN places -> DOMAIN s] BY <1>6, <1>8
<1>12. \A k \in DOMAIN places : s[at[k]] \in S BY <1>6, <1>8
<1>13. \A k, m \in DOMAIN places : at[k] = at[m] => k = m BY <1>4 DEF IsInjective
<1>14. \A i \in DOMAIN s : s[i] \in S => \E k \in DOMAIN places : at[k] = i
    BY <1>7, <1>9
<1> HIDE DEF at
<1> QED BY <1>10, <1>11, <1>12, <1>13, <1>14

\* A finite set of integers that is not empty has a least element: the one of rank 1.
LEMMA LeastElement ==
    ASSUME NEW S \in SUBSET Int, IsFiniteSet(S), S # {}
    PROVE  \E x \in S : \A y \in S : x <= y
<1> DEFINE n == Cardinality(S)
<1>1. n \in Nat \ {0} BY FS_CardinalityType, FS_EmptySet
<1>2. DOMAIN InOrder(S) = 1 .. n /\ ToSet(InOrder(S)) = S BY InOrderOf
<1>3. 1 \in DOMAIN InOrder(S) BY <1>1, <1>2
<1> DEFINE x == InOrder(S)[1]
<1>4. x \in S BY <1>2, <1>3 DEF ToSet
<1>5. x = CHOOSE z \in S : Cardinality({y \in S : y <= z}) = 1
    <2>1. 1 \in 1 .. Cardinality(S) BY <1>1
    <2> HIDE DEF n
    <2> QED BY <2>1 DEF InOrder
<1>6. \E z \in S : Cardinality({y \in S : y <= z}) = 1
    <2> DEFINE rank == [z \in S |-> Cardinality({y \in S : y <= z})]
    <2>1. rank \in Surjection(S, 1 .. n) BY RankIsOnto
    <2> HIDE DEF rank
    <2>2. 1 \in 1 .. n BY <1>1
    <2>3. \E z \in S : rank[z] = 1 BY <2>1, <2>2 DEF Surjection
    <2> QED BY <2>3 DEF rank
<1>7. Cardinality({y \in S : y <= x}) = 1 BY <1>5, <1>6
<1> HIDE DEF x
<1>8. x \in {y \in S : y <= x} BY <1>4
<1>9. IsFiniteSet({y \in S : y <= x}) BY FS_Subset
<1>10. {y \in S : y <= x} = {x}
    <2> DEFINE B == {y \in S : y <= x}
    <2>1. \E e : B = {e} BY <1>7, <1>9, FS_Singleton
    <2> QED BY <1>8, <2>1
<1>11. \A y \in S : x <= y
    <2> TAKE y \in S
    <2>1. y \in Int /\ x \in Int BY <1>4
    <2>2. y <= x => y = x BY <1>10
    <2> QED BY <2>1, <2>2
<1> QED BY <1>4, <1>11

\* And a greatest one.
LEMMA GreatestElement ==
    ASSUME NEW S \in SUBSET Int, IsFiniteSet(S), S # {}
    PROVE  \E x \in S : \A y \in S : x >= y
<1> DEFINE N == {-x : x \in S}
<1>1. N \in SUBSET Int /\ N # {}
    <2>1. \A x \in S : -x \in Int OBVIOUS
    <2>2. \A x \in S : -x \in N OBVIOUS
    <2> QED BY <2>1, <2>2
<1>2. IsFiniteSet(N)
    <2> DEFINE f == [x \in S |-> -x]
    <2>1. f \in Surjection(S, N) BY DEF Surjection
    <2> QED BY <2>1, FS_Surjection
<1>3. PICK z \in N : \A y \in N : z <= y BY <1>1, <1>2, LeastElement
<1>4. PICK x \in S : z = -x OBVIOUS
<1>5. \A y \in S : x >= y
    <2> TAKE y \in S
    <2>1. -y \in N /\ x \in Int /\ y \in Int OBVIOUS
    <2> QED BY <1>3, <1>4, <2>1
<1> QED BY <1>5

\* A set of numbers that holds 0 and the successor of each of its elements holds all.
LEMMA AllNaturals ==
    ASSUME NEW S \in SUBSET Nat, 0 \in S, \A n \in S : n + 1 \in S
    PROVE  S = Nat
<1> SUFFICES ASSUME NEW m \in Nat, m \notin S PROVE FALSE OBVIOUS
<1> DEFINE D == {k \in 0 .. m : k \notin S}
<1>1. IsFiniteSet(D)
    <2>1. IsFiniteSet(0 .. m) BY FS_Interval
    <2> QED BY <2>1, FS_Subset
<1>2. D \in SUBSET Int /\ D # {} OBVIOUS
<1>3. PICK k \in D : \A y \in D : k <= y BY <1>1, <1>2, LeastElement
<1>4. k # 0 /\ k \in 0 .. m OBVIOUS
<1>5. k - 1 \in S
    <2>1. k - 1 \in 0 .. m /\ ~(k <= k - 1) BY <1>4
    <2> QED BY <2>1, <1>3
<1>6. (k - 1) + 1 = k BY <1>4
<1> QED BY <1>3, <1>5, <1>6

================================================================================

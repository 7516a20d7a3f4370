--------------------------- MODULE SynthLink_proofs ---------------------------
(***************************************************************************)
(* Proofs about the synth's control link and its engine.                   *)
(***************************************************************************)
EXTENDS SynthLink, QueueOps_proofs

----------------------------------------------------------------------------
(* Counting in queues *)

\* How many elements of a queue are in S.
Counted(seq, S) == Cardinality({i \in DOMAIN seq : seq[i] \in S})

\* The numbers up to n are n.
LEMMA UpTo == \A n \in Nat : IsFiniteSet(1 .. n) /\ Cardinality(1 .. n) = n
<1> TAKE n \in Nat
<1>1. IsFiniteSet(1 .. n) /\ Cardinality(1 .. n) = IF 1 > n THEN 0 ELSE n - 1 + 1
  BY FS_Interval
<1> QED
  BY <1>1

\* How many elements of a queue are in S is a number, at most its length, and 0
\* only if none is.
LEMMA CountedType ==
    ASSUME NEW X, NEW s \in Seq(X), NEW S
    PROVE  /\ Counted(s, S) \in Nat
           /\ Counted(s, S) <= Len(s)
           /\ Counted(s, S) = 0 <=> \A i \in DOMAIN s : s[i] \notin S
<1> DEFINE P == {i \in DOMAIN s : s[i] \in S}
<1>1. IsFiniteSet(1 .. Len(s)) /\ Cardinality(1 .. Len(s)) = Len(s)
  BY UpTo
<1>2. DOMAIN s = 1 .. Len(s)
  OBVIOUS
<1>3. IsFiniteSet(P) /\ Cardinality(P) <= Len(s)
  BY <1>1, <1>2, FS_Subset
<1>4. Cardinality(P) \in Nat /\ (Cardinality(P) = 0 <=> P = {})
  BY <1>3, FS_CardinalityType, FS_EmptySet
<1> QED
  BY <1>3, <1>4 DEF Counted

\* Two queues put together hold what both hold.
LEMMA CountedConcat ==
    ASSUME NEW X, NEW s \in Seq(X), NEW u \in Seq(X), NEW S
    PROVE  Counted(s \o u, S) = Counted(s, S) + Counted(u, S)
<1> DEFINE r == s \o u
           n == Len(s)
           A == {i \in DOMAIN s : s[i] \in S}
           B == {i \in DOMAIN u : u[i] \in S}
           C == {i + n : i \in B}
           P == {i \in DOMAIN r : r[i] \in S}
           f == [i \in B |-> i + n]
<1>1. /\ r \in Seq(X) /\ DOMAIN r = 1 .. n + Len(u)
      /\ \A i \in 1 .. n + Len(u) : r[i] = IF i <= n THEN s[i] ELSE u[i - n]
  OBVIOUS
<1>2. DOMAIN s = 1 .. n /\ DOMAIN u = 1 .. Len(u) /\ n \in Nat /\ Len(u) \in Nat
  OBVIOUS
<1> HIDE DEF r, n
<1>3. P = A \cup C
  <2>1. ASSUME NEW i \in P PROVE i \in A \cup C
    <3>1. CASE i <= n
      BY <1>1, <1>2, <3>1
    <3>2. CASE ~(i <= n)
      <4>1. i - n \in B /\ i = (i - n) + n
        BY <1>1, <1>2, <3>2
      <4> QED
        BY <4>1
    <3> QED
      BY <3>1, <3>2
  <2>2. A \subseteq P
    BY <1>1, <1>2
  <2>3. ASSUME NEW j \in B PROVE j + n \in P
    <3>1. j + n \in 1 .. n + Len(u) /\ ~(j + n <= n) /\ (j + n) - n = j
      BY <1>2
    <3> QED
      BY <1>1, <3>1
  <2> QED
    BY <2>1, <2>2, <2>3
<1>4. A \cap C = {}
  BY <1>2
<1>5. IsFiniteSet(A) /\ IsFiniteSet(B)
  <2>1. IsFiniteSet(DOMAIN s) /\ IsFiniteSet(DOMAIN u)
    BY <1>2, UpTo
  <2> QED
    BY <2>1, FS_Subset
<1>6. f \in Bijection(B, C)
  BY <1>2 DEF Bijection, Injection, Surjection, IsInjective
<1>7. IsFiniteSet(C) /\ Cardinality(C) = Cardinality(B)
  <2>1. ExistsBijection(B, C)
    BY <1>6 DEF ExistsBijection
  <2> QED
    BY <1>5, <2>1, FS_Bijection
<1>8. Cardinality(A \cup C) = Cardinality(A) + Cardinality(C) - Cardinality(A \cap C)
  BY <1>5, <1>7, FS_Union
<1>9. Cardinality(A) \in Nat /\ Cardinality(C) \in Nat /\ Cardinality(A \cap C) = 0
  BY <1>4, <1>5, <1>7, FS_CardinalityType, FS_EmptySet
<1> HIDE DEF A, B, C, P
<1>10. Cardinality(P) = Cardinality(A) + Cardinality(B)
  BY <1>3, <1>7, <1>8, <1>9
<1> QED
  BY <1>10 DEF A, B, P, r, Counted

\* A queue of one element.
LEMMA CountedOne ==
    ASSUME NEW x, NEW S
    PROVE  Counted(<<x>>, S) = One(x \in S)
<1> DEFINE P == {i \in DOMAIN <<x>> : <<x>>[i] \in S}
<1>1. DOMAIN <<x>> = {1} /\ <<x>>[1] = x
  OBVIOUS
<1>2. CASE x \in S
  <2>1. P = {1}
    BY <1>1, <1>2
  <2>2. Cardinality({1}) = 1
    BY FS_Singleton
  <2> QED
    BY <1>2, <2>1, <2>2 DEF Counted, One
<1>3. CASE x \notin S
  <2>1. P = {}
    BY <1>1, <1>3
  <2>2. Cardinality({}) = 0
    BY FS_EmptySet
  <2> QED
    BY <1>3, <2>1, <2>2 DEF Counted, One
<1> QED
  BY <1>2, <1>3

\* An empty queue holds nothing.
LEMMA CountedNone == \A S : Counted(<<>>, S) = 0
<1>1. <<>> \in Seq({})
  OBVIOUS
<1>2. \A i \in DOMAIN <<>> : FALSE
  OBVIOUS
<1> QED
  BY <1>1, <1>2, CountedType

\* An element put behind is one more if it is in S.
LEMMA CountedAppend ==
    ASSUME NEW X, NEW s \in Seq(X), NEW x \in X, NEW S
    PROVE  Counted(Append(s, x), S) = Counted(s, S) + One(x \in S)
<1>1. Append(s, x) = s \o <<x>> /\ <<x>> \in Seq(X)
  OBVIOUS
<1>2. Counted(s \o <<x>>, S) = Counted(s, S) + Counted(<<x>>, S)
  BY <1>1, CountedConcat
<1>3. Counted(<<x>>, S) = One(x \in S)
  BY CountedOne
<1> QED
  BY <1>1, <1>2, <1>3

\* The first element taken away is one less if it was in S.
LEMMA CountedHead ==
    ASSUME NEW X, NEW s \in Seq(X), s # <<>>, NEW S
    PROVE  Counted(s, S) = One(Head(s) \in S) + Counted(Tail(s), S)
<1>1. <<Head(s)>> \in Seq(X) /\ Tail(s) \in Seq(X)
  OBVIOUS
<1>2. Counted(<<Head(s)>> \o Tail(s), S) = Counted(<<Head(s)>>, S) + Counted(Tail(s), S)
  BY <1>1, CountedConcat
<1>3. s = <<Head(s)>> \o Tail(s)
  BY HeadTailProperties
<1> QED
  BY <1>2, <1>3, CountedOne

\* The first elements of a queue and the others hold what it holds.
LEMMA CountedSplit ==
    ASSUME NEW X, NEW s \in Seq(X), NEW m \in 0 .. Len(s), NEW S
    PROVE  /\ SubSeq(s, 1, m) \in Seq(X) /\ SubSeq(s, m + 1, Len(s)) \in Seq(X)
           /\ Counted(s, S) = Counted(SubSeq(s, 1, m), S) + Counted(SubSeq(s, m + 1, Len(s)), S)
<1>1. SubSeq(s, 1, m) \in Seq(X) /\ SubSeq(s, m + 1, Len(s)) \in Seq(X)
  OBVIOUS
<1>2. SubSeq(s, 1, m) \o SubSeq(s, m + 1, Len(s)) = SubSeq(s, 1, Len(s))
  <2>1. 1 \in 1 .. Len(s) + 1 /\ m \in 1 - 1 .. Len(s) /\ Len(s) \in m .. Len(s)
    OBVIOUS
  <2> QED
    BY <2>1, ConcatAdjacentSubSeq
<1>3. SubSeq(s, 1, Len(s)) = s
  BY SubSeqFull
<1>4. Counted(SubSeq(s, 1, m) \o SubSeq(s, m + 1, Len(s)), S)
        = Counted(SubSeq(s, 1, m), S) + Counted(SubSeq(s, m + 1, Len(s)), S)
  BY <1>1, CountedConcat
<1> QED
  BY <1>1, <1>2, <1>3, <1>4

\* Times counts a single element.
LEMMA TimesCounted == \A s, x : Times(s, x) = Counted(s, {x})
BY DEF Times, Counted

----------------------------------------------------------------------------
(* Sequences put one after the other *)

\* FlattenSeq joins its sequences from the first on.
LEMMA FlattenSteps ==
    ASSUME NEW ss, Len(ss) \in Nat \ {0}
    PROVE  \E f : /\ FlattenSeq(ss) = f[Len(ss)]
                  /\ f[1] = ss[1]
                  /\ \A i \in 2 .. Len(ss) : f[i] = f[i - 1] \o ss[i]
<1> DEFINE N == Len(ss)
           Good(f, n) == f[1] = ss[1] /\ \A k \in 2 .. n : f[k] = f[k - 1] \o ss[k]
           Is(h) == h = [i \in 1 .. N |-> IF i = 1 THEN ss[i] ELSE h[i - 1] \o ss[i]]
           F(n) == CHOOSE f : Good(f, n)
           h == [i \in 1 .. N |-> F(i)[i]]
           g == CHOOSE f : Is(f)
<1>1. FlattenSeq(ss) = g[N]
  BY DEF FlattenSeq
<1>2. \A n \in Nat : \E f : Good(f, n)
  <2> DEFINE S == {n \in Nat : \E f : Good(f, n)}
  <2>1. 0 \in S
    <3>1. Good([k \in {1} |-> ss[1]], 0)
      OBVIOUS
    <3> QED
      BY <3>1
  <2>2. ASSUME NEW n \in S
        PROVE  n + 1 \in S
    <3>1. PICK f : Good(f, n)
      OBVIOUS
    <3> DEFINE e == [k \in 1 .. n + 1 |->
                       IF k = 1 THEN ss[1]
                       ELSE IF k = n + 1 THEN f[n] \o ss[k] ELSE f[k]]
    <3>2. \A k \in 2 .. n + 1 : e[k] = e[k - 1] \o ss[k]
      <4> TAKE k \in 2 .. n + 1
      <4>1. e[k - 1] = f[k - 1]
        BY <3>1
      <4>2. CASE k = n + 1
        <5>1. k \in 1 .. n + 1 /\ k # 1 /\ k - 1 = n
          BY <4>2
        <5>2. e[k] = f[n] \o ss[k]
          BY <4>2, <5>1
        <5> HIDE DEF e
        <5> QED
          BY <4>1, <5>1, <5>2
      <4>3. CASE k # n + 1
        <5>1. k \in 2 .. n /\ e[k] = f[k]
          BY <4>3
        <5>2. f[k] = f[k - 1] \o ss[k]
          BY <3>1, <5>1
        <5> QED
          BY <4>1, <5>1, <5>2
      <4> QED
        BY <4>2, <4>3
    <3>3. e[1] = ss[1]
      OBVIOUS
    <3> HIDE DEF e
    <3>4. Good(e, n + 1)
      BY <3>2, <3>3
    <3> HIDE DEF Good
    <3> QED
      BY <3>4
  <2> HIDE DEF Good
  <2>3. S \in SUBSET Nat
    OBVIOUS
  <2>4. S = Nat
    BY <2>1, <2>2, <2>3, AllNaturals
  <2> QED
    BY <2>4
<1>3. ASSUME NEW n \in Nat, NEW f, NEW e, Good(f, n), Good(e, n)
      PROVE  \A k \in 1 .. n : f[k] = e[k]
  <2> DEFINE S == {k \in Nat : k + 1 <= n => f[k + 1] = e[k + 1]}
  <2>1. 0 \in S
    BY <1>3
  <2>2. ASSUME NEW k \in S
        PROVE  k + 1 \in S
    <3> SUFFICES ASSUME (k + 1) + 1 <= n PROVE f[(k + 1) + 1] = e[(k + 1) + 1]
      OBVIOUS
    <3>1. f[k + 1] = e[k + 1] /\ (k + 1) + 1 \in 2 .. n /\ ((k + 1) + 1) - 1 = k + 1
      OBVIOUS
    <3> QED
      BY <3>1, <1>3, ZenonT(60)
  <2>3. S = Nat
    <3> HIDE DEF Good
    <3> QED
      BY <2>1, <2>2, AllNaturals
  <2> TAKE k \in 1 .. n
  <2>4. k - 1 \in S
    <3>1. k - 1 \in Nat
      OBVIOUS
    <3> HIDE DEF S
    <3> QED
      BY <2>3, <3>1
  <2>5. (k - 1) + 1 = k /\ k <= n
    OBVIOUS
  <2> QED
    BY <2>4, <2>5
<1>4. \A n \in Nat : Good(F(n), n)
  <2> HIDE DEF Good
  <2> QED
    BY <1>2, SMTT(40)
<1>5. h[1] = ss[1] /\ \A i \in 2 .. N : h[i] = h[i - 1] \o ss[i]
  <2>1. h[1] = ss[1]
    <3>1. F(1)[1] = ss[1]
      BY <1>4
    <3>2. 1 \in 1 .. N
      OBVIOUS
    <3> HIDE DEF F
    <3> QED
      BY <3>1, <3>2, SMTT(40)
  <2>2. ASSUME NEW i \in 2 .. N
        PROVE  h[i] = h[i - 1] \o ss[i]
    <3> HIDE DEF F
    <3>1. Good(F(i), i) /\ Good(F(i - 1), i - 1)
      <4>1. i \in Nat /\ i - 1 \in Nat
        OBVIOUS
      <4> HIDE DEF Good
      <4> QED
        BY <1>4, <4>1
    <3>2. F(i)[i] = F(i)[i - 1] \o ss[i]
      <4>1. i \in 2 .. i
        OBVIOUS
      <4> QED
        BY <3>1, <4>1
    <3>3. F(i)[i - 1] = F(i - 1)[i - 1]
      <4>1. Good(F(i), i - 1)
        <5>1. \A k \in 2 .. i - 1 : k \in 2 .. i
          OBVIOUS
        <5> QED
          BY <3>1, <5>1
      <4>2. i - 1 \in 1 .. i - 1 /\ i - 1 \in Nat
        OBVIOUS
      <4> HIDE DEF Good
      <4> QED
        BY <3>1, <4>1, <4>2, <1>3
    <3>4. i \in 1 .. N /\ i - 1 \in 1 .. N
      OBVIOUS
    <3> QED
      BY <3>2, <3>3, <3>4
  <2> QED
    BY <2>1, <2>2
<1>6. Is(h)
  <2>1. \A i \in 1 .. N : h[i] = IF i = 1 THEN ss[i] ELSE h[i - 1] \o ss[i]
    <3> TAKE i \in 1 .. N
    <3>1. i = 1 \/ i \in 2 .. N
      OBVIOUS
    <3> HIDE DEF h
    <3> QED
      BY <1>5, <3>1
  <2>2. h = [i \in 1 .. N |-> h[i]]
    OBVIOUS
  <2> HIDE DEF h
  <2> QED
    BY <2>1, <2>2
<1>7. Is(g)
  <2> HIDE DEF Is, h
  <2> QED
    BY <1>6
<1> HIDE DEF g
<1>8. g[1] = ss[1] /\ \A i \in 2 .. N : g[i] = g[i - 1] \o ss[i]
  <2>1. \A i \in 1 .. N : g[i] = IF i = 1 THEN ss[i] ELSE g[i - 1] \o ss[i]
    BY <1>7
  <2>2. 1 \in 1 .. N /\ \A i \in 2 .. N : i \in 1 .. N /\ i # 1
    OBVIOUS
  <2> QED
    BY <2>1, <2>2
<1> QED
  BY <1>1, <1>8

\* What holds of the empty sequence and stays true with each sequence that is
\* added holds of them all: Fits[i] are the sequences that may stand for the
\* first i.
LEMMA FlattenInduction ==
    ASSUME NEW X, NEW ss, Len(ss) \in Nat, Len(ss) = 0 => ss = <<>>,
           \A i \in 1 .. Len(ss) : ss[i] \in Seq(X),
           NEW Fits, <<>> \in Fits[0],
           \A i \in 0 .. Len(ss) - 1 : \A a \in Fits[i] \cap Seq(X) :
             a \o ss[i + 1] \in Fits[i + 1]
    PROVE  FlattenSeq(ss) \in Fits[Len(ss)] /\ FlattenSeq(ss) \in Seq(X)
<1> DEFINE N == Len(ss)
<1>1. CASE N = 0
  <2>1. FlattenSeq(ss) = <<>>
    BY <1>1 DEF FlattenSeq
  <2> QED
    BY <1>1, <2>1
<1>2. CASE N # 0
  <2>1. N \in Nat \ {0}
    BY <1>2
  <2>2. PICK f : /\ FlattenSeq(ss) = f[N]
                 /\ f[1] = ss[1]
                 /\ \A i \in 2 .. N : f[i] = f[i - 1] \o ss[i]
    BY <2>1, FlattenSteps
  <2> DEFINE S == {n \in Nat : n + 1 <= N => f[n + 1] \in Fits[n + 1] \cap Seq(X)}
  <2>3. 0 \in S
    <3>1. ss[1] \in Seq(X) /\ 0 \in 0 .. N - 1
      BY <2>1
    <3>2. <<>> \o ss[1] = ss[1]
      BY <3>1
    <3>3. <<>> \in Fits[0] \cap Seq(X)
      OBVIOUS
    <3>4. <<>> \o ss[0 + 1] \in Fits[0 + 1]
      BY <3>1, <3>3
    <3>5. 0 + 1 = 1
      OBVIOUS
    <3> QED
      BY <2>2, <3>1, <3>2, <3>4, <3>5
  <2>4. ASSUME NEW n \in S
        PROVE  n + 1 \in S
    <3> SUFFICES ASSUME (n + 1) + 1 <= N
                 PROVE  f[(n + 1) + 1] \in Fits[(n + 1) + 1] \cap Seq(X)
      OBVIOUS
    <3>1. /\ f[n + 1] \in Fits[n + 1] \cap Seq(X)
          /\ (n + 1) + 1 \in 2 .. N /\ ((n + 1) + 1) - 1 = n + 1
          /\ n + 1 \in 0 .. N - 1 /\ ss[(n + 1) + 1] \in Seq(X)
      OBVIOUS
    <3>2. f[(n + 1) + 1] = f[n + 1] \o ss[(n + 1) + 1]
      BY <2>2, <3>1
    <3>3. f[n + 1] \o ss[(n + 1) + 1] \in Fits[(n + 1) + 1]
      BY <3>1
    <3>4. f[n + 1] \o ss[(n + 1) + 1] \in Seq(X)
      BY <3>1
    <3> QED
      BY <3>2, <3>3, <3>4
  <2>5. S = Nat
    BY <2>3, <2>4, AllNaturals
  <2>6. N - 1 \in S /\ (N - 1) + 1 = N
    <3>1. N - 1 \in Nat /\ (N - 1) + 1 = N
      BY <2>1
    <3> HIDE DEF S
    <3> QED
      BY <2>5, <3>1
  <2> QED
    BY <2>2, <2>6
<1> QED
  BY <1>1, <1>2

\* A function on 1 .. n is a sequence.
LEMMA SeqOfFunction ==
    ASSUME NEW X, NEW n \in Nat, NEW f, f \in [1 .. n -> X]
    PROVE  f \in Seq(X) /\ Len(f) = n /\ DOMAIN f = 1 .. n
OBVIOUS

\* A finite set as a sequence: each of its elements is there, once.
LEMMA SetToSeqOf ==
    ASSUME NEW S, IsFiniteSet(S)
    PROVE  LET q == SetToSeq(S)
               n == Cardinality(S)
           IN  /\ n \in Nat /\ q \in [1 .. n -> S]
               /\ \A i, j \in 1 .. n : q[i] = q[j] => i = j
               /\ \A x \in S : \E i \in 1 .. n : q[i] = x
<1> DEFINE q == SetToSeq(S)
           n == Cardinality(S)
<1>1. n \in Nat
  BY FS_CardinalityType
<1>2. PICK m \in Nat : \E f : f \in Bijection(1 .. m, S)
  BY FS_NatBijection DEF ExistsBijection
<1>3. m = n
  <2>1. IsFiniteSet(1 .. m) /\ Cardinality(1 .. m) = m
    BY UpTo
  <2>2. ExistsBijection(1 .. m, S)
    BY <1>2 DEF ExistsBijection
  <2> QED
    BY <2>1, <2>2, FS_Bijection
<1>4. \E g \in [1 .. n -> S] : IsInjective(g)
  BY <1>2, <1>3 DEF Bijection, Injection, IsInjective
<1>5. q \in [1 .. n -> S] /\ IsInjective(q)
  BY <1>4 DEF SetToSeq
<1> HIDE DEF q
<1>6. \A i, j \in 1 .. n : q[i] = q[j] => i = j
  BY <1>5 DEF IsInjective
<1>7. q \in Injection(1 .. n, S)
  BY <1>5, <1>6 DEF Injection, IsInjective
<1>8. Cardinality(1 .. n) = Cardinality(S)
  BY <1>1, UpTo
<1>9. q \in Surjection(1 .. n, S)
  <2> HIDE DEF n
  <2> QED
    BY <1>7, <1>8, FS_Injection
<1>10. \A x \in S : \E i \in 1 .. n : q[i] = x
  BY <1>9 DEF Surjection
<1> QED
  BY <1>1, <1>5, <1>6, <1>10 DEF q

\* The same element n times.
LEMMA CountedSame ==
    ASSUME NEW X, NEW x \in X, NEW n \in Nat, NEW S
    PROVE  /\ [k \in 1 .. n |-> x] \in Seq(X) /\ Len([k \in 1 .. n |-> x]) = n
           /\ Counted([k \in 1 .. n |-> x], S) = IF x \in S THEN n ELSE 0
<1> DEFINE q == [k \in 1 .. n |-> x]
<1>1. q \in Seq(X) /\ Len(q) = n /\ DOMAIN q = 1 .. n
  BY SeqOfFunction
<1>2. CASE x \in S
  <2>1. {i \in DOMAIN q : q[i] \in S} = 1 .. n
    BY <1>1, <1>2
  <2> QED
    BY <1>1, <1>2, <2>1, UpTo DEF Counted
<1>3. CASE x \notin S
  <2>1. \A i \in DOMAIN q : q[i] \notin S
    BY <1>1, <1>3
  <2> HIDE DEF q
  <2>2. Counted(q, S) = 0
    BY <1>1, <2>1, CountedType
  <2> QED
    BY <1>1, <1>3, <2>2 DEF q
<1> QED
  BY <1>2, <1>3

----------------------------------------------------------------------------
(* What the queues hold *)

StreamCommands == {Command(cmd, s) : cmd \in {"StreamInfo", "Play", "Stop", "Destroy"}, s \in Streams}
SlipCommands ==
    {ChannelCommand(cmd, s, c) : cmd \in {"SlipSpeed", "SlipStop"}, s \in Streams, c \in Bendable}
Realignments ==
    {[cmd |-> "SlipOffset", stream |-> s, channel |-> c, samples |-> n] :
       s \in Streams, c \in Bendable, n \in Int}
VoiceCommands ==
    {VoiceCommand(cmd, v) :
       cmd \in {"Create", "Start", "StopSample", "Pause", "Resume", "DestroySample"}, v \in Voices}
GameRecord == StreamCommands \cup SlipCommands \cup Realignments \cup VoiceCommands

Targets == {ChannelCommand("DataTarget", s, c) : s \in Streams, c \in Channels}
Loads == {DataRecord(n) : n \in Nat}
BatchEnds == {Command("BatchEnd", s) : s \in Streams}
StreamRecord == Targets \cup Loads \cup BatchEnds

FlushRecord == GameRecord \cup StreamRecord \cup {SpuChunk, Terminate}

Answer == {StreamOp(s) : s \in Streams} \cup {SpuSendDone, Terminated}
Done == {SampleDone(v) : v \in Voices}
Request == {DataRequest(s, c) : s \in Streams, c \in Channels}
Report == {SlipReport(s, c, n) : s \in Streams, c \in Channels, n \in Int}
Reply == Answer \cup Done \cup Request \cup Report

QueuesTyped ==
    /\ calls \in Seq(GameRecord) /\ Len(calls) <= MaxCalls
    /\ flush \in Seq(FlushRecord)
    /\ reply \in Seq(Answer) /\ Len(reply) <= 1
    /\ deferred \in Seq(Answer)
    /\ queued \in Seq(Answer \cup Done)
    /\ delivery \in Seq(Reply) /\ lost \in Seq(Reply)
    /\ ring \in BOOLEAN

\* Each phase of the main thread has its own queues.
PhasesTyped ==
    /\ phase \in {"game", "poll", "walk", "spin", "off"}
    /\ phase = "walk" => calls = <<>>
    /\ phase # "walk" => flush = <<>> /\ reply = <<>> /\ deferred = <<>>
    /\ phase # "poll" => delivery = <<>>
    /\ terminating => phase \in {"walk", "spin"}

Channel ==
    [pcm : Nat, phase : Nat, inflight : Nat, strikes : Nat, gotData : BOOLEAN,
     gotDataThisBatch : BOOLEAN, dead : BOOLEAN, slipping : BOOLEAN,
     pos : Int, reportedOffset : Int]
Stream ==
    [playing : BOOLEAN, started : BOOLEAN, consumed : Nat, channels : [Channels -> Channel]]
Voice == [playing : BOOLEAN, paused : BOOLEAN]

EngineTyped ==
    /\ DOMAIN streams \subseteq Streams /\ streams \in [DOMAIN streams -> Stream]
    /\ DOMAIN voices \subseteq Voices /\ voices \in [DOMAIN voices -> Voice]
    /\ dataTarget = NoTarget \/ dataTarget \in Streams \X Channels

GuestTyped ==
    /\ eeStream \in [Streams -> {"none", "asked", "ready", "playing", "gone"}]
    /\ eeVoice \in [Voices -> {"none", "idle", "playing"}]
    /\ held \in [Streams -> Nat]
    /\ sent \in [Streams -> [Channels -> Nat]]
    /\ \A s \in Streams, c \in Channels : sent[s][c] <= held[s]
    /\ spuLeft \in Nat
    /\ spuInFlight \in BOOLEAN
    /\ bent \in [Streams -> SUBSET Bendable]
    /\ terminating \in BOOLEAN

LinkTyped == QueuesTyped /\ PhasesTyped /\ EngineTyped /\ GuestTyped

----------------------------------------------------------------------------
(* Data on its way *)

Target(s, c) == ChannelCommand("DataTarget", s, c)

\* A data record follows each that names its channel.
Paired(q) ==
    \A i \in DOMAIN q : q[i].cmd = "DataTarget" => i < Len(q) /\ q[i + 1].cmd = "Data"

\* The end of a stream's batch follows the last of its data.
Closed(q) ==
    \A i, j \in DOMAIN q :
      i < j /\ q[i].cmd = "BatchEnd" /\ q[j].cmd = "DataTarget" => q[i].stream # q[j].stream

\* A request or data for the channel is between the poll and the engine.
Targeted(s, c) ==
    \/ \E i \in DOMAIN flush : flush[i] = Target(s, c)
    \/ dataTarget = <<s, c>>

FlushOrdered ==
    /\ Paired(flush) /\ Closed(flush)
    /\ dataTarget # NoTarget => flush # <<>> /\ flush[1].cmd = "Data"
    /\ \A s \in Streams, c \in Channels :
         Targeted(s, c) => eeStream[s] \notin {"none", "asked"}

\* Data is asked for and sent for channels that were not given up.
DataForLiving ==
    \A s \in DOMAIN streams, c \in Channels :
      (Targeted(s, c) \/ \E i \in DOMAIN delivery : delivery[i] = DataRequest(s, c))
        => ~streams[s].channels[c].dead

\* A channel that got no data is at the start, and is given up once the stream
\* has started.
ChannelInStep(stream, ch) ==
    /\ ~ch.slipping
    /\ ~ch.gotData => ch.pcm = 0
    /\ ~ch.gotData \/ ~stream.started => ch.pos = 0 /\ ch.phase = 0
    /\ stream.started => ch.dead \/ ch.gotData

\* Two channels stand at the same part of the same sample.
Together(ch, other) == ch.pos = other.pos /\ ch.phase = other.phase

\* A channel comes before those the whammy bends that got data.
First(stream, c) == \A d \in Bendable : stream.channels[d].gotData => c < d

\* The channels that are never bent and got data stand together, and where the
\* song is if one of them leads.
StreamInStep(stream) ==
    /\ ~stream.started => stream.consumed = 0
    /\ \A c \in Channels : stream.channels[c].dead => ~stream.channels[c].gotData
    /\ \A c \in Channels \ Bendable :
         /\ ChannelInStep(stream, stream.channels[c])
         /\ stream.channels[c].gotData =>
              /\ \A d \in Channels \ Bendable :
                   stream.channels[d].gotData => Together(stream.channels[c], stream.channels[d])
              /\ First(stream, c) => stream.channels[c].pos = stream.consumed

StreamsInStep == \A s \in DOMAIN streams : StreamInStep(streams[s])

----------------------------------------------------------------------------
(* Answers on their way *)

\* The records the guest awaits an answer to, the answer, and whether it does.
Asks == {SpuChunk, Terminate} \cup {Command("StreamInfo", s) : s \in Streams}

AnswerTo(r) ==
    CASE r.cmd = "SpuChunk" -> SpuSendDone
      [] r.cmd = "Terminate" -> Terminated
      [] r.cmd = "StreamInfo" -> StreamOp(r.stream)

Awaits(r) ==
    CASE r.cmd = "SpuChunk" -> spuInFlight
      [] r.cmd = "Terminate" -> terminating
      [] r.cmd = "StreamInfo" -> eeStream[r.stream] = "asked"

\* What the guest waits for is under way exactly once, or was lost once.
Fine(n, awaited) == n = One(awaited)
Answered == \A r \in Asks : Fine(Accounted(r, AnswerTo(r)), Awaits(r))

----------------------------------------------------------------------------
(* Types *)

\* A record of a flush is of the kind its command says.
LEMMA Kinds ==
    ASSUME NEW r \in FlushRecord
    PROVE  /\ r.cmd \in {"StreamInfo", "Play", "Stop", "Destroy"}
                => \E s \in Streams : r = Command(r.cmd, s)
           /\ r.cmd \in {"SlipSpeed", "SlipStop"}
                => \E s \in Streams, c \in Bendable : r = ChannelCommand(r.cmd, s, c)
           /\ r.cmd = "SlipOffset"
                => \E s \in Streams, c \in Bendable, n \in Int :
                     r = [cmd |-> "SlipOffset", stream |-> s, channel |-> c, samples |-> n]
           /\ r.cmd \in {"Create", "Start", "StopSample", "Pause", "Resume", "DestroySample"}
                => \E v \in Voices : r = VoiceCommand(r.cmd, v)
           /\ r.cmd = "DataTarget"
                => \E s \in Streams, c \in Channels : r = ChannelCommand("DataTarget", s, c)
           /\ r.cmd = "Data" => \E n \in Nat : r = DataRecord(n)
           /\ r.cmd = "BatchEnd" => \E s \in Streams : r = Command("BatchEnd", s)
           /\ r.cmd = "SpuChunk" => r = SpuChunk
           /\ r.cmd = "Terminate" => r = Terminate
<1>1. CASE r \in StreamCommands
  BY <1>1 DEF StreamCommands, Command
<1>2. CASE r \in SlipCommands
  BY <1>2 DEF SlipCommands, ChannelCommand
<1>3. CASE r \in Realignments
  BY <1>3 DEF Realignments
<1>4. CASE r \in VoiceCommands
  BY <1>4 DEF VoiceCommands, VoiceCommand
<1>5. CASE r \in Targets
  BY <1>5 DEF Targets, ChannelCommand
<1>6. CASE r \in Loads
  BY <1>6 DEF Loads, DataRecord
<1>7. CASE r \in BatchEnds
  BY <1>7 DEF BatchEnds, Command
<1>8. CASE r \in {SpuChunk, Terminate}
  BY <1>8 DEF SpuChunk, Terminate
<1> QED
  BY <1>1, <1>2, <1>3, <1>4, <1>5, <1>6, <1>7, <1>8 DEF FlushRecord, GameRecord, StreamRecord

\* The first record of a flush, and the rest.
LEMMA HeadTyped ==
    ASSUME QueuesTyped, flush # <<>>
    PROVE  /\ Head(flush) \in FlushRecord /\ Head(flush) = flush[1]
           /\ Tail(flush) \in Seq(FlushRecord)
           /\ DOMAIN flush = 1 .. Len(flush)
           /\ Len(flush) \in Nat /\ Len(Tail(flush)) = Len(flush) - 1
           /\ \A i \in 1 .. Len(flush) - 1 : Tail(flush)[i] = flush[i + 1]
BY DEF QueuesTyped

\* What the engine does to a channel leaves one.
LEMMA ChannelTypes ==
    ASSUME NEW ch \in Channel
    PROVE  /\ \A len \in Nat : Fed(ch, len) \in Channel
           /\ \A anyGot \in BOOLEAN : BatchEnded(ch, anyGot) \in Channel
           /\ \A delta \in Int : MovedTo(ch, delta) \in Channel
           /\ [ch EXCEPT !.slipping = TRUE] \in Channel
           /\ [ch EXCEPT !.slipping = FALSE] \in Channel
<1>1. ASSUME NEW len \in Nat PROVE Fed(ch, len) \in Channel
  <2> DEFINE left == IF ch.inflight > len THEN ch.inflight - len ELSE 0
             kept == ch.pcm + len
  <2>1. left \in Nat /\ kept \in Nat
    BY DEF Channel
  <2> DEFINE filled == [ch EXCEPT !.pcm = kept, !.inflight = left]
             given == [filled EXCEPT !.gotData = TRUE, !.gotDataThisBatch = TRUE]
  <2>2. Fed(ch, len) = [given EXCEPT !.dead = FALSE, !.strikes = 0]
    BY DEF Fed
  <2> HIDE DEF left, kept
  <2>3. filled \in Channel
    BY <2>1 DEF Channel
  <2> HIDE DEF filled
  <2>4. given \in Channel
    BY <2>3 DEF Channel
  <2> HIDE DEF given
  <2>5. [given EXCEPT !.dead = FALSE, !.strikes = 0] \in Channel
    BY <2>4 DEF Channel
  <2> QED
    BY <2>2, <2>5
<1>2. ASSUME NEW anyGot \in BOOLEAN PROVE BatchEnded(ch, anyGot) \in Channel
  <2> DEFINE struck == anyGot /\ ~ch.gotDataThisBatch /\ ch.inflight # 0 /\ ~ch.gotData
             strikes == IF struck THEN ch.strikes + 1 ELSE ch.strikes
             dead == ch.dead \/ (struck /\ strikes >= DeadStrikes)
  <2>1. strikes \in Nat /\ dead \in BOOLEAN
    BY DEF Channel
  <2> DEFINE judged == [ch EXCEPT !.strikes = strikes, !.dead = dead]
  <2>2. BatchEnded(ch, anyGot) = [judged EXCEPT !.inflight = 0, !.gotDataThisBatch = FALSE]
    BY DEF BatchEnded
  <2> HIDE DEF strikes, dead
  <2>3. judged \in Channel
    BY <2>1 DEF Channel
  <2> HIDE DEF judged
  <2>4. [judged EXCEPT !.inflight = 0, !.gotDataThisBatch = FALSE] \in Channel
    BY <2>3 DEF Channel
  <2> QED
    BY <2>2, <2>4
<1>3. ASSUME NEW delta \in Int PROVE MovedTo(ch, delta) \in Channel
  <2> DEFINE move == IF delta > 0 THEN Least(delta, ch.pcm) ELSE delta
  <2>1. move \in Int /\ ch.pcm - move \in Nat /\ ch.pos + move \in Int
    BY DEF Channel, Least
  <2>2. MovedTo(ch, delta) = [ch EXCEPT !.pcm = @ - move, !.pos = @ + move]
    BY DEF MovedTo
  <2> HIDE DEF move
  <2> QED
    BY <2>1, <2>2 DEF Channel
<1> QED
  BY <1>1, <1>2, <1>3 DEF Channel

\* A stream of which one channel changed.
LEMMA ChannelChanged ==
    ASSUME NEW t, t \in [DOMAIN t -> Stream], NEW s \in DOMAIN t,
           NEW c \in Channels, NEW x \in Channel
    PROVE  LET u == [t EXCEPT ![s].channels[c] = x]
           IN  /\ DOMAIN u = DOMAIN t /\ u \in [DOMAIN u -> Stream]
               /\ \A r \in DOMAIN t :
                    /\ u[r].playing = t[r].playing /\ u[r].started = t[r].started
                    /\ u[r].consumed = t[r].consumed
                    /\ \A d \in Channels :
                         u[r].channels[d] = IF r = s /\ d = c THEN x ELSE t[r].channels[d]
<1> DEFINE u == [t EXCEPT ![s].channels[c] = x]
           k == [t[s].channels EXCEPT ![c] = x]
<1>1. t[s] \in Stream
  OBVIOUS
<1>2. k \in [Channels -> Channel] /\ \A d \in Channels : k[d] = IF d = c THEN x ELSE t[s].channels[d]
  BY <1>1 DEF Stream
<1>3. u = [t EXCEPT ![s] = [t[s] EXCEPT !.channels = k]]
  OBVIOUS
<1> HIDE DEF k
<1>4. /\ [t[s] EXCEPT !.channels = k] \in Stream
      /\ [t[s] EXCEPT !.channels = k].playing = t[s].playing
      /\ [t[s] EXCEPT !.channels = k].started = t[s].started
      /\ [t[s] EXCEPT !.channels = k].consumed = t[s].consumed
      /\ [t[s] EXCEPT !.channels = k].channels = k
  BY <1>1, <1>2 DEF Stream
<1>5. DOMAIN u = DOMAIN t /\ \A r \in DOMAIN t : u[r] = IF r = s THEN [t[s] EXCEPT !.channels = k] ELSE t[r]
  BY <1>3
<1>6. u = [r \in DOMAIN t |-> u[r]]
  BY <1>3
<1> HIDE DEF u
<1>7. u \in [DOMAIN t -> Stream]
  <2>1. \A r \in DOMAIN t : u[r] \in Stream
    BY <1>4, <1>5
  <2> QED
    BY <1>6, <2>1
<1>8. ASSUME NEW r \in DOMAIN t
      PROVE  /\ u[r].playing = t[r].playing /\ u[r].started = t[r].started
             /\ u[r].consumed = t[r].consumed
             /\ \A d \in Channels :
                  u[r].channels[d] = IF r = s /\ d = c THEN x ELSE t[r].channels[d]
  <2>1. CASE r = s
    BY <1>2, <1>4, <1>5, <2>1
  <2>2. CASE r # s
    BY <1>5, <2>2
  <2> QED
    BY <2>1, <2>2
<1> QED
  BY <1>5, <1>7, <1>8 DEF u

\* A stream and a voice that were made are well formed.
LEMMA NewTyped == NewStream \in Stream /\ NewVoice \in Voice
<1>1. \A b \in BOOLEAN : NewChannel(b) \in Channel
  BY DEF NewChannel, Channel
<1>2. \A c \in Channels : (c \in Described) \in BOOLEAN
  OBVIOUS
<1>3. [c \in Channels |-> NewChannel(c \in Described)] \in [Channels -> Channel]
  BY <1>1, <1>2
<1> QED
  BY <1>3 DEF NewStream, NewVoice, Stream, Voice

\* A stream of which all channels changed.
LEMMA ChannelsReplaced ==
    ASSUME NEW t \in Stream, NEW k \in [Channels -> Channel]
    PROVE  /\ [t EXCEPT !.channels = k] \in Stream
           /\ [t EXCEPT !.channels = k].channels = k
           /\ [t EXCEPT !.channels = k].playing = t.playing
           /\ [t EXCEPT !.channels = k].started = t.started
           /\ [t EXCEPT !.channels = k].consumed = t.consumed
BY DEF Stream

\* What the service does to the streams is typed.
LEMMA StreamsTyped ==
    ASSUME EngineTyped, NEW s \in Streams, NEW c \in Channels, NEW n \in Int, NEW len \in Nat,
           \/ StreamInfo(s) \/ StreamPlay(s) \/ StreamStop(s) \/ StreamDestroy(s)
           \/ StreamSlipSpeed(s, c) \/ StreamSlipOff(s, c) \/ StreamSlipOffset(s, c, n)
           \/ StreamDataTarget(s, c) \/ StreamData(len) \/ StreamDataBatchEnd(s)
    PROVE  EngineTyped' /\ UNCHANGED <<voices, queued>>
<1> DEFINE Typed(t) == DOMAIN t \subseteq Streams /\ t \in [DOMAIN t -> Stream]
<1> USE DEF EngineTyped
<1>1. CASE StreamInfo(s)
  <2>1. Typed(With(streams, s, NewStream))
    <3>1. NewStream \in Stream /\ streams \in [DOMAIN streams -> Stream]
      BY NewTyped
    <3>2. /\ DOMAIN With(streams, s, NewStream) = DOMAIN streams \cup {s}
          /\ With(streams, s, NewStream) \in [DOMAIN streams \cup {s} -> Stream]
      BY <3>1 DEF With, Without
    <3> QED
      BY <3>2
  <2> QED
    BY <1>1, <2>1 DEF StreamInfo
<1>2. ASSUME NEW on \in BOOLEAN, SetPlaying(s, on) PROVE EngineTyped' /\ UNCHANGED <<voices, queued>>
  <2>1. s \in DOMAIN streams => Typed([streams EXCEPT ![s].playing = on])
    <3> SUFFICES ASSUME s \in DOMAIN streams PROVE Typed([streams EXCEPT ![s].playing = on])
      OBVIOUS
    <3>1. [streams[s] EXCEPT !.playing = on] \in Stream
      BY DEF Stream
    <3> QED
      BY <3>1
  <2> QED
    BY <1>2, <2>1 DEF SetPlaying
<1>3. CASE StreamDestroy(s)
  <2>1. Typed(Without(streams, s))
    <3>1. NewStream \in Stream /\ streams \in [DOMAIN streams -> Stream]
      BY NewTyped
    <3>2. /\ DOMAIN Without(streams, s) = DOMAIN streams \ {s}
          /\ Without(streams, s) \in [DOMAIN streams \ {s} -> Stream]
      BY <3>1 DEF With, Without
    <3> QED
      BY <3>2
  <2> QED
    BY <1>3, <2>1 DEF StreamDestroy
<1>4. ASSUME NEW r, NEW d \in Channels, NEW x,
             r \in DOMAIN streams => x \in Channel,
             streams' = IF r \in DOMAIN streams
                        THEN [streams EXCEPT ![r].channels[d] = x] ELSE streams
      PROVE  Typed(streams')
  <2>1. CASE r \in DOMAIN streams
    <3>1. Typed([streams EXCEPT ![r].channels[d] = x])
      BY <1>4, <2>1, ChannelChanged
    <3> QED
      BY <1>4, <2>1, <3>1
  <2>2. CASE r \notin DOMAIN streams
    BY <1>4, <2>2
  <2> QED
    BY <2>1, <2>2
<1>5. \A r \in DOMAIN streams, d \in Channels : streams[r].channels[d] \in Channel
  BY DEF Stream
<1>6. CASE StreamSlipSpeed(s, c)
  <2> DEFINE x == [streams[s].channels[c] EXCEPT !.slipping = TRUE]
  <2>1. s \in DOMAIN streams => x \in Channel
    BY <1>5, ChannelTypes
  <2>2. streams' = IF s \in DOMAIN streams THEN [streams EXCEPT ![s].channels[c] = x] ELSE streams
    BY <1>6 DEF StreamSlipSpeed
  <2> HIDE DEF x
  <2> QED
    BY <1>4, <1>6, <2>1, <2>2 DEF StreamSlipSpeed
<1>7. CASE StreamSlipOff(s, c)
  <2> DEFINE x == [streams[s].channels[c] EXCEPT !.slipping = FALSE]
  <2>1. s \in DOMAIN streams => x \in Channel
    BY <1>5, ChannelTypes
  <2>2. streams' = IF s \in DOMAIN streams THEN [streams EXCEPT ![s].channels[c] = x] ELSE streams
    BY <1>7 DEF StreamSlipOff
  <2> HIDE DEF x
  <2> QED
    BY <1>4, <1>7, <2>1, <2>2 DEF StreamSlipOff
<1>8. CASE StreamSlipOffset(s, c, n)
  <2> DEFINE x == MovedTo(streams[s].channels[c], n - Offset(streams[s], c))
  <2>1. s \in DOMAIN streams => x \in Channel
    <3> SUFFICES ASSUME s \in DOMAIN streams PROVE x \in Channel
      OBVIOUS
    <3>1. n - Offset(streams[s], c) \in Int
      BY <1>5 DEF Offset, Stream, Channel
    <3> QED
      BY <1>5, <3>1, ChannelTypes
  <2>2. streams' = IF s \in DOMAIN streams THEN [streams EXCEPT ![s].channels[c] = x] ELSE streams
    BY <1>8 DEF StreamSlipOffset
  <2> HIDE DEF x
  <2> QED
    BY <1>4, <1>8, <2>1, <2>2 DEF StreamSlipOffset
<1>9. CASE StreamDataTarget(s, c)
  BY <1>9 DEF StreamDataTarget
<1>10. CASE StreamData(len)
  <2>1. CASE dataTarget = NoTarget
    BY <1>10, <2>1 DEF StreamData
  <2>2. CASE dataTarget # NoTarget
    <3> DEFINE r == dataTarget[1]
               d == dataTarget[2]
               x == Fed(streams[r].channels[d], len)
    <3>1. r \in Streams /\ d \in Channels
      BY <2>2
    <3>2. r \in DOMAIN streams => x \in Channel
      BY <1>5, <3>1, ChannelTypes
    <3>3. streams' = IF r \in DOMAIN streams THEN [streams EXCEPT ![r].channels[d] = x] ELSE streams
      BY <1>10, <2>2 DEF StreamData
    <3> HIDE DEF r, d, x
    <3>4. Typed(streams')
      BY <1>4, <3>1, <3>2, <3>3
    <3> QED
      BY <1>10, <3>4 DEF StreamData
  <2> QED
    BY <2>1, <2>2
<1>11. CASE StreamDataBatchEnd(s)
  <2>1. CASE s \in DOMAIN streams
    <3> DEFINE channels == streams[s].channels
               anyGot == \E d \in Channels : channels[d].gotDataThisBatch
               k == [d \in Channels |-> BatchEnded(channels[d], anyGot)]
    <3>1. k \in [Channels -> Channel]
      <4>1. anyGot \in BOOLEAN
        OBVIOUS
      <4> HIDE DEF anyGot
      <4> QED
        BY <1>5, <2>1, <4>1, ChannelTypes
    <3>2. streams' = [streams EXCEPT ![s].channels = k]
      BY <1>11, <2>1 DEF StreamDataBatchEnd
    <3> HIDE DEF k
    <3>3. [streams[s] EXCEPT !.channels = k] \in Stream
      BY <2>1, <3>1, ChannelsReplaced
    <3>4. Typed(streams')
      BY <2>1, <3>2, <3>3
    <3> QED
      BY <1>11, <3>4 DEF StreamDataBatchEnd
  <2>2. CASE s \notin DOMAIN streams
    BY <1>11, <2>2 DEF StreamDataBatchEnd
  <2> QED
    BY <2>1, <2>2
<1> QED
  BY <1>1, <1>2, <1>3, <1>6, <1>7, <1>8, <1>9, <1>10, <1>11 DEF StreamPlay, StreamStop

\* What the service does to the voices is typed.
LEMMA VoicesTyped ==
    ASSUME EngineTyped, NEW v \in Voices, NEW on \in BOOLEAN,
           \/ SampleCreate(v) \/ SampleDestroy(v) \/ SampleStart(v) \/ SampleStop(v)
           \/ SamplePause(v, on)
    PROVE  EngineTyped' /\ UNCHANGED <<streams, queued, dataTarget>>
<1> DEFINE Typed(t) == DOMAIN t \subseteq Voices /\ t \in [DOMAIN t -> Voice]
<1> USE DEF EngineTyped
<1>1. CASE SampleCreate(v)
  <2>1. Typed(With(voices, v, NewVoice))
    <3>1. NewVoice \in Voice /\ voices \in [DOMAIN voices -> Voice]
      BY NewTyped
    <3>2. /\ DOMAIN With(voices, v, NewVoice) = DOMAIN voices \cup {v}
          /\ With(voices, v, NewVoice) \in [DOMAIN voices \cup {v} -> Voice]
      BY <3>1 DEF With, Without
    <3> QED
      BY <3>2
  <2> QED
    BY <1>1, <2>1 DEF SampleCreate
<1>2. CASE SampleDestroy(v)
  <2>1. Typed(Without(voices, v))
    <3>1. NewVoice \in Voice /\ voices \in [DOMAIN voices -> Voice]
      BY NewTyped
    <3>2. /\ DOMAIN Without(voices, v) = DOMAIN voices \ {v}
          /\ Without(voices, v) \in [DOMAIN voices \ {v} -> Voice]
      BY <3>1 DEF With, Without
    <3> QED
      BY <3>2
  <2> QED
    BY <1>2, <2>1 DEF SampleDestroy
<1>3. CASE SampleStart(v)
  <2>1. v \in DOMAIN voices => Typed([voices EXCEPT ![v] = [playing |-> TRUE, paused |-> FALSE]])
    BY DEF Voice
  <2> QED
    BY <1>3, <2>1 DEF SampleStart
<1>4. CASE SampleStop(v)
  <2>1. v \in DOMAIN voices => Typed([voices EXCEPT ![v].playing = FALSE])
    BY DEF Voice
  <2> QED
    BY <1>4, <2>1 DEF SampleStop
<1>5. CASE SamplePause(v, on)
  <2>1. v \in DOMAIN voices => Typed([voices EXCEPT ![v].paused = on])
    BY DEF Voice
  <2> QED
    BY <1>5, <2>1 DEF SamplePause
<1> QED
  BY <1>1, <1>2, <1>3, <1>4, <1>5

\* The records of the game's calls.
LEMMA GameRecords ==
    /\ \A cmd \in {"StreamInfo", "Play", "Stop", "Destroy"}, s \in Streams :
         Command(cmd, s) \in GameRecord
    /\ \A cmd \in {"SlipSpeed", "SlipStop"}, s \in Streams, c \in Bendable :
         ChannelCommand(cmd, s, c) \in GameRecord
    /\ \A s \in Streams, c \in Bendable, n \in Int :
         [cmd |-> "SlipOffset", stream |-> s, channel |-> c, samples |-> n] \in GameRecord
    /\ \A cmd \in {"Create", "Start", "StopSample", "Pause", "Resume", "DestroySample"}, v \in Voices :
         VoiceCommand(cmd, v) \in GameRecord
BY DEF GameRecord, StreamCommands, SlipCommands, Realignments, VoiceCommands

\* No record of the game's is a chunk or the end.
LEMMA GameKinds == SpuChunk \notin GameRecord /\ Terminate \notin GameRecord
<1>1. \A x \in StreamCommands : x.cmd \notin {"SpuChunk", "Terminate"}
  BY DEF StreamCommands, Command
<1>2. \A x \in SlipCommands \cup Realignments : x.cmd \notin {"SpuChunk", "Terminate"}
  BY DEF SlipCommands, Realignments, ChannelCommand
<1>3. \A x \in VoiceCommands : x.cmd \notin {"SpuChunk", "Terminate"}
  BY DEF VoiceCommands, VoiceCommand
<1>4. SpuChunk.cmd = "SpuChunk" /\ Terminate.cmd = "Terminate"
  BY DEF SpuChunk, Terminate
<1> QED
  BY <1>1, <1>2, <1>3, <1>4 DEF GameRecord

\* The game's call, which appends one record, keeps the types.
LEMMA CallTyped ==
    ASSUME LinkTyped, NEW r \in GameRecord, GameCall(r)
    PROVE  QueuesTyped' /\ PhasesTyped' /\ EngineTyped'
<1>1. QueuesTyped'
  <2>1. calls \in Seq(GameRecord) /\ Len(calls) < MaxCalls /\ calls' = Append(calls, r)
    BY DEF LinkTyped, QueuesTyped, GameCall
  <2>2. calls' \in Seq(GameRecord) /\ Len(calls') <= MaxCalls
    BY <2>1, LinkAssumption
  <2> QED
    BY <2>2 DEF LinkTyped, QueuesTyped, GameCall, engineVars
<1>2. PhasesTyped'
  BY DEF LinkTyped, PhasesTyped, GameCall
<1>3. EngineTyped'
  BY DEF LinkTyped, EngineTyped, GameCall, engineVars
<1> QED
  BY <1>1, <1>2, <1>3

\* The game's calls keep the types.
LEMMA GameTyped == ASSUME LinkTyped, Game PROVE LinkTyped'
<1>1. ASSUME NEW s \in Streams, Prepare(s) \/ Play(s) \/ Stop(s) \/ Destroy(s)
      PROVE  LinkTyped'
  <2>1. PICK r \in GameRecord : GameCall(r)
    BY <1>1, GameRecords DEF Prepare, Play, Stop, Destroy
  <2>2. GuestTyped'
    BY <1>1, <2>1 DEF LinkTyped, GuestTyped, GameCall, Prepare, Play, Stop, Destroy
  <2> QED
    BY <2>1, <2>2, CallTyped DEF LinkTyped
<1>2. ASSUME NEW s \in Streams, NEW c \in Bendable, NEW n \in -MaxSlip .. MaxSlip,
             Bend(s, c) \/ Unbend(s, c) \/ Realign(s, c, n)
      PROVE  LinkTyped'
  <2>1. n \in Int
    BY LinkAssumption
  <2>2. PICK r \in GameRecord : GameCall(r)
    BY <1>2, <2>1, GameRecords DEF Bend, Unbend, Realign
  <2>3. bent' \in [Streams -> SUBSET Bendable] /\ UNCHANGED <<eeStream, eeVoice>>
    BY <1>2 DEF LinkTyped, GuestTyped, Bend, Unbend, Realign
  <2>4. GuestTyped'
    BY <2>2, <2>3 DEF LinkTyped, GuestTyped, GameCall
  <2> QED
    BY <2>2, <2>4, CallTyped DEF LinkTyped
<1>3. ASSUME NEW v \in Voices, NEW pause \in BOOLEAN,
             \/ CreateSample(v) \/ StartSample(v) \/ StopSample(v) \/ DestroySample(v)
             \/ PauseSample(v, pause)
      PROVE  LinkTyped'
  <2>1. PICK r \in GameRecord : GameCall(r)
    BY <1>3, GameRecords DEF CreateSample, StartSample, StopSample, DestroySample, PauseSample
  <2>2. GuestTyped'
    BY <1>3, <2>1
    DEF LinkTyped, GuestTyped, GameCall, CreateSample, StartSample, StopSample, DestroySample,
        PauseSample
  <2> QED
    BY <2>1, <2>2, CallTyped DEF LinkTyped
<1>4. ASSUME NEW n \in 1 .. MaxChunks, Upload(n)
      PROVE  LinkTyped'
  <2>1. n \in Nat
    BY LinkAssumption
  <2>2. QueuesTyped' /\ EngineTyped'
    BY <1>4 DEF LinkTyped, QueuesTyped, EngineTyped, Upload, engineVars, linkVars
  <2>3. PhasesTyped' /\ GuestTyped'
    BY <1>4, <2>1 DEF LinkTyped, PhasesTyped, GuestTyped, Upload, linkVars
  <2> QED
    BY <2>2, <2>3 DEF LinkTyped
<1>5. CASE StartTerminate
  <2>1. QueuesTyped'
    <3>1. Append(calls, Terminate) \in Seq(FlushRecord)
      BY DEF LinkTyped, QueuesTyped, FlushRecord
    <3>2. <<>> \in Seq(GameRecord) /\ Len(<<>>) <= MaxCalls
      BY LinkAssumption
    <3> QED
      BY <1>5, <3>1, <3>2 DEF LinkTyped, QueuesTyped, StartTerminate, engineVars
  <2>2. EngineTyped'
    BY <1>5 DEF LinkTyped, EngineTyped, StartTerminate, engineVars
  <2>3. PhasesTyped' /\ GuestTyped'
    BY <1>5 DEF LinkTyped, PhasesTyped, GuestTyped, StartTerminate
  <2> QED
    BY <2>1, <2>2, <2>3 DEF LinkTyped
<1>6. \E pause \in BOOLEAN : TRUE
  OBVIOUS
<1>7. \E n \in -MaxSlip .. MaxSlip : TRUE
  <2>1. 0 \in -MaxSlip .. MaxSlip
    BY LinkAssumption
  <2> QED
    BY <2>1
<1> QED
  BY <1>1, <1>2, <1>3, <1>4, <1>5, <1>6, <1>7 DEF Game

\* The reader keeps the types.
LEMMA ReadTyped ==
    ASSUME LinkTyped, NEW s \in Streams, ReadMore(s)
    PROVE  LinkTyped'
<1>1. QueuesTyped' /\ EngineTyped'
  BY DEF LinkTyped, QueuesTyped, EngineTyped, ReadMore, engineVars, linkVars
<1>2. PhasesTyped' /\ GuestTyped'
  BY DEF LinkTyped, PhasesTyped, GuestTyped, ReadMore, linkVars
<1> QED
  BY <1>1, <1>2 DEF LinkTyped

----------------------------------------------------------------------------
(* The replies of a poll *)

\* A channel gets at most MaxPerPoll requests, and the last one only while it
\* falls short of the target.
LEMMA RequestsDue ==
    ASSUME NEW ch \in Channel
    PROVE  /\ Requests(ch) \in 0 .. MaxPerPoll
           /\ Requests(ch) > 0
                => ~ch.dead /\ ch.pcm + ch.inflight + (Requests(ch) - 1) * RequestLen < TargetLen
<1> DEFINE short == {k \in 0 .. (MaxPerPoll - 1) : ch.pcm + ch.inflight + k * RequestLen < TargetLen}
<1>1. MaxPerPoll \in Nat /\ 0 \in 0 .. MaxPerPoll /\ RequestLen \in Nat /\ TargetLen \in Nat
  BY EngineAssumption
<1>2. CASE ch.dead
  BY <1>1, <1>2 DEF Requests
<1>3. CASE ~ch.dead
  <2>1. Requests(ch) = Cardinality(short)
    BY <1>3 DEF Requests
  <2>2. IsFiniteSet(short) /\ Cardinality(short) \in Nat
    <3>1. IsFiniteSet(0 .. (MaxPerPoll - 1))
      BY <1>1, FS_Interval
    <3> QED
      BY <3>1, FS_Subset, FS_CardinalityType
  <2>3. CASE short = {}
    <3>1. Cardinality(short) = 0
      BY <2>3, FS_EmptySet
    <3> QED
      BY <1>1, <2>1, <3>1
  <2>4. CASE short # {}
    <3>1. short \in SUBSET Int
      OBVIOUS
    <3>2. PICK m \in short : \A k \in short : m >= k
      BY <2>2, <2>4, <3>1, GreatestElement
    <3>3. m \in 0 .. (MaxPerPoll - 1) /\ ch.pcm + ch.inflight + m * RequestLen < TargetLen
      BY <3>2
    <3>4. ch.pcm + ch.inflight \in Nat
      BY DEF Channel
    <3>5. ASSUME NEW k \in 0 .. m PROVE k \in short
      <4>1. k * RequestLen <= m * RequestLen
        <5>1. m * RequestLen = k * RequestLen + (m - k) * RequestLen
          BY <1>1, <3>3
        <5>2. (m - k) * RequestLen >= 0 /\ k * RequestLen \in Int /\ (m - k) * RequestLen \in Int
          BY <1>1, <3>3
        <5> QED
          BY <5>1, <5>2
      <4>2. k \in 0 .. (MaxPerPoll - 1) /\ k * RequestLen \in Int /\ m * RequestLen \in Int
        BY <1>1, <3>3
      <4> QED
        BY <1>1, <3>3, <3>4, <4>1, <4>2
    <3>6. short = 0 .. m
      <4>1. \A k \in short : k \in 0 .. m
        BY <1>1, <3>2
      <4> QED
        BY <3>5, <4>1
    <3>7. Cardinality(0 .. m) = m + 1
      BY <1>1, <3>3, FS_Interval
    <3> HIDE DEF short
    <3>8. Requests(ch) = m + 1 /\ (m + 1) - 1 = m
      BY <2>1, <3>3, <3>6, <3>7
    <3> QED
      BY <1>1, <1>3, <3>3, <3>8
  <2> QED
    BY <2>3, <2>4
<1> QED
  BY <1>2, <1>3

\* Two requests are the same when they are for the same channel.
LEMMA RequestsDiffer ==
    /\ \A s, t, c, d : DataRequest(s, c) = DataRequest(t, d) <=> s = t /\ c = d
    /\ \A s, c : DataRequest(s, c) \notin Report \cup Answer \cup Done
    /\ \A x \in Answer \cup Done : x \notin Request \cup Report
<1>1. \A s, t, c, d : DataRequest(s, c) = DataRequest(t, d) <=> s = t /\ c = d
  BY DEF DataRequest
<1>2. \A x \in Request : x.cmd = "StreamData"
  BY DEF Request, DataRequest
<1>3. \A x \in Report : x.cmd = "SlipOffset"
  BY DEF Report, SlipReport
<1>4. \A x \in Answer \cup Done : x.cmd \in {"StreamOp", "SpuSendDone", "Terminated", "SampleDone"}
  BY DEF Answer, Done, StreamOp, SpuSendDone, Terminated, SampleDone
<1>5. \A s, c : DataRequest(s, c).cmd = "StreamData"
  BY DEF DataRequest
<1> QED
  BY <1>1, <1>2, <1>3, <1>4, <1>5

\* The part of a poll's replies that is for one stream.
LEMMA StreamRepliesOf ==
    ASSUME NEW s \in DOMAIN streams, s \in Streams, streams[s] \in Stream
    PROVE  /\ StreamReplies(s) \in Seq(Request \cup Report)
           /\ Len(StreamReplies(s)) <= ChannelCount * (MaxPerPoll + 1)
           /\ \A t, d :
                Counted(StreamReplies(s), {DataRequest(t, d)})
                  = IF t = s /\ d \in Channels THEN Requests(streams[s].channels[d]) ELSE 0
<1> DEFINE n == ChannelCount
           R(d) == Requests(streams[s].channels[d])
           asks == [c \in Channels |-> [k \in 1 .. R(c) |-> DataRequest(s, c)]]
           slips == [c \in Channels |-> IF Reports(streams[s], c)
                                        THEN <<SlipReport(s, c, Offset(streams[s], c))>> ELSE <<>>]
           Times2(q, t, d) == Counted(q, {DataRequest(t, d)})
<1>1. n \in Nat /\ Channels = 1 .. n /\ MaxPerPoll \in Nat
  BY EngineAssumption DEF Channels
<1>2. \A d \in Channels : R(d) \in 0 .. MaxPerPoll
  BY RequestsDue DEF Stream
<1>3. \A d \in Channels : DataRequest(s, d) \in Request
  BY DEF Request
<1>4. \A c \in Channels : asks[c] \in Seq(Request) /\ Len(asks[c]) = R(c)
  <2> TAKE c \in Channels
  <2>1. R(c) \in Nat
    BY <1>2
  <2> HIDE DEF R
  <2> QED
    BY <1>3, <2>1, CountedSame
<1>5. \A c \in Channels : \A t, d : Times2(asks[c], t, d) = IF t = s /\ d = c THEN R(c) ELSE 0
  <2> TAKE c \in Channels
  <2> TAKE t, d
  <2>1. R(c) \in Nat
    BY <1>2
  <2>2. Counted(asks[c], {DataRequest(t, d)})
          = IF DataRequest(s, c) \in {DataRequest(t, d)} THEN R(c) ELSE 0
    <3> HIDE DEF R
    <3> QED
      BY <1>3, <2>1, CountedSame
  <2>3. DataRequest(s, c) \in {DataRequest(t, d)} <=> t = s /\ d = c
    BY RequestsDiffer
  <2> QED
    BY <2>2, <2>3
<1>6. asks \in [1 .. n -> Seq(Request)]
  BY <1>1, <1>4
<1> HIDE DEF R
<1>7. /\ FlattenSeq(asks) \in Seq(Request)
      /\ Len(FlattenSeq(asks)) <= n * MaxPerPoll
      /\ \A t, d : Times2(FlattenSeq(asks), t, d) = IF t = s /\ d \in Channels THEN R(d) ELSE 0
  <2> DEFINE Good(i, q) ==
               /\ Len(q) <= i * MaxPerPoll
               /\ \A t, d : Times2(q, t, d) = IF t = s /\ d \in 1 .. i THEN R(d) ELSE 0
             Fits == [i \in 0 .. n |-> {q \in Seq(Request) : Good(i, q)}]
  <2>1. Len(asks) = n /\ (n = 0 => asks = <<>>) /\ \A i \in 1 .. n : asks[i] \in Seq(Request)
    <3> HIDE DEF asks
    <3> QED
      BY <1>1, <1>6
  <2>2. <<>> \in Fits[0]
    <3>1. Len(<<>>) <= 0 * MaxPerPoll /\ <<>> \in Seq(Request)
      BY <1>1
    <3>2. \A t, d : Times2(<<>>, t, d) = 0 /\ d \notin 1 .. 0
      BY CountedNone
    <3> QED
      BY <1>1, <3>1, <3>2
  <2>3. ASSUME NEW i \in 0 .. n - 1, NEW a \in Fits[i] \cap Seq(Request)
        PROVE  a \o asks[i + 1] \in Fits[i + 1]
    <3>1. i \in 0 .. n /\ i + 1 \in 0 .. n /\ i + 1 \in Channels /\ i \in Nat
      BY <1>1
    <3>2. a \in Seq(Request) /\ Good(i, a)
      BY <3>1
    <3>3. asks[i + 1] \in Seq(Request) /\ Len(asks[i + 1]) = R(i + 1) /\ R(i + 1) \in 0 .. MaxPerPoll
      BY <1>2, <1>4, <3>1 DEF R
    <3>4. \A t, d : Times2(asks[i + 1], t, d) = IF t = s /\ d = i + 1 THEN R(i + 1) ELSE 0
      BY <1>5, <3>1
    <3> HIDE DEF asks
    <3>5. a \o asks[i + 1] \in Seq(Request) /\ Len(a \o asks[i + 1]) = Len(a) + Len(asks[i + 1])
      BY <3>2, <3>3
    <3>6. Len(a \o asks[i + 1]) <= (i + 1) * MaxPerPoll
      <4>1. (i + 1) * MaxPerPoll = i * MaxPerPoll + MaxPerPoll /\ i * MaxPerPoll \in Nat
        BY <1>1, <3>1
      <4> QED
        BY <1>1, <3>2, <3>3, <3>5, <4>1
    <3>7. \A t, d : Times2(a \o asks[i + 1], t, d) = IF t = s /\ d \in 1 .. i + 1 THEN R(d) ELSE 0
      <4> TAKE t, d
      <4>1. Times2(a \o asks[i + 1], t, d) = Times2(a, t, d) + Times2(asks[i + 1], t, d)
        BY <3>2, <3>3, CountedConcat
      <4>2. d \in 1 .. i + 1 <=> d \in 1 .. i \/ d = i + 1
        BY <3>1
      <4>3. ~(i + 1 \in 1 .. i)
        BY <3>1
      <4>4. d \in 1 .. i => R(d) \in Nat
        BY <1>1, <1>2, <3>1
      <4>5. Times2(a, t, d) = IF t = s /\ d \in 1 .. i THEN R(d) ELSE 0
        BY <3>2
      <4> HIDE DEF Times2
      <4> QED
        BY <3>3, <3>4, <4>1, <4>2, <4>3, <4>4, <4>5
    <3> HIDE DEF Times2
    <3> QED
      BY <3>1, <3>5, <3>6, <3>7
  <2> HIDE DEF Fits, asks
  <2>4. FlattenSeq(asks) \in Fits[n] /\ FlattenSeq(asks) \in Seq(Request)
    BY <1>1, <2>1, <2>2, <2>3, FlattenInduction
  <2> QED
    BY <1>1, <2>4 DEF Fits
<1>8. FlattenSeq(slips) \in Seq(Report) /\ Len(FlattenSeq(slips)) <= n
  <2> DEFINE Fits == [i \in 0 .. n |-> {q \in Seq(Report) : Len(q) <= i}]
  <2>1. \A c \in Channels : slips[c] \in Seq(Report) /\ Len(slips[c]) <= 1
    <3> TAKE c \in Channels
    <3>1. SlipReport(s, c, Offset(streams[s], c)) \in Report
      BY DEF Report, Offset, Stream, Channel
    <3> QED
      BY <3>1
  <2>2. slips \in [1 .. n -> Seq(Report)]
    BY <1>1, <2>1
  <2> HIDE DEF slips
  <2>3. Len(slips) = n /\ (n = 0 => slips = <<>>) /\ \A i \in 1 .. n : slips[i] \in Seq(Report)
    BY <1>1, <2>2
  <2>4. <<>> \in Fits[0]
    BY <1>1
  <2>5. ASSUME NEW i \in 0 .. n - 1, NEW a \in Fits[i] \cap Seq(Report)
        PROVE  a \o slips[i + 1] \in Fits[i + 1]
    <3>1. i \in 0 .. n /\ i + 1 \in 0 .. n /\ i + 1 \in Channels /\ i \in Nat
      BY <1>1
    <3>2. a \in Seq(Report) /\ Len(a) <= i /\ slips[i + 1] \in Seq(Report) /\ Len(slips[i + 1]) <= 1
      BY <2>1, <3>1
    <3>3. a \o slips[i + 1] \in Seq(Report) /\ Len(a \o slips[i + 1]) <= i + 1
      BY <3>1, <3>2
    <3> QED
      BY <3>1, <3>3
  <2> HIDE DEF Fits
  <2>6. FlattenSeq(slips) \in Fits[n] /\ FlattenSeq(slips) \in Seq(Report)
    BY <1>1, <2>3, <2>4, <2>5, FlattenInduction
  <2> QED
    BY <1>1, <2>6 DEF Fits
<1> DEFINE A == FlattenSeq(asks)
           B == FlattenSeq(slips)
<1>9. StreamReplies(s) = A \o B
  BY DEF StreamReplies, R
<1> HIDE DEF A, B
<1>10. A \in Seq(Request \cup Report) /\ B \in Seq(Request \cup Report)
  BY <1>7, <1>8 DEF A, B
<1>11. ChannelCount * (MaxPerPoll + 1) = n * MaxPerPoll + n /\ n * MaxPerPoll \in Nat
  BY <1>1
<1>12. A \o B \in Seq(Request \cup Report) /\ Len(A \o B) <= ChannelCount * (MaxPerPoll + 1)
  <2>1. Len(A) <= n * MaxPerPoll /\ Len(B) <= n
    BY <1>7, <1>8 DEF A, B
  <2>2. Len(A \o B) = Len(A) + Len(B) /\ A \o B \in Seq(Request \cup Report)
    BY <1>10
  <2>3. Len(A) \in Nat /\ Len(B) \in Nat
    BY <1>10
  <2> HIDE DEF n
  <2> QED
    BY <1>1, <1>11, <2>1, <2>2, <2>3
<1>13. ASSUME NEW t, NEW d
       PROVE  Times2(A \o B, t, d) = IF t = s /\ d \in Channels THEN R(d) ELSE 0
  <2>1. Times2(A \o B, t, d) = Times2(A, t, d) + Times2(B, t, d)
    BY <1>10, CountedConcat
  <2>2. Times2(B, t, d) = 0
    <3>1. B \in Seq(Report)
      BY <1>8 DEF B
    <3>2. \A i \in DOMAIN B : B[i] \notin {DataRequest(t, d)}
      BY <3>1, RequestsDiffer
    <3> QED
      BY <3>1, <3>2, CountedType
  <2>3. Times2(A, t, d) = IF t = s /\ d \in Channels THEN R(d) ELSE 0
    BY <1>7 DEF A
  <2>4. Times2(A, t, d) \in Nat
    BY <1>10, CountedType
  <2> HIDE DEF Times2
  <2> QED
    BY <2>1, <2>2, <2>3, <2>4
<1> QED
  BY <1>9, <1>12, <1>13 DEF R

\* What a poll delivers when the ring holds it: what was queued, then what the
\* streams ask for.
LEMMA RepliesDueOf ==
    ASSUME LinkTyped
    PROVE  /\ RepliesDue \in Seq(Reply)
           /\ Len(RepliesDue)
                <= Len(queued) + Cardinality(Streams) * (ChannelCount * (MaxPerPoll + 1))
           /\ Len(queued) <= Len(RepliesDue)
           /\ \A m \in 0 .. Len(RepliesDue) :
                m >= Len(queued) => \E q \in Seq(Request \cup Report) : SubSeq(RepliesDue, 1, m) = queued \o q
           /\ \A x \in Answer \cup Done : Counted(RepliesDue, {x}) = Counted(queued, {x})
           /\ \A t \in Streams, d \in Channels :
                Counted(RepliesDue, {DataRequest(t, d)})
                  = IF t \in DOMAIN streams THEN Requests(streams[t].channels[d]) ELSE 0
<1> DEFINE W == ChannelCount * (MaxPerPoll + 1)
           n == Cardinality(DOMAIN streams)
           ids == SetToSeq(DOMAIN streams)
           all == [i \in 1 .. n |-> StreamReplies(ids[i])]
           X == Request \cup Report
           R(t, d) == Requests(streams[t].channels[d])
           Times2(q, t, d) == Counted(q, {DataRequest(t, d)})
<1>1. W \in Nat
  BY EngineAssumption
<1>2. DOMAIN streams \subseteq Streams /\ \A s \in DOMAIN streams : streams[s] \in Stream
  BY DEF LinkTyped, EngineTyped
<1>3. IsFiniteSet(DOMAIN streams) /\ n <= Cardinality(Streams) /\ Cardinality(Streams) \in Nat
  BY <1>2, EngineAssumption, FS_Subset, FS_CardinalityType
<1>4. /\ n \in Nat /\ ids \in [1 .. n -> DOMAIN streams]
      /\ \A i, j \in 1 .. n : ids[i] = ids[j] => i = j
      /\ \A s \in DOMAIN streams : \E i \in 1 .. n : ids[i] = s
  BY <1>3, SetToSeqOf
<1>5. \A i \in 1 .. n : all[i] \in Seq(X) /\ Len(all[i]) <= W
  BY <1>2, <1>4, StreamRepliesOf
<1>6. \A i \in 1 .. n : \A t, d :
        Times2(all[i], t, d) = IF t = ids[i] /\ d \in Channels THEN R(t, d) ELSE 0
  <2> TAKE i \in 1 .. n
  <2> TAKE t, d
  <2>1. ids[i] \in DOMAIN streams /\ ids[i] \in Streams /\ streams[ids[i]] \in Stream
    BY <1>2, <1>4
  <2>2. Times2(StreamReplies(ids[i]), t, d)
          = IF t = ids[i] /\ d \in Channels THEN R(ids[i], d) ELSE 0
    BY <2>1, StreamRepliesOf
  <2> QED
    BY <2>2
<1>7. \A t \in DOMAIN streams, d \in Channels : R(t, d) \in Nat
  <2> TAKE t \in DOMAIN streams, d \in Channels
  <2>1. streams[t].channels[d] \in Channel
    BY <1>2 DEF Stream
  <2> QED
    BY <2>1, RequestsDue, EngineAssumption
<1>8. all \in [1 .. n -> Seq(X)]
  BY <1>5
<1>9. Len(all) = n /\ (n = 0 => all = <<>>)
  <2> HIDE DEF all, n
  <2> QED
    BY <1>4, <1>8
<1> HIDE DEF all, ids, n, X, W, R
<1> DEFINE Met(i, t) == \E j \in 1 .. i : ids[j] = t
           Good(i, q) == /\ Len(q) <= i * W
                         /\ \A t \in DOMAIN streams, d \in Channels :
                              Times2(q, t, d) = IF Met(i, t) THEN R(t, d) ELSE 0
                         /\ \A t, d : t \notin DOMAIN streams => Times2(q, t, d) = 0
           Fits == [i \in 0 .. n |-> {q \in Seq(X) : Good(i, q)}]
<1>10. <<>> \in Fits[0]
  <2>1. Len(<<>>) <= 0 * W /\ <<>> \in Seq(X) /\ 0 \in 0 .. n
    BY <1>1, <1>4
  <2>2. \A t, d : Times2(<<>>, t, d) = 0 /\ ~Met(0, t)
    BY CountedNone
  <2> QED
    BY <2>1, <2>2
<1>11. ASSUME NEW i \in 0 .. n - 1, NEW a \in Fits[i] \cap Seq(X)
       PROVE  a \o all[i + 1] \in Fits[i + 1]
  <2>1. i \in 0 .. n /\ i + 1 \in 0 .. n /\ i + 1 \in 1 .. n /\ i \in Nat
    BY <1>4
  <2>2. a \in Seq(X) /\ Good(i, a)
    BY <2>1
  <2>3. all[i + 1] \in Seq(X) /\ Len(all[i + 1]) <= W
    BY <1>5, <2>1
  <2>4. a \o all[i + 1] \in Seq(X) /\ Len(a \o all[i + 1]) = Len(a) + Len(all[i + 1])
    BY <2>2, <2>3
  <2>5. Len(a \o all[i + 1]) <= (i + 1) * W
    <3>1. (i + 1) * W = i * W + W /\ i * W \in Nat
      BY <1>1, <2>1
    <3>2. Len(a) \in Nat /\ Len(all[i + 1]) \in Nat
      BY <2>2, <2>3
    <3> QED
      BY <1>1, <2>2, <2>3, <2>4, <3>1, <3>2
  <2>6. \A t, d : Times2(a \o all[i + 1], t, d) = Times2(a, t, d) + Times2(all[i + 1], t, d)
    BY <2>2, <2>3, CountedConcat
  <2>7. ASSUME NEW t \in DOMAIN streams, NEW d \in Channels
        PROVE  Times2(a \o all[i + 1], t, d) = IF Met(i + 1, t) THEN R(t, d) ELSE 0
    <3>1. Met(i + 1, t) <=> Met(i, t) \/ ids[i + 1] = t
      BY <2>1
    <3>2. ~(Met(i, t) /\ ids[i + 1] = t)
      BY <1>4, <2>1
    <3>3. Times2(a, t, d) = IF Met(i, t) THEN R(t, d) ELSE 0
      BY <2>2
    <3>4. Times2(all[i + 1], t, d) = IF t = ids[i + 1] THEN R(t, d) ELSE 0
      BY <1>6, <2>1
    <3>5. R(t, d) \in Nat
      BY <1>7
    <3> HIDE DEF Times2, Met
    <3> QED
      BY <2>6, <3>1, <3>2, <3>3, <3>4, <3>5
  <2>8. ASSUME NEW t, NEW d, t \notin DOMAIN streams
        PROVE  Times2(a \o all[i + 1], t, d) = 0
    <3>1. t # ids[i + 1]
      BY <1>4, <2>1, <2>8
    <3>2. Times2(all[i + 1], t, d) = 0 /\ Times2(a, t, d) = 0
      BY <1>6, <2>1, <2>2, <2>8, <3>1
    <3> HIDE DEF Times2
    <3> QED
      BY <2>6, <3>2
  <2> HIDE DEF Times2, Met
  <2> QED
    BY <2>1, <2>4, <2>5, <2>7, <2>8
<1> DEFINE F == FlattenSeq(all)
<1>12. F \in Fits[n] /\ F \in Seq(X)
  <2> HIDE DEF Fits
  <2>1. \A i \in 1 .. Len(all) : all[i] \in Seq(X)
    BY <1>8, <1>9
  <2> QED
    BY <1>4, <1>9, <1>10, <1>11, <2>1, FlattenInduction
<1>13. RepliesDue = queued \o F
  BY DEF RepliesDue, all, ids, n
<1>14. Good(n, F)
  <2> HIDE DEF F, Good
  <2>1. n \in 0 .. n
    BY <1>4
  <2> QED
    BY <1>12, <2>1
<1> HIDE DEF F, Fits
<1>15. queued \in Seq(Answer \cup Done)
  BY DEF LinkTyped, QueuesTyped
<1>16. queued \in Seq(Reply) /\ F \in Seq(Reply)
  BY <1>12, <1>15 DEF Reply, X
<1>17. RepliesDue \in Seq(Reply) /\ Len(RepliesDue) = Len(queued) + Len(F)
  BY <1>13, <1>16
<1>23. Len(queued) <= Len(RepliesDue)
  <2>1. Len(queued) \in Nat /\ Len(F) \in Nat
    BY <1>16
  <2> QED
    BY <1>17, <2>1
<1>18. n * W <= Cardinality(Streams) * W
  <2>1. Cardinality(Streams) * W = n * W + (Cardinality(Streams) - n) * W
    BY <1>1, <1>3, <1>4
  <2>2. (Cardinality(Streams) - n) * W >= 0 /\ n * W \in Int /\ (Cardinality(Streams) - n) * W \in Int
    BY <1>1, <1>3, <1>4
  <2> QED
    BY <2>1, <2>2
<1>19. Len(RepliesDue) <= Len(queued) + Cardinality(Streams) * W
  <2>1. Len(F) <= n * W /\ Len(F) \in Nat /\ Len(queued) \in Nat /\ n * W \in Int /\ Cardinality(Streams) * W \in Int
    BY <1>1, <1>3, <1>4, <1>14, <1>15, <1>16
  <2> QED
    BY <1>17, <1>18, <2>1
<1>20. ASSUME NEW m \in 0 .. Len(RepliesDue), m >= Len(queued)
       PROVE  \E q \in Seq(X) : SubSeq(RepliesDue, 1, m) = queued \o q
  <2> DEFINE k == Len(queued)
             q == SubSeq(RepliesDue, k + 1, m)
  <2>1. k \in Nat /\ k <= m /\ m \in Nat /\ m <= Len(RepliesDue) /\ Len(RepliesDue) \in Nat
    BY <1>15, <1>17, <1>20
  <2>2. SubSeq(RepliesDue, 1, k) \o SubSeq(RepliesDue, k + 1, m) = SubSeq(RepliesDue, 1, m)
    <3>1. 1 \in 1 .. Len(RepliesDue) + 1 /\ k \in 1 - 1 .. Len(RepliesDue) /\ m \in k .. Len(RepliesDue)
      BY <2>1
    <3> HIDE DEF k
    <3> QED
      BY <1>17, <3>1, ConcatAdjacentSubSeq
  <2>3. \A i \in 1 .. Len(RepliesDue) : RepliesDue[i] = IF i <= k THEN queued[i] ELSE F[i - k]
    BY <1>13, <1>16
  <2>4. SubSeq(RepliesDue, 1, k) = queued
    <3>1. SubSeq(RepliesDue, 1, k) \in Seq(Reply) /\ Len(SubSeq(RepliesDue, 1, k)) = k
      BY <1>17, <2>1
    <3>2. \A i \in 1 .. k : SubSeq(RepliesDue, 1, k)[i] = queued[i]
      BY <1>17, <2>1, <2>3
    <3> QED
      BY <1>16, <3>1, <3>2, SeqEqual
  <2>5. q \in Seq(X)
    <3>1. q \in Seq(Reply) /\ Len(q) = m - k
      BY <1>17, <2>1
    <3>2. \A i \in 1 .. m - k : q[i] = F[i]
      BY <1>17, <2>1, <2>3
    <3>3. m - k <= Len(F) /\ Len(F) \in Nat
      BY <1>16, <1>17, <2>1
    <3>4. \A i \in 1 .. m - k : q[i] \in X
      BY <1>12, <2>1, <3>2, <3>3, SMTT(40)
    <3> HIDE DEF q
    <3> QED
      BY <3>1, <3>4
  <2> QED
    BY <2>2, <2>4, <2>5
<1>21. ASSUME NEW x \in Answer \cup Done
       PROVE  Counted(RepliesDue, {x}) = Counted(queued, {x})
  <2>1. Counted(RepliesDue, {x}) = Counted(queued, {x}) + Counted(F, {x})
    BY <1>13, <1>16, CountedConcat
  <2>2. \A i \in DOMAIN F : F[i] \notin {x}
    BY <1>12, RequestsDiffer DEF X
  <2>3. Counted(F, {x}) = 0
    BY <1>12, <2>2, CountedType
  <2>4. Counted(queued, {x}) \in Nat
    BY <1>16, CountedType
  <2> QED
    BY <2>1, <2>3, <2>4
<1>22. ASSUME NEW t \in Streams, NEW d \in Channels
       PROVE  Times2(RepliesDue, t, d) = IF t \in DOMAIN streams THEN R(t, d) ELSE 0
  <2>1. Times2(RepliesDue, t, d) = Times2(queued, t, d) + Times2(F, t, d)
    BY <1>13, <1>16, CountedConcat
  <2>2. Times2(queued, t, d) = 0
    <3>1. DataRequest(t, d) \in Request
      BY DEF Request
    <3>2. \A i \in DOMAIN queued : queued[i] \notin {DataRequest(t, d)}
      BY <1>15, <3>1, RequestsDiffer
    <3> QED
      BY <1>16, <3>2, CountedType
  <2>3. Times2(F, t, d) = IF t \in DOMAIN streams THEN R(t, d) ELSE 0
    <3>1. t \in DOMAIN streams => Met(n, t)
      BY <1>4
    <3> HIDE DEF Met, Times2
    <3> QED
      BY <1>14, <3>1
  <2>4. Times2(F, t, d) \in Nat
    BY <1>16, CountedType
  <2> HIDE DEF Times2
  <2> QED
    BY <2>1, <2>2, <2>3, <2>4
<1> QED
  BY <1>17, <1>19, <1>20, <1>21, <1>22, <1>23 DEF W, X, R

----------------------------------------------------------------------------
(* The audio thread and the poll keep the types and the streams in step *)

\* The samples a step leaves behind, and the part of the next it ends in.
LEMMA WholeOf ==
    ASSUME NEW ch \in Channel, NEW step \in Nat
    PROVE  Whole(ch, step) \in Nat /\ (ch.phase + step) % Rate \in Nat
<1> DEFINE a == ch.phase + step
           n == a \div Rate
<1>1. a \in Nat /\ Rate \in Nat \ {0}
  BY EngineAssumption DEF Channel
<1> HIDE DEF a
<1>2. n \in Int /\ a % Rate \in Nat /\ Rate * n <= a /\ a < Rate * n + Rate
  BY <1>1
<1> HIDE DEF n
<1>3. n >= 0
  <2> SUFFICES ASSUME n <= -1 PROVE FALSE
    BY <1>2
  <2>1. Rate * n + Rate = Rate * (n + 1)
    BY <1>1, <1>2
  <2>2. Rate * (n + 1) <= 0
    BY <1>1, <1>2
  <2> QED
    BY <1>1, <1>2, <2>1, <2>2
<1> QED
  BY <1>2, <1>3 DEF a, n, Whole

\* The first of the channels that lead a stream.
LEMMA LeadingOf ==
    ASSUME NEW t \in Stream, Leading(t) # {}
    PROVE  Min(Leading(t)) \in Leading(t) /\ \A c \in Leading(t) : Min(Leading(t)) <= c
<1> DEFINE L == Leading(t)
           S == {n \in Nat : \A c \in L : c > n}
<1>1. L \subseteq Nat \ {0}
  BY EngineAssumption DEF Leading, Channels
<1> HIDE DEF L
<1>2. \E m \in L : \A c \in L : m <= c
  <2> SUFFICES ASSUME \A m \in L : \E c \in L : c < m PROVE L = {}
    BY <1>1 DEF L
  <2>1. 0 \in S
    BY <1>1
  <2>2. ASSUME NEW n \in S PROVE n + 1 \in S
    <3>1. n \in Nat /\ \A c \in L : c > n
      OBVIOUS
    <3>2. n + 1 \notin L
      BY <1>1, <3>1
    <3>3. \A c \in L : c > n + 1
      BY <1>1, <3>1, <3>2
    <3> QED
      BY <3>1, <3>3
  <2>3. S \subseteq Nat
    OBVIOUS
  <2> HIDE DEF S
  <2>4. S = Nat
    BY <2>1, <2>2, <2>3, AllNaturals
  <2>5. ASSUME NEW c \in L PROVE c > c
    BY <1>1, <2>4 DEF S
  <2> QED
    BY <1>1, <2>5
<1> QED
  BY <1>2 DEF Min, L

\* A channel in a frame of a stream that does not starve.
LEMMA MovedOf ==
    ASSUME NEW ch \in Channel, NEW own, ch.slipping => own \in Nat,
           Heard(ch) /\ ~ch.slipping => ~Short(ch, Freq)
    PROVE  /\ Moved(ch, own) \in Channel
           /\ Moved(ch, own).dead = ch.dead /\ Moved(ch, own).gotData = ch.gotData
           /\ Moved(ch, own).slipping = ch.slipping
           /\ Moved(ch, own).inflight = ch.inflight
           /\ Moved(ch, own).pos + Moved(ch, own).pcm = ch.pos + ch.pcm
           /\ Moved(ch, own).pcm <= ch.pcm
           /\ ~Heard(ch) => Moved(ch, own) = ch
           /\ Heard(ch) /\ ~ch.slipping =>
                /\ Moved(ch, own).pos = ch.pos + Whole(ch, Freq)
                /\ Moved(ch, own).phase = (ch.phase + Freq) % Rate
<1> DEFINE step == IF ch.slipping THEN own ELSE Freq
           whole == Whole(ch, step)
           part == (ch.phase + step) % Rate
           quiet == ~Heard(ch) \/ (ch.slipping /\ Short(ch, step))
<1>1. Moved(ch, own) = IF quiet THEN ch
                         ELSE [ch EXCEPT !.phase = part, !.pcm = @ - whole, !.pos = @ + whole]
  BY DEF Moved
<1>2. step \in Nat /\ (~ch.slipping => step = Freq)
  BY EngineAssumption
<1>3. whole \in Nat /\ part \in Nat
  <2> HIDE DEF step
  <2> QED
    BY <1>2, WholeOf
<1>4. CASE quiet
  <2>1. Moved(ch, own) = ch
    BY <1>1, <1>4
  <2>2. ~ch.slipping => ~Heard(ch)
    BY <1>4
  <2> HIDE DEF quiet
  <2> QED
    BY <2>1, <2>2 DEF Channel
<1>5. CASE ~quiet
  <2>1. Heard(ch) /\ ~Short(ch, step)
    BY <1>2, <1>5
  <2>2. ch.pcm - whole \in Nat /\ ch.pos + whole \in Int
    <3>1. ch.pcm >= whole + LookAhead /\ LookAhead \in Nat /\ ch.pcm \in Nat /\ ch.pos \in Int
      <4>1. ch.pcm \in Nat /\ ch.pos \in Int /\ LookAhead \in Nat
        BY EngineAssumption DEF Channel
      <4>2. ~(ch.pcm < whole + LookAhead)
        BY <2>1 DEF Short
      <4> HIDE DEF whole
      <4> QED
        BY <1>3, <4>1, <4>2
    <3> HIDE DEF whole
    <3> QED
      BY <1>3, <3>1
  <2>3. Moved(ch, own) = [ch EXCEPT !.phase = part, !.pcm = ch.pcm - whole, !.pos = ch.pos + whole]
    BY <1>1, <1>5
  <2>4. ~ch.slipping => whole = Whole(ch, Freq) /\ part = (ch.phase + Freq) % Rate
    BY <1>2
  <2> HIDE DEF step, whole, part, quiet
  <2>5. /\ Moved(ch, own) \in Channel
        /\ Moved(ch, own).pcm = ch.pcm - whole /\ Moved(ch, own).pos = ch.pos + whole
        /\ Moved(ch, own).phase = part
    BY <1>3, <2>2, <2>3 DEF Channel
  <2>6. /\ Moved(ch, own).dead = ch.dead /\ Moved(ch, own).gotData = ch.gotData
        /\ Moved(ch, own).slipping = ch.slipping
        /\ Moved(ch, own).inflight = ch.inflight
    BY <2>3 DEF Channel
  <2>7. /\ Moved(ch, own).pos + Moved(ch, own).pcm = ch.pos + ch.pcm
        /\ Moved(ch, own).pcm <= ch.pcm
    BY <1>3, <2>5 DEF Channel
  <2> QED
    BY <2>1, <2>4, <2>5, <2>6, <2>7
<1> QED
  BY <1>4, <1>5

\* What a frame leaves of a stream.
LEMMA FrameOf ==
    ASSUME NEW t \in Stream, StreamInStep(t), NEW bend \in [Bendable -> Nat]
    PROVE  /\ Frame(t, bend) \in Stream
           /\ StreamInStep(Frame(t, bend))
           /\ \A c \in Channels :
                LET ch == t.channels[c]
                    to == Frame(t, bend).channels[c]
                IN  /\ to.dead = ch.dead /\ to.gotData = ch.gotData
                    /\ to.inflight = ch.inflight
                    /\ to.pos + to.pcm = ch.pos + ch.pcm
                    /\ to.pcm <= ch.pcm
<1> DEFINE F == Frame(t, bend)
           runs == t.playing /\ (t.started \/ ReadyToStart(t))
           k == [c \in Channels |-> Moved(t.channels[c], bend[c])]
           went == IF Leading(t) = {} THEN t.consumed
                   ELSE t.consumed + Whole(t.channels[Min(Leading(t))], Freq)
           St == [t EXCEPT !.started = TRUE]
           Go == [t EXCEPT !.started = TRUE, !.consumed = went, !.channels = k]
<1>1. \A c \in Channels : t.channels[c] \in Channel
  BY DEF Stream
<1>2. F = IF ~runs THEN t ELSE IF Starved(t) THEN St ELSE Go
  BY DEF Frame
<1>3. \A c \in Channels : t.channels[c].dead => ~t.channels[c].gotData
  BY DEF StreamInStep
<1>4. \A c \in Channels \ Bendable : ChannelInStep(t, t.channels[c]) /\ ~t.channels[c].slipping
  BY DEF StreamInStep, ChannelInStep
<1>5. \A c \in Channels : Heard(t.channels[c]) <=> t.channels[c].gotData
  BY <1>1, <1>3 DEF Heard, Channel
<1>6. runs => \A c \in Channels \ Bendable : t.channels[c].dead \/ t.channels[c].gotData
  <2> SUFFICES ASSUME runs, NEW c \in Channels \ Bendable
               PROVE  t.channels[c].dead \/ t.channels[c].gotData
    OBVIOUS
  <2>1. CASE t.started
    BY <1>4, <2>1 DEF ChannelInStep
  <2>2. CASE ReadyToStart(t)
    <3>1. t.channels[c].dead \/ t.channels[c].pcm >= StartLen
      BY <2>2 DEF ReadyToStart
    <3> QED
      BY <1>4, <3>1, EngineAssumption DEF ChannelInStep
  <2> QED
    BY <2>1, <2>2
<1>7. CASE ~runs
  <2>1. F = t
    BY <1>2, <1>7
  <2> HIDE DEF F, runs
  <2>2. \A c \in Channels : t.channels[c].pcm <= t.channels[c].pcm
    BY <1>1 DEF Channel
  <2> QED
    BY <2>1, <2>2 DEF F
<1>8. CASE runs /\ Starved(t)
  <2>1. F = St
    BY <1>2, <1>8
  <2>2. /\ St \in Stream /\ St.channels = t.channels /\ St.consumed = t.consumed /\ St.started = TRUE
    BY DEF Stream
  <2> HIDE DEF St
  <2>3. \A c \in Channels \ Bendable : ChannelInStep(St, t.channels[c])
    BY <1>4, <1>6, <1>8, <2>2 DEF ChannelInStep
  <2>4. StreamInStep(St)
    BY <2>2, <2>3 DEF StreamInStep, First
  <2>5. \A c \in Channels : t.channels[c].pcm <= t.channels[c].pcm
    BY <1>1 DEF Channel
  <2> HIDE DEF F, runs
  <2> QED
    BY <2>1, <2>2, <2>4, <2>5 DEF F
<1>9. CASE runs /\ ~Starved(t)
  <2>1. F = Go
    BY <1>2, <1>9
  <2>2. \A c \in Channels : /\ t.channels[c].slipping => bend[c] \in Nat
                            /\ Heard(t.channels[c]) /\ ~t.channels[c].slipping => ~Short(t.channels[c], Freq)
    <3> TAKE c \in Channels
    <3>1. t.channels[c].slipping => bend[c] \in Nat
      BY <1>4
    <3> QED
      BY <1>9, <3>1 DEF Starved, Leading
  <2>3. \A c \in Channels :
          /\ k[c] \in Channel
          /\ k[c].dead = t.channels[c].dead /\ k[c].gotData = t.channels[c].gotData
          /\ k[c].slipping = t.channels[c].slipping
          /\ k[c].inflight = t.channels[c].inflight
          /\ k[c].pos + k[c].pcm = t.channels[c].pos + t.channels[c].pcm
          /\ k[c].pcm <= t.channels[c].pcm
          /\ ~Heard(t.channels[c]) => k[c] = t.channels[c]
          /\ Heard(t.channels[c]) /\ ~t.channels[c].slipping =>
               /\ k[c].pos = t.channels[c].pos + Whole(t.channels[c], Freq)
               /\ k[c].phase = (t.channels[c].phase + Freq) % Rate
    BY <1>1, <2>2, MovedOf
  <2>4. k \in [Channels -> Channel]
    BY <2>3
  <2>5. went \in Nat
    <3>1. t.consumed \in Nat
      BY DEF Stream
    <3>2. Leading(t) # {} => Whole(t.channels[Min(Leading(t))], Freq) \in Nat
      <4> SUFFICES ASSUME Leading(t) # {} PROVE Whole(t.channels[Min(Leading(t))], Freq) \in Nat
        OBVIOUS
      <4>1. Min(Leading(t)) \in Channels
        BY LeadingOf DEF Leading
      <4> QED
        BY <1>1, <4>1, WholeOf, EngineAssumption
    <3> QED
      BY <3>1, <3>2
  <2>6. \A c \in Channels \ Bendable : t.channels[c].gotData /\ First(t, c) =>
          went = t.consumed + Whole(t.channels[c], Freq)
    <3> SUFFICES ASSUME NEW c \in Channels \ Bendable, t.channels[c].gotData, First(t, c)
                 PROVE  went = t.consumed + Whole(t.channels[c], Freq)
      OBVIOUS
    <3> DEFINE m == Min(Leading(t))
    <3>1. c \in Leading(t)
      BY <1>4, <1>5 DEF Leading
    <3>2. m \in Leading(t) /\ m <= c
      BY <3>1, LeadingOf
    <3>3. m \in Channels /\ t.channels[m].gotData
      BY <1>5, <3>2 DEF Leading
    <3>4. m \notin Bendable
      <4> SUFFICES ASSUME m \in Bendable PROVE FALSE
        OBVIOUS
      <4>1. c < m
        BY <3>3 DEF First
      <4>2. c \in Int /\ m \in Int
        BY <3>3 DEF Channels
      <4> HIDE DEF m
      <4> QED
        BY <3>2, <4>1, <4>2
    <3>5. Together(t.channels[c], t.channels[m])
      BY <3>3, <3>4 DEF StreamInStep
    <3>6. Whole(t.channels[m], Freq) = Whole(t.channels[c], Freq)
      BY <3>5 DEF Together, Whole
    <3> QED
      BY <3>1, <3>6
  <2> HIDE DEF k, went
  <2>7. /\ Go \in Stream /\ Go.channels = k /\ Go.consumed = went /\ Go.started = TRUE
    BY <2>4, <2>5 DEF Stream
  <2> HIDE DEF Go
  <2>8. \A c \in Channels : k[c].dead => ~k[c].gotData
    BY <1>3, <2>3
  <2>9. ASSUME NEW c \in Channels \ Bendable
        PROVE  ChannelInStep(Go, k[c])
    <3>1. ChannelInStep(t, t.channels[c]) /\ (t.channels[c].dead \/ t.channels[c].gotData)
      BY <1>4, <1>6, <1>9
    <3>2. CASE t.channels[c].gotData
      BY <2>3, <2>7, <3>1, <3>2 DEF ChannelInStep
    <3>3. CASE ~t.channels[c].gotData
      <4>1. k[c] = t.channels[c]
        BY <1>5, <2>3, <3>3
      <4> QED
        BY <2>7, <3>1, <3>3, <4>1 DEF ChannelInStep
    <3> QED
      BY <3>2, <3>3
  <2>10. ASSUME NEW c \in Channels \ Bendable, NEW d \in Channels \ Bendable,
                k[c].gotData, k[d].gotData
         PROVE  Together(k[c], k[d])
    <3>1. t.channels[c].gotData /\ t.channels[d].gotData
      BY <2>3, <2>10
    <3>2. Together(t.channels[c], t.channels[d])
      BY <3>1 DEF StreamInStep
    <3>3. /\ k[c].pos = t.channels[c].pos + Whole(t.channels[c], Freq)
          /\ k[d].pos = t.channels[d].pos + Whole(t.channels[d], Freq)
          /\ k[c].phase = (t.channels[c].phase + Freq) % Rate
          /\ k[d].phase = (t.channels[d].phase + Freq) % Rate
      BY <1>4, <1>5, <2>3, <3>1
    <3> QED
      BY <3>2, <3>3 DEF Together, Whole
  <2>11. ASSUME NEW c \in Channels \ Bendable, k[c].gotData, First(Go, c)
         PROVE  k[c].pos = went
    <3>1. t.channels[c].gotData /\ First(t, c)
      BY <2>3, <2>7, <2>11, LinkAssumption DEF First
    <3>2. t.channels[c].pos = t.consumed
      BY <3>1 DEF StreamInStep
    <3>3. k[c].pos = t.channels[c].pos + Whole(t.channels[c], Freq)
      BY <1>4, <1>5, <2>3, <3>1
    <3> QED
      BY <2>6, <3>1, <3>2, <3>3
  <2>12. StreamInStep(Go)
    BY <2>7, <2>8, <2>9, <2>10, <2>11 DEF StreamInStep
  <2> HIDE DEF F, runs
  <2> QED
    BY <2>1, <2>3, <2>7, <2>12 DEF F
<1> QED
  BY <1>7, <1>8, <1>9

\* What a poll leaves of a stream.
LEMMA AskedOf ==
    ASSUME NEW t \in Stream
    PROVE  /\ Asked(t) \in Stream
           /\ Asked(t).playing = t.playing /\ Asked(t).started = t.started
           /\ Asked(t).consumed = t.consumed
           /\ \A c \in Channels :
                LET ch == t.channels[c]
                    to == Asked(t).channels[c]
                IN  /\ to.dead = ch.dead /\ to.gotData = ch.gotData
                    /\ to.slipping = ch.slipping /\ to.pos = ch.pos /\ to.pcm = ch.pcm
                    /\ to.phase = ch.phase
                    /\ to.inflight = ch.inflight + Requests(ch) * RequestLen
<1> DEFINE due(c) == t.channels[c].inflight + Requests(t.channels[c]) * RequestLen
           told(c) == IF Reports(t, c) THEN Offset(t, c) ELSE t.channels[c].reportedOffset
           k == [c \in Channels |->
                   [t.channels[c] EXCEPT !.inflight = due(c), !.reportedOffset = told(c)]]
<1>1. \A c \in Channels : t.channels[c] \in Channel
  BY DEF Stream
<1>2. \A c \in Channels : due(c) \in Nat /\ told(c) \in Int
  <2> TAKE c \in Channels
  <2>1. Requests(t.channels[c]) \in Nat
    BY <1>1, RequestsDue
  <2>2. Requests(t.channels[c]) * RequestLen \in Nat
    BY <2>1, EngineAssumption
  <2>3. due(c) \in Nat
    BY <1>1, <2>2 DEF Channel
  <2>4. told(c) \in Int
    BY <1>1 DEF Channel, Stream, Offset
  <2> QED
    BY <2>3, <2>4
<1>3. Asked(t) = [t EXCEPT !.channels = k]
  BY DEF Asked
<1>4. \A c \in Channels :
        /\ k[c] \in Channel
        /\ k[c].dead = t.channels[c].dead /\ k[c].gotData = t.channels[c].gotData
        /\ k[c].slipping = t.channels[c].slipping /\ k[c].pos = t.channels[c].pos
        /\ k[c].pcm = t.channels[c].pcm /\ k[c].phase = t.channels[c].phase
        /\ k[c].inflight = due(c)
  <2> TAKE c \in Channels
  <2> DEFINE ch == t.channels[c]
             x == due(c)
             y == told(c)
  <2>1. k[c] = [ch EXCEPT !.inflight = x, !.reportedOffset = y]
    OBVIOUS
  <2>2. ch \in Channel /\ x \in Nat /\ y \in Int
    BY <1>1, <1>2
  <2> HIDE DEF x, y, ch, k
  <2>3. /\ k[c] \in Channel
        /\ k[c].dead = ch.dead /\ k[c].gotData = ch.gotData
        /\ k[c].slipping = ch.slipping /\ k[c].pos = ch.pos /\ k[c].pcm = ch.pcm
        /\ k[c].phase = ch.phase /\ k[c].inflight = x
    BY <2>1, <2>2 DEF Channel
  <2> QED
    BY <2>3, SMTT(40) DEF x, ch
<1>5. k \in [Channels -> Channel]
  BY <1>4
<1> HIDE DEF k
<1>6. /\ Asked(t) \in Stream /\ Asked(t).channels = k
      /\ Asked(t).playing = t.playing /\ Asked(t).started = t.started
      /\ Asked(t).consumed = t.consumed
  BY <1>3, <1>5, ChannelsReplaced
<1> QED
  BY <1>4, <1>6

\* What is due is delivered or lost.
LEMMA DeliveredOf ==
    ASSUME LinkTyped, DeliverReplies
    PROVE  /\ delivery' \in Seq(Reply) /\ lost' \in Seq(Reply) /\ ring' \in BOOLEAN
           /\ \A x : /\ Counted(delivery', {x}) \in Nat /\ Counted(lost', {x}) \in Nat
                    /\ Counted(lost, {x}) \in Nat /\ Counted(RepliesDue, {x}) \in Nat
                    /\ Counted(delivery', {x}) + Counted(lost', {x})
                         = Counted(RepliesDue, {x}) + Counted(lost, {x})
                    /\ Counted(lost, {x}) <= Counted(lost', {x})
<1> DEFINE m == Fitting(ring')
           due == RepliesDue
           passed == SubSeq(due, 1, m)
           cut == SubSeq(due, m + 1, Len(due))
<1>1. due \in Seq(Reply) /\ lost \in Seq(Reply) /\ Len(due) \in Nat
  BY RepliesDueOf DEF LinkTyped, QueuesTyped
<1>2. m \in 0 .. Len(due)
  BY <1>1, LinkAssumption DEF Fitting, Least
<1>3. delivery' = passed /\ lost' = lost \o cut
  BY DEF DeliverReplies
<1>4. ring' \in BOOLEAN
  BY DEF DeliverReplies, RingAllocated, LinkTyped, QueuesTyped
<1> HIDE DEF m, due
<1>5. passed \in Seq(Reply) /\ cut \in Seq(Reply)
  BY <1>1, <1>2, CountedSplit
<1>6. ASSUME NEW x
      PROVE  /\ Counted(passed, {x}) \in Nat /\ Counted(lost \o cut, {x}) \in Nat
             /\ Counted(lost, {x}) \in Nat /\ Counted(due, {x}) \in Nat
             /\ Counted(passed, {x}) + Counted(lost \o cut, {x}) = Counted(due, {x}) + Counted(lost, {x})
             /\ Counted(lost, {x}) <= Counted(lost \o cut, {x})
  <2>1. Counted(due, {x}) = Counted(passed, {x}) + Counted(cut, {x})
    BY <1>1, <1>2, CountedSplit
  <2> HIDE DEF passed, cut
  <2>2. Counted(lost \o cut, {x}) = Counted(lost, {x}) + Counted(cut, {x})
    BY <1>1, <1>5, CountedConcat
  <2>3. Counted(passed, {x}) \in Nat /\ Counted(cut, {x}) \in Nat /\ Counted(lost, {x}) \in Nat
    BY <1>1, <1>5, CountedType
  <2> QED
    BY <2>1, <2>2, <2>3
<1>7. lost \o cut \in Seq(Reply)
  <2> HIDE DEF cut
  <2> QED
    BY <1>1, <1>5
<1> HIDE DEF passed, cut
<1> QED
  BY <1>3, <1>4, <1>5, <1>6, <1>7 DEF due

\* The delivery keeps the types, and no channel that is never bent leaves its
\* stream.
LEMMA DeliverKeeps ==
    ASSUME LinkTyped, StreamsInStep, DeliverReplies
    PROVE  LinkTyped' /\ StreamsInStep'
<1>1. /\ streams' = [s \in DOMAIN streams |-> Asked(streams[s])]
      /\ queued' = <<>> /\ UNCHANGED <<voices, dataTarget>>
  BY DEF DeliverReplies, TakeReplies
<1>2. \A s \in DOMAIN streams : streams[s] \in Stream
  BY DEF LinkTyped, EngineTyped
<1>3. \A s \in DOMAIN streams : streams'[s] = Asked(streams[s]) /\ streams'[s] \in Stream
  BY <1>1, <1>2, AskedOf
<1>4. DOMAIN streams' = DOMAIN streams /\ streams' \in [DOMAIN streams -> Stream]
  BY <1>1, <1>3
<1>5. EngineTyped'
  BY <1>1, <1>4 DEF LinkTyped, EngineTyped
<1>6. QueuesTyped'
  BY <1>1, DeliveredOf, SMTT(40) DEF LinkTyped, QueuesTyped, DeliverReplies
<1>7. PhasesTyped' /\ GuestTyped'
  BY DEF LinkTyped, PhasesTyped, GuestTyped, DeliverReplies, guestVars
<1>8. ASSUME NEW s \in DOMAIN streams
      PROVE  StreamInStep(streams'[s])
  <2> DEFINE t == streams[s]
             u == Asked(t)
  <2>1. t \in Stream /\ StreamInStep(t) /\ streams'[s] = u
    BY <1>2, <1>3 DEF StreamsInStep
  <2>2. /\ u.started = t.started /\ u.consumed = t.consumed
        /\ \A c \in Channels :
             /\ u.channels[c].dead = t.channels[c].dead /\ u.channels[c].gotData = t.channels[c].gotData
             /\ u.channels[c].slipping = t.channels[c].slipping
             /\ u.channels[c].pos = t.channels[c].pos /\ u.channels[c].pcm = t.channels[c].pcm
             /\ u.channels[c].phase = t.channels[c].phase
    BY <2>1, AskedOf
  <2> HIDE DEF t, u
  <2>3. \A c \in Channels \ Bendable : ChannelInStep(u, u.channels[c])
    BY <2>1, <2>2 DEF StreamInStep, ChannelInStep
  <2>4. \A c \in Channels : First(u, c) => First(t, c)
    BY <2>2, LinkAssumption DEF First
  <2>5. StreamInStep(u)
    BY <2>1, <2>2, <2>3, <2>4 DEF StreamInStep, Together
  <2> QED
    BY <2>1, <2>5
<1> QED
  BY <1>4, <1>5, <1>6, <1>7, <1>8 DEF LinkTyped, StreamsInStep

\* The voices that ended, in some order, and how many replies they make.
LEMMA DonesOf ==
    ASSUME EngineTyped, NEW ended \in SUBSET Sounding
    PROVE  LET ids == SetToSeq(ended)
               dones == [i \in 1 .. Len(ids) |-> SampleDone(ids[i])]
           IN  /\ dones \in Seq(Done)
               /\ Len(dones) = Cardinality(ended) /\ IsFiniteSet(ended)
               /\ ended \subseteq Voices
               /\ \A v \in ended : \E i \in DOMAIN dones : dones[i] = SampleDone(v)
<1> DEFINE ids == SetToSeq(ended)
           n == Cardinality(ended)
           dones == [i \in 1 .. Len(ids) |-> SampleDone(ids[i])]
<1>1. ended \subseteq Voices
  BY DEF EngineTyped, Sounding
<1>2. IsFiniteSet(ended)
  BY <1>1, EngineAssumption, FS_Subset
<1>3. n \in Nat /\ ids \in [1 .. n -> ended] /\ \A v \in ended : \E i \in 1 .. n : ids[i] = v
  BY <1>2, SetToSeqOf
<1>4. Len(ids) = n
  BY <1>3, SeqOfFunction
<1> HIDE DEF ids, n
<1>5. dones \in [1 .. n -> Done]
  BY <1>1, <1>3, <1>4 DEF Done
<1>6. dones \in Seq(Done) /\ Len(dones) = n /\ DOMAIN dones = 1 .. n
  BY <1>3, <1>5, SeqOfFunction
<1>7. \A v \in ended : \E i \in DOMAIN dones : dones[i] = SampleDone(v)
  BY <1>3, <1>4, <1>6
<1> QED
  BY <1>1, <1>2, <1>6, <1>7 DEF ids, n

\* The audio thread keeps the types, and no channel that is never bent leaves
\* its stream.
LEMMA AudioKeeps ==
    ASSUME LinkTyped, StreamsInStep, Audio
    PROVE  LinkTyped' /\ StreamsInStep'
<1>1. PICK bend \in Bends, ended \in SUBSET Sounding : Render(bend, ended)
  BY DEF Audio
<1>2. UNCHANGED <<linkVars, guestVars, dataTarget>>
  BY <1>1 DEF Audio, Render
<1>3. ASSUME NEW s \in DOMAIN streams
      PROVE  streams'[s] = Frame(streams[s], bend[s]) /\ streams'[s] \in Stream /\ StreamInStep(streams'[s])
  <2>1. bend[s] \in [Bendable -> BentSteps]
    BY DEF Bends
  <2>2. bend[s] \in [Bendable -> Nat]
    BY <2>1, LinkAssumption
  <2>3. streams[s] \in Stream /\ StreamInStep(streams[s])
    BY DEF LinkTyped, EngineTyped, StreamsInStep
  <2>4. streams'[s] = Frame(streams[s], bend[s])
    BY <1>1 DEF Render
  <2> QED
    BY <2>2, <2>3, <2>4, FrameOf
<1>4. streams' \in [DOMAIN streams -> Stream] /\ DOMAIN streams' = DOMAIN streams
  BY <1>1, <1>3 DEF Render
<1>5. voices' \in [DOMAIN voices -> Voice] /\ DOMAIN voices' = DOMAIN voices
  <2>1. voices' = [v \in DOMAIN voices |-> [voices[v] EXCEPT !.playing = voices[v].playing /\ v \notin ended]]
    BY <1>1 DEF Render
  <2>2. \A v \in DOMAIN voices : voices[v] \in Voice
    BY DEF LinkTyped, EngineTyped
  <2>3. \A v \in DOMAIN voices : [voices[v] EXCEPT !.playing = voices[v].playing /\ v \notin ended] \in Voice
    BY <2>2 DEF Voice
  <2> QED
    BY <2>1, <2>3
<1>6. EngineTyped'
  BY <1>2, <1>4, <1>5 DEF LinkTyped, EngineTyped
<1>7. QueuesTyped'
  <2> DEFINE dones == [i \in 1 .. Len(SetToSeq(ended)) |-> SampleDone(SetToSeq(ended)[i])]
  <2>1. dones \in Seq(Done)
    BY DonesOf DEF LinkTyped
  <2>2. queued' = queued \o dones
    BY <1>1 DEF Render
  <2> HIDE DEF dones
  <2>3. queued' \in Seq(Answer \cup Done)
    BY <2>1, <2>2 DEF LinkTyped, QueuesTyped
  <2> QED
    BY <1>2, <2>3 DEF LinkTyped, QueuesTyped, linkVars
<1>8. PhasesTyped' /\ GuestTyped'
  BY <1>2 DEF LinkTyped, PhasesTyped, GuestTyped, linkVars, guestVars
<1> QED
  BY <1>3, <1>4, <1>6, <1>7, <1>8 DEF LinkTyped, StreamsInStep

----------------------------------------------------------------------------
(* The records a poll makes of the requests *)

\* The samples a queue of records brings a channel, each by its record and its
\* place in it, and how many they are.
Samples(q, s, c) ==
    {p \in (1 .. Len(q)) \X Nat : q[p[1]] = Target(s, c) /\ p[2] < q[p[1] + 1].len}
Loaded(q, s, c) == Cardinality(Samples(q, s, c))

\* Records as they are queued: data after its target, of a length.
Fitted(q) ==
    /\ Paired(q)
    /\ \A i \in DOMAIN q : q[i].cmd = "Data" => q[i].len \in Nat

\* The records that carry data, their kinds and what tells them apart.
LEMMA RecordKinds ==
    /\ \A s, t, c, d : Target(s, c) = Target(t, d) <=> s = t /\ c = d
    /\ \A s, t : Command("BatchEnd", s) = Command("BatchEnd", t) <=> s = t
    /\ \A s, c : Target(s, c).cmd = "DataTarget" /\ Target(s, c).stream = s
    /\ \A s : Command("BatchEnd", s).cmd = "BatchEnd" /\ Command("BatchEnd", s).stream = s
    /\ \A n : DataRecord(n).cmd = "Data" /\ DataRecord(n).len = n
    /\ \A r \in Targets : r.cmd = "DataTarget"
    /\ \A r \in Loads : r.cmd = "Data" /\ r.len \in Nat
    /\ \A r \in BatchEnds : r.cmd = "BatchEnd"
    /\ \A r \in GameRecord \cup {SpuChunk, Terminate} :
         r.cmd \notin {"DataTarget", "Data", "BatchEnd"}
    /\ StreamRecord \subseteq FlushRecord
<1>1. /\ \A s, t, c, d : Target(s, c) = Target(t, d) <=> s = t /\ c = d
      /\ \A s, t : Command("BatchEnd", s) = Command("BatchEnd", t) <=> s = t
  BY DEF Target, ChannelCommand, Command
<1>2. /\ \A s, c : Target(s, c).cmd = "DataTarget" /\ Target(s, c).stream = s
      /\ \A s : Command("BatchEnd", s).cmd = "BatchEnd" /\ Command("BatchEnd", s).stream = s
      /\ \A n : DataRecord(n).cmd = "Data" /\ DataRecord(n).len = n
  BY DEF Target, ChannelCommand, Command, DataRecord
<1>3. /\ \A r \in Targets : r.cmd = "DataTarget"
      /\ \A r \in Loads : r.cmd = "Data" /\ r.len \in Nat
      /\ \A r \in BatchEnds : r.cmd = "BatchEnd"
  BY <1>2 DEF Targets, Loads, BatchEnds, Target
<1>4. \A r \in GameRecord \cup {SpuChunk, Terminate} : r.cmd \notin {"DataTarget", "Data", "BatchEnd"}
  <2>1. \A r \in StreamCommands : r.cmd \notin {"DataTarget", "Data", "BatchEnd"}
    BY DEF StreamCommands, Command
  <2>2. \A r \in SlipCommands \cup Realignments : r.cmd \notin {"DataTarget", "Data", "BatchEnd"}
    BY DEF SlipCommands, Realignments, ChannelCommand
  <2>3. \A r \in VoiceCommands \cup {SpuChunk, Terminate} : r.cmd \notin {"DataTarget", "Data", "BatchEnd"}
    BY DEF VoiceCommands, VoiceCommand, SpuChunk, Terminate
  <2> QED
    BY <2>1, <2>2, <2>3 DEF GameRecord
<1>5. StreamRecord \subseteq FlushRecord
  BY DEF FlushRecord
<1> QED
  BY <1>1, <1>2, <1>3, <1>4, <1>5

\* The records of a flush about data, by their commands.
LEMMA FlushKinds ==
    ASSUME NEW r \in FlushRecord
    PROVE  /\ r.cmd = "DataTarget" => r \in Targets
           /\ r.cmd = "Data" => r \in Loads
           /\ r.cmd = "BatchEnd" => r \in BatchEnds
BY RecordKinds DEF FlushRecord, StreamRecord

\* Two queues whose data records fit a request, put together, are one.
LEMMA FittedConcat ==
    ASSUME NEW X, NEW a \in Seq(X), NEW b \in Seq(X), Fitted(a), Fitted(b)
    PROVE  Fitted(a \o b)
<1> DEFINE q == a \o b
<1>1. /\ q \in Seq(X) /\ DOMAIN q = 1 .. Len(a) + Len(b) /\ Len(q) = Len(a) + Len(b)
      /\ \A i \in 1 .. Len(a) + Len(b) : q[i] = IF i <= Len(a) THEN a[i] ELSE b[i - Len(a)]
  OBVIOUS
<1>2. /\ DOMAIN a = 1 .. Len(a) /\ DOMAIN b = 1 .. Len(b) /\ Len(a) \in Nat /\ Len(b) \in Nat
  OBVIOUS
<1> HIDE DEF q
<1>3. ASSUME NEW i \in DOMAIN q
      PROVE  /\ q[i].cmd = "DataTarget" => i < Len(q) /\ q[i + 1].cmd = "Data"
             /\ q[i].cmd = "Data" => q[i].len \in Nat
  <2>1. CASE i <= Len(a)
    <3>1. i \in DOMAIN a /\ q[i] = a[i]
      BY <1>1, <1>2, <2>1
    <3>2. i < Len(a) => i < Len(q) /\ q[i + 1] = a[i + 1]
      BY <1>1, <1>2, <3>1
    <3> QED
      BY <3>1, <3>2 DEF Fitted, Paired
  <2>2. CASE ~(i <= Len(a))
    <3>1. i - Len(a) \in DOMAIN b /\ q[i] = b[i - Len(a)]
      BY <1>1, <1>2, <2>2
    <3>2. i - Len(a) < Len(b) => i < Len(q) /\ q[i + 1] = b[(i - Len(a)) + 1]
      BY <1>1, <1>2, <2>2, <3>1
    <3> QED
      BY <3>1, <3>2 DEF Fitted, Paired
  <2> QED
    BY <2>1, <2>2
<1> QED
  BY <1>3 DEF Fitted, Paired, q

\* A bounded set of places and samples is finite.
LEMMA LoadFinite ==
    ASSUME NEW X, NEW q \in Seq(X), Fitted(q), NEW s, NEW c
    PROVE  IsFiniteSet(Samples(q, s, c)) /\ Loaded(q, s, c) \in Nat
<1> DEFINE P == Samples(q, s, c)
           D == {i \in 1 .. Len(q) : q[i] = Target(s, c)}
           row(i) == {i} \X (0 .. q[i + 1].len - 1)
           rows == {row(i) : i \in D}
<1>1. Len(q) \in Nat /\ DOMAIN q = 1 .. Len(q)
  OBVIOUS
<1>2. IsFiniteSet(D)
  <2>1. IsFiniteSet(1 .. Len(q))
    BY <1>1, UpTo
  <2> QED
    BY <2>1, FS_Subset
<1>3. \A i \in D : q[i + 1].len \in Nat /\ i + 1 \in 1 .. Len(q)
  <2> TAKE i \in D
  <2>1. q[i].cmd = "DataTarget"
    BY RecordKinds
  <2>2. i < Len(q) /\ q[i + 1].cmd = "Data"
    BY <1>1, <2>1 DEF Fitted, Paired
  <2> QED
    BY <1>1, <2>2 DEF Fitted
<1>4. \A i \in D : IsFiniteSet(row(i))
  <2> TAKE i \in D
  <2>1. IsFiniteSet({i}) /\ IsFiniteSet(0 .. q[i + 1].len - 1)
    <3>1. 0 \in Int /\ q[i + 1].len - 1 \in Int
      BY <1>3
    <3>2. IsFiniteSet(0 .. q[i + 1].len - 1)
      BY <3>1, FS_Interval
    <3> QED
      BY <3>2, FS_Singleton
  <2> QED
    BY <2>1, FS_Product
<1>5. IsFiniteSet(rows)
  <2> DEFINE f == [i \in D |-> row(i)]
  <2>1. f \in Surjection(D, rows)
    BY DEF Surjection
  <2> HIDE DEF f, rows
  <2> QED
    BY <1>2, <2>1, FS_Surjection
<1>6. IsFiniteSet(UNION rows)
  <2>1. \A R \in rows : IsFiniteSet(R)
    BY <1>4
  <2> HIDE DEF rows
  <2> QED
    BY <1>5, <2>1, FS_UNION
<1>7. P \subseteq UNION rows
  <2> SUFFICES ASSUME NEW p \in P PROVE \E R \in rows : p \in R
    OBVIOUS
  <2>1. p[1] \in D /\ p[2] \in Nat /\ p[2] < q[p[1] + 1].len /\ p = <<p[1], p[2]>>
    BY DEF Samples
  <2>2. p[2] \in 0 .. q[p[1] + 1].len - 1
    BY <1>3, <2>1
  <2>3. p \in row(p[1])
    BY <2>1, <2>2
  <2> QED
    BY <2>1, <2>3
<1>8. IsFiniteSet(P)
  <2> HIDE DEF P, rows
  <2> QED
    BY <1>6, <1>7, FS_Subset
<1> QED
  BY <1>8, FS_CardinalityType DEF Loaded

\* Two queues put together carry what both carry for a channel.
LEMMA LoadedConcat ==
    ASSUME NEW X, NEW a \in Seq(X), NEW b \in Seq(X), Fitted(a), Fitted(b), NEW s, NEW c
    PROVE  Loaded(a \o b, s, c) = Loaded(a, s, c) + Loaded(b, s, c)
<1> DEFINE q == a \o b
           n == Len(a)
           Of(r) == Samples(r, s, c)
           C == {<<p[1] + n, p[2]>> : p \in Of(b)}
           f == [p \in Of(b) |-> <<p[1] + n, p[2]>>]
<1>1. /\ q \in Seq(X) /\ Len(q) = n + Len(b)
      /\ \A i \in 1 .. n + Len(b) : q[i] = IF i <= n THEN a[i] ELSE b[i - n]
  OBVIOUS
<1>2. n \in Nat /\ Len(b) \in Nat /\ DOMAIN a = 1 .. n
  OBVIOUS
<1> HIDE DEF q, n
<1>3. \A i \in 1 .. n : a[i] = Target(s, c) => i + 1 \in 1 .. n
  <2> TAKE i \in 1 .. n
  <2> SUFFICES ASSUME a[i] = Target(s, c) PROVE i + 1 \in 1 .. n
    OBVIOUS
  <2>1. a[i].cmd = "DataTarget"
    BY RecordKinds
  <2>2. i < Len(a)
    BY <1>2, <2>1 DEF Fitted, Paired
  <2> QED
    BY <1>2, <2>2 DEF n
<1>4. ASSUME NEW p \in (1 .. Len(q)) \X Nat
      PROVE  p \in Of(q) <=> p \in Of(a) \/ p \in C
  <2>1. p = <<p[1], p[2]>> /\ p[1] \in 1 .. n + Len(b) /\ p[2] \in Nat
    BY <1>1
  <2>2. CASE p[1] <= n
    <3>1. p[1] \in 1 .. n /\ q[p[1]] = a[p[1]]
      BY <1>1, <1>2, <2>1, <2>2
    <3>2. a[p[1]] = Target(s, c) => q[p[1] + 1] = a[p[1] + 1]
      BY <1>1, <1>2, <1>3, <3>1
    <3>3. p \in Of(q) <=> p \in Of(a)
      BY <2>1, <3>1, <3>2 DEF n, Samples
    <3>4. p \notin C
      BY <1>2, <2>2 DEF Samples
    <3> QED
      BY <3>3, <3>4
  <2>3. CASE ~(p[1] <= n)
    <3> DEFINE o == <<p[1] - n, p[2]>>
    <3>1. p[1] - n \in 1 .. Len(b) /\ q[p[1]] = b[p[1] - n] /\ (p[1] - n) + n = p[1]
      BY <1>1, <1>2, <2>1, <2>3
    <3>2. b[p[1] - n] = Target(s, c) => q[p[1] + 1] = b[(p[1] - n) + 1]
      <4> SUFFICES ASSUME b[p[1] - n] = Target(s, c) PROVE q[p[1] + 1] = b[(p[1] - n) + 1]
        OBVIOUS
      <4>1. b[p[1] - n].cmd = "DataTarget" /\ DOMAIN b = 1 .. Len(b)
        BY RecordKinds
      <4>2. p[1] - n < Len(b)
        BY <3>1, <4>1 DEF Fitted, Paired
      <4>3. p[1] + 1 \in 1 .. n + Len(b) /\ ~(p[1] + 1 <= n) /\ (p[1] + 1) - n = (p[1] - n) + 1
        BY <1>2, <2>1, <2>3, <4>2
      <4> QED
        BY <1>1, <4>3
    <3>3. p \in Of(q) <=> o \in Of(b)
      BY <2>1, <3>1, <3>2 DEF Samples
    <3>4. o \in Of(b) => p \in C
      <4> SUFFICES ASSUME o \in Of(b) PROVE p \in C
        OBVIOUS
      <4>1. p = <<o[1] + n, o[2]>>
        BY <2>1, <3>1
      <4> HIDE DEF o
      <4> QED
        BY <4>1
    <3>5. p \in C => o \in Of(b)
      <4> SUFFICES ASSUME p \in C PROVE o \in Of(b)
        OBVIOUS
      <4>1. PICK r \in Of(b) : p = <<r[1] + n, r[2]>>
        OBVIOUS
      <4>2. r[1] \in 1 .. Len(b) /\ r = <<r[1], r[2]>> /\ r[1] = p[1] - n /\ r[2] = p[2]
        BY <1>2, <4>1 DEF Samples
      <4> HIDE DEF Of
      <4> QED
        BY <4>2
    <3>6. p \notin Of(a)
      BY <1>2, <2>3 DEF n, Samples
    <3> QED
      BY <3>3, <3>4, <3>5, <3>6
  <2> QED
    BY <2>2, <2>3
<1>5. Of(q) \subseteq (1 .. Len(q)) \X Nat /\ Of(a) \subseteq (1 .. Len(q)) \X Nat
  BY <1>1, <1>2 DEF n, Samples
<1>6. C \subseteq (1 .. Len(q)) \X Nat
  BY <1>1, <1>2 DEF Samples
<1>7. Of(q) = Of(a) \cup C
  <2> HIDE DEF Of, C
  <2> QED
    BY <1>4, <1>5, <1>6
<1>8. Of(a) \cap C = {}
  BY <1>2 DEF n, Samples
<1>9. IsFiniteSet(Of(a)) /\ IsFiniteSet(Of(b))
  <2>1. IsFiniteSet(Of(a))
    BY LoadFinite
  <2>2. IsFiniteSet(Of(b))
    BY LoadFinite
  <2> QED
    BY <2>1, <2>2
<1>10. f \in Bijection(Of(b), C)
  <2>1. \A p \in Of(b) : p = <<p[1], p[2]>> /\ p[1] \in Int
    BY DEF Samples
  <2>2. \A p, r \in Of(b) : f[p] = f[r] => p = r
    <3> TAKE p, r \in Of(b)
    <3>1. f[p] = <<p[1] + n, p[2]>> /\ f[r] = <<r[1] + n, r[2]>>
      OBVIOUS
    <3>2. f[p] = f[r] => p[1] = r[1] /\ p[2] = r[2]
      BY <1>2, <2>1, <3>1
    <3> HIDE DEF Of, f
    <3> QED
      BY <2>1, <3>2
  <2>3. f \in [Of(b) -> C] /\ \A x \in C : \E p \in Of(b) : f[p] = x
    <3> HIDE DEF Of
    <3> QED
      OBVIOUS
  <2> HIDE DEF f, Of, C
  <2> QED
    BY <2>2, <2>3 DEF Bijection, Injection, Surjection, IsInjective
<1>11. IsFiniteSet(C) /\ Cardinality(C) = Cardinality(Of(b))
  <2>1. ExistsBijection(Of(b), C)
    BY <1>10 DEF ExistsBijection
  <2> HIDE DEF Of, C
  <2> QED
    BY <1>9, <2>1, FS_Bijection
<1> HIDE DEF Of, C
<1>12. Cardinality(Of(a) \cup C) = Cardinality(Of(a)) + Cardinality(C) - Cardinality(Of(a) \cap C)
  BY <1>9, <1>11, FS_Union
<1>13. Cardinality(Of(a)) \in Nat /\ Cardinality(C) \in Nat /\ Cardinality(Of(a) \cap C) = 0
  BY <1>8, <1>9, <1>11, FS_CardinalityType, FS_EmptySet
<1>14. Cardinality(Of(q)) = Cardinality(Of(a)) + Cardinality(Of(b))
  BY <1>7, <1>11, <1>12, <1>13
<1> QED
  BY <1>14 DEF Loaded, Of, q

\* A queue without data carries none.
LEMMA LoadedNone ==
    ASSUME NEW q, NEW s, NEW c, \A i \in 1 .. Len(q) : q[i] # Target(s, c)
    PROVE  Loaded(q, s, c) = 0
<1>1. Samples(q, s, c) = {}
  BY DEF Samples
<1> QED
  BY <1>1, FS_EmptySet DEF Loaded

\* One piece of data with its target.
LEMMA LoadedPair ==
    ASSUME NEW s \in Streams, NEW c \in Channels, NEW n \in Nat
    PROVE  LET q == <<Target(s, c), DataRecord(n)>>
           IN  /\ q \in Seq(Targets \cup Loads) /\ Fitted(q)
               /\ \A i \in 1 .. Len(q) : q[i] \in Targets => q[i] = Target(s, c)
               /\ \A t, d : Loaded(q, t, d) = IF t = s /\ d = c THEN n ELSE 0
<1> DEFINE q == <<Target(s, c), DataRecord(n)>>
<1>1. Target(s, c) \in Targets /\ DataRecord(n) \in Loads
  BY DEF Target, Targets, Loads
<1>2. /\ q \in Seq(Targets \cup Loads) /\ Len(q) = 2 /\ DOMAIN q = 1 .. 2
      /\ q[1] = Target(s, c) /\ q[2] = DataRecord(n)
  BY <1>1
<1> HIDE DEF q
<1>3. /\ q[1].cmd = "DataTarget" /\ q[2].cmd = "Data" /\ q[2].len = n
      /\ q[2] \notin Targets
  BY <1>2, RecordKinds
<1>4. Fitted(q)
  BY <1>2, <1>3 DEF Fitted, Paired
<1>5. \A i \in 1 .. Len(q) : q[i] \in Targets => q[i] = Target(s, c)
  BY <1>2, <1>3
<1>6. ASSUME NEW t, NEW d
      PROVE  Loaded(q, t, d) = IF t = s /\ d = c THEN n ELSE 0
  <2>1. CASE t = s /\ d = c
    <3>1. Samples(q, t, d) = {1} \X (0 .. n - 1)
      <4>1. ASSUME NEW p \in Samples(q, t, d) PROVE p \in {1} \X (0 .. n - 1)
        <5>1. p[1] \in 1 .. 2 /\ q[p[1]] = Target(t, d) /\ p = <<p[1], p[2]>> /\ p[2] \in Nat
              /\ p[2] < q[p[1] + 1].len
          BY <1>2 DEF Samples
        <5>2. p[1] = 1
          <6>1. p[1] # 2
            BY <1>2, <1>3, <5>1, RecordKinds
          <6> QED
            BY <5>1, <6>1
        <5>3. p[2] \in 0 .. n - 1
          BY <1>3, <5>1, <5>2
        <5> QED
          BY <5>1, <5>2, <5>3
      <4>2. ASSUME NEW p \in {1} \X (0 .. n - 1) PROVE p \in Samples(q, t, d)
        <5>1. p = <<1, p[2]>> /\ p[1] = 1 /\ p[2] \in Nat /\ p[2] < n
          OBVIOUS
        <5> QED
          BY <1>2, <1>3, <2>1, <5>1 DEF Samples
      <4> QED
        BY <4>1, <4>2
    <3>2. IsFiniteSet(0 .. n - 1) /\ Cardinality(0 .. n - 1) = n
      <4>1. IsFiniteSet(0 .. n - 1) /\ Cardinality(0 .. n - 1) = IF 0 > n - 1 THEN 0 ELSE n - 1 - 0 + 1
        BY FS_Interval
      <4> QED
        BY <4>1
    <3>3. IsFiniteSet({1}) /\ Cardinality({1}) = 1
      BY FS_Singleton
    <3>4. Cardinality({1} \X (0 .. n - 1)) = Cardinality({1}) * Cardinality(0 .. n - 1)
      BY <3>2, <3>3, FS_Product
    <3>5. 1 * n = n
      OBVIOUS
    <3> QED
      BY <2>1, <3>1, <3>2, <3>3, <3>4, <3>5 DEF Loaded
  <2>2. CASE ~(t = s /\ d = c)
    <3>1. \A i \in 1 .. Len(q) : q[i] # Target(t, d)
      <4>1. q[1] # Target(t, d)
        BY <1>2, <2>2, RecordKinds
      <4>2. q[2] # Target(t, d)
        BY <1>3, RecordKinds
      <4> QED
        BY <1>2, <4>1, <4>2
    <3> QED
      BY <2>2, <3>1, LoadedNone
  <2> QED
    BY <2>1, <2>2
<1> QED
  BY <1>2, <1>4, <1>5, <1>6 DEF q

\* The quotient and the rest, as the provers need them.
LEMMA Division ==
    ASSUME NEW a \in Nat, NEW b \in Nat \ {0}
    PROVE  LET n == (a + b - 1) \div b
           IN  /\ n \in Nat
               /\ (n - 1) * b < a \/ n = 0
               /\ a <= n * b
               /\ a = 0 => n = 0
<1> DEFINE n == (a + b - 1) \div b
<1>1. n \in Int /\ b * n <= a + b - 1 /\ a + b - 1 < b * n + b
  OBVIOUS
<1> HIDE DEF n
<1>2. n >= 0
  <2> SUFFICES ASSUME n <= -1 PROVE FALSE
    BY <1>1
  <2>1. b * n + b = b * (n + 1)
    BY <1>1
  <2>2. b * (n + 1) <= 0
    BY <1>1
  <2> QED
    BY <1>1, <2>1, <2>2
<1>3. (n - 1) * b = b * n - b /\ n * b = b * n
  BY <1>1
<1>4. (n - 1) * b < a /\ a <= n * b
  BY <1>1, <1>3
<1>5. a = 0 => n = 0
  <2> SUFFICES ASSUME a = 0, n >= 1 PROVE FALSE
    BY <1>1, <1>2
  <2>1. b * n >= b
    BY <1>1
  <2>2. b * n <= b - 1
    BY <1>1
  <2>3. b * n \in Int
    BY <1>1
  <2> QED
    BY <2>1, <2>2, <2>3
<1> QED
  BY <1>1, <1>2, <1>4, <1>5 DEF n

\* The targets a queue of records names are in S.
Only(q, S) == \A i \in DOMAIN q : q[i] \in Targets => q[i] \in S

\* Two queues put together name channels of S only if both do.
LEMMA OnlyConcat ==
    ASSUME NEW X, NEW a \in Seq(X), NEW b \in Seq(X), NEW S, Only(a, S), Only(b, S)
    PROVE  Only(a \o b, S)
<1>1. /\ DOMAIN (a \o b) = 1 .. Len(a) + Len(b) /\ DOMAIN a = 1 .. Len(a) /\ DOMAIN b = 1 .. Len(b)
      /\ \A i \in 1 .. Len(a) + Len(b) : (a \o b)[i] = IF i <= Len(a) THEN a[i] ELSE b[i - Len(a)]
      /\ Len(a) \in Nat /\ Len(b) \in Nat
  OBVIOUS
<1>2. ASSUME NEW i \in DOMAIN (a \o b)
      PROVE  (a \o b)[i] \in Targets => (a \o b)[i] \in S
  <2>1. CASE i <= Len(a)
    BY <1>1, <2>1 DEF Only
  <2>2. CASE ~(i <= Len(a))
    <3>1. i - Len(a) \in DOMAIN b
      BY <1>1, <2>2
    <3> QED
      BY <1>1, <2>2, <3>1 DEF Only
  <2> QED
    BY <2>1, <2>2
<1> QED
  BY <1>2 DEF Only

\* Two queues put together close each batch behind its data if both do and the
\* second carries no data for a batch the first closes.
LEMMA ClosedConcat ==
    ASSUME NEW X, NEW a \in Seq(X), NEW b \in Seq(X), Closed(a), Closed(b),
           \A i \in DOMAIN a, j \in DOMAIN b :
             a[i].cmd = "BatchEnd" /\ b[j].cmd = "DataTarget" => a[i].stream # b[j].stream
    PROVE  Closed(a \o b)
<1> DEFINE q == a \o b
           n == Len(a)
<1>1. /\ DOMAIN q = 1 .. n + Len(b) /\ DOMAIN a = 1 .. n /\ DOMAIN b = 1 .. Len(b)
      /\ \A i \in 1 .. n + Len(b) : q[i] = IF i <= n THEN a[i] ELSE b[i - n]
      /\ n \in Nat /\ Len(b) \in Nat
  OBVIOUS
<1> HIDE DEF q, n
<1>2. ASSUME NEW i \in DOMAIN q, NEW j \in DOMAIN q, i < j,
             q[i].cmd = "BatchEnd", q[j].cmd = "DataTarget"
      PROVE  q[i].stream # q[j].stream
  <2>1. CASE j <= n
    <3>1. i \in DOMAIN a /\ j \in DOMAIN a /\ q[i] = a[i] /\ q[j] = a[j]
      BY <1>1, <1>2, <2>1
    <3> QED
      BY <1>2, <3>1 DEF Closed
  <2>2. CASE i <= n /\ ~(j <= n)
    <3>1. i \in DOMAIN a /\ j - n \in DOMAIN b /\ q[i] = a[i] /\ q[j] = b[j - n]
      BY <1>1, <1>2, <2>2
    <3> QED
      BY <1>2, <3>1
  <2>3. CASE ~(i <= n)
    <3>1. /\ i - n \in DOMAIN b /\ j - n \in DOMAIN b /\ i - n < j - n
          /\ q[i] = b[i - n] /\ q[j] = b[j - n]
      BY <1>1, <1>2, <2>3
    <3> QED
      BY <1>2, <3>1 DEF Closed
  <2> QED
    BY <1>1, <1>2, <2>1, <2>2, <2>3
<1> QED
  BY <1>2 DEF Closed, q

\* What a poll sends a channel is what it is served, in pieces of at most
\* RequestLen, each after its target.
LEMMA DataRecordsOf ==
    ASSUME NEW s \in Streams, NEW c \in Channels, Served(s, c) \in Nat
    PROVE  LET q == DataRecords(s, c)
           IN  /\ q \in Seq(Targets \cup Loads) /\ Fitted(q)
               /\ Only(q, {Target(s, c)})
               /\ Served(s, c) = 0 => q = <<>>
               /\ \A t, d : Loaded(q, t, d) = IF t = s /\ d = c THEN Served(s, c) ELSE 0
<1> DEFINE N == Served(s, c)
           R == RequestLen
           n == (N + R - 1) \div R
           X == Targets \cup Loads
           piece(k) == Least(R, N - (k - 1) * R)
           ss == [k \in 1 .. n |-> <<Target(s, c), DataRecord(piece(k))>>]
           Fits == [i \in 0 .. n |->
                      {q \in Seq(X) :
                         /\ Fitted(q) /\ Only(q, {Target(s, c)})
                         /\ \A t, d : Loaded(q, t, d)
                                        = IF t = s /\ d = c THEN Least(i * R, N) ELSE 0}]
<1>1. R \in Nat /\ R > 0
  BY EngineAssumption
<1>2. n \in Nat /\ (n > 0 => (n - 1) * R < N) /\ N <= n * R /\ (N = 0 => n = 0)
  BY <1>1, Division
<1>3. DataRecords(s, c) = FlattenSeq(ss)
  BY DEF DataRecords, Target
<1>4. \A k \in 1 .. n : piece(k) \in Nat /\ Least((k - 1) * R, N) + piece(k) = Least(k * R, N)
  <2> TAKE k \in 1 .. n
  <2>1. (n - 1) * R = (k - 1) * R + (n - k) * R /\ (n - k) * R >= 0
    BY <1>1, <1>2
  <2>2. (k - 1) * R \in Int /\ (n - k) * R \in Int /\ (n - 1) * R \in Int /\ k * R = (k - 1) * R + R
    BY <1>1, <1>2
  <2>3. (k - 1) * R < N
    BY <1>2, <2>1, <2>2
  <2> QED
    BY <1>1, <2>2, <2>3 DEF Least
<1>5. \A k \in 1 .. n :
        /\ ss[k] \in Seq(X) /\ Fitted(ss[k]) /\ Only(ss[k], {Target(s, c)})
        /\ \A t, d : Loaded(ss[k], t, d) = IF t = s /\ d = c THEN piece(k) ELSE 0
  <2> TAKE k \in 1 .. n
  <2>1. ss[k] = <<Target(s, c), DataRecord(piece(k))>> /\ piece(k) \in Nat
    BY <1>4
  <2> HIDE DEF ss, piece
  <2> QED
    BY <2>1, LoadedPair DEF Only
<1>6. Len(ss) = n /\ (n = 0 => ss = <<>>)
  BY <1>2
<1>7. <<>> \in Fits[0]
  <2>1. Fitted(<<>>) /\ Only(<<>>, {Target(s, c)})
    BY DEF Fitted, Paired, Only
  <2>2. \A t, d : Loaded(<<>>, t, d) = 0
    BY LoadedNone
  <2>3. Least(0 * R, N) = 0
    BY <1>1 DEF Least
  <2>4. 0 \in 0 .. n
    BY <1>2
  <2> QED
    BY <2>1, <2>2, <2>3, <2>4
<1>8. \A i \in 0 .. n - 1 : \A a \in Fits[i] \cap Seq(X) : a \o ss[i + 1] \in Fits[i + 1]
  <2> TAKE i \in 0 .. n - 1
  <2> TAKE a \in Fits[i] \cap Seq(X)
  <2>1. i + 1 \in 1 .. n /\ (i + 1) - 1 = i /\ i \in 0 .. n /\ i + 1 \in 0 .. n
    BY <1>2
  <2> DEFINE b == ss[i + 1]
             p == piece(i + 1)
  <2>2. /\ a \in Seq(X) /\ Fitted(a) /\ Only(a, {Target(s, c)})
        /\ \A t, d : Loaded(a, t, d) = IF t = s /\ d = c THEN Least(i * R, N) ELSE 0
    BY <2>1
  <2>3. /\ b \in Seq(X) /\ Fitted(b) /\ Only(b, {Target(s, c)})
        /\ \A t, d : Loaded(b, t, d) = IF t = s /\ d = c THEN p ELSE 0
    BY <1>5, <2>1
  <2>4. Least(i * R, N) + p = Least((i + 1) * R, N) /\ p \in Nat
    BY <1>4, <2>1
  <2> HIDE DEF b, p
  <2>5. a \o b \in Seq(X) /\ Fitted(a \o b) /\ Only(a \o b, {Target(s, c)})
    BY <2>2, <2>3, FittedConcat, OnlyConcat
  <2>6. \A t, d : Loaded(a \o b, t, d) = Loaded(a, t, d) + Loaded(b, t, d)
    BY <2>2, <2>3, LoadedConcat
  <2>7. \A t, d : Loaded(a \o b, t, d) = IF t = s /\ d = c THEN Least((i + 1) * R, N) ELSE 0
    BY <2>2, <2>3, <2>4, <2>6
  <2>8. a \o b \in Fits[i + 1]
    BY <2>1, <2>5, <2>7
  <2> QED
    BY <2>8 DEF b
<1>9. FlattenSeq(ss) \in Fits[n]
  <2> HIDE DEF Fits, ss, n
  <2>1. \A i \in 1 .. Len(ss) : ss[i] \in Seq(X)
    BY <1>5, <1>6
  <2> QED
    BY <1>2, <1>6, <1>7, <1>8, <2>1, FlattenInduction
<1>10. Least(n * R, N) = N
  <2>1. n * R \in Int
    BY <1>1, <1>2
  <2> HIDE DEF n
  <2> QED
    BY <1>2, <2>1 DEF Least
<1>11. N = 0 => FlattenSeq(ss) = <<>>
  BY <1>2, <1>6 DEF FlattenSeq
<1>12. /\ FlattenSeq(ss) \in Seq(X) /\ Fitted(FlattenSeq(ss)) /\ Only(FlattenSeq(ss), {Target(s, c)})
       /\ \A t, d : Loaded(FlattenSeq(ss), t, d) = IF t = s /\ d = c THEN N ELSE 0
  <2>1. n \in 0 .. n
    BY <1>2
  <2> HIDE DEF ss, n
  <2> QED
    BY <1>9, <1>10, <2>1
<1> QED
  BY <1>3, <1>11, <1>12

\* What a poll sends a stream: the data of its channels, and an end of batch
\* when it was asked for any.
LEMMA StreamRecordsOf ==
    ASSUME NEW s \in Streams, \A c \in Channels : Served(s, c) \in Nat
    PROVE  LET q == StreamRecords(s)
               S == {Target(s, c) : c \in {d \in Channels : Served(s, d) > 0}}
           IN  /\ q \in Seq(StreamRecord) /\ Fitted(q) /\ Closed(q)
               /\ (\E c \in Channels : Wanted(s, c) # 0) => Only(q, S)
               /\ (\E c \in Channels : Wanted(s, c) # 0)
                    => \E i \in DOMAIN q : q[i] = Command("BatchEnd", s)
               /\ \A i \in DOMAIN q : q[i].cmd = "BatchEnd" => q[i].stream = s
               /\ (\A c \in Channels : Wanted(s, c) = 0) => q = <<>>
               /\ (\E c \in Channels : Wanted(s, c) # 0)
                    => \A t, d : Loaded(q, t, d) = IF t = s /\ d \in Channels THEN Served(s, d) ELSE 0
<1> DEFINE q == StreamRecords(s)
           n == ChannelCount
           X == Targets \cup Loads
           S == {Target(s, c) : c \in {d \in Channels : Served(s, d) > 0}}
           ss == [c \in Channels |-> DataRecords(s, c)]
           Fits == [i \in 0 .. n |->
                      {r \in Seq(X) :
                         /\ Fitted(r) /\ Only(r, S)
                         /\ \A t, d : Loaded(r, t, d) = IF t = s /\ d \in 1 .. i THEN Served(s, d) ELSE 0}]
           flat == FlattenSeq(ss)
           E == Command("BatchEnd", s)
<1>1. n \in Nat /\ Channels = 1 .. n /\ Len(ss) = n /\ (n = 0 => ss = <<>>)
  BY EngineAssumption DEF Channels
<1>2. \A c \in Channels :
        /\ ss[c] \in Seq(X) /\ Fitted(ss[c]) /\ Only(ss[c], S)
        /\ \A t, d : Loaded(ss[c], t, d) = IF t = s /\ d = c THEN Served(s, c) ELSE 0
  <2> TAKE c \in Channels
  <2>1. ss[c] = DataRecords(s, c) /\ Served(s, c) \in Nat
    OBVIOUS
  <2> HIDE DEF ss
  <2>4. LET r == DataRecords(s, c)
        IN  /\ r \in Seq(Targets \cup Loads) /\ Fitted(r)
            /\ Only(r, {Target(s, c)})
            /\ Served(s, c) = 0 => r = <<>>
            /\ \A t, d : Loaded(r, t, d) = IF t = s /\ d = c THEN Served(s, c) ELSE 0
    BY <2>1, DataRecordsOf
  <2>2. /\ ss[c] \in Seq(X) /\ Fitted(ss[c]) /\ Only(ss[c], {Target(s, c)})
        /\ Served(s, c) = 0 => ss[c] = <<>>
        /\ \A t, d : Loaded(ss[c], t, d) = IF t = s /\ d = c THEN Served(s, c) ELSE 0
    BY <2>1, <2>4
  <2>3. Only(ss[c], S)
    <3>1. CASE Served(s, c) = 0
      <4>1. ss[c] = <<>>
        BY <2>2, <3>1
      <4> QED
        BY <4>1 DEF Only
    <3>2. CASE Served(s, c) # 0
      <4>1. Target(s, c) \in S
        BY <2>1, <3>2
      <4> HIDE DEF S
      <4> QED
        BY <2>2, <4>1 DEF Only
    <3> QED
      BY <3>1, <3>2
  <2> QED
    BY <2>2, <2>3
<1>3. <<>> \in Fits[0]
  <2>1. Fitted(<<>>) /\ Only(<<>>, S)
    BY DEF Fitted, Paired, Only
  <2>2. \A t, d : Loaded(<<>>, t, d) = 0
    BY LoadedNone
  <2>3. 0 \in 0 .. n /\ \A d : d \notin 1 .. 0
    BY <1>1
  <2> HIDE DEF S
  <2> QED
    BY <2>1, <2>2, <2>3
<1>4. \A i \in 0 .. n - 1 : \A a \in Fits[i] \cap Seq(X) : a \o ss[i + 1] \in Fits[i + 1]
  <2> TAKE i \in 0 .. n - 1
  <2> TAKE a \in Fits[i] \cap Seq(X)
  <2>1. i + 1 \in Channels /\ i \in 0 .. n /\ i + 1 \in 0 .. n
    BY <1>1
  <2> DEFINE b == ss[i + 1]
  <2>2. /\ a \in Seq(X) /\ Fitted(a) /\ Only(a, S)
        /\ \A t, d : Loaded(a, t, d) = IF t = s /\ d \in 1 .. i THEN Served(s, d) ELSE 0
    BY <2>1
  <2>3. /\ b \in Seq(X) /\ Fitted(b) /\ Only(b, S)
        /\ \A t, d : Loaded(b, t, d) = IF t = s /\ d = i + 1 THEN Served(s, i + 1) ELSE 0
    BY <1>2, <2>1
  <2> HIDE DEF b, S
  <2>4. a \o b \in Seq(X) /\ Fitted(a \o b) /\ Only(a \o b, S)
    BY <2>2, <2>3, FittedConcat, OnlyConcat
  <2>5. \A t, d : Loaded(a \o b, t, d) = Loaded(a, t, d) + Loaded(b, t, d)
    BY <2>2, <2>3, LoadedConcat
  <2>6. ASSUME NEW t, NEW d
        PROVE  Loaded(a \o b, t, d) = IF t = s /\ d \in 1 .. i + 1 THEN Served(s, d) ELSE 0
    <3>1. CASE t = s /\ d = i + 1
      <4>1. d \in 1 .. i + 1 /\ d \notin 1 .. i /\ d \in Channels
        BY <2>1, <3>1
      <4> QED
        BY <2>2, <2>3, <2>5, <3>1, <4>1
    <3>2. CASE t = s /\ d # i + 1
      <4>1. d \in 1 .. i + 1 <=> d \in 1 .. i
        BY <2>1, <3>2
      <4>2. d \in 1 .. i => Served(s, d) \in Nat
        BY <1>1, <2>1
      <4> QED
        BY <2>2, <2>3, <2>5, <3>2, <4>1, <4>2
    <3>3. CASE t # s
      BY <2>2, <2>3, <2>5, <3>3
    <3> QED
      BY <3>1, <3>2, <3>3
  <2>7. a \o b \in Fits[i + 1]
    BY <2>1, <2>4, <2>6
  <2> QED
    BY <2>7 DEF b
<1>5. flat \in Fits[n] /\ flat \in Seq(X)
  <2> HIDE DEF Fits, ss
  <2>1. \A i \in 1 .. Len(ss) : ss[i] \in Seq(X)
    BY <1>1, <1>2
  <2> QED
    BY <1>1, <1>3, <1>4, <2>1, FlattenInduction
<1> HIDE DEF ss
<1>6. /\ flat \in Seq(X) /\ Fitted(flat) /\ Only(flat, S)
      /\ \A t, d : Loaded(flat, t, d) = IF t = s /\ d \in Channels THEN Served(s, d) ELSE 0
  <2>1. n \in 0 .. n
    BY <1>1
  <2> HIDE DEF flat, S
  <2> QED
    BY <1>1, <1>5, <2>1
<1> HIDE DEF Fits, flat, S
<1>7. CASE \A c \in Channels : Wanted(s, c) = 0
  <2>1. q = <<>>
    BY <1>7 DEF StreamRecords
  <2>2. Fitted(q) /\ Closed(q) /\ q \in Seq(StreamRecord) /\ \A i \in DOMAIN q : q[i].cmd = "BatchEnd" => q[i].stream = s
    BY <2>1 DEF Fitted, Paired, Closed
  <2> QED
    BY <1>7, <2>1, <2>2
<1>8. CASE \E c \in Channels : Wanted(s, c) # 0
  <2>1. q = Append(flat, E)
    BY <1>8 DEF StreamRecords, flat, ss
  <2>2. /\ flat \in Seq(StreamRecord) /\ E \in StreamRecord /\ E.cmd = "BatchEnd" /\ E.stream = s
        /\ \A i \in DOMAIN flat : flat[i].cmd # "BatchEnd"
    <3>1. E \in BatchEnds /\ X \subseteq StreamRecord
      BY DEF BatchEnds, StreamRecord
    <3>2. \A r \in X : r.cmd # "BatchEnd"
      BY RecordKinds
    <3> QED
      BY <1>6, <3>1, <3>2, RecordKinds DEF StreamRecord
  <2> DEFINE e == <<E>>
  <2>3. /\ e \in Seq(StreamRecord) /\ Fitted(e) /\ Closed(e) /\ Only(e, S)
        /\ \A t, d : Loaded(e, t, d) = 0
    <3>1. e \in Seq(StreamRecord) /\ DOMAIN e = {1} /\ e[1] = E /\ Len(e) = 1
      BY <2>2
    <3> HIDE DEF e, E
    <3>2. Fitted(e) /\ Closed(e)
      BY <2>2, <3>1 DEF Fitted, Paired, Closed
    <3>3. Only(e, S)
      BY <2>2, <3>1, RecordKinds DEF Only
    <3>4. \A t, d : \A i \in 1 .. Len(e) : e[i] # Target(t, d)
      BY <2>2, <3>1, RecordKinds
    <3> QED
      BY <3>1, <3>2, <3>3, <3>4, LoadedNone
  <2>4. q = flat \o e
    BY <1>6, <2>1
  <2>5. Closed(flat)
    BY <2>2 DEF Closed
  <2> HIDE DEF e, E, q
  <2>6. q \in Seq(StreamRecord) /\ Fitted(q) /\ Only(q, S)
    BY <1>6, <2>2, <2>3, <2>4, FittedConcat, OnlyConcat
  <2>7. Closed(q)
    BY <2>2, <2>3, <2>4, <2>5, ClosedConcat
  <2>8. ASSUME NEW t, NEW d
        PROVE  Loaded(q, t, d) = IF t = s /\ d \in Channels THEN Served(s, d) ELSE 0
    <3>1. Loaded(q, t, d) = Loaded(flat, t, d) + Loaded(e, t, d)
      BY <1>6, <2>2, <2>3, <2>4, LoadedConcat
    <3> QED
      BY <1>6, <2>3, <3>1
  <2>9. /\ \E i \in DOMAIN q : q[i] = E
        /\ \A i \in DOMAIN q : q[i].cmd = "BatchEnd" => q[i].stream = s
    <3>1. /\ DOMAIN q = 1 .. Len(flat) + 1 /\ Len(flat) + 1 \in DOMAIN q /\ q[Len(flat) + 1] = E
          /\ \A i \in DOMAIN q : i # Len(flat) + 1 => i \in DOMAIN flat /\ q[i] = flat[i]
      BY <2>1, <2>2
    <3> QED
      BY <2>2, <3>1
  <2> QED
    BY <1>8, <2>6, <2>7, <2>8, <2>9 DEF q, E, S
<1> QED
  BY <1>7, <1>8

\* What a channel is served is there to be sent, and was asked for.
LEMMA ServedOf ==
    ASSUME LinkTyped, NEW s \in Streams, NEW c \in Channels
    PROVE  /\ Wanted(s, c) \in Nat /\ Served(s, c) \in Nat
           /\ sent[s][c] + Served(s, c) <= held[s]
           /\ Wanted(s, c) = 0 => Served(s, c) = 0
           /\ Wanted(s, c) # 0
                => /\ StreamsAfter(delivery)[s] \in {"ready", "playing"}
                   /\ \E i \in DOMAIN delivery : delivery[i] = DataRequest(s, c)
           /\ StreamsAfter(delivery)[s] \in {"ready", "playing"}
                => Wanted(s, c) = Times(delivery, DataRequest(s, c))
<1> DEFINE x == DataRequest(s, c)
<1>1. /\ Times(delivery, x) \in Nat
      /\ Times(delivery, x) = 0 <=> \A i \in DOMAIN delivery : delivery[i] # x
  BY CountedType, TimesCounted DEF LinkTyped, QueuesTyped
<1>2. Wanted(s, c) = IF StreamsAfter(delivery)[s] \in {"ready", "playing"} THEN Times(delivery, x) ELSE 0
  BY DEF Wanted
<1>3. held[s] - sent[s][c] \in Nat /\ sent[s][c] \in Nat
  BY DEF LinkTyped, GuestTyped
<1>4. Wanted(s, c) \in Nat
  BY <1>1, <1>2
<1>5. Wanted(s, c) * RequestLen \in Nat /\ (Wanted(s, c) = 0 => Wanted(s, c) * RequestLen = 0)
  BY <1>4, EngineAssumption
<1>6. /\ Served(s, c) \in Nat /\ Served(s, c) <= held[s] - sent[s][c]
      /\ Wanted(s, c) = 0 => Served(s, c) = 0
  BY <1>3, <1>5 DEF Served, Least
<1>7. held[s] \in Nat
  BY DEF LinkTyped, GuestTyped
<1> HIDE DEF x
<1>8. sent[s][c] + Served(s, c) <= held[s]
  BY <1>3, <1>6, <1>7
<1> QED
  BY <1>1, <1>2, <1>4, <1>6, <1>8 DEF x

\* The records of all streams, one after another.
LEMMA PollRecordsOf ==
    ASSUME LinkTyped
    PROVE  LET q == FlattenSeq([i \in 1 .. Cardinality(Streams) |-> StreamRecords(SetToSeq(Streams)[i])])
           IN  /\ q \in Seq(StreamRecord) /\ Fitted(q) /\ Closed(q)
               /\ \A s \in Streams, c \in Channels : Loaded(q, s, c) = Served(s, c)
               /\ \A i \in DOMAIN q : q[i].cmd = "DataTarget" =>
                    \E s \in Streams, c \in Channels : q[i] = Target(s, c) /\ Served(s, c) > 0
               /\ \A s \in Streams, c \in Channels : Wanted(s, c) # 0 =>
                    \E i \in DOMAIN q : q[i] = Command("BatchEnd", s)
<1> DEFINE n == Cardinality(Streams)
           ids == SetToSeq(Streams)
           ss == [i \in 1 .. n |-> StreamRecords(ids[i])]
           first(i) == {ids[k] : k \in 1 .. i}
           S == {Target(p[1], p[2]) : p \in {o \in Streams \X Channels : Served(o[1], o[2]) > 0}}
           Fit(i) == {r \in Seq(StreamRecord) :
                        /\ Fitted(r) /\ Closed(r) /\ Only(r, S)
                        /\ \A j \in DOMAIN r : r[j].cmd = "BatchEnd" => r[j].stream \in first(i)
                        /\ \A t \in Streams : \A d \in Channels :
                             Loaded(r, t, d) = IF t \in first(i) THEN Served(t, d) ELSE 0
                        /\ \A t \in first(i) : \A d \in Channels : Wanted(t, d) # 0 =>
                             \E j \in DOMAIN r : r[j] = Command("BatchEnd", t)}
           Fits == [i \in 0 .. n |-> Fit(i)]
           flat == FlattenSeq(ss)
<1>1. /\ n \in Nat /\ ids \in [1 .. n -> Streams]
      /\ \A i, j \in 1 .. n : ids[i] = ids[j] => i = j
      /\ \A s \in Streams : \E i \in 1 .. n : ids[i] = s
  BY EngineAssumption, SetToSeqOf
<1>2. Len(ss) = n /\ (n = 0 => ss = <<>>)
  BY <1>1
<1>3. \A s \in Streams : \A c \in Channels :
        Wanted(s, c) \in Nat /\ Served(s, c) \in Nat /\ (Wanted(s, c) = 0 => Served(s, c) = 0)
  BY ServedOf
<1> HIDE DEF ids, n
<1>4. \A i \in 1 .. n :
        /\ ss[i] \in Seq(StreamRecord) /\ Fitted(ss[i]) /\ Closed(ss[i]) /\ Only(ss[i], S)
        /\ \A j \in DOMAIN ss[i] : ss[i][j].cmd = "BatchEnd" => ss[i][j].stream = ids[i]
        /\ \A j \in DOMAIN ss[i] : ss[i][j].cmd = "DataTarget" => ss[i][j].stream = ids[i]
        /\ \A t \in Streams : \A d \in Channels :
             Loaded(ss[i], t, d) = IF t = ids[i] THEN Served(t, d) ELSE 0
        /\ \A d \in Channels : Wanted(ids[i], d) # 0 =>
             \E j \in DOMAIN ss[i] : ss[i][j] = Command("BatchEnd", ids[i])
  <2> TAKE i \in 1 .. n
  <2> DEFINE s == ids[i]
             q == ss[i]
             T == {Target(s, c) : c \in {d \in Channels : Served(s, d) > 0}}
  <2>1. s \in Streams /\ q = StreamRecords(s)
    BY <1>1
  <2> HIDE DEF s, q, ss
  <2>2. /\ q \in Seq(StreamRecord) /\ Fitted(q) /\ Closed(q)
        /\ (\E c \in Channels : Wanted(s, c) # 0) => Only(q, T)
        /\ (\E c \in Channels : Wanted(s, c) # 0)
             => \E j \in DOMAIN q : q[j] = Command("BatchEnd", s)
        /\ \A j \in DOMAIN q : q[j].cmd = "BatchEnd" => q[j].stream = s
        /\ (\A c \in Channels : Wanted(s, c) = 0) => q = <<>>
        /\ (\E c \in Channels : Wanted(s, c) # 0)
             => \A t, d : Loaded(q, t, d) = IF t = s /\ d \in Channels THEN Served(s, d) ELSE 0
    BY <1>3, <2>1, StreamRecordsOf
  <2>3. T \subseteq S
    <3> SUFFICES ASSUME NEW c \in Channels, Served(s, c) > 0 PROVE Target(s, c) \in S
      OBVIOUS
    <3>1. <<s, c>> \in Streams \X Channels /\ <<s, c>>[1] = s /\ <<s, c>>[2] = c
      BY <2>1
    <3> QED
      BY <3>1
  <2>4. \A r \in T : r.stream = s
    BY RecordKinds
  <2>5. CASE \A c \in Channels : Wanted(s, c) = 0
    <3>1. q = <<>> /\ \A d \in Channels : Served(s, d) = 0
      BY <1>3, <2>1, <2>2, <2>5
    <3>2. \A t, d : Loaded(q, t, d) = 0
      BY <3>1, LoadedNone
    <3>3. Only(q, S) /\ DOMAIN q = {}
      BY <3>1 DEF Only
    <3> HIDE DEF S, T
    <3> QED
      BY <2>2, <2>5, <3>1, <3>2, <3>3 DEF s, q
  <2>6. CASE \E c \in Channels : Wanted(s, c) # 0
    <3> HIDE DEF S, T
    <3>1. Only(q, T) /\ Only(q, S)
      BY <2>2, <2>3, <2>6 DEF Only
    <3>2. \A j \in DOMAIN q : q[j].cmd = "DataTarget" => q[j].stream = s
      <4> TAKE j \in DOMAIN q
      <4>1. q[j] \in FlushRecord
        BY <2>2, RecordKinds
      <4> QED
        BY <2>4, <3>1, <4>1, FlushKinds DEF Only
    <3> QED
      BY <2>2, <2>6, <3>1, <3>2 DEF s, q
  <2> QED
    BY <2>5, <2>6
<1> HIDE DEF S, ss
<1>5. <<>> \in Fits[0]
  <2>1. Fitted(<<>>) /\ Closed(<<>>) /\ Only(<<>>, S) /\ DOMAIN <<>> = {} /\ <<>> \in Seq(StreamRecord)
    BY DEF Fitted, Paired, Only, Closed
  <2>2. \A t, d : Loaded(<<>>, t, d) = 0
    BY LoadedNone
  <2>3. 0 \in 0 .. n /\ first(0) = {}
    BY <1>1
  <2> HIDE DEF first
  <2> QED
    BY <2>1, <2>2, <2>3
<1>6. \A i \in 0 .. n - 1 : \A a \in Fits[i] \cap Seq(StreamRecord) : a \o ss[i + 1] \in Fits[i + 1]
  <2> TAKE i \in 0 .. n - 1
  <2> TAKE a \in Fits[i] \cap Seq(StreamRecord)
  <2> DEFINE b == ss[i + 1]
             s == ids[i + 1]
  <2>1. i + 1 \in 1 .. n /\ i \in 0 .. n /\ i + 1 \in 0 .. n /\ s \in Streams
    BY <1>1
  <2>2. first(i + 1) = first(i) \cup {s} /\ s \notin first(i)
    <3>1. 1 .. i + 1 = 1 .. i \cup {i + 1}
      BY <2>1
    <3>2. \A k \in 1 .. i : k \in 1 .. n /\ k # i + 1
      <4> HIDE DEF Fits
      <4> QED
        BY <1>1, <2>1
    <3> QED
      BY <1>1, <2>1, <3>1, <3>2
  <2>12. a \in Fits[i] /\ a \in Seq(StreamRecord)
    OBVIOUS
  <2>3. /\ a \in Seq(StreamRecord) /\ Fitted(a) /\ Closed(a) /\ Only(a, S)
        /\ \A j \in DOMAIN a : a[j].cmd = "BatchEnd" => a[j].stream \in first(i)
        /\ \A t \in Streams : \A d \in Channels :
             Loaded(a, t, d) = IF t \in first(i) THEN Served(t, d) ELSE 0
        /\ \A t \in first(i) : \A d \in Channels : Wanted(t, d) # 0 =>
             \E j \in DOMAIN a : a[j] = Command("BatchEnd", t)
    <3>1. Fits[i] = Fit(i)
      <4> HIDE DEF Fit
      <4> QED
        BY <2>1
    <3> HIDE DEF Fits, first
    <3> QED
      BY <2>12, <3>1
  <2>4. /\ b \in Seq(StreamRecord) /\ Fitted(b) /\ Closed(b) /\ Only(b, S)
        /\ \A j \in DOMAIN b : b[j].cmd = "BatchEnd" => b[j].stream = s
        /\ \A j \in DOMAIN b : b[j].cmd = "DataTarget" => b[j].stream = s
        /\ \A t \in Streams : \A d \in Channels :
             Loaded(b, t, d) = IF t = s THEN Served(t, d) ELSE 0
        /\ \A d \in Channels : Wanted(s, d) # 0 =>
             \E j \in DOMAIN b : b[j] = Command("BatchEnd", s)
    BY <1>4, <2>1
  <2> HIDE DEF b, s, first, Fits, Fit
  <2> DEFINE q == a \o b
  <2>5. q \in Seq(StreamRecord) /\ Fitted(q) /\ Only(q, S)
    BY <2>3, <2>4, FittedConcat, OnlyConcat
  <2>6. Closed(q)
    <3>1. \A j \in DOMAIN a, k \in DOMAIN b :
            a[j].cmd = "BatchEnd" /\ b[k].cmd = "DataTarget" => a[j].stream # b[k].stream
      BY <2>2, <2>3, <2>4
    <3> QED
      BY <2>3, <2>4, <3>1, ClosedConcat
  <2>7. /\ DOMAIN q = 1 .. Len(a) + Len(b) /\ DOMAIN a = 1 .. Len(a) /\ DOMAIN b = 1 .. Len(b)
        /\ Len(a) \in Nat /\ Len(b) \in Nat
        /\ \A j \in 1 .. Len(a) : j \in DOMAIN q /\ q[j] = a[j]
        /\ \A j \in 1 .. Len(b) : j + Len(a) \in DOMAIN q /\ q[j + Len(a)] = b[j]
        /\ \A j \in DOMAIN q : j \in DOMAIN a \/ \E k \in DOMAIN b : j = k + Len(a)
    <3>1. /\ DOMAIN q = 1 .. Len(a) + Len(b) /\ DOMAIN a = 1 .. Len(a) /\ DOMAIN b = 1 .. Len(b)
          /\ Len(a) \in Nat /\ Len(b) \in Nat
          /\ \A j \in 1 .. Len(a) : j \in DOMAIN q /\ q[j] = a[j]
          /\ \A j \in 1 .. Len(b) : j + Len(a) \in DOMAIN q /\ q[j + Len(a)] = b[j]
      BY <2>3, <2>4
    <3>2. ASSUME NEW j \in DOMAIN q, j \notin DOMAIN a
          PROVE  \E k \in DOMAIN b : j = k + Len(a)
      <4>1. j - Len(a) \in DOMAIN b /\ j = (j - Len(a)) + Len(a)
        BY <3>1, <3>2
      <4> QED
        BY <4>1
    <3> QED
      BY <3>1, <3>2
  <2>8. \A j \in DOMAIN q : q[j].cmd = "BatchEnd" => q[j].stream \in first(i + 1)
    <3> HIDE DEF q
    <3> QED
      BY <2>2, <2>3, <2>4, <2>7
  <2>9. ASSUME NEW t \in Streams, NEW d \in Channels
        PROVE  Loaded(q, t, d) = IF t \in first(i + 1) THEN Served(t, d) ELSE 0
    <3>1. Loaded(q, t, d) = Loaded(a, t, d) + Loaded(b, t, d)
      BY <2>3, <2>4, LoadedConcat
    <3>2. Served(t, d) \in Nat
      BY <1>3
    <3> HIDE DEF q
    <3> QED
      BY <2>2, <2>3, <2>4, <3>1, <3>2
  <2>10. ASSUME NEW t \in first(i + 1), NEW d \in Channels, Wanted(t, d) # 0
         PROVE  \E j \in DOMAIN q : q[j] = Command("BatchEnd", t)
    <3> HIDE DEF q
    <3> QED
      BY <2>2, <2>3, <2>4, <2>7, <2>10
  <2>11. q \in Fits[i + 1]
    <3> HIDE DEF q
    <3>1. q \in Fit(i + 1)
      BY <2>5, <2>6, <2>8, <2>9, <2>10 DEF Fit
    <3> QED
      BY <2>1, <3>1 DEF Fits
  <2> QED
    BY <2>11 DEF b
<1>7. flat \in Fits[n] /\ flat \in Seq(StreamRecord)
  <2> HIDE DEF Fits
  <2>1. \A i \in 1 .. Len(ss) : ss[i] \in Seq(StreamRecord)
    BY <1>2, <1>4 DEF ss
  <2> QED
    BY <1>1, <1>2, <1>5, <1>6, <2>1, FlattenInduction, ZenonT(60) DEF ss
<1>8. first(n) = Streams
  BY <1>1
<1> HIDE DEF flat, first
<1>9. /\ Fitted(flat) /\ Closed(flat) /\ Only(flat, S)
      /\ \A t \in Streams : \A d \in Channels : Loaded(flat, t, d) = Served(t, d)
      /\ \A t \in Streams : \A d \in Channels : Wanted(t, d) # 0 =>
           \E j \in DOMAIN flat : flat[j] = Command("BatchEnd", t)
  <2>1. n \in 0 .. n
    BY <1>1
  <2> QED
    BY <1>7, <1>8, <2>1
<1> HIDE DEF Fits
<1>10. ASSUME NEW i \in DOMAIN flat, flat[i].cmd = "DataTarget"
       PROVE  \E s \in Streams, c \in Channels : flat[i] = Target(s, c) /\ Served(s, c) > 0
  <2>1. flat[i] \in FlushRecord
    BY <1>7, RecordKinds
  <2>2. flat[i] \in S
    BY <1>9, <1>10, <2>1, FlushKinds DEF Only
  <2> QED
    BY <2>2 DEF S
<1> QED
  BY <1>7, <1>9, <1>10 DEF flat, ss, ids, n

----------------------------------------------------------------------------
(* The records of a flush, one after another *)

StreamWork(r) ==
    \/ \E s \in Streams :
         \/ r = Command("Play", s) /\ StreamPlay(s)
         \/ r = Command("Stop", s) /\ StreamStop(s)
         \/ r = Command("Destroy", s) /\ StreamDestroy(s)
         \/ r = Command("BatchEnd", s) /\ StreamDataBatchEnd(s)
    \/ \E s \in Streams, c \in Bendable :
         \/ r = ChannelCommand("SlipSpeed", s, c) /\ StreamSlipSpeed(s, c)
         \/ r = ChannelCommand("SlipStop", s, c) /\ StreamSlipOff(s, c)
         \/ \E n \in Int :
              /\ r = [cmd |-> "SlipOffset", stream |-> s, channel |-> c, samples |-> n]
              /\ StreamSlipOffset(s, c, n)
    \/ \E s \in Streams, c \in Channels : r = Target(s, c) /\ StreamDataTarget(s, c)
    \/ \E n \in Nat : r = DataRecord(n) /\ StreamData(n)

VoiceWork(r) ==
    \E v \in Voices :
      \/ r = VoiceCommand("Create", v) /\ SampleCreate(v)
      \/ r = VoiceCommand("Start", v) /\ SampleStart(v)
      \/ r = VoiceCommand("StopSample", v) /\ SampleStop(v)
      \/ r = VoiceCommand("Pause", v) /\ SamplePause(v, TRUE)
      \/ r = VoiceCommand("Resume", v) /\ SamplePause(v, FALSE)
      \/ r = VoiceCommand("DestroySample", v) /\ SampleDestroy(v)

AnswerWork(r) ==
    /\ r \in Asks /\ Offer(AnswerTo(r))
    /\ \/ \E s \in Streams : r = Command("StreamInfo", s) /\ StreamInfo(s)
       \/ r \in {SpuChunk, Terminate} /\ UNCHANGED engineVars

\* The service's step over one record.
Walk ==
    /\ phase = "walk" /\ flush # <<>>
    /\ UNCHANGED <<phase, calls, delivery, ring, lost, guestVars, events>>
    /\ \/ flush' = Tail(flush)
       \/ Head(flush).cmd = "SlipStop" /\ \E x \in Realignments : flush' = <<x>> \o Tail(flush)
    /\ \/ AnswerWork(Head(flush))
       \/ UNCHANGED <<reply, deferred>> /\ (StreamWork(Head(flush)) \/ VoiceWork(Head(flush)))

\* The records the guest awaits an answer to, and their answers.
LEMMA AsksKinds ==
    /\ \A r \in Asks : r \in FlushRecord /\ r.cmd \in {"SpuChunk", "Terminate", "StreamInfo"}
    /\ \A r \in FlushRecord : r.cmd \in {"SpuChunk", "Terminate", "StreamInfo"} => r \in Asks
    /\ \A r \in Asks : AnswerTo(r) \in Answer
    /\ \A r, q \in Asks : AnswerTo(r) = AnswerTo(q) => r = q
    /\ SpuChunk \in Asks /\ Terminate \in Asks /\ \A s \in Streams : Command("StreamInfo", s) \in Asks
    /\ SpuChunk # Terminate
    /\ \A s : Command("StreamInfo", s) \notin {SpuChunk, Terminate} /\ Command("StreamInfo", s).stream = s
    /\ \A r \in Asks : r = SpuChunk \/ r = Terminate \/ \E s \in Streams : r = Command("StreamInfo", s)
    /\ AnswerTo(SpuChunk) = SpuSendDone /\ AnswerTo(Terminate) = Terminated
    /\ \A s : AnswerTo(Command("StreamInfo", s)) = StreamOp(s)
<1>1. /\ SpuChunk.cmd = "SpuChunk" /\ Terminate.cmd = "Terminate"
      /\ \A s : Command("StreamInfo", s).cmd = "StreamInfo" /\ Command("StreamInfo", s).stream = s
  BY DEF SpuChunk, Terminate, Command
<1>2. \A r \in Asks : r = SpuChunk \/ r = Terminate \/ \E s \in Streams : r = Command("StreamInfo", s)
  BY DEF Asks
<1>3. /\ AnswerTo(SpuChunk) = SpuSendDone /\ AnswerTo(Terminate) = Terminated
      /\ \A s : AnswerTo(Command("StreamInfo", s)) = StreamOp(s)
  <2>1. AnswerTo(SpuChunk) = SpuSendDone
    BY <1>1 DEF AnswerTo
  <2>2. AnswerTo(Terminate) = Terminated
    BY <1>1 DEF AnswerTo
  <2>3. ASSUME NEW s PROVE AnswerTo(Command("StreamInfo", s)) = StreamOp(s)
    BY <1>1 DEF AnswerTo
  <2> QED
    BY <2>1, <2>2, <2>3
<1>4. /\ SpuSendDone.cmd = "SpuSendDone" /\ Terminated.cmd = "Terminated"
      /\ \A s : StreamOp(s).cmd = "StreamOp" /\ StreamOp(s).stream = s
      /\ SpuSendDone \in Answer /\ Terminated \in Answer /\ \A s \in Streams : StreamOp(s) \in Answer
  BY DEF SpuSendDone, Terminated, StreamOp, Answer
<1>5. \A r \in Asks : r \in FlushRecord
  <2>1. \A s \in Streams : Command("StreamInfo", s) \in FlushRecord
    BY GameRecords DEF FlushRecord
  <2>2. SpuChunk \in FlushRecord /\ Terminate \in FlushRecord
    BY DEF FlushRecord
  <2> QED
    BY <1>2, <2>1, <2>2
<1>6. \A r \in FlushRecord : r.cmd \in {"SpuChunk", "Terminate", "StreamInfo"} => r \in Asks
  <2> TAKE r \in FlushRecord
  <2>1. r.cmd = "StreamInfo" => \E s \in Streams : r = Command("StreamInfo", s)
    BY Kinds
  <2>2. (r.cmd = "SpuChunk" => r = SpuChunk) /\ (r.cmd = "Terminate" => r = Terminate)
    BY Kinds
  <2> QED
    BY <2>1, <2>2 DEF Asks
<1>7. SpuChunk \in Asks /\ Terminate \in Asks /\ \A s \in Streams : Command("StreamInfo", s) \in Asks
  BY DEF Asks
<1>8. \A r \in Asks : AnswerTo(r) \in Answer
  BY <1>2, <1>3, <1>4
<1>9. ASSUME NEW r \in Asks, NEW q \in Asks, AnswerTo(r) = AnswerTo(q) PROVE r = q
  BY <1>2, <1>3, <1>4, <1>9
<1> QED
  BY <1>1, <1>2, <1>3, <1>5, <1>6, <1>7, <1>8, <1>9

\* Whether the guest awaits an answer, before a step and after it.
LEMMA AwaitsOf ==
    /\ Awaits(SpuChunk) = spuInFlight /\ Awaits(Terminate) = terminating
    /\ \A s : Awaits(Command("StreamInfo", s)) = (eeStream[s] = "asked")
    /\ Awaits(SpuChunk)' = spuInFlight' /\ Awaits(Terminate)' = terminating'
    /\ \A s : Awaits(Command("StreamInfo", s))' = (eeStream'[s] = "asked")
<1>1. /\ SpuChunk.cmd = "SpuChunk" /\ Terminate.cmd = "Terminate"
      /\ \A s : Command("StreamInfo", s).cmd = "StreamInfo" /\ Command("StreamInfo", s).stream = s
  BY DEF SpuChunk, Terminate, Command
<1>2. Awaits(SpuChunk) = spuInFlight /\ Awaits(SpuChunk)' = spuInFlight'
  BY <1>1 DEF Awaits
<1>3. Awaits(Terminate) = terminating /\ Awaits(Terminate)' = terminating'
  BY <1>1 DEF Awaits
<1>4. ASSUME NEW s
      PROVE  /\ Awaits(Command("StreamInfo", s)) = (eeStream[s] = "asked")
             /\ Awaits(Command("StreamInfo", s))' = (eeStream'[s] = "asked")
  BY <1>1 DEF Awaits
<1> QED
  BY <1>2, <1>3, <1>4

\* The service works a record off or finishes the flush.
LEMMA WalkOf ==
    ASSUME LinkTyped, Service
    PROVE  Walk \/ FinishFlush
<1> DEFINE r == Head(flush)
           Rest == flush' = Tail(flush)
           Same == UNCHANGED <<phase, calls, delivery, ring, lost, guestVars, events>>
<1>1. ASSUME NEW cmd, Record(cmd)
      PROVE  phase = "walk" /\ flush # <<>> /\ Same /\ Rest /\ r.cmd = cmd /\ r \in FlushRecord
  BY <1>1, HeadTyped DEF Record, LinkTyped
<1>2. CASE HandleStreamInfo
  <2>1. PICK s \in Streams : r = Command("StreamInfo", s)
    BY <1>1, <1>2, Kinds DEF HandleStreamInfo
  <2>2. r.stream = s
    BY <2>1 DEF Command
  <2>3. AnswerWork(r)
    BY <1>2, <2>1, <2>2, AsksKinds DEF HandleStreamInfo, AnswerWork
  <2>4. phase = "walk" /\ flush # <<>> /\ Same /\ Rest
    BY <1>1, <1>2 DEF HandleStreamInfo
  <2> QED
    BY <2>3, <2>4 DEF Walk
<1>3. CASE HandleTerminate \/ HandleSpuChunk
  <2>1. /\ \/ r = Terminate /\ Offer(Terminated)
           \/ r = SpuChunk /\ Offer(SpuSendDone)
        /\ UNCHANGED engineVars
    BY <1>1, <1>3, Kinds DEF HandleTerminate, HandleSpuChunk
  <2>2. AnswerWork(r)
    BY <2>1, AsksKinds DEF AnswerWork
  <2>3. phase = "walk" /\ flush # <<>> /\ Same /\ Rest
    BY <1>1, <1>3 DEF HandleTerminate, HandleSpuChunk
  <2> QED
    BY <2>2, <2>3 DEF Walk
<1>4. CASE HandleStream
  <2>1. PICK cmd \in {"Play", "Stop", "Destroy"} :
          /\ Record(cmd) /\ Unanswered
          /\ cmd = "Play" => StreamPlay(r.stream)
          /\ cmd = "Stop" => StreamStop(r.stream)
          /\ cmd = "Destroy" => StreamDestroy(r.stream)
    BY <1>4 DEF HandleStream
  <2>2. PICK s \in Streams : r = Command(cmd, s)
    BY <1>1, <2>1, Kinds
  <2>3. r.stream = s
    BY <2>2 DEF Command
  <2>4. StreamWork(r)
    BY <2>1, <2>2, <2>3 DEF StreamWork
  <2> QED
    BY <1>1, <2>1, <2>4 DEF Walk, Unanswered
<1>5. CASE HandleSlip
  <2>1. CASE Record("SlipSpeed") /\ StreamSlipSpeed(r.stream, r.channel) /\ Unanswered
    <3>1. PICK s \in Streams, c \in Bendable : r = ChannelCommand("SlipSpeed", s, c)
      BY <1>1, <2>1, Kinds
    <3>2. r.stream = s /\ r.channel = c
      BY <3>1 DEF ChannelCommand
    <3>3. StreamWork(r)
      BY <2>1, <3>1, <3>2 DEF StreamWork
    <3> QED
      BY <1>1, <2>1, <3>3 DEF Walk, Unanswered
  <2>2. CASE Record("SlipOffset") /\ StreamSlipOffset(r.stream, r.channel, r.samples) /\ Unanswered
    <3>1. PICK s \in Streams, c \in Bendable, n \in Int :
            r = [cmd |-> "SlipOffset", stream |-> s, channel |-> c, samples |-> n]
      BY <1>1, <2>2, Kinds
    <3>2. r.stream = s /\ r.channel = c /\ r.samples = n
      BY <3>1
    <3>3. StreamWork(r)
      BY <2>2, <3>1, <3>2 DEF StreamWork
    <3> QED
      BY <1>1, <2>2, <3>3 DEF Walk, Unanswered
  <2> QED
    BY <1>5, <2>1, <2>2 DEF HandleSlip
<1>6. CASE HandleSlipStop
  <2>1. r \in FlushRecord /\ r.cmd = "SlipStop"
    BY <1>6, HeadTyped DEF HandleSlipStop, LinkTyped
  <2>2. PICK s \in Streams, c \in Bendable : r = ChannelCommand("SlipStop", s, c)
    BY <2>1, Kinds
  <2>3. r.stream = s /\ r.channel = c
    BY <2>2 DEF ChannelCommand
  <2>4. StreamWork(r)
    BY <1>6, <2>2, <2>3 DEF HandleSlipStop, StreamWork
  <2>5. [cmd |-> "SlipOffset", stream |-> r.stream, channel |-> r.channel, samples |-> 0] \in Realignments
    <3>1. 0 \in Int
      OBVIOUS
    <3> HIDE DEF r
    <3> QED
      BY <2>3, <3>1 DEF Realignments
  <2> QED
    BY <1>6, <2>1, <2>4, <2>5 DEF HandleSlipStop, Walk, Unanswered
<1>7. CASE HandleData
  <2>1. CASE Record("DataTarget") /\ StreamDataTarget(r.stream, r.channel) /\ Unanswered
    <3>1. PICK s \in Streams, c \in Channels : r = ChannelCommand("DataTarget", s, c)
      BY <1>1, <2>1, Kinds
    <3>2. r.stream = s /\ r.channel = c /\ r = Target(s, c)
      BY <3>1 DEF ChannelCommand, Target
    <3>3. StreamWork(r)
      BY <2>1, <3>1, <3>2 DEF StreamWork
    <3> QED
      BY <1>1, <2>1, <3>3 DEF Walk, Unanswered
  <2>2. CASE Record("Data") /\ StreamData(r.len) /\ Unanswered
    <3>1. PICK n \in Nat : r = DataRecord(n)
      BY <1>1, <2>2, Kinds
    <3>2. r.len = n
      BY <3>1 DEF DataRecord
    <3>3. StreamWork(r)
      BY <2>2, <3>1, <3>2 DEF StreamWork
    <3> QED
      BY <1>1, <2>2, <3>3 DEF Walk, Unanswered
  <2>3. CASE Record("BatchEnd") /\ StreamDataBatchEnd(r.stream) /\ Unanswered
    <3>1. PICK s \in Streams : r = Command("BatchEnd", s)
      BY <1>1, <2>3, Kinds
    <3>2. r.stream = s
      BY <3>1 DEF Command
    <3>3. StreamWork(r)
      BY <2>3, <3>1, <3>2 DEF StreamWork
    <3> QED
      BY <1>1, <2>3, <3>3 DEF Walk, Unanswered
  <2> QED
    BY <1>7, <2>1, <2>2, <2>3 DEF HandleData
<1>8. CASE HandleSample
  <2>1. PICK cmd \in {"Create", "Start", "StopSample", "Pause", "Resume", "DestroySample"} :
          /\ Record(cmd) /\ Unanswered
          /\ cmd = "Create" => SampleCreate(r.voice)
          /\ cmd = "Start" => SampleStart(r.voice)
          /\ cmd = "StopSample" => SampleStop(r.voice)
          /\ cmd = "Pause" => SamplePause(r.voice, TRUE)
          /\ cmd = "Resume" => SamplePause(r.voice, FALSE)
          /\ cmd = "DestroySample" => SampleDestroy(r.voice)
    BY <1>8 DEF HandleSample
  <2>2. PICK v \in Voices : r = VoiceCommand(cmd, v)
    BY <1>1, <2>1, Kinds
  <2>3. r.voice = v
    BY <2>2 DEF VoiceCommand
  <2>4. VoiceWork(r)
    BY <2>1, <2>2, <2>3 DEF VoiceWork
  <2> QED
    BY <1>1, <2>1, <2>4 DEF Walk, Unanswered
<1> QED
  BY <1>2, <1>3, <1>4, <1>5, <1>6, <1>7, <1>8 DEF Service

\* An answer that is offered rides the result or is deferred; none is lost.
LEMMA OfferOf ==
    ASSUME QueuesTyped, NEW a \in Answer, Offer(a)
    PROVE  /\ reply' \in Seq(Answer) /\ Len(reply') = 1
           /\ deferred' \in Seq(Answer)
           /\ Len(reply') + Len(deferred') = Len(reply) + Len(deferred) + 1
           /\ \A S : Counted(reply', S) + Counted(deferred', S)
                       = Counted(reply, S) + Counted(deferred, S) + One(a \in S)
<1>0. /\ reply \in Seq(Answer) /\ Len(reply) <= 1 /\ deferred \in Seq(Answer)
      /\ Len(reply) \in Nat /\ Len(deferred) \in Nat
  BY DEF QueuesTyped
<1>1. CASE reply = <<>>
  <2>1. reply' = <<a>> /\ deferred' = deferred
    BY <1>1 DEF Offer
  <2>2. \A S : Counted(reply', S) = One(a \in S) /\ Counted(reply, S) = 0 /\ Counted(deferred, S) \in Nat
    BY <1>0, <1>1, <2>1, CountedOne, CountedNone, CountedType
  <2>3. \A S : One(a \in S) \in Nat
    BY DEF One
  <2>4. reply' \in Seq(Answer) /\ Len(reply') = 1 /\ Len(reply) = 0
    BY <1>1, <2>1
  <2>5. \A S : Counted(reply', S) + Counted(deferred', S)
                 = Counted(reply, S) + Counted(deferred, S) + One(a \in S)
    BY <2>1, <2>2, <2>3
  <2> QED
    BY <1>0, <2>1, <2>4, <2>5
<1>2. CASE reply # <<>>
  <2>1. Len(reply) = 1 /\ reply[1] \in Answer /\ reply = <<reply[1]>>
    <3>1. Len(reply) # 0
      BY <1>0, <1>2, EmptySeq
    <3>2. Len(reply) = 1
      <4>1. \A m \in Nat : m <= 1 /\ m # 0 => m = 1
        OBVIOUS
      <4> QED
        BY <1>0, <3>1, <4>1
    <3>3. reply[1] \in Answer
      BY <1>0, <3>2
    <3>4. <<reply[1]>> \in Seq(Answer) /\ Len(<<reply[1]>>) = 1 /\ <<reply[1]>>[1] = reply[1]
      BY <3>3
    <3>5. reply = <<reply[1]>>
      BY <1>0, <3>2, <3>4, SeqEqual
    <3> QED
      BY <3>2, <3>3, <3>5
  <2>2. \/ reply' = reply /\ deferred' = Append(deferred, a)
        \/ reply' = <<a>> /\ deferred' = Append(deferred, reply[1])
    BY <1>2 DEF Offer
  <2>3. \A S : \A x \in Answer : Counted(Append(deferred, x), S) = Counted(deferred, S) + One(x \in S)
    BY <1>0, CountedAppend
  <2>4. \A x, S : Counted(<<x>>, S) = One(x \in S) /\ One(x \in S) \in Nat
    BY CountedOne DEF One
  <2>5. \A S : Counted(deferred, S) \in Nat
    BY <1>0, CountedType
  <2>6. CASE reply' = reply /\ deferred' = Append(deferred, a)
    <3>1. \A S : Counted(reply, S) \in Nat
      BY <1>0, CountedType
    <3>2. deferred' \in Seq(Answer) /\ Len(deferred') = Len(deferred) + 1
      BY <1>0, <2>6
    <3>3. \A S : Counted(deferred', S) = Counted(deferred, S) + One(a \in S)
      BY <2>3, <2>6
    <3>4. reply' \in Seq(Answer) /\ Len(reply') = 1 /\ reply' = reply
      BY <1>0, <2>1, <2>6
    <3>5. \A S : Counted(reply', S) + Counted(deferred', S)
                   = Counted(reply, S) + Counted(deferred, S) + One(a \in S)
      BY <2>4, <2>5, <3>1, <3>3, <3>4
    <3> QED
      BY <1>0, <2>1, <3>2, <3>4, <3>5
  <2>7. CASE reply' = <<a>> /\ deferred' = Append(deferred, reply[1])
    <3>1. reply' \in Seq(Answer) /\ Len(reply') = 1
      BY <2>7
    <3>2. deferred' \in Seq(Answer) /\ Len(deferred') = Len(deferred) + 1 /\ Len(deferred) \in Nat
      BY <1>0, <2>1, <2>7
    <3>3. \A S : Counted(deferred', S) = Counted(deferred, S) + One(reply[1] \in S)
      BY <2>1, <2>3, <2>7
    <3>4. \A S : Counted(reply, S) = One(reply[1] \in S) /\ Counted(reply', S) = One(a \in S)
      BY <2>1, <2>4, <2>7
    <3>5. ASSUME NEW S
          PROVE  Counted(reply', S) + Counted(deferred', S)
                   = Counted(reply, S) + Counted(deferred, S) + One(a \in S)
      <4>1. One(a \in S) \in Nat /\ One(reply[1] \in S) \in Nat /\ Counted(deferred, S) \in Nat
        BY <2>4, <2>5
      <4> QED
        BY <3>3, <3>4, <4>1
    <3> QED
      BY <2>1, <3>1, <3>2, <3>5
  <2> QED
    BY <2>2, <2>6, <2>7
<1> QED
  BY <1>1, <1>2

\* What is left of a flush when its first record is done.
LEMMA FlushAdvances ==
    ASSUME LinkTyped, Walk
    PROVE  /\ flush' \in Seq(FlushRecord) /\ Len(flush') \in {Len(flush), Len(flush) - 1}
           /\ Head(flush) \in FlushRecord
           /\ Paired(flush) => Paired(flush')
           /\ Closed(flush) => Closed(flush')
           /\ \A r \in StreamRecord : \A j \in DOMAIN flush' : flush'[j] = r =>
                \E i \in DOMAIN flush : i > 1 /\ flush[i] = r
           /\ Paired(flush) /\ Head(flush).cmd = "DataTarget" => flush' # <<>> /\ flush'[1].cmd = "Data"
           /\ \A S : (\A x \in Realignments : x \notin S) =>
                Counted(flush, S) = Counted(flush', S) + One(Head(flush) \in S)
<1> DEFINE q == flush
           w == flush'
           n == Len(q)
           m == Len(w)
<1>1. /\ q \in Seq(FlushRecord) /\ q # <<>> /\ n \in Nat /\ n > 0 /\ DOMAIN q = 1 .. n
      /\ Head(q) = q[1] /\ Head(q) \in FlushRecord
      /\ Tail(q) \in Seq(FlushRecord) /\ Len(Tail(q)) = n - 1
      /\ \A i \in 1 .. n - 1 : Tail(q)[i] = q[i + 1]
  BY HeadTyped DEF Walk, LinkTyped, QueuesTyped
<1>2. \A x \in Realignments : x \in FlushRecord /\ x.cmd = "SlipOffset"
  BY DEF Realignments, FlushRecord, GameRecord
<1>3. CASE w = Tail(q)
  <2>1. w \in Seq(FlushRecord) /\ m = n - 1 /\ DOMAIN w = 1 .. n - 1 /\ \A i \in 1 .. n - 1 : w[i] = q[i + 1]
    BY <1>1, <1>3
  <2>2. ASSUME NEW S PROVE Counted(q, S) = Counted(w, S) + One(Head(q) \in S)
    <3>1. Counted(q, S) = One(Head(q) \in S) + Counted(w, S)
      BY <1>1, <1>3, CountedHead
    <3>2. Counted(w, S) \in Nat /\ One(Head(q) \in S) \in Nat
      BY <2>1, CountedType DEF One
    <3> QED
      BY <3>1, <3>2
  <2> HIDE DEF q, w, m
  <2>3. Paired(q) => Paired(w)
    <3> SUFFICES ASSUME Paired(q), NEW i \in DOMAIN w, w[i].cmd = "DataTarget"
                 PROVE  i < Len(w) /\ w[i + 1].cmd = "Data"
      BY DEF Paired
    <3>1. i + 1 \in DOMAIN q /\ w[i] = q[i + 1] /\ i \in 1 .. n - 1
      BY <1>1, <2>1
    <3>2. i + 1 < n /\ q[(i + 1) + 1].cmd = "Data"
      BY <3>1 DEF Paired
    <3> QED
      BY <1>1, <2>1, <3>1, <3>2 DEF m
  <2>4. Closed(q) => Closed(w)
    <3> SUFFICES ASSUME Closed(q), NEW i \in DOMAIN w, NEW j \in DOMAIN w, i < j,
                        w[i].cmd = "BatchEnd", w[j].cmd = "DataTarget"
                 PROVE  w[i].stream # w[j].stream
      BY DEF Closed
    <3>1. i + 1 \in DOMAIN q /\ j + 1 \in DOMAIN q /\ i + 1 < j + 1 /\ w[i] = q[i + 1] /\ w[j] = q[j + 1]
      BY <1>1, <2>1
    <3> QED
      BY <3>1 DEF Closed
  <2>5. ASSUME NEW r, NEW j \in DOMAIN w, w[j] = r PROVE \E i \in DOMAIN q : i > 1 /\ q[i] = r
    <3>1. j + 1 \in DOMAIN q /\ j + 1 > 1 /\ q[j + 1] = r
      BY <1>1, <2>1, <2>5
    <3> QED
      BY <3>1
  <2>6. Paired(q) /\ Head(q).cmd = "DataTarget" => w # <<>> /\ w[1].cmd = "Data"
    <3> SUFFICES ASSUME Paired(q), q[1].cmd = "DataTarget" PROVE w # <<>> /\ w[1].cmd = "Data"
      BY <1>1
    <3>1. 1 < n /\ q[2].cmd = "Data"
      BY <1>1 DEF Paired
    <3>2. 1 \in 1 .. n - 1 /\ 1 \in DOMAIN w
      BY <1>1, <2>1, <3>1
    <3> QED
      BY <2>1, <3>1, <3>2
  <2> QED
    BY <1>1, <2>1, <2>2, <2>3, <2>4, <2>5, <2>6 DEF q, w, m
<1>4. ASSUME NEW x \in Realignments, w = <<x>> \o Tail(q), Head(q).cmd = "SlipStop"
      PROVE  /\ w \in Seq(FlushRecord) /\ m = n
             /\ Paired(q) => Paired(w)
             /\ Closed(q) => Closed(w)
             /\ \A r \in StreamRecord : \A j \in DOMAIN w : w[j] = r => \E i \in DOMAIN q : i > 1 /\ q[i] = r
             /\ \A S : (\A y \in Realignments : y \notin S) => Counted(q, S) = Counted(w, S) + One(Head(q) \in S)
  <2>1. x \in FlushRecord /\ x.cmd = "SlipOffset"
    BY <1>2
  <2>2. /\ w \in Seq(FlushRecord) /\ m = n /\ DOMAIN w = 1 .. n /\ w[1] = x
        /\ \A i \in 2 .. n : w[i] = q[i]
    BY <1>1, <1>4, <2>1
  <2>3. ASSUME NEW S, \A y \in Realignments : y \notin S
        PROVE  Counted(q, S) = Counted(w, S) + One(Head(q) \in S)
    <3>1. Counted(q, S) = One(Head(q) \in S) + Counted(Tail(q), S)
      BY <1>1, CountedHead
    <3>2. <<x>> \in Seq(FlushRecord)
      BY <2>1
    <3>3. Counted(w, S) = Counted(<<x>>, S) + Counted(Tail(q), S)
      BY <1>1, <1>4, <3>2, CountedConcat
    <3>4. Counted(<<x>>, S) = 0
      BY <2>3, CountedOne DEF One
    <3>5. Counted(Tail(q), S) \in Nat /\ One(Head(q) \in S) \in Nat
      BY <1>1, CountedType DEF One
    <3> QED
      BY <3>1, <3>3, <3>4, <3>5
  <2> HIDE DEF q, w, m
  <2>4. Paired(q) => Paired(w)
    <3> SUFFICES ASSUME Paired(q), NEW i \in DOMAIN w, w[i].cmd = "DataTarget"
                 PROVE  i < Len(w) /\ w[i + 1].cmd = "Data"
      BY DEF Paired
    <3>1. i \in 2 .. n /\ w[i] = q[i]
      <4>1. i # 1
        BY <2>1, <2>2
      <4> QED
        BY <2>2, <4>1
    <3>2. i < n /\ q[i + 1].cmd = "Data" /\ i + 1 \in 2 .. n
      BY <1>1, <3>1 DEF Paired
    <3> QED
      BY <2>2, <3>1, <3>2 DEF m
  <2>5. Closed(q) => Closed(w)
    <3> SUFFICES ASSUME Closed(q), NEW i \in DOMAIN w, NEW j \in DOMAIN w, i < j,
                        w[i].cmd = "BatchEnd", w[j].cmd = "DataTarget"
                 PROVE  w[i].stream # w[j].stream
      BY DEF Closed
    <3>1. i \in 2 .. n /\ j \in 2 .. n
      <4>1. i # 1 /\ j # 1
        BY <2>1, <2>2
      <4> QED
        BY <2>2, <4>1
    <3>2. w[i] = q[i] /\ w[j] = q[j]
      BY <2>2, <3>1
    <3> QED
      BY <1>1, <2>2, <3>2 DEF Closed
  <2>6. ASSUME NEW r \in StreamRecord, NEW j \in DOMAIN w, w[j] = r PROVE \E i \in DOMAIN q : i > 1 /\ q[i] = r
    <3>1. r # x
      <4>1. x \in GameRecord
        BY DEF GameRecord
      <4>2. r.cmd \in {"DataTarget", "Data", "BatchEnd"}
        BY RecordKinds DEF StreamRecord
      <4> QED
        BY <2>1, <4>2
    <3>2. j \in 2 .. n
      BY <2>2, <2>6, <3>1
    <3> QED
      BY <1>1, <2>2, <2>6, <3>2
  <2> QED
    BY <2>2, <2>3, <2>4, <2>5, <2>6
<1>5. CASE Head(q).cmd = "SlipStop" /\ \E x \in Realignments : w = <<x>> \o Tail(q)
  <2>1. PICK x \in Realignments : w = <<x>> \o Tail(q)
    BY <1>5
  <2> QED
    BY <1>1, <1>4, <1>5, <2>1
<1> QED
  BY <1>3, <1>5 DEF Walk

----------------------------------------------------------------------------
(* Types, of every step *)

\* What a record does keeps the engine's types and queues nothing.
LEMMA WorkTyped ==
    ASSUME EngineTyped, NEW r, StreamWork(r) \/ VoiceWork(r) \/ AnswerWork(r)
    PROVE  EngineTyped' /\ queued' = queued
<1>1. 1 \in Channels /\ Bendable \subseteq Channels
  BY EngineAssumption, LinkAssumption DEF Channels
<1>2. 0 \in Int /\ 0 \in Nat
  OBVIOUS
<1>3. CASE AnswerWork(r)
  <2>1. CASE \E s \in Streams : StreamInfo(s)
    BY <1>1, <1>2, <2>1, StreamsTyped
  <2>2. CASE UNCHANGED engineVars
    BY <2>2 DEF EngineTyped, engineVars
  <2> QED
    BY <1>3, <2>1, <2>2 DEF AnswerWork
<1>4. CASE VoiceWork(r)
  <2>1. PICK v \in Voices, on \in BOOLEAN :
          SampleCreate(v) \/ SampleDestroy(v) \/ SampleStart(v) \/ SampleStop(v) \/ SamplePause(v, on)
    BY <1>4 DEF VoiceWork
  <2> QED
    BY <2>1, VoicesTyped
<1>5. CASE StreamWork(r)
  <2>1. CASE \E s \in Streams : StreamPlay(s) \/ StreamStop(s) \/ StreamDestroy(s) \/ StreamDataBatchEnd(s)
    BY <1>1, <1>2, <2>1, StreamsTyped
  <2>2. CASE \E s \in Streams, c \in Channels :
               \/ StreamSlipSpeed(s, c) \/ StreamSlipOff(s, c) \/ StreamDataTarget(s, c)
               \/ \E n \in Int : StreamSlipOffset(s, c, n)
    BY <1>2, <2>2, StreamsTyped
  <2>3. CASE \E n \in Nat : StreamData(n)
    <3>1. CASE dataTarget = NoTarget
      <4>1. UNCHANGED <<streams, voices, queued>> /\ dataTarget' = NoTarget
        BY <2>3, <3>1 DEF StreamData
      <4> QED
        BY <4>1 DEF EngineTyped
    <3>2. CASE dataTarget # NoTarget
      <4>1. dataTarget[1] \in Streams
        BY <3>2 DEF EngineTyped
      <4> QED
        BY <1>1, <1>2, <2>3, <4>1, StreamsTyped
    <3> QED
      BY <3>1, <3>2
  <2> QED
    BY <1>1, <1>5, <2>1, <2>2, <2>3 DEF StreamWork
<1> QED
  BY <1>3, <1>4, <1>5

\* A record worked off keeps the types.
LEMMA WalkTyped ==
    ASSUME LinkTyped, Walk
    PROVE  LinkTyped'
<1>1. EngineTyped' /\ queued' = queued
  BY WorkTyped DEF LinkTyped, Walk
<1>2. flush' \in Seq(FlushRecord)
  BY FlushAdvances
<1>3. reply' \in Seq(Answer) /\ Len(reply') <= 1 /\ deferred' \in Seq(Answer)
  <2>1. CASE AnswerWork(Head(flush))
    <3> DEFINE a == AnswerTo(Head(flush))
    <3>1. a \in Answer /\ Offer(a)
      BY <2>1, AsksKinds DEF AnswerWork
    <3> HIDE DEF a
    <3>2. reply' \in Seq(Answer) /\ Len(reply') = 1 /\ deferred' \in Seq(Answer)
      BY <3>1, OfferOf DEF LinkTyped
    <3> QED
      BY <3>2
  <2>2. CASE UNCHANGED <<reply, deferred>>
    BY <2>2 DEF LinkTyped, QueuesTyped
  <2> QED
    BY <2>1, <2>2 DEF Walk
<1>4. QueuesTyped'
  BY <1>1, <1>2, <1>3 DEF Walk, LinkTyped, QueuesTyped
<1>5. PhasesTyped' /\ GuestTyped'
  BY DEF Walk, LinkTyped, PhasesTyped, GuestTyped, guestVars
<1> QED
  BY <1>1, <1>4, <1>5 DEF LinkTyped

\* What the replies make of the guest's streams and voices.
LEMMA AfterTyped ==
    ASSUME LinkTyped, NEW replies
    PROVE  /\ StreamsAfter(replies) \in [Streams -> {"none", "asked", "ready", "playing", "gone"}]
           /\ VoicesAfter(replies) \in [Voices -> {"none", "idle", "playing"}]
BY DEF LinkTyped, GuestTyped, StreamsAfter, VoicesAfter

\* The answer to a flush keeps the types.
LEMMA FinishTyped ==
    ASSUME LinkTyped, FinishFlush
    PROVE  LinkTyped'
<1>1. EngineTyped'
  BY DEF FinishFlush, QueueReplies, LinkTyped, EngineTyped
<1>2. QueuesTyped'
  <2>1. queued' \in Seq(Answer \cup Done)
    <3>1. queued' = queued \o deferred
      BY DEF FinishFlush, QueueReplies
    <3>2. queued \in Seq(Answer \cup Done) /\ deferred \in Seq(Answer)
      BY DEF LinkTyped, QueuesTyped
    <3>3. deferred \in Seq(Answer \cup Done)
      BY <3>2
    <3> QED
      BY <3>1, <3>2, <3>3
  <2> QED
    BY <2>1 DEF FinishFlush, LinkTyped, QueuesTyped
<1>3. PhasesTyped'
  BY DEF FinishFlush, LinkTyped, PhasesTyped
<1>4. GuestTyped'
  <2>1. spuInFlight' \in BOOLEAN /\ terminating' \in BOOLEAN
    BY DEF FinishFlush, LinkTyped, GuestTyped
  <2> QED
    BY <2>1, AfterTyped DEF FinishFlush, LinkTyped, GuestTyped
<1> QED
  BY <1>1, <1>2, <1>3, <1>4 DEF LinkTyped

\* The flush a poll makes: the game's calls, a chunk, and data.
LEMMA PollFlush ==
    ASSUME LinkTyped, Poll
    PROVE  /\ flush' \in Seq(FlushRecord) /\ Fitted(flush') /\ Closed(flush')
           /\ \A s \in Streams, c \in Channels : Loaded(flush', s, c) = Served(s, c)
           /\ \A i \in DOMAIN flush' : flush'[i].cmd = "DataTarget" =>
                \E s \in Streams, c \in Channels : flush'[i] = Target(s, c) /\ Served(s, c) > 0
           /\ \A s \in Streams, c \in Channels : Wanted(s, c) # 0 =>
                \E i \in DOMAIN flush' : flush'[i] = Command("BatchEnd", s)
           /\ \E q \in Seq(StreamRecord) :
                flush' = calls \o (IF ShipsChunk THEN <<SpuChunk>> ELSE <<>>) \o q
<1> DEFINE chunk == IF ShipsChunk THEN <<SpuChunk>> ELSE <<>>
           q == FlattenSeq([i \in 1 .. Cardinality(Streams) |-> StreamRecords(SetToSeq(Streams)[i])])
           G == GameRecord \cup {SpuChunk, Terminate}
           a == calls \o chunk
<1>1. flush' = a \o q
  BY DEF Poll
<1>2. /\ q \in Seq(StreamRecord) /\ Fitted(q) /\ Closed(q)
      /\ \A s \in Streams, c \in Channels : Loaded(q, s, c) = Served(s, c)
      /\ \A i \in DOMAIN q : q[i].cmd = "DataTarget" =>
           \E s \in Streams, c \in Channels : q[i] = Target(s, c) /\ Served(s, c) > 0
      /\ \A s \in Streams, c \in Channels : Wanted(s, c) # 0 =>
           \E i \in DOMAIN q : q[i] = Command("BatchEnd", s)
  BY PollRecordsOf
<1>3. a \in Seq(G) /\ flush' = calls \o chunk \o q
  <2>1. calls \in Seq(GameRecord)
    BY DEF LinkTyped, QueuesTyped
  <2>2. calls \in Seq(G)
    BY <2>1
  <2>3. <<SpuChunk>> \in Seq(G) /\ <<>> \in Seq(G)
    OBVIOUS
  <2>4. chunk \in Seq(G)
    BY <2>3
  <2> HIDE DEF q, chunk, G
  <2> QED
    BY <1>1, <2>2, <2>4
<1> HIDE DEF a, q, chunk
<1>4. \A i \in DOMAIN a : a[i] \in G /\ a[i].cmd \notin {"DataTarget", "Data", "BatchEnd"}
  <2> TAKE i \in DOMAIN a
  <2>1. a[i] \in G
    BY <1>3
  <2> QED
    BY <2>1, RecordKinds
<1>5. a \in Seq(FlushRecord) /\ q \in Seq(FlushRecord)
  <2>1. G \subseteq FlushRecord /\ StreamRecord \subseteq FlushRecord
    BY DEF FlushRecord
  <2> HIDE DEF G
  <2> QED
    BY <1>2, <1>3, <2>1
<1>6. Fitted(a) /\ Closed(a)
  BY <1>4 DEF Fitted, Paired, Closed
<1>7. \A s, c : Loaded(a, s, c) = 0
  <2>1. \A s, c : \A i \in 1 .. Len(a) : a[i] # Target(s, c)
    <3>1. DOMAIN a = 1 .. Len(a)
      BY <1>5
    <3> QED
      BY <1>4, <3>1, RecordKinds
  <2> QED
    BY <2>1, LoadedNone
<1>8. flush' \in Seq(FlushRecord) /\ Fitted(flush') /\ Closed(flush')
  <2>1. Closed(a \o q)
    BY <1>2, <1>4, <1>5, <1>6, ClosedConcat
  <2> QED
    BY <1>1, <1>2, <1>5, <1>6, <2>1, FittedConcat
<1>9. ASSUME NEW s \in Streams, NEW c \in Channels
      PROVE  Loaded(flush', s, c) = Served(s, c)
  <2>1. Loaded(flush', s, c) = Loaded(a, s, c) + Loaded(q, s, c)
    BY <1>1, <1>2, <1>5, <1>6, LoadedConcat
  <2>2. Served(s, c) \in Nat
    BY ServedOf
  <2> QED
    BY <1>2, <1>7, <2>1, <2>2
<1>10. /\ DOMAIN flush' = 1 .. Len(a) + Len(q) /\ DOMAIN a = 1 .. Len(a) /\ DOMAIN q = 1 .. Len(q)
       /\ Len(a) \in Nat /\ Len(q) \in Nat
       /\ \A i \in 1 .. Len(a) + Len(q) : flush'[i] = IF i <= Len(a) THEN a[i] ELSE q[i - Len(a)]
  BY <1>1, <1>2, <1>5
<1>11. ASSUME NEW i \in DOMAIN flush', flush'[i].cmd = "DataTarget"
       PROVE  \E s \in Streams, c \in Channels : flush'[i] = Target(s, c) /\ Served(s, c) > 0
  <2>1. ~(i <= Len(a))
    BY <1>4, <1>10, <1>11
  <2>2. i - Len(a) \in DOMAIN q /\ flush'[i] = q[i - Len(a)]
    BY <1>10, <2>1
  <2> QED
    BY <1>2, <1>11, <2>2
<1>12. ASSUME NEW s \in Streams, NEW c \in Channels, Wanted(s, c) # 0
       PROVE  \E i \in DOMAIN flush' : flush'[i] = Command("BatchEnd", s)
  <2>1. PICK i \in DOMAIN q : q[i] = Command("BatchEnd", s)
    BY <1>2, <1>12
  <2>2. i + Len(a) \in DOMAIN flush' /\ ~(i + Len(a) <= Len(a)) /\ (i + Len(a)) - Len(a) = i
    BY <1>10
  <2>3. flush'[i + Len(a)] = q[i]
    BY <1>10, <2>2
  <2> QED
    BY <2>1, <2>2, <2>3
<1> QED
  BY <1>2, <1>3, <1>8, <1>9, <1>11, <1>12 DEF chunk

\* The poll keeps the types.
LEMMA PollTyped ==
    ASSUME LinkTyped, Poll
    PROVE  LinkTyped'
<1>1. QueuesTyped'
  <2>1. flush' \in Seq(FlushRecord)
    BY PollFlush
  <2>2. <<>> \in Seq(GameRecord) /\ Len(<<>>) <= MaxCalls /\ <<>> \in Seq(Reply)
    BY LinkAssumption
  <2> QED
    BY <2>1, <2>2 DEF Poll, LinkTyped, QueuesTyped, engineVars
<1>2. EngineTyped'
  BY DEF Poll, LinkTyped, EngineTyped, engineVars
<1>3. PhasesTyped'
  BY DEF Poll, LinkTyped, PhasesTyped
<1>4. GuestTyped'
  <2>1. sent' = [s \in Streams |-> [c \in Channels |-> sent[s][c] + Served(s, c)]]
    BY DEF Poll
  <2>2. \A s \in Streams, c \in Channels :
          sent[s][c] + Served(s, c) \in Nat /\ sent[s][c] + Served(s, c) <= held[s]
    <3> TAKE s \in Streams, c \in Channels
    <3>1. Served(s, c) \in Nat /\ sent[s][c] + Served(s, c) <= held[s]
      BY ServedOf
    <3>2. sent[s][c] \in Nat
      BY DEF LinkTyped, GuestTyped
    <3> QED
      BY <3>1, <3>2
  <2>3. sent' \in [Streams -> [Channels -> Nat]] /\ \A s \in Streams, c \in Channels : sent'[s][c] <= held[s]
    BY <2>1, <2>2
  <2>4. spuInFlight' \in BOOLEAN /\ spuLeft' \in Nat
    BY DEF Poll, LinkTyped, GuestTyped, ShipsChunk, AwaitsChunk
  <2> QED
    BY <2>3, <2>4, AfterTyped DEF Poll, LinkTyped, GuestTyped
<1> QED
  BY <1>1, <1>2, <1>3, <1>4 DEF LinkTyped

----------------------------------------------------------------------------
(* Answers under way *)

\* What is under way is counted queue by queue.
LEMMA CountedApart ==
    ASSUME NEW a \in Seq(FlushRecord), NEW f \in Seq(FlushRecord),
           NEW p \in Seq(Reply), NEW d \in Seq(Reply), NEW u \in Seq(Reply), NEW v \in Seq(Reply),
           NEW l \in Seq(Reply), NEW r, NEW x
    PROVE  /\ Times(a \o f, r) + Times(p \o d \o u \o v \o l, x)
                = Counted(a, {r}) + Counted(f, {r}) + Counted(p, {x}) + Counted(d, {x})
                  + Counted(u, {x}) + Counted(v, {x}) + Counted(l, {x})
           /\ Counted(a, {r}) \in Nat /\ Counted(f, {r}) \in Nat /\ Counted(p, {x}) \in Nat
           /\ Counted(d, {x}) \in Nat /\ Counted(u, {x}) \in Nat /\ Counted(v, {x}) \in Nat
           /\ Counted(l, {x}) \in Nat
<1> DEFINE pd == p \o d
           pdu == pd \o u
           pduv == pdu \o v
<1>1. Counted(a \o f, {r}) = Counted(a, {r}) + Counted(f, {r})
  BY CountedConcat
<1>2. pd \in Seq(Reply) /\ pdu \in Seq(Reply) /\ pduv \in Seq(Reply)
  OBVIOUS
<1>5. Counted(pd, {x}) = Counted(p, {x}) + Counted(d, {x})
  BY CountedConcat
<1>4. Counted(pdu, {x}) = Counted(pd, {x}) + Counted(u, {x})
  <2> HIDE DEF pd
  <2> QED
    BY <1>2, CountedConcat
<1>3. Counted(pduv, {x}) = Counted(pdu, {x}) + Counted(v, {x})
  <2> HIDE DEF pdu
  <2> QED
    BY <1>2, CountedConcat
<1>9. Counted(pduv \o l, {x}) = Counted(pduv, {x}) + Counted(l, {x})
  <2> HIDE DEF pduv
  <2> QED
    BY <1>2, CountedConcat
<1>6. /\ Counted(a, {r}) \in Nat /\ Counted(f, {r}) \in Nat /\ Counted(p, {x}) \in Nat
      /\ Counted(d, {x}) \in Nat /\ Counted(u, {x}) \in Nat /\ Counted(v, {x}) \in Nat
      /\ Counted(l, {x}) \in Nat
  BY CountedType
<1>7. /\ Times(a \o f, r) = Counted(a \o f, {r})
      /\ Times(pduv \o l, x) = Counted(pduv \o l, {x})
  BY TimesCounted
<1> HIDE DEF pduv, pdu, pd
<1>10. Times(pduv \o l, x)
         = Counted(p, {x}) + Counted(d, {x}) + Counted(u, {x}) + Counted(v, {x}) + Counted(l, {x})
  BY <1>3, <1>4, <1>5, <1>6, <1>7, <1>9
<1>11. Times(a \o f, r) = Counted(a, {r}) + Counted(f, {r})
  BY <1>1, <1>7
<1>8. Times(a \o f, r) + Times(pduv \o l, x)
        = Counted(a, {r}) + Counted(f, {r}) + Counted(p, {x}) + Counted(d, {x})
          + Counted(u, {x}) + Counted(v, {x}) + Counted(l, {x})
  <2> DEFINE ca == Counted(a, {r})
             cf == Counted(f, {r})
             cp == Counted(p, {x})
             cd == Counted(d, {x})
             cu == Counted(u, {x})
             cv == Counted(v, {x})
             cl == Counted(l, {x})
             t == Times(a \o f, r)
             y == Times(pduv \o l, x)
  <2>1. ca \in Nat /\ cf \in Nat /\ cp \in Nat /\ cd \in Nat /\ cu \in Nat /\ cv \in Nat /\ cl \in Nat
    BY <1>6
  <2>2. t = ca + cf
    BY <1>11
  <2>3. y = cp + cd + cu + cv + cl
    BY <1>10
  <2> HIDE DEF ca, cf, cp, cd, cu, cv, cl, t, y
  <2>4. t + y = ca + cf + cp + cd + cu + cv + cl
    BY <2>1, <2>2, <2>3
  <2> QED
    BY <2>4 DEF ca, cf, cp, cd, cu, cv, cl, t, y
<1> QED
  BY <1>6, <1>8 DEF pduv, pdu, pd

\* The parts of what is under way for a record and its answer.
Parts(r) ==
    Counted(calls, {r}) + Counted(flush, {r}) + Counted(reply, {AnswerTo(r)})
      + Counted(deferred, {AnswerTo(r)}) + Counted(queued, {AnswerTo(r)})
      + Counted(delivery, {AnswerTo(r)}) + Counted(lost, {AnswerTo(r)})

\* The records and the answers to one that are under way.
LEMMA PartsOf ==
    ASSUME QueuesTyped, NEW r
    PROVE  /\ Accounted(r, AnswerTo(r)) = Parts(r)
           /\ Counted(calls, {r}) \in Nat /\ Counted(flush, {r}) \in Nat
           /\ Counted(reply, {AnswerTo(r)}) \in Nat /\ Counted(deferred, {AnswerTo(r)}) \in Nat
           /\ Counted(queued, {AnswerTo(r)}) \in Nat /\ Counted(delivery, {AnswerTo(r)}) \in Nat
           /\ Counted(lost, {AnswerTo(r)}) \in Nat
<1>1. /\ calls \in Seq(FlushRecord) /\ flush \in Seq(FlushRecord)
      /\ reply \in Seq(Reply) /\ deferred \in Seq(Reply) /\ queued \in Seq(Reply)
      /\ delivery \in Seq(Reply) /\ lost \in Seq(Reply)
  <2>1. GameRecord \subseteq FlushRecord /\ Answer \subseteq Reply /\ Answer \cup Done \subseteq Reply
    BY DEF FlushRecord, Reply
  <2> QED
    BY <2>1 DEF QueuesTyped
<1> DEFINE x == AnswerTo(r)
<1>2. Times(calls \o flush, r) + Times(reply \o deferred \o queued \o delivery \o lost, x)
        = Counted(calls, {r}) + Counted(flush, {r}) + Counted(reply, {x}) + Counted(deferred, {x})
          + Counted(queued, {x}) + Counted(delivery, {x}) + Counted(lost, {x})
  <2> HIDE DEF x
  <2> QED
    BY <1>1, CountedApart, SMTT(40)
<1>3. /\ Counted(calls, {r}) \in Nat /\ Counted(flush, {r}) \in Nat
      /\ Counted(reply, {x}) \in Nat /\ Counted(deferred, {x}) \in Nat
      /\ Counted(queued, {x}) \in Nat /\ Counted(delivery, {x}) \in Nat
      /\ Counted(lost, {x}) \in Nat
  BY <1>1, CountedType
<1> QED
  BY <1>2, <1>3 DEF Accounted, Parts

\* The same after the step.
LEMMA PartsNext ==
    ASSUME QueuesTyped', NEW r
    PROVE  Accounted(r, AnswerTo(r))' = Parts(r)'
<1>1. /\ calls' \in Seq(FlushRecord) /\ flush' \in Seq(FlushRecord)
      /\ reply' \in Seq(Reply) /\ deferred' \in Seq(Reply) /\ queued' \in Seq(Reply)
      /\ delivery' \in Seq(Reply) /\ lost' \in Seq(Reply)
  <2>1. GameRecord \subseteq FlushRecord /\ Answer \subseteq Reply /\ Answer \cup Done \subseteq Reply
    BY DEF FlushRecord, Reply
  <2> QED
    BY <2>1 DEF QueuesTyped
<1> DEFINE x == AnswerTo(r)
<1>2. Times(calls' \o flush', r) + Times(reply' \o deferred' \o queued' \o delivery' \o lost', x)
        = Counted(calls', {r}) + Counted(flush', {r}) + Counted(reply', {x}) + Counted(deferred', {x})
          + Counted(queued', {x}) + Counted(delivery', {x}) + Counted(lost', {x})
  <2> HIDE DEF x
  <2> QED
    BY <1>1, CountedApart, SMTT(40)
<1> QED
  BY <1>2 DEF Accounted, Parts

\* Answered, with what is under way counted in its parts.
LEMMA AnsweredIs ==
    ASSUME QueuesTyped
    PROVE  Answered <=> \A r \in Asks : Fine(Parts(r), Awaits(r))
<1>1. \A r \in Asks : Accounted(r, AnswerTo(r)) = Parts(r)
  BY PartsOf
<1> QED
  BY <1>1 DEF Answered

\* The same after a step.
LEMMA AnsweredNext ==
    ASSUME QueuesTyped'
    PROVE  Answered' <=> \A r \in Asks : Fine(Parts(r)', Awaits(r)')
<1>1. \A r \in Asks : Accounted(r, AnswerTo(r))' = Parts(r)'
  BY PartsNext
<1> QED
  BY <1>1 DEF Answered

\* One reply more than was expected of a record that is not awaited.
LEMMA AnsweredCall ==
    ASSUME LinkTyped, LinkTyped', Answered, NEW x \in GameRecord, GameCall(x),
           \A s \in Streams : x = Command("StreamInfo", s) => eeStream[s] # "asked",
           \A s \in Streams : (eeStream'[s] = "asked")
                                = (eeStream[s] = "asked" \/ x = Command("StreamInfo", s))
    PROVE  Answered'
<1>1. ASSUME NEW r \in Asks
      PROVE  Fine(Parts(r)', Awaits(r)')
  <2>1. /\ Fine(Parts(r), Awaits(r))
        /\ Counted(calls, {r}) \in Nat /\ Counted(flush, {r}) \in Nat
        /\ Counted(reply, {AnswerTo(r)}) \in Nat /\ Counted(deferred, {AnswerTo(r)}) \in Nat
        /\ Counted(queued, {AnswerTo(r)}) \in Nat /\ Counted(delivery, {AnswerTo(r)}) \in Nat
        /\ Counted(lost, {AnswerTo(r)}) \in Nat
    <3>1. \A q \in Asks : Fine(Parts(q), Awaits(q))
      BY AnsweredIs DEF LinkTyped
    <3> QED
      BY <3>1, PartsOf DEF LinkTyped
  <2>2. /\ calls' = Append(calls, x)
        /\ UNCHANGED <<flush, reply, deferred, queued, delivery, lost, spuInFlight, terminating>>
    BY DEF GameCall, engineVars
  <2>3. Counted(calls', {r}) = Counted(calls, {r}) + One(x \in {r})
    BY <2>2, CountedAppend DEF LinkTyped, QueuesTyped
  <2>4. One(x \in {r}) \in Nat
    BY DEF One
  <2>5. Parts(r)' = Parts(r) + One(x \in {r})
    <3> DEFINE a == AnswerTo(r)
               n1 == Counted(calls, {r})
               n2 == Counted(flush, {r})
               n3 == Counted(reply, {a})
               n4 == Counted(deferred, {a})
               n5 == Counted(queued, {a})
               n6 == Counted(delivery, {a})
               n7 == Counted(lost, {a})
               d == One(x \in {r})
    <3>1. Parts(r) = n1 + n2 + n3 + n4 + n5 + n6 + n7
      BY DEF Parts
    <3>2. Parts(r)' = n1 + d + n2 + n3 + n4 + n5 + n6 + n7
      BY <2>2, <2>3 DEF Parts
    <3>3. /\ n1 \in Nat /\ n2 \in Nat /\ n3 \in Nat /\ n4 \in Nat
          /\ n5 \in Nat /\ n6 \in Nat /\ n7 \in Nat /\ d \in Nat
      BY <2>1, <2>4
    <3> HIDE DEF a, n1, n2, n3, n4, n5, n6, n7, d
    <3>4. n1 + d + n2 + n3 + n4 + n5 + n6 + n7 = n1 + n2 + n3 + n4 + n5 + n6 + n7 + d
      BY <3>3
    <3> QED
      BY <3>1, <3>2, <3>4 DEF d
  <2>6. Parts(r) \in Nat
    BY <2>1 DEF Parts
  <2>7. CASE x = r
    <3>1. PICK s \in Streams : r = Command("StreamInfo", s)
      <4>1. SpuChunk \notin GameRecord /\ Terminate \notin GameRecord
        BY GameKinds
      <4> QED
        BY <2>7, <4>1, AsksKinds
    <3>2. ~Awaits(r) /\ Awaits(r)'
      BY <2>7, <3>1, AwaitsOf
    <3>3. One(x \in {r}) = 1
      BY <2>7 DEF One
    <3> QED
      BY <2>1, <2>5, <2>6, <3>2, <3>3 DEF One, Fine
  <2>8. CASE x # r
    <3>1. Awaits(r)' = Awaits(r)
      <4>1. CASE r \in {SpuChunk, Terminate}
        BY <2>2, <4>1, AwaitsOf
      <4>2. CASE \E s \in Streams : r = Command("StreamInfo", s)
        BY <2>8, <4>2, AwaitsOf
      <4> QED
        BY <4>1, <4>2, AsksKinds
    <3>2. One(x \in {r}) = 0
      BY <2>8 DEF One
    <3> QED
      BY <2>1, <2>5, <2>6, <3>1, <3>2
  <2> QED
    BY <2>7, <2>8
<1> QED
  BY <1>1, AnsweredNext DEF LinkTyped

\* A step that moves nothing that is under way keeps the answers.
LEMMA AnsweredSame ==
    ASSUME LinkTyped, LinkTyped', Answered,
           \A r \in Asks : Parts(r)' = Parts(r) /\ Awaits(r)' = Awaits(r)
    PROVE  Answered'
BY AnsweredIs, AnsweredNext DEF LinkTyped

\* A call that awaits an answer puts its record under way.
LEMMA AnsweredGame ==
    ASSUME LinkTyped, LinkTyped', Answered, Game
    PROVE  Answered'
<1> DEFINE Call(x) == /\ GameCall(x)
                      /\ \A s \in Streams : x = Command("StreamInfo", s) => eeStream[s] # "asked"
                      /\ \A s \in Streams : (eeStream'[s] = "asked")
                                              = (eeStream[s] = "asked" \/ x = Command("StreamInfo", s))
<1>0. eeStream \in [Streams -> {"none", "asked", "ready", "playing", "gone"}]
  BY DEF LinkTyped, GuestTyped
<1>1. ASSUME NEW s \in Streams, Prepare(s) \/ Play(s) \/ Stop(s) \/ Destroy(s)
      PROVE  \E x \in GameRecord : Call(x)
  <2>1. CASE Prepare(s)
    <3>1. \A t \in Streams : Command("StreamInfo", s) = Command("StreamInfo", t) <=> s = t
      BY DEF Command
    <3> QED
      BY <1>0, <2>1, <3>1, GameRecords DEF Prepare
  <2>2. ASSUME NEW cmd \in {"Play", "Stop", "Destroy"}, GameCall(Command(cmd, s)),
               NEW to \in {"ready", "playing", "gone"}, eeStream[s] \in {"ready", "playing"},
               eeStream' = [eeStream EXCEPT ![s] = to]
        PROVE  \E x \in GameRecord : Call(x)
    <3>1. \A t \in Streams : Command(cmd, s) # Command("StreamInfo", t)
      BY DEF Command
    <3> QED
      BY <1>0, <2>2, <3>1, GameRecords
  <2> QED
    BY <1>1, <2>1, <2>2 DEF Play, Stop, Destroy
<1>2. ASSUME NEW s \in Streams, NEW c \in Bendable, NEW n \in -MaxSlip .. MaxSlip,
             Bend(s, c) \/ Unbend(s, c) \/ Realign(s, c, n)
      PROVE  \E x \in GameRecord : Call(x)
  <2>1. n \in Int
    BY LinkAssumption
  <2>2. PICK x \in GameRecord : GameCall(x) /\ x.cmd \in {"SlipSpeed", "SlipStop", "SlipOffset"}
    BY <1>2, <2>1, GameRecords DEF Bend, Unbend, Realign, ChannelCommand
  <2>3. \A t \in Streams : x # Command("StreamInfo", t)
    BY <2>2 DEF Command
  <2> QED
    BY <1>2, <2>2, <2>3 DEF Bend, Unbend, Realign
<1>3. ASSUME NEW v \in Voices, NEW pause \in BOOLEAN,
             \/ CreateSample(v) \/ StartSample(v) \/ StopSample(v) \/ DestroySample(v)
             \/ PauseSample(v, pause)
      PROVE  \E x \in GameRecord : Call(x)
  <2>1. PICK cmd \in {"Create", "Start", "StopSample", "Pause", "Resume", "DestroySample"} :
          GameCall(VoiceCommand(cmd, v)) /\ eeStream' = eeStream
    BY <1>3 DEF CreateSample, StartSample, StopSample, DestroySample, PauseSample
  <2>2. \A t \in Streams : VoiceCommand(cmd, v) # Command("StreamInfo", t)
    BY DEF VoiceCommand, Command
  <2> QED
    BY <2>1, <2>2, GameRecords
<1>4. ASSUME NEW n \in 1 .. MaxChunks, Upload(n)
      PROVE  Answered'
  <2>1. UNCHANGED <<calls, flush, reply, deferred, queued, delivery, lost, spuInFlight, terminating, eeStream>>
    BY <1>4 DEF Upload, engineVars, linkVars
  <2>2. ASSUME NEW r \in Asks PROVE Parts(r)' = Parts(r) /\ Awaits(r)' = Awaits(r)
    <3>1. Parts(r)' = Parts(r)
      BY <2>1 DEF Parts
    <3>2. Awaits(r)' = Awaits(r)
      BY <2>1 DEF Awaits
    <3> QED
      BY <3>1, <3>2
  <2> QED
    BY <2>2, AnsweredSame
<1>5. CASE StartTerminate
  <2>1. /\ flush' = Append(calls, Terminate) /\ calls' = <<>> /\ terminating' = TRUE
        /\ UNCHANGED <<reply, deferred, queued, delivery, lost, spuInFlight, eeStream>>
        /\ flush = <<>> /\ ~terminating
    BY <1>5 DEF StartTerminate, engineVars, LinkTyped, PhasesTyped
  <2>2. ASSUME NEW r \in Asks
        PROVE  Fine(Parts(r)', Awaits(r)')
    <3>1. /\ Fine(Parts(r), Awaits(r))
          /\ Counted(calls, {r}) \in Nat /\ Counted(flush, {r}) \in Nat
          /\ Counted(reply, {AnswerTo(r)}) \in Nat /\ Counted(deferred, {AnswerTo(r)}) \in Nat
          /\ Counted(queued, {AnswerTo(r)}) \in Nat /\ Counted(delivery, {AnswerTo(r)}) \in Nat
          /\ Counted(lost, {AnswerTo(r)}) \in Nat
      <4>1. \A q \in Asks : Fine(Parts(q), Awaits(q))
        BY AnsweredIs DEF LinkTyped
      <4> QED
        BY <4>1, PartsOf DEF LinkTyped
    <3>2. Counted(calls', {r}) = 0 /\ Counted(flush, {r}) = 0
      BY <2>1, CountedNone
    <3>3. Counted(flush', {r}) = Counted(calls, {r}) + One(Terminate \in {r})
      <4>1. calls \in Seq(FlushRecord) /\ Terminate \in FlushRecord
        BY DEF LinkTyped, QueuesTyped, FlushRecord
      <4> QED
        BY <2>1, <4>1, CountedAppend
    <3>4. One(Terminate \in {r}) \in Nat
      BY DEF One
    <3>5. Parts(r)' = Parts(r) + One(Terminate \in {r}) /\ Parts(r) \in Nat
      <4> DEFINE x == AnswerTo(r)
      <4>1. /\ Counted(reply', {x}) = Counted(reply, {x}) /\ Counted(deferred', {x}) = Counted(deferred, {x})
            /\ Counted(queued', {x}) = Counted(queued, {x}) /\ Counted(delivery', {x}) = Counted(delivery, {x})
            /\ Counted(lost', {x}) = Counted(lost, {x})
        BY <2>1
      <4>2. /\ Parts(r) = Counted(calls, {r}) + Counted(flush, {r}) + Counted(reply, {x})
                           + Counted(deferred, {x}) + Counted(queued, {x}) + Counted(delivery, {x})
                           + Counted(lost, {x})
            /\ Parts(r)' = Counted(calls', {r}) + Counted(flush', {r}) + Counted(reply', {x})
                            + Counted(deferred', {x}) + Counted(queued', {x}) + Counted(delivery', {x})
                            + Counted(lost', {x})
        BY DEF Parts
      <4> HIDE DEF x
      <4> QED
        BY <3>1, <3>2, <3>3, <3>4, <4>1, <4>2 DEF x
    <3>6. CASE r = Terminate
      <4>1. ~Awaits(r) /\ Awaits(r)'
        BY <2>1, <3>6, AwaitsOf
      <4>2. One(Terminate \in {r}) = 1
        BY <3>6 DEF One
      <4> QED
        BY <3>1, <3>5, <4>1, <4>2 DEF One, Fine
    <3>7. CASE r # Terminate
      <4>1. Awaits(r)' = Awaits(r)
        BY <2>1, <3>7, AwaitsOf, AsksKinds
      <4>2. One(Terminate \in {r}) = 0
        BY <3>7 DEF One
      <4> QED
        BY <3>1, <3>5, <4>1, <4>2
    <3> QED
      BY <3>6, <3>7
  <2> QED
    BY <2>2, AnsweredNext DEF LinkTyped
<1>6. \E pause \in BOOLEAN : TRUE
  OBVIOUS
<1>7. \E n \in -MaxSlip .. MaxSlip : TRUE
  <2>1. 0 \in -MaxSlip .. MaxSlip
    BY LinkAssumption
  <2> QED
    BY <2>1
<1>8. (\E x \in GameRecord : Call(x)) => Answered'
  BY AnsweredCall
<1> HIDE DEF Call
<1> QED
  BY <1>1, <1>2, <1>3, <1>4, <1>5, <1>6, <1>7, <1>8 DEF Game

\* Replies that were awaited are handed over.
LEMMA FineLess ==
    ASSUME NEW n \in Nat, NEW w \in BOOLEAN, Fine(n, w),
           NEW k \in Nat, k <= n, NEW b \in BOOLEAN, b <=> k > 0
    PROVE  Fine(n - k, w /\ ~b) /\ n - k \in Nat
BY DEF Fine, One

\* The replies bring an answer if one of them is it.
LEMMA BringsOf ==
    ASSUME NEW q \in Seq(Reply), NEW x
    PROVE  Brings(q, x) <=> Counted(q, {x}) > 0
<1>1. Counted(q, {x}) \in Nat /\ (Counted(q, {x}) = 0 <=> \A i \in DOMAIN q : q[i] \notin {x})
  BY CountedType
<1> QED
  BY <1>1 DEF Brings

\* The guest awaits an answer or does not.
LEMMA AwaitsTyped ==
    ASSUME LinkTyped, NEW r \in Asks
    PROVE  Awaits(r) \in BOOLEAN
<1>1. spuInFlight \in BOOLEAN /\ terminating \in BOOLEAN
  BY DEF LinkTyped, GuestTyped
<1>2. CASE r = SpuChunk
  BY <1>1, <1>2, AwaitsOf
<1>3. CASE r = Terminate
  BY <1>1, <1>3, AwaitsOf
<1>4. CASE \E s \in Streams : r = Command("StreamInfo", s)
  <2>1. PICK s \in Streams : r = Command("StreamInfo", s)
    BY <1>4
  <2>2. Awaits(Command("StreamInfo", s)) = (eeStream[s] = "asked")
    BY AwaitsOf
  <2>3. (eeStream[s] = "asked") \in BOOLEAN
    OBVIOUS
  <2> QED
    BY <2>1, <2>2, <2>3
<1> QED
  BY <1>2, <1>3, <1>4, AsksKinds

\* The poll takes the answers it brings and awaits one to the chunk it ships.
LEMMA AnsweredPoll ==
    ASSUME LinkTyped, LinkTyped', Answered, Poll
    PROVE  Answered'
<1>1. /\ calls' = <<>> /\ delivery' = <<>> /\ flush = <<>> /\ ~terminating
      /\ spuInFlight' = (ShipsChunk \/ AwaitsChunk)
      /\ eeStream' = StreamsAfter(delivery)
      /\ UNCHANGED <<reply, deferred, queued, lost, terminating>>
  BY DEF Poll, engineVars, LinkTyped, PhasesTyped
<1>2. PICK q \in Seq(StreamRecord) :
        flush' = calls \o (IF ShipsChunk THEN <<SpuChunk>> ELSE <<>>) \o q
  BY PollFlush
<1>3. delivery \in Seq(Reply) /\ calls \in Seq(FlushRecord) /\ q \in Seq(FlushRecord)
  <2>1. GameRecord \subseteq FlushRecord /\ StreamRecord \subseteq FlushRecord
    BY DEF FlushRecord
  <2>2. calls \in Seq(GameRecord) /\ delivery \in Seq(Reply)
    BY DEF LinkTyped, QueuesTyped
  <2>3. calls \in Seq(FlushRecord)
    BY <2>1, <2>2
  <2>4. q \in Seq(FlushRecord)
    BY <1>2, <2>1
  <2> QED
    BY <2>2, <2>3, <2>4
<1>4. ASSUME NEW r \in Asks
      PROVE  Fine(Parts(r)', Awaits(r)')
  <2> DEFINE x == AnswerTo(r)
             k == Counted(delivery, {x})
             m == One(ShipsChunk /\ r = SpuChunk)
             chunk == IF ShipsChunk THEN <<SpuChunk>> ELSE <<>>
             b == Brings(delivery, x)
  <2>1. /\ Fine(Parts(r), Awaits(r))
        /\ Counted(calls, {r}) \in Nat /\ Counted(flush, {r}) \in Nat
        /\ Counted(reply, {x}) \in Nat /\ Counted(deferred, {x}) \in Nat
        /\ Counted(queued, {x}) \in Nat /\ Counted(lost, {x}) \in Nat /\ k \in Nat
    <3>1. \A o \in Asks : Fine(Parts(o), Awaits(o))
      BY AnsweredIs DEF LinkTyped
    <3> QED
      BY <3>1, PartsOf DEF LinkTyped
  <2>2. Counted(flush', {r}) = Counted(calls, {r}) + m
    <3>1. chunk \in Seq(FlushRecord) /\ Counted(chunk, {r}) = m
      <4>1. SpuChunk \in FlushRecord
        BY AsksKinds
      <4>2. CASE ShipsChunk
        <5>1. Counted(<<SpuChunk>>, {r}) = One(SpuChunk \in {r})
          BY CountedOne
        <5>2. One(SpuChunk \in {r}) = m
          BY <4>2 DEF One
        <5> QED
          BY <4>1, <4>2, <5>1, <5>2
      <4>3. CASE ~ShipsChunk
        <5>1. Counted(<<>>, {r}) = 0 /\ m = 0
          BY <4>3, CountedNone DEF One
        <5> QED
          BY <4>3, <5>1
      <4> QED
        BY <4>2, <4>3
    <3> HIDE DEF chunk, m
    <3> DEFINE ac == calls \o chunk
    <3>2. ac \in Seq(FlushRecord)
      BY <1>3, <3>1
    <3>3. Counted(ac, {r}) = Counted(calls, {r}) + Counted(chunk, {r})
      BY <1>3, <3>1, CountedConcat
    <3>6. flush' = ac \o q
      BY <1>2 DEF chunk
    <3> HIDE DEF ac
    <3>4. Counted(ac \o q, {r}) = Counted(ac, {r}) + Counted(q, {r})
      BY <1>3, <3>2, CountedConcat
    <3>5. Counted(q, {r}) = 0
      <4>1. \A i \in DOMAIN q : q[i] \notin {r}
        <5>1. r.cmd \in {"SpuChunk", "Terminate", "StreamInfo"}
          BY AsksKinds
        <5>2. \A o \in StreamRecord : o.cmd \in {"DataTarget", "Data", "BatchEnd"}
          BY RecordKinds DEF StreamRecord
        <5>3. \A i \in DOMAIN q : q[i] \in StreamRecord
          BY <1>2
        <5> QED
          BY <5>1, <5>2, <5>3
      <4> QED
        BY <1>3, <4>1, CountedType
    <3>7. m \in Nat
      BY DEF m, One
    <3> QED
      BY <2>1, <3>1, <3>3, <3>4, <3>5, <3>6, <3>7
  <2>3. /\ Counted(calls', {r}) = 0 /\ Counted(delivery', {x}) = 0 /\ Counted(flush, {r}) = 0
        /\ Counted(reply', {x}) = Counted(reply, {x}) /\ Counted(deferred', {x}) = Counted(deferred, {x})
        /\ Counted(queued', {x}) = Counted(queued, {x}) /\ Counted(lost', {x}) = Counted(lost, {x})
    BY <1>1, CountedNone
  <2>4. m \in Nat
    BY DEF One
  <2>5. /\ Parts(r) = Counted(calls, {r}) + Counted(flush, {r}) + Counted(reply, {x})
                      + Counted(deferred, {x}) + Counted(queued, {x}) + k + Counted(lost, {x})
        /\ Parts(r)' = Counted(calls', {r}) + Counted(flush', {r}) + Counted(reply', {x})
                       + Counted(deferred', {x}) + Counted(queued', {x}) + Counted(delivery', {x})
                       + Counted(lost', {x})
    BY DEF Parts
  <2> HIDE DEF x, m, k
  <2>6. Parts(r)' = (Parts(r) - k) + m /\ Parts(r) \in Nat /\ k <= Parts(r)
    <3> DEFINE n1 == Counted(calls, {r})
               n2 == Counted(flush, {r})
               n3 == Counted(reply, {x})
               n4 == Counted(deferred, {x})
               n5 == Counted(queued, {x})
               n6 == Counted(lost, {x})
               f == Counted(flush', {r})
               after == Parts(r)'
               before == Parts(r)
    <3>1. before = n1 + n2 + n3 + n4 + n5 + k + n6
      BY <2>5
    <3>2. after = 0 + f + n3 + n4 + n5 + 0 + n6
      BY <2>3, <2>5
    <3>3. n2 = 0
      BY <2>3
    <3>4. f = n1 + m
      BY <2>2
    <3>5. /\ n1 \in Nat /\ n3 \in Nat /\ n4 \in Nat /\ n5 \in Nat /\ n6 \in Nat
          /\ k \in Nat /\ m \in Nat
      BY <2>1, <2>4
    <3> HIDE DEF n1, n2, n3, n4, n5, n6, f, after, before
    <3>6. after = (before - k) + m /\ before \in Nat /\ k <= before
      BY <3>1, <3>2, <3>3, <3>4, <3>5
    <3> QED
      BY <3>6 DEF after, before
  <2>7. b <=> k > 0
    BY <1>3, BringsOf DEF k
  <2>8. Fine(Parts(r) - k, Awaits(r) /\ ~b) /\ Parts(r) - k \in Nat
    <3>1. Awaits(r) \in BOOLEAN /\ b \in BOOLEAN
      BY AwaitsTyped DEF Brings
    <3> QED
      BY <2>1, <2>6, <2>7, <3>1, FineLess
  <2>9. CASE r = SpuChunk
    <3>1. /\ Awaits(r) = spuInFlight /\ Awaits(r)' = (ShipsChunk \/ AwaitsChunk)
          /\ AwaitsChunk = (spuInFlight /\ ~b)
      BY <1>1, <2>9, AwaitsOf, AsksKinds DEF AwaitsChunk, x
    <3>2. CASE ShipsChunk
      <4>1. ~(Awaits(r) /\ ~b)
        BY <3>1, <3>2 DEF ShipsChunk
      <4>2. m = 1 /\ Awaits(r)'
        BY <2>9, <3>1, <3>2 DEF m, One
      <4>3. Parts(r) - k = 0
        BY <2>8, <4>1 DEF Fine, One
      <4> QED
        BY <2>6, <4>2, <4>3 DEF Fine, One
    <3>3. CASE ~ShipsChunk
      <4>1. m = 0
        BY <3>3 DEF m, One
      <4>2. Awaits(r)' = (Awaits(r) /\ ~b)
        BY <3>1, <3>3
      <4>3. Parts(r)' = Parts(r) - k
        BY <2>6, <2>8, <4>1
      <4> QED
        BY <2>8, <4>2, <4>3
    <3> QED
      BY <3>2, <3>3
  <2>10. CASE r # SpuChunk
    <3>1. Parts(r)' = Parts(r) - k
      <4>1. m = 0
        BY <2>10 DEF m, One
      <4> QED
        BY <2>6, <2>8, <4>1
    <3>2. Awaits(r)' = (Awaits(r) /\ ~b)
      <4>1. CASE r = Terminate
        BY <1>1, <4>1, AwaitsOf, AwaitsTyped
      <4>2. ASSUME NEW s \in Streams, r = Command("StreamInfo", s)
            PROVE  Awaits(r)' = (Awaits(r) /\ ~b)
        <5>1. x = StreamOp(s)
          BY <4>2, AsksKinds DEF x
        <5>2. eeStream'[s] = IF eeStream[s] = "asked" /\ Brings(delivery, StreamOp(s))
                             THEN "ready" ELSE eeStream[s]
          BY <1>1 DEF StreamsAfter
        <5> QED
          BY <4>2, <5>1, <5>2, AwaitsOf
      <4> QED
        BY <2>10, <4>1, <4>2, AsksKinds
    <3> QED
      BY <2>8, <3>1, <3>2
  <2> QED
    BY <2>9, <2>10
<1> QED
  BY <1>4, AnsweredNext DEF LinkTyped

\* The delivery moves the answers that are queued, or loses them.
LEMMA AnsweredDeliver ==
    ASSUME LinkTyped, LinkTyped', Answered, DeliverReplies
    PROVE  Answered'
<1>1. /\ delivery = <<>> /\ queued' = <<>>
      /\ UNCHANGED <<calls, flush, reply, deferred, spuInFlight, terminating, eeStream>>
  BY DEF DeliverReplies, TakeReplies, guestVars, LinkTyped, PhasesTyped
<1>2. ASSUME NEW r \in Asks
      PROVE  Parts(r)' = Parts(r) /\ Awaits(r)' = Awaits(r)
  <2> DEFINE x == AnswerTo(r)
             f == Counted(flush, {r})
             c == Counted(calls, {r})
             p == Counted(reply, {x})
             d == Counted(deferred, {x})
             u == Counted(queued, {x})
             l == Counted(lost, {x})
             v == Counted(delivery', {x})
             l2 == Counted(lost', {x})
  <2>1. c \in Nat /\ f \in Nat /\ p \in Nat /\ d \in Nat /\ u \in Nat /\ l \in Nat
    BY PartsOf DEF LinkTyped
  <2>2. v \in Nat /\ l2 \in Nat /\ v + l2 = u + l
    <3>1. Counted(RepliesDue, {x}) = u
      <4>1. x \in Answer \cup Done
        BY AsksKinds
      <4> HIDE DEF x
      <4> QED
        BY <4>1, RepliesDueOf
    <3> HIDE DEF x
    <3> QED
      BY <3>1, DeliveredOf
  <2>3. Counted(delivery, {x}) = 0 /\ Counted(queued', {x}) = 0
    BY <1>1, CountedNone
  <2>4. Parts(r) = c + f + p + d + u + Counted(delivery, {x}) + l
    BY DEF Parts
  <2>5. Parts(r)' = c + f + p + d + Counted(queued', {x}) + v + l2
    BY <1>1 DEF Parts
  <2>6. Awaits(r)' = Awaits(r)
    BY <1>1 DEF Awaits
  <2> HIDE DEF x, f, c, p, d, u, v, l, l2
  <2> QED
    BY <2>1, <2>2, <2>3, <2>4, <2>5, <2>6
<1> QED
  BY <1>2, AnsweredSame

\* The answer that rides the result is taken, the others are queued.
LEMMA AnsweredFinish ==
    ASSUME LinkTyped, LinkTyped', Answered, FinishFlush
    PROVE  Answered'
<1>1. /\ queued' = queued \o deferred /\ deferred' = <<>> /\ reply' = <<>>
      /\ eeStream' = StreamsAfter(reply)
      /\ spuInFlight' = (spuInFlight /\ ~Brings(reply, SpuSendDone))
      /\ terminating' = (terminating /\ ~Brings(reply, Terminated))
      /\ UNCHANGED <<calls, flush, delivery, lost>>
  BY DEF FinishFlush, QueueReplies
<1>2. reply \in Seq(Reply) /\ deferred \in Seq(Reply) /\ queued \in Seq(Reply)
  <2>1. Answer \cup Done \subseteq Reply /\ Answer \subseteq Reply
    BY DEF Reply
  <2> QED
    BY <2>1, SMTT(40) DEF LinkTyped, QueuesTyped
<1>3. ASSUME NEW r \in Asks
      PROVE  Fine(Parts(r)', Awaits(r)')
  <2> DEFINE x == AnswerTo(r)
             f == Counted(flush, {r})
             c == Counted(calls, {r})
             k == Counted(reply, {x})
             d == Counted(deferred, {x})
             u == Counted(queued, {x})
             v == Counted(delivery, {x})
             l == Counted(lost, {x})
             b == Brings(reply, x)
  <2>1. /\ Fine(Parts(r), Awaits(r))
        /\ c \in Nat /\ f \in Nat /\ k \in Nat /\ d \in Nat /\ u \in Nat /\ v \in Nat
        /\ l \in Nat
    <3>1. \A o \in Asks : Fine(Parts(o), Awaits(o))
      BY AnsweredIs DEF LinkTyped
    <3> QED
      BY <3>1, PartsOf DEF LinkTyped
  <2>2. Counted(queued', {x}) = u + d
    BY <1>1, <1>2, CountedConcat
  <2>3. Counted(deferred', {x}) = 0 /\ Counted(reply', {x}) = 0
    BY <1>1, CountedNone
  <2>4. Parts(r) = c + f + k + d + u + v + l
    BY DEF Parts
  <2>5. Parts(r)' = c + f + Counted(reply', {x}) + Counted(deferred', {x}) + Counted(queued', {x}) + v + l
    BY <1>1 DEF Parts
  <2>6. b <=> k > 0
    BY <1>2, BringsOf
  <2>7. b \in BOOLEAN
    BY DEF Brings
  <2>8. Awaits(r)' = (Awaits(r) /\ ~b)
    <3>1. CASE r = Terminate
      BY <1>1, <3>1, AwaitsOf, AsksKinds
    <3>2. CASE r = SpuChunk
      BY <1>1, <3>2, AwaitsOf, AsksKinds
    <3>3. ASSUME NEW s \in Streams, r = Command("StreamInfo", s)
          PROVE  Awaits(r)' = (Awaits(r) /\ ~b)
      <4>1. x = StreamOp(s)
        BY <3>3, AsksKinds
      <4>2. eeStream'[s] = IF eeStream[s] = "asked" /\ Brings(reply, StreamOp(s))
                           THEN "ready" ELSE eeStream[s]
        BY <1>1 DEF StreamsAfter
      <4> QED
        BY <3>3, <4>1, <4>2, AwaitsOf
    <3> QED
      BY <3>1, <3>2, <3>3, AsksKinds
  <2> HIDE DEF x, f, c, k, d, u, v, l, b
  <2>9. Parts(r) \in Nat /\ k <= Parts(r) /\ Parts(r)' = Parts(r) - k
    BY <2>1, <2>2, <2>3, <2>4, <2>5
  <2>10. Fine(Parts(r) - k, Awaits(r) /\ ~b)
    BY <2>1, <2>6, <2>7, <2>9, AwaitsTyped, FineLess
  <2> QED
    BY <2>8, <2>9, <2>10
<1> QED
  BY <1>3, AnsweredNext DEF LinkTyped

\* A record that is worked off is replaced by its answer.
LEMMA AnsweredWalk ==
    ASSUME LinkTyped, LinkTyped', Answered, Walk
    PROVE  Answered'
<1>1. queued' = queued /\ UNCHANGED <<calls, delivery, lost, spuInFlight, terminating, eeStream>>
  BY WorkTyped DEF Walk, guestVars, LinkTyped
<1>2. ASSUME NEW r \in Asks
      PROVE  Parts(r)' = Parts(r) /\ Awaits(r)' = Awaits(r)
  <2> DEFINE x == AnswerTo(r)
             c == Counted(calls, {r})
             f == Counted(flush, {r})
             g == Counted(flush', {r})
             p == Counted(reply, {x})
             p2 == Counted(reply', {x})
             d == Counted(deferred, {x})
             d2 == Counted(deferred', {x})
             u == Counted(queued, {x})
             v == Counted(delivery, {x})
             l == Counted(lost, {x})
             k == One(Head(flush) \in {r})
  <2>1. c \in Nat /\ f \in Nat /\ p \in Nat /\ d \in Nat /\ u \in Nat /\ v \in Nat /\ l \in Nat
    BY PartsOf DEF LinkTyped
  <2>2. /\ calls' = calls /\ g \in Nat /\ p2 \in Nat /\ d2 \in Nat
    <3>1. flush' \in Seq(FlushRecord) /\ reply' \in Seq(Answer) /\ deferred' \in Seq(Answer)
      BY DEF LinkTyped, QueuesTyped
    <3> QED
      BY <1>1, <3>1, CountedType
  <2>3. f = g + k
    <3>1. \A y \in Realignments : y \notin {r}
      <4>1. r.cmd # "SlipOffset"
        BY AsksKinds
      <4> QED
        BY <4>1 DEF Realignments
    <3> QED
      BY <3>1, FlushAdvances
  <2>4. p2 + d2 = p + d + k
    <3>1. CASE AnswerWork(Head(flush))
      <4>1. Head(flush) \in Asks /\ AnswerTo(Head(flush)) \in Answer /\ Offer(AnswerTo(Head(flush)))
        BY <3>1, AsksKinds DEF AnswerWork
      <4>2. p2 + d2 = p + d + One(AnswerTo(Head(flush)) \in {x})
        BY <4>1, OfferOf DEF LinkTyped
      <4>3. (AnswerTo(Head(flush)) \in {x}) = (Head(flush) \in {r})
        BY <4>1, AsksKinds
      <4> QED
        BY <4>2, <4>3
    <3>2. CASE UNCHANGED <<reply, deferred>> /\ (StreamWork(Head(flush)) \/ VoiceWork(Head(flush)))
      <4>1. Head(flush).cmd \notin {"SpuChunk", "Terminate", "StreamInfo"}
        <5>1. CASE StreamWork(Head(flush))
          BY <5>1 DEF StreamWork, Command, ChannelCommand, Target, DataRecord
        <5>2. CASE VoiceWork(Head(flush))
          <6>1. PICK w \in Voices, cmd \in {"Create", "Start", "StopSample", "Pause", "Resume", "DestroySample"} :
                  Head(flush) = VoiceCommand(cmd, w)
            BY <5>2 DEF VoiceWork
          <6> QED
            BY <6>1 DEF VoiceCommand
        <5> QED
          BY <3>2, <5>1, <5>2
      <4>2. Head(flush) # r
        BY <4>1, AsksKinds
      <4>3. k = 0
        BY <4>2 DEF One
      <4>4. p2 = p /\ d2 = d
        BY <3>2
      <4> HIDE DEF p, p2, d, d2, k
      <4> QED
        BY <2>1, <4>3, <4>4
    <3> QED
      BY <3>1, <3>2 DEF Walk
  <2>5. k \in Nat
    BY DEF One
  <2>6. Parts(r) = c + f + p + d + u + v + l /\ Parts(r)' = c + g + p2 + d2 + u + v + l
    BY <1>1 DEF Parts
  <2>7. Awaits(r)' = Awaits(r)
    BY <1>1 DEF Awaits
  <2> HIDE DEF x, c, f, g, p, p2, d, d2, u, v, l, k
  <2> QED
    BY <2>1, <2>2, <2>3, <2>4, <2>5, <2>6, <2>7
<1> QED
  BY <1>2, AnsweredSame

\* The audio thread answers nothing the guest awaits.
LEMMA AnsweredAudio ==
    ASSUME LinkTyped, LinkTyped', Answered, Audio
    PROVE  Answered'
<1>1. PICK ended \in SUBSET Sounding :
        LET ids == SetToSeq(ended)
        IN  queued' = queued \o [i \in 1 .. Len(ids) |-> SampleDone(ids[i])]
  BY DEF Audio, Render
<1>2. PICK dones \in Seq(Done) : queued' = queued \o dones
  BY <1>1, DonesOf DEF LinkTyped
<1>3. UNCHANGED <<calls, flush, reply, deferred, delivery, lost, spuInFlight, terminating, eeStream>>
  BY DEF Audio, linkVars, guestVars
<1>4. ASSUME NEW r \in Asks
      PROVE  Parts(r)' = Parts(r) /\ Awaits(r)' = Awaits(r)
  <2> DEFINE x == AnswerTo(r)
  <2>1. Counted(queued', {x}) = Counted(queued, {x}) + Counted(dones, {x})
    <3>1. queued \in Seq(Answer \cup Done) /\ dones \in Seq(Answer \cup Done)
      BY DEF LinkTyped, QueuesTyped
    <3> HIDE DEF x
    <3> QED
      BY <1>2, <3>1, CountedConcat
  <2>2. Counted(dones, {x}) = 0
    <3>1. x \notin Done
      <4>1. x \in Answer
        BY AsksKinds
      <4> HIDE DEF x
      <4> QED
        BY <4>1 DEF Answer, Done, StreamOp, SpuSendDone, Terminated, SampleDone
    <3>2. \A i \in DOMAIN dones : dones[i] \notin {x}
      <4>1. \A i \in DOMAIN dones : dones[i] \in Done
        OBVIOUS
      <4> HIDE DEF x
      <4> QED
        BY <3>1, <4>1
    <3> HIDE DEF x
    <3> QED
      BY <3>2, CountedType
  <2>3. Counted(queued, {x}) \in Nat
    BY PartsOf DEF LinkTyped
  <2>4. Counted(queued', {x}) = Counted(queued, {x})
    BY <2>1, <2>2, <2>3
  <2>5. Awaits(r)' = Awaits(r)
    BY <1>3 DEF Awaits
  <2> QED
    BY <1>3, <2>4, <2>5 DEF Parts
<1> QED
  BY <1>4, AnsweredSame

\* The reader answers nothing.
LEMMA AnsweredRead ==
    ASSUME LinkTyped, LinkTyped', Answered, NEW s \in Streams, ReadMore(s)
    PROVE  Answered'
<1>1. UNCHANGED <<calls, flush, reply, deferred, queued, delivery, lost, spuInFlight, terminating, eeStream>>
  BY DEF ReadMore, linkVars, engineVars
<1>2. ASSUME NEW r \in Asks
      PROVE  Parts(r)' = Parts(r) /\ Awaits(r)' = Awaits(r)
  BY <1>1 DEF Parts, Awaits
<1> QED
  BY <1>2, AnsweredSame

\* Every step keeps the answers.
LEMMA AnsweredSteps ==
    ASSUME LinkTyped, LinkTyped', Answered, Next
    PROVE  Answered'
<1>1. CASE Service
  BY <1>1, WalkOf, AnsweredWalk, AnsweredFinish
<1>2. CASE DeliverReplies
  BY <1>2, AnsweredDeliver
<1> QED
  BY <1>1, <1>2, AnsweredGame, AnsweredRead, AnsweredPoll, AnsweredAudio DEF Next

----------------------------------------------------------------------------
(* The streams, record by record *)

\* What a record does to a channel of a stream that stays.
ChannelWork(r, t, d) ==
    LET ch == streams[t].channels[d]
        to == streams'[t].channels[d]
    IN  \/ to = ch /\ r # Command("BatchEnd", t) /\ (r.cmd = "Data" => dataTarget # <<t, d>>)
        \/ r = Command("BatchEnd", t) /\ \E anyGot \in BOOLEAN : to = BatchEnded(ch, anyGot)
        \/ r.cmd = "Data" /\ r.len \in Nat /\ dataTarget = <<t, d>> /\ to = Fed(ch, r.len)
        \/ d \in Bendable /\ r.cmd = "SlipSpeed" /\ to = [ch EXCEPT !.slipping = TRUE]
        \/ d \in Bendable /\ r.cmd = "SlipStop" /\ to = [ch EXCEPT !.slipping = FALSE]
        \/ d \in Bendable /\ r.cmd = "SlipOffset" /\ \E delta \in Int : to = MovedTo(ch, delta)

\* A record makes a stream anew or works on its channels one by one.
StreamStep(r, t) ==
    \/ r = Command("StreamInfo", t) /\ streams'[t] = NewStream
    \/ /\ t \in DOMAIN streams
       /\ streams'[t].started = streams[t].started
       /\ streams'[t].consumed = streams[t].consumed
       /\ \A d \in Channels : ChannelWork(r, t, d)

\* A stream that keeps its channels and its position took a step StreamStep
\* allows.
LEMMA StreamLeft ==
    ASSUME NEW t \in DOMAIN streams, NEW r, r # Command("BatchEnd", t), r.cmd # "Data",
           streams'[t].started = streams[t].started, streams'[t].consumed = streams[t].consumed,
           streams'[t].channels = streams[t].channels
    PROVE  StreamStep(r, t)
BY DEF StreamStep, ChannelWork

\* What is done to a voice leaves the streams.
LEMMA VoicesOnly ==
    ASSUME EngineTyped, NEW r, VoiceWork(r)
    PROVE  UNCHANGED <<streams, queued, dataTarget>> /\ r.cmd \notin {"DataTarget", "Data", "BatchEnd"}
<1>1. PICK v \in Voices, on \in BOOLEAN :
        SampleCreate(v) \/ SampleDestroy(v) \/ SampleStart(v) \/ SampleStop(v) \/ SamplePause(v, on)
  BY DEF VoiceWork
<1>2. \E w \in Voices, cmd \in {"Create", "Start", "StopSample", "Pause", "Resume", "DestroySample"} :
        r = VoiceCommand(cmd, w)
  BY DEF VoiceWork
<1> QED
  BY <1>1, <1>2, VoicesTyped DEF VoiceCommand

\* What a record does to a stream and its channels.
LEMMA WorkOnStreams ==
    ASSUME EngineTyped, NEW r, StreamWork(r) \/ VoiceWork(r) \/ AnswerWork(r),
           NEW t \in DOMAIN streams'
    PROVE  StreamStep(r, t)
<1>0. streams \in [DOMAIN streams -> Stream] /\ DOMAIN streams \subseteq Streams
  BY DEF EngineTyped
<1>1. ASSUME streams' = streams, r.cmd \notin {"Data", "BatchEnd"}
      PROVE  StreamStep(r, t)
  <2>1. r # Command("BatchEnd", t)
    BY <1>1 DEF Command
  <2> QED
    BY <1>1, <2>1, StreamLeft
<1>2. CASE VoiceWork(r)
  BY <1>1, <1>2, VoicesOnly
<1>3. CASE AnswerWork(r)
  <2>1. CASE r \in {SpuChunk, Terminate} /\ UNCHANGED engineVars
    BY <1>1, <2>1, AsksKinds DEF engineVars, SpuChunk, Terminate
  <2>2. ASSUME NEW s \in Streams, r = Command("StreamInfo", s), StreamInfo(s)
        PROVE  StreamStep(r, t)
    <3>1. streams' = With(streams, s, NewStream)
      BY <2>2 DEF StreamInfo
    <3>2. CASE t = s
      BY <2>2, <3>1, <3>2 DEF With, StreamStep
    <3>3. CASE t # s
      <4>1. t \in DOMAIN streams /\ streams'[t] = streams[t]
        BY <3>1, <3>3 DEF With
      <4>2. r # Command("BatchEnd", t) /\ r.cmd # "Data"
        BY <2>2 DEF Command
      <4> QED
        BY <4>1, <4>2, StreamLeft
    <3> QED
      BY <3>2, <3>3
  <2> QED
    BY <1>3, <2>1, <2>2 DEF AnswerWork
<1>4. ASSUME NEW s \in Streams, NEW on \in BOOLEAN, SetPlaying(s, on), r.cmd \notin {"Data", "BatchEnd"}
      PROVE  StreamStep(r, t)
  <2>1. streams' = IF s \in DOMAIN streams THEN [streams EXCEPT ![s].playing = on] ELSE streams
    BY <1>4 DEF SetPlaying
  <2>2. /\ t \in DOMAIN streams /\ streams'[t].started = streams[t].started
        /\ streams'[t].consumed = streams[t].consumed /\ streams'[t].channels = streams[t].channels
    <3>1. streams[t] \in Stream \/ t \notin DOMAIN streams
      BY <1>0
    <3> QED
      BY <1>0, <2>1, <3>1 DEF Stream
  <2>3. r # Command("BatchEnd", t) /\ r.cmd # "Data"
    BY <1>4 DEF Command
  <2> QED
    BY <2>2, <2>3, StreamLeft
<1>5. ASSUME NEW s \in Streams, StreamDestroy(s), r = Command("Destroy", s)
      PROVE  StreamStep(r, t)
  <2>1. t \in DOMAIN streams /\ streams'[t] = streams[t]
    BY <1>5 DEF StreamDestroy, Without
  <2>2. r # Command("BatchEnd", t) /\ r.cmd # "Data"
    BY <1>5 DEF Command
  <2> QED
    BY <2>1, <2>2, StreamLeft
<1>6. ASSUME NEW s \in Streams, NEW c \in Channels, NEW x,
             s \in DOMAIN streams => x \in Channel,
             streams' = IF s \in DOMAIN streams
                        THEN [streams EXCEPT ![s].channels[c] = x] ELSE streams
      PROVE  /\ t \in DOMAIN streams /\ streams'[t].started = streams[t].started
             /\ streams'[t].consumed = streams[t].consumed
             /\ \A d \in Channels :
                  streams'[t].channels[d] = IF t = s /\ d = c THEN x ELSE streams[t].channels[d]
  <2>1. CASE s \in DOMAIN streams
    BY <1>0, <1>6, <2>1, ChannelChanged
  <2>2. CASE s \notin DOMAIN streams
    BY <1>6, <2>2
  <2> QED
    BY <2>1, <2>2
<1>7. \A s \in DOMAIN streams, d \in Channels : streams[s].channels[d] \in Channel
  BY <1>0 DEF Stream
<1>8. ASSUME NEW s \in Streams, NEW c \in Bendable,
             \/ r = ChannelCommand("SlipSpeed", s, c) /\ StreamSlipSpeed(s, c)
             \/ r = ChannelCommand("SlipStop", s, c) /\ StreamSlipOff(s, c)
             \/ \E n \in Int : /\ r = [cmd |-> "SlipOffset", stream |-> s, channel |-> c, samples |-> n]
                               /\ StreamSlipOffset(s, c, n)
      PROVE  StreamStep(r, t)
  <2>1. c \in Channels
    BY LinkAssumption
  <2>2. r.cmd \in {"SlipSpeed", "SlipStop", "SlipOffset"} /\ r # Command("BatchEnd", t)
    BY <1>8 DEF ChannelCommand, Command
  <2>3. PICK x : /\ s \in DOMAIN streams => x \in Channel
                 /\ streams' = IF s \in DOMAIN streams
                               THEN [streams EXCEPT ![s].channels[c] = x] ELSE streams
                 /\ \/ r.cmd = "SlipSpeed" /\ x = [streams[s].channels[c] EXCEPT !.slipping = TRUE]
                    \/ r.cmd = "SlipStop" /\ x = [streams[s].channels[c] EXCEPT !.slipping = FALSE]
                    \/ r.cmd = "SlipOffset" /\ (s \in DOMAIN streams =>
                                                  \E delta \in Int : x = MovedTo(streams[s].channels[c], delta))
    <3>1. CASE r = ChannelCommand("SlipSpeed", s, c) /\ StreamSlipSpeed(s, c)
      <4> DEFINE x == [streams[s].channels[c] EXCEPT !.slipping = TRUE]
      <4>1. s \in DOMAIN streams => x \in Channel
        BY <1>7, <2>1, ChannelTypes
      <4>2. streams' = IF s \in DOMAIN streams THEN [streams EXCEPT ![s].channels[c] = x] ELSE streams
        BY <3>1 DEF StreamSlipSpeed
      <4>3. r.cmd = "SlipSpeed"
        BY <3>1 DEF ChannelCommand
      <4> WITNESS x
      <4> QED
        BY <4>1, <4>2, <4>3
    <3>2. CASE r = ChannelCommand("SlipStop", s, c) /\ StreamSlipOff(s, c)
      <4> DEFINE x == [streams[s].channels[c] EXCEPT !.slipping = FALSE]
      <4>1. s \in DOMAIN streams => x \in Channel
        BY <1>7, <2>1, ChannelTypes
      <4>2. streams' = IF s \in DOMAIN streams THEN [streams EXCEPT ![s].channels[c] = x] ELSE streams
        BY <3>2 DEF StreamSlipOff
      <4>3. r.cmd = "SlipStop"
        BY <3>2 DEF ChannelCommand
      <4> WITNESS x
      <4> QED
        BY <4>1, <4>2, <4>3
    <3>3. ASSUME NEW n \in Int,
                 r = [cmd |-> "SlipOffset", stream |-> s, channel |-> c, samples |-> n],
                 StreamSlipOffset(s, c, n)
          PROVE  \E x : /\ s \in DOMAIN streams => x \in Channel
                        /\ streams' = IF s \in DOMAIN streams
                                      THEN [streams EXCEPT ![s].channels[c] = x] ELSE streams
                        /\ r.cmd = "SlipOffset" /\ (s \in DOMAIN streams =>
                                                  \E delta \in Int : x = MovedTo(streams[s].channels[c], delta))
      <4> DEFINE x == MovedTo(streams[s].channels[c], n - Offset(streams[s], c))
      <4>1. s \in DOMAIN streams => n - Offset(streams[s], c) \in Int
        BY <1>0, <1>7, <2>1 DEF Offset, Stream, Channel
      <4>2. s \in DOMAIN streams => x \in Channel
        BY <1>7, <2>1, <4>1, ChannelTypes
      <4>3. streams' = IF s \in DOMAIN streams THEN [streams EXCEPT ![s].channels[c] = x] ELSE streams
        BY <3>3 DEF StreamSlipOffset
      <4>4. r.cmd = "SlipOffset"
        BY <3>3
      <4> WITNESS x
      <4> QED
        BY <4>1, <4>2, <4>3, <4>4
    <3> QED
      BY <1>8, <3>1, <3>2, <3>3
  <2>4. /\ t \in DOMAIN streams /\ streams'[t].started = streams[t].started
        /\ streams'[t].consumed = streams[t].consumed
        /\ \A d \in Channels :
             streams'[t].channels[d] = IF t = s /\ d = c THEN x ELSE streams[t].channels[d]
    BY <1>6, <2>1, <2>3
  <2>5. ASSUME NEW d \in Channels PROVE ChannelWork(r, t, d)
    <3>1. CASE t = s /\ d = c
      BY <2>3, <2>4, <3>1, ZenonT(60) DEF ChannelWork
    <3>2. CASE ~(t = s /\ d = c)
      BY <2>2, <2>4, <3>2 DEF ChannelWork
    <3> QED
      BY <3>1, <3>2
  <2> QED
    BY <2>4, <2>5 DEF StreamStep
<1>9. ASSUME NEW s \in Streams, NEW c \in Channels, r = Target(s, c), StreamDataTarget(s, c)
      PROVE  StreamStep(r, t)
  BY <1>1, <1>9, RecordKinds DEF StreamDataTarget
<1>10. ASSUME NEW n \in Nat, r = DataRecord(n), StreamData(n)
       PROVE  StreamStep(r, t)
  <2>1. r.cmd = "Data" /\ r.len = n /\ r # Command("BatchEnd", t)
    BY <1>10 DEF DataRecord, Command
  <2>2. CASE dataTarget = NoTarget
    <3>1. streams' = streams /\ \A d : dataTarget # <<t, d>>
      BY <1>10, <2>2 DEF StreamData, NoTarget
    <3> QED
      BY <2>1, <3>1 DEF StreamStep, ChannelWork
  <2>3. CASE dataTarget # NoTarget
    <3> DEFINE s == dataTarget[1]
               c == dataTarget[2]
               x == Fed(streams[s].channels[c], n)
    <3>1. s \in Streams /\ c \in Channels /\ dataTarget = <<s, c>>
      BY <2>3 DEF EngineTyped
    <3>2. s \in DOMAIN streams => x \in Channel
      BY <1>7, <3>1, ChannelTypes
    <3>3. streams' = IF s \in DOMAIN streams THEN [streams EXCEPT ![s].channels[c] = x] ELSE streams
      BY <1>10, <2>3 DEF StreamData
    <3>4. \A d : dataTarget = <<t, d>> <=> t = s /\ d = c
      <4> HIDE DEF s, c
      <4> QED
        BY <3>1
    <3>5. x = Fed(streams[s].channels[c], n)
      OBVIOUS
    <3> HIDE DEF s, c, x
    <3>6. /\ t \in DOMAIN streams /\ streams'[t].started = streams[t].started
          /\ streams'[t].consumed = streams[t].consumed
          /\ \A d \in Channels :
               streams'[t].channels[d] = IF t = s /\ d = c THEN x ELSE streams[t].channels[d]
      BY <1>6, <3>1, <3>2, <3>3
    <3>7. ASSUME NEW d \in Channels PROVE ChannelWork(r, t, d)
      <4>1. CASE t = s /\ d = c
        BY <2>1, <3>4, <3>5, <3>6, <4>1 DEF ChannelWork
      <4>2. CASE ~(t = s /\ d = c)
        BY <2>1, <3>4, <3>6, <4>2 DEF ChannelWork
      <4> QED
        BY <4>1, <4>2
    <3> QED
      BY <3>6, <3>7 DEF StreamStep
  <2> QED
    BY <2>2, <2>3
<1>11. ASSUME NEW s \in Streams, r = Command("BatchEnd", s), StreamDataBatchEnd(s)
       PROVE  StreamStep(r, t)
  <2>1. r.cmd = "BatchEnd" /\ \A o : r = Command("BatchEnd", o) <=> o = s
    BY <1>11 DEF Command
  <2>2. CASE s \in DOMAIN streams
    <3> DEFINE channels == streams[s].channels
               anyGot == \E d \in Channels : channels[d].gotDataThisBatch
               k == [d \in Channels |-> BatchEnded(channels[d], anyGot)]
    <3>1. streams' = [streams EXCEPT ![s].channels = k]
      BY <1>11, <2>2 DEF StreamDataBatchEnd
    <3>2. anyGot \in BOOLEAN
      OBVIOUS
    <3>3. \A d \in Channels : k[d] = BatchEnded(streams[s].channels[d], anyGot)
      OBVIOUS
    <3> HIDE DEF k, anyGot
    <3>4. t \in DOMAIN streams
      BY <3>1
    <3>5. CASE t = s
      <4>1. streams'[t] = [streams[t] EXCEPT !.channels = k] /\ streams[t] \in Stream
        BY <1>0, <3>1, <3>4, <3>5
      <4>2. /\ streams'[t].started = streams[t].started /\ streams'[t].consumed = streams[t].consumed
            /\ streams'[t].channels = k
        BY <4>1 DEF Stream
      <4>3. \A d \in Channels : ChannelWork(r, t, d)
        BY <2>1, <3>2, <3>3, <3>5, <4>2 DEF ChannelWork
      <4> QED
        BY <3>4, <4>2, <4>3 DEF StreamStep
    <3>6. CASE t # s
      <4>1. streams'[t] = streams[t]
        BY <3>1, <3>4, <3>6
      <4> QED
        BY <2>1, <3>4, <3>6, <4>1, StreamLeft
    <3> QED
      BY <3>5, <3>6
  <2>3. CASE s \notin DOMAIN streams
    <3>1. streams' = streams
      BY <1>11, <2>3 DEF StreamDataBatchEnd
    <3> QED
      BY <2>1, <2>3, <3>1, StreamLeft
  <2> QED
    BY <2>2, <2>3
<1>12. CASE StreamWork(r)
  <2>1. ASSUME NEW s \in Streams,
               \/ r = Command("Play", s) /\ StreamPlay(s)
               \/ r = Command("Stop", s) /\ StreamStop(s)
        PROVE  StreamStep(r, t)
    <3>1. r.cmd \notin {"Data", "BatchEnd"}
      BY <2>1 DEF Command
    <3>2. SetPlaying(s, TRUE) \/ SetPlaying(s, FALSE)
      BY <2>1 DEF StreamPlay, StreamStop
    <3> QED
      BY <1>4, <3>1, <3>2
  <2> QED
    BY <1>5, <1>8, <1>9, <1>10, <1>11, <1>12, <2>1 DEF StreamWork
<1> QED
  BY <1>2, <1>3, <1>12

\* A target is named by its record and used by the data after it.
LEMMA TargetWork ==
    ASSUME EngineTyped, NEW r, StreamWork(r) \/ VoiceWork(r) \/ AnswerWork(r)
    PROVE  \/ dataTarget' = dataTarget /\ r.cmd \notin {"DataTarget", "Data"}
           \/ \E s \in Streams, c \in Channels : r = Target(s, c) /\ dataTarget' = <<s, c>>
           \/ r.cmd = "Data" /\ dataTarget' = NoTarget
<1>1. CASE VoiceWork(r)
  BY <1>1, VoicesOnly
<1>2. CASE AnswerWork(r)
  <2>1. r.cmd \in {"SpuChunk", "Terminate", "StreamInfo"}
    BY <1>2, AsksKinds DEF AnswerWork
  <2>2. dataTarget' = dataTarget
    BY <1>2 DEF AnswerWork, engineVars, StreamInfo
  <2> QED
    BY <2>1, <2>2
<1>3. CASE StreamWork(r)
  <2>1. ASSUME NEW s \in Streams,
               \/ r = Command("Play", s) /\ StreamPlay(s)
               \/ r = Command("Stop", s) /\ StreamStop(s)
               \/ r = Command("Destroy", s) /\ StreamDestroy(s)
               \/ r = Command("BatchEnd", s) /\ StreamDataBatchEnd(s)
        PROVE  dataTarget' = dataTarget /\ r.cmd \notin {"DataTarget", "Data"}
    <3>1. r.cmd \in {"Play", "Stop", "Destroy", "BatchEnd"}
      BY <2>1 DEF Command
    <3>2. dataTarget' = dataTarget
      BY <2>1 DEF StreamPlay, StreamStop, SetPlaying, StreamDestroy, StreamDataBatchEnd
    <3> QED
      BY <3>1, <3>2
  <2>2. ASSUME NEW s \in Streams, NEW c \in Bendable,
               \/ r = ChannelCommand("SlipSpeed", s, c) /\ StreamSlipSpeed(s, c)
               \/ r = ChannelCommand("SlipStop", s, c) /\ StreamSlipOff(s, c)
               \/ \E n \in Int :
                    /\ r = [cmd |-> "SlipOffset", stream |-> s, channel |-> c, samples |-> n]
                    /\ StreamSlipOffset(s, c, n)
        PROVE  dataTarget' = dataTarget /\ r.cmd \notin {"DataTarget", "Data"}
    <3>1. r.cmd \in {"SlipSpeed", "SlipStop", "SlipOffset"}
      BY <2>2 DEF ChannelCommand
    <3>2. dataTarget' = dataTarget
      BY <2>2 DEF StreamSlipSpeed, StreamSlipOff, StreamSlipOffset
    <3> QED
      BY <3>1, <3>2
  <2>3. ASSUME NEW s \in Streams, NEW c \in Channels, r = Target(s, c), StreamDataTarget(s, c)
        PROVE  r = Target(s, c) /\ dataTarget' = <<s, c>>
    BY <2>3 DEF StreamDataTarget
  <2>4. ASSUME NEW n \in Nat, r = DataRecord(n), StreamData(n)
        PROVE  r.cmd = "Data" /\ dataTarget' = NoTarget
    BY <2>4, RecordKinds DEF StreamData
  <2> QED
    BY <1>3, <2>1, <2>2, <2>3, <2>4 DEF StreamWork
<1> QED
  BY <1>1, <1>2, <1>3

\* A record that is answered is awaited.
LEMMA HeadAwaited ==
    ASSUME LinkTyped, Answered, flush # <<>>, Head(flush) \in Asks
    PROVE  Awaits(Head(flush))
<1> DEFINE r == Head(flush)
<1>1. Fine(Parts(r), Awaits(r))
  BY AnsweredIs DEF LinkTyped
<1>2. Counted(flush, {r}) = One(r \in {r}) + Counted(Tail(flush), {r})
  BY CountedHead DEF LinkTyped, QueuesTyped
<1>3. Counted(Tail(flush), {r}) \in Nat
  BY HeadTyped, CountedType DEF LinkTyped
<1>4. One(r \in {r}) = 1
  BY DEF One
<1> HIDE DEF r
<1>5. Counted(flush, {r}) > 0
  BY <1>2, <1>3, <1>4
<1>6. Parts(r) > 0 /\ Parts(r) \in Nat
  BY <1>5, PartsOf, SMTT(40) DEF LinkTyped, Parts
<1> QED
  BY <1>1, <1>6 DEF Fine, One, r

\* The data that is left on its way was there before, and its batch not over.
LEMMA WalkOrders ==
    ASSUME LinkTyped, Walk, FlushOrdered
    PROVE  /\ FlushOrdered'
           /\ \A s \in Streams, c \in Channels : Targeted(s, c)' =>
                Targeted(s, c) /\ Head(flush) # Command("BatchEnd", s)
<1> DEFINE r == Head(flush)
<1>1. /\ r \in FlushRecord /\ r = flush[1] /\ DOMAIN flush = 1 .. Len(flush) /\ 1 \in DOMAIN flush
  <2>1. flush # <<>>
    BY DEF Walk
  <2>2. Len(flush) # 0
    BY <2>1, EmptySeq DEF LinkTyped, QueuesTyped
  <2> QED
    BY <2>1, <2>2, HeadTyped DEF LinkTyped
<1>2. StreamWork(r) \/ VoiceWork(r) \/ AnswerWork(r)
  BY DEF Walk
<1>3. \/ dataTarget' = dataTarget /\ r.cmd \notin {"DataTarget", "Data"}
      \/ \E s \in Streams, c \in Channels : r = Target(s, c) /\ dataTarget' = <<s, c>>
      \/ r.cmd = "Data" /\ dataTarget' = NoTarget
  BY <1>2, TargetWork DEF LinkTyped
<1>4. dataTarget # NoTarget => r.cmd = "Data"
  BY <1>1 DEF FlushOrdered
<1>5. /\ Paired(flush') /\ Closed(flush')
      /\ \A x \in StreamRecord : \A j \in DOMAIN flush' : flush'[j] = x =>
           \E i \in DOMAIN flush : i > 1 /\ flush[i] = x
      /\ r.cmd = "DataTarget" => flush' # <<>> /\ flush'[1].cmd = "Data"
  BY FlushAdvances DEF FlushOrdered
<1>6. dataTarget' # NoTarget => flush' # <<>> /\ flush'[1].cmd = "Data"
  <2>1. \A s, c : r = Target(s, c) => r.cmd = "DataTarget"
    BY RecordKinds
  <2> HIDE DEF r
  <2> QED
    BY <1>3, <1>4, <1>5, <2>1
<1>7. ASSUME NEW s \in Streams, NEW c \in Channels, Targeted(s, c)'
      PROVE  Targeted(s, c) /\ r # Command("BatchEnd", s)
  <2>1. CASE dataTarget' = <<s, c>>
    <3>1. dataTarget' # NoTarget
      BY <2>1 DEF NoTarget
    <3>2. PICK t \in Streams, d \in Channels : r = Target(t, d) /\ dataTarget' = <<t, d>>
      BY <1>3, <1>4, <3>1
    <3>3. t = s /\ d = c
      BY <2>1, <3>2
    <3>4. r # Command("BatchEnd", s)
      BY <3>2, RecordKinds
    <3> QED
      BY <1>1, <3>2, <3>3, <3>4 DEF Targeted
  <2>2. CASE \E j \in DOMAIN flush' : flush'[j] = Target(s, c)
    <3>1. Target(s, c) \in StreamRecord
      BY DEF StreamRecord, Targets, Target
    <3>2. PICK i \in DOMAIN flush : i > 1 /\ flush[i] = Target(s, c)
      BY <1>5, <2>2, <3>1
    <3>3. r # Command("BatchEnd", s)
      <4> SUFFICES ASSUME r = Command("BatchEnd", s) PROVE FALSE
        OBVIOUS
      <4>1. flush[1].cmd = "BatchEnd" /\ flush[1].stream = s
        BY <1>1, RecordKinds
      <4>2. flush[i].cmd = "DataTarget" /\ flush[i].stream = s
        BY <3>2, RecordKinds
      <4> QED
        BY <1>1, <3>2, <4>1, <4>2 DEF FlushOrdered, Closed
    <3> QED
      BY <3>2, <3>3 DEF Targeted
  <2> QED
    BY <1>7, <2>1, <2>2 DEF Targeted
<1>8. eeStream' = eeStream
  BY DEF Walk, guestVars
<1>9. \A s \in Streams, c \in Channels : Targeted(s, c)' => eeStream'[s] \notin {"none", "asked"}
  BY <1>7, <1>8 DEF FlushOrdered
<1> QED
  BY <1>5, <1>6, <1>7, <1>9 DEF FlushOrdered

\* What a record leaves of a channel, whether it is bent or not.
ChannelHeld(t, c, ch, to) ==
    /\ to.dead => ~to.gotData
    /\ ch.gotData => to.gotData
    /\ c \notin Bendable =>
         /\ ChannelInStep(t, to)
         /\ to.pos = ch.pos /\ to.phase = ch.phase
         /\ to.gotData => ch.gotData \/ ~t.started

\* The end of a batch gives up only a channel that got no data, and data for a
\* channel that was not given up comes to one that gets it already, or before
\* the stream starts.
LEMMA ChannelKept ==
    ASSUME NEW t \in Stream, NEW c \in Channels, NEW ch \in Channel,
           c \notin Bendable => ChannelInStep(t, ch), ch.dead => ~ch.gotData
    PROVE  /\ \A anyGot \in BOOLEAN : ChannelHeld(t, c, ch, BatchEnded(ch, anyGot))
           /\ \A n \in Nat : ~ch.dead => ChannelHeld(t, c, ch, Fed(ch, n))
<1> USE DEF ChannelHeld, ChannelInStep, Channel
<1>1. ASSUME NEW anyGot \in BOOLEAN PROVE ChannelHeld(t, c, ch, BatchEnded(ch, anyGot))
  <2> DEFINE to == BatchEnded(ch, anyGot)
  <2>1. /\ to.slipping = ch.slipping /\ to.gotData = ch.gotData /\ to.pcm = ch.pcm /\ to.pos = ch.pos
        /\ to.phase = ch.phase
        /\ ch.dead => to.dead
        /\ to.dead /\ ~ch.dead => ~ch.gotData
    BY DEF BatchEnded
  <2> HIDE DEF to
  <2>2. ChannelHeld(t, c, ch, to)
    BY <2>1
  <2> QED
    BY <2>2 DEF to
<1>2. ASSUME NEW n \in Nat, ~ch.dead PROVE ChannelHeld(t, c, ch, Fed(ch, n))
  <2> DEFINE to == Fed(ch, n)
  <2>1. to.slipping = ch.slipping /\ to.gotData /\ ~to.dead /\ to.pos = ch.pos /\ to.phase = ch.phase
    BY DEF Fed
  <2> HIDE DEF to
  <2>2. ChannelHeld(t, c, ch, to)
    BY <1>2, <2>1
  <2> QED
    BY <2>2 DEF to
<1> QED
  BY <1>1, <1>2

\* A stream whose channels are left so is in step.
LEMMA StreamHeld ==
    ASSUME NEW t \in Stream, NEW u \in Stream, StreamInStep(t),
           u.started = t.started, u.consumed = t.consumed,
           \A c \in Channels : ChannelHeld(t, c, t.channels[c], u.channels[c])
    PROVE  StreamInStep(u)
<1>1. \A c \in Channels : u.channels[c].dead => ~u.channels[c].gotData
  BY DEF ChannelHeld
<1>2. ASSUME NEW c \in Channels \ Bendable
      PROVE  /\ ChannelInStep(u, u.channels[c])
             /\ u.channels[c].pos = t.channels[c].pos /\ u.channels[c].phase = t.channels[c].phase
             /\ u.channels[c].gotData /\ ~t.channels[c].gotData =>
                  ~t.started /\ t.channels[c].pos = 0 /\ t.channels[c].phase = 0
             /\ ~t.started => t.channels[c].pos = 0 /\ t.channels[c].phase = 0
  <2>1. ChannelHeld(t, c, t.channels[c], u.channels[c]) /\ ChannelInStep(t, t.channels[c])
    BY <1>2 DEF StreamInStep
  <2> QED
    BY <2>1 DEF ChannelHeld, ChannelInStep
<1>3. \A c \in Channels : First(u, c) => First(t, c)
  BY LinkAssumption DEF First, ChannelHeld
<1>4. ASSUME NEW c \in Channels \ Bendable, u.channels[c].gotData,
             NEW d \in Channels \ Bendable, u.channels[d].gotData
      PROVE  Together(u.channels[c], u.channels[d])
  <2>1. CASE t.channels[c].gotData /\ t.channels[d].gotData
    <3>1. Together(t.channels[c], t.channels[d])
      BY <2>1 DEF StreamInStep
    <3> QED
      BY <1>2, <3>1 DEF Together
  <2>2. CASE ~(t.channels[c].gotData /\ t.channels[d].gotData)
    <3>1. ~t.started
      BY <1>2, <1>4, <2>2
    <3> QED
      BY <1>2, <3>1 DEF Together
  <2> QED
    BY <2>1, <2>2
<1>5. ASSUME NEW c \in Channels \ Bendable, u.channels[c].gotData, First(u, c)
      PROVE  u.channels[c].pos = u.consumed
  <2>1. CASE t.channels[c].gotData
    <3>1. t.channels[c].pos = t.consumed
      BY <1>3, <1>5, <2>1 DEF StreamInStep
    <3> QED
      BY <1>2, <3>1
  <2>2. CASE ~t.channels[c].gotData
    <3>1. ~t.started /\ t.channels[c].pos = 0
      BY <1>2, <1>5, <2>2
    <3>2. t.consumed = 0
      BY <3>1 DEF StreamInStep
    <3> QED
      BY <1>2, <3>1, <3>2
  <2> QED
    BY <2>1, <2>2
<1>6. ~u.started => u.consumed = 0
  BY DEF StreamInStep
<1> QED
  BY <1>1, <1>2, <1>4, <1>5, <1>6 DEF StreamInStep

\* A new stream's channels are at its start, and none got data.
LEMMA NewInStep == StreamInStep(NewStream)
<1>1. ~NewStream.started /\ NewStream.consumed = 0
  BY DEF NewStream
<1>2. ASSUME NEW c \in Channels
      PROVE  ~NewStream.channels[c].gotData /\ ChannelInStep(NewStream, NewStream.channels[c])
  <2>1. NewStream.channels[c] = NewChannel(c \in Described)
    BY DEF NewStream
  <2> QED
    BY <1>1, <2>1 DEF ChannelInStep, NewChannel
<1> QED
  BY <1>1, <1>2 DEF StreamInStep

\* A record worked off moves no channel that is never bent away from its
\* stream, and data is for living channels.
LEMMA WalkKeeps ==
    ASSUME LinkTyped, LinkTyped', Walk, Answered, FlushOrdered, DataForLiving, StreamsInStep
    PROVE  FlushOrdered' /\ DataForLiving' /\ StreamsInStep'
<1> DEFINE r == Head(flush)
<1>1. FlushOrdered' /\ \A s \in Streams, c \in Channels :
                          Targeted(s, c)' => Targeted(s, c) /\ r # Command("BatchEnd", s)
  BY WalkOrders
<1>2. delivery' = <<>>
  BY DEF Walk, LinkTyped, PhasesTyped
<1>3. ASSUME NEW t \in DOMAIN streams'
      PROVE  /\ StreamInStep(streams'[t])
             /\ \A c \in Channels : Targeted(t, c)' => ~streams'[t].channels[c].dead
  <2>0. t \in Streams
    BY DEF LinkTyped, EngineTyped
  <2>1. StreamStep(r, t)
    <3>1. StreamWork(r) \/ VoiceWork(r) \/ AnswerWork(r)
      BY DEF Walk
    <3> QED
      BY <3>1, WorkOnStreams DEF LinkTyped
  <2>2. CASE r = Command("StreamInfo", t) /\ streams'[t] = NewStream
    <3>1. eeStream[t] = "asked"
      <4>1. r \in Asks /\ flush # <<>>
        BY <2>0, <2>2, AsksKinds DEF Walk
      <4>2. Awaits(r)
        BY <4>1, HeadAwaited
      <4> QED
        BY <2>2, <4>2, AwaitsOf
    <3>2. \A c \in Channels : ~Targeted(t, c)'
      BY <1>1, <2>0, <3>1 DEF FlushOrdered
    <3> QED
      BY <2>2, <3>2, NewInStep
  <2>3. CASE /\ t \in DOMAIN streams
             /\ streams'[t].started = streams[t].started
             /\ streams'[t].consumed = streams[t].consumed
             /\ \A d \in Channels : ChannelWork(r, t, d)
    <3>1. streams[t] \in Stream /\ StreamInStep(streams[t])
      BY <2>3 DEF LinkTyped, EngineTyped, StreamsInStep
    <3>2. ASSUME NEW c \in Channels
          PROVE  /\ ChannelHeld(streams[t], c, streams[t].channels[c], streams'[t].channels[c])
                 /\ Targeted(t, c)' => ~streams'[t].channels[c].dead
      <4> DEFINE ch == streams[t].channels[c]
                 to == streams'[t].channels[c]
                 Held == ChannelHeld(streams[t], c, ch, to)
      <4>1. ch \in Channel /\ ChannelWork(r, t, c)
        BY <2>3, <3>1 DEF Stream
      <4>2. (c \notin Bendable => ChannelInStep(streams[t], ch)) /\ (ch.dead => ~ch.gotData)
        BY <3>1 DEF StreamInStep
      <4>3. Targeted(t, c) => ~ch.dead
        BY <2>3 DEF DataForLiving
      <4>4. ASSUME to = ch PROVE Held /\ (Targeted(t, c)' => ~to.dead)
        BY <1>1, <2>0, <4>2, <4>3, <4>4 DEF ChannelHeld
      <4>5. ASSUME r = Command("BatchEnd", t), NEW anyGot \in BOOLEAN, to = BatchEnded(ch, anyGot)
            PROVE  Held /\ (Targeted(t, c)' => ~to.dead)
        <5>1. Held
          BY <3>1, <4>1, <4>2, <4>5, ChannelKept
        <5> QED
          BY <1>1, <2>0, <4>5, <5>1
      <4>6. ASSUME r.cmd = "Data", r.len \in Nat, dataTarget = <<t, c>>, to = Fed(ch, r.len)
            PROVE  Held /\ (Targeted(t, c)' => ~to.dead)
        <5>1. ~ch.dead
          BY <4>3, <4>6 DEF Targeted
        <5>2. Held
          BY <3>1, <4>1, <4>2, <4>6, <5>1, ChannelKept
        <5>3. ~to.dead
          BY <4>1, <4>6 DEF Fed, Channel
        <5> QED
          BY <5>2, <5>3
      <4>7. ASSUME c \in Bendable, to.dead = ch.dead, to.gotData = ch.gotData
            PROVE  Held /\ (Targeted(t, c)' => ~to.dead)
        BY <1>1, <2>0, <4>2, <4>3, <4>7, SMTT(40) DEF ChannelHeld
      <4>8. \/ to = [ch EXCEPT !.slipping = TRUE] \/ to = [ch EXCEPT !.slipping = FALSE]
            \/ \E delta \in Int : to = MovedTo(ch, delta)
            => to.dead = ch.dead /\ to.gotData = ch.gotData
        BY <4>1 DEF MovedTo, Channel
      <4> HIDE DEF ch, to, Held
      <4> QED
        BY <4>1, <4>4, <4>5, <4>6, <4>7, <4>8 DEF ChannelWork, ch, to, Held
    <3>3. StreamInStep(streams'[t])
      <4>1. streams'[t] \in Stream
        BY DEF LinkTyped, EngineTyped
      <4> QED
        BY <2>3, <3>1, <3>2, <4>1, StreamHeld
    <3> QED
      BY <3>2, <3>3
  <2> QED
    BY <2>1, <2>2, <2>3 DEF StreamStep
<1>4. DataForLiving'
  BY <1>2, <1>3 DEF DataForLiving
<1> QED
  BY <1>1, <1>3, <1>4 DEF StreamsInStep

\* No data is on its way when the flush holds none.
LEMMA NoData ==
    ASSUME dataTarget' = NoTarget, \A i \in DOMAIN flush' : flush'[i].cmd # "DataTarget"
    PROVE  /\ FlushOrdered'
           /\ \A s, c : ~Targeted(s, c)'
<1>1. \A s, c : <<s, c>> # NoTarget
  BY DEF NoTarget
<1>2. \A s, c : Target(s, c).cmd = "DataTarget"
  BY RecordKinds
<1>3. \A s, c : ~Targeted(s, c)'
  BY <1>1, <1>2 DEF Targeted
<1>4. Paired(flush') /\ Closed(flush')
  BY DEF Paired, Closed
<1> QED
  BY <1>3, <1>4 DEF FlushOrdered

\* The game's calls leave the data on its way.
LEMMA GameKeeps ==
    ASSUME LinkTyped, LinkTyped', Game, FlushOrdered, StreamsInStep
    PROVE  FlushOrdered' /\ DataForLiving' /\ StreamsInStep' /\ \A s, c : ~Targeted(s, c)'
<1>1. /\ UNCHANGED <<streams, dataTarget, delivery>> /\ phase = "game"
      /\ flush' = flush \/ flush' = Append(calls, Terminate)
  <2>1. CASE \E x : GameCall(x)
    BY <2>1 DEF GameCall, engineVars
  <2>2. CASE StartTerminate
    BY <2>2 DEF StartTerminate, engineVars
  <2>3. CASE \E n \in 1 .. MaxChunks : Upload(n)
    BY <2>3 DEF Upload, engineVars, linkVars
  <2> QED
    BY <2>1, <2>2, <2>3 DEF Game, Prepare, Play, Stop, Destroy, Bend, Unbend, Realign,
                            CreateSample, StartSample, StopSample, DestroySample, PauseSample
<1>2. flush = <<>> /\ delivery = <<>>
  BY <1>1 DEF LinkTyped, PhasesTyped
<1>3. dataTarget = NoTarget
  BY <1>2 DEF FlushOrdered
<1>4. \A i \in DOMAIN flush' : flush'[i].cmd # "DataTarget"
  <2>1. CASE flush' = flush
    BY <1>2, <2>1
  <2>2. CASE flush' = Append(calls, Terminate)
    <3> DEFINE G == GameRecord \cup {SpuChunk, Terminate}
    <3>1. calls \in Seq(G) /\ Terminate \in G
      BY DEF LinkTyped, QueuesTyped
    <3> HIDE DEF G
    <3>2. flush' \in Seq(G)
      BY <2>2, <3>1
    <3>3. \A i \in DOMAIN flush' : flush'[i] \in G
      BY <3>2
    <3> QED
      BY <3>3, RecordKinds DEF G
  <2> QED
    BY <1>1, <2>1, <2>2
<1>5. FlushOrdered' /\ \A s, c : ~Targeted(s, c)'
  BY <1>1, <1>3, <1>4, NoData
<1>6. DataForLiving'
  BY <1>1, <1>2, <1>5 DEF DataForLiving
<1> QED
  BY <1>1, <1>5, <1>6 DEF StreamsInStep

\* The reader leaves the data on its way.
LEMMA ReadKeeps ==
    ASSUME FlushOrdered, DataForLiving, StreamsInStep, NEW s \in Streams, ReadMore(s)
    PROVE  FlushOrdered' /\ DataForLiving' /\ StreamsInStep'
<1>1. UNCHANGED <<streams, dataTarget, flush, delivery, eeStream>>
  BY DEF ReadMore, engineVars, linkVars
<1>2. FlushOrdered'
  BY <1>1 DEF FlushOrdered, Targeted
<1>3. DataForLiving'
  BY <1>1 DEF DataForLiving, Targeted
<1> QED
  BY <1>1, <1>2, <1>3 DEF StreamsInStep

\* A request is made for a channel that was not given up.
LEMMA DeliverOrders ==
    ASSUME LinkTyped, DeliverReplies, FlushOrdered
    PROVE  FlushOrdered' /\ DataForLiving' /\ \A s, c : ~Targeted(s, c)'
<1>1. flush = <<>> /\ flush' = <<>> /\ dataTarget' = dataTarget
  BY DEF DeliverReplies, TakeReplies, LinkTyped, PhasesTyped
<1>2. FlushOrdered' /\ \A s, c : ~Targeted(s, c)'
  BY <1>1, NoData DEF FlushOrdered
<1>3. ASSUME NEW s \in DOMAIN streams', NEW c \in Channels,
             NEW i \in DOMAIN delivery', delivery'[i] = DataRequest(s, c)
      PROVE  ~streams'[s].channels[c].dead
  <2> DEFINE x == DataRequest(s, c)
  <2>1. s \in DOMAIN streams /\ s \in Streams /\ streams'[s] = Asked(streams[s]) /\ streams[s] \in Stream
    BY DEF DeliverReplies, TakeReplies, LinkTyped, EngineTyped
  <2>2. /\ RepliesDue \in Seq(Reply)
        /\ Counted(RepliesDue, {x}) = Requests(streams[s].channels[c])
    BY <2>1, RepliesDueOf
  <2> HIDE DEF x
  <2>5. delivery' \in Seq(Reply) /\ Counted(delivery', {x}) <= Counted(RepliesDue, {x})
    <3>1. /\ delivery' \in Seq(Reply)
          /\ Counted(delivery', {x}) \in Nat /\ Counted(lost', {x}) \in Nat
          /\ Counted(lost, {x}) \in Nat /\ Counted(RepliesDue, {x}) \in Nat
          /\ Counted(delivery', {x}) + Counted(lost', {x}) = Counted(RepliesDue, {x}) + Counted(lost, {x})
          /\ Counted(lost, {x}) <= Counted(lost', {x})
      BY DeliveredOf
    <3> QED
      BY <3>1
  <2>6. Counted(delivery', {x}) # 0 /\ Counted(delivery', {x}) \in Nat
    BY <1>3, <2>5, CountedType DEF x
  <2>7. streams[s].channels[c] \in Channel
    BY <2>1 DEF Stream
  <2>8. ~streams[s].channels[c].dead
    <3>1. Requests(streams[s].channels[c]) \in 0 .. MaxPerPoll
      BY <2>7, RequestsDue
    <3>2. Requests(streams[s].channels[c]) > 0
      BY <2>2, <2>5, <2>6, <3>1, EngineAssumption
    <3> QED
      BY <2>7, <3>2, RequestsDue
  <2> QED
    BY <2>1, <2>8, AskedOf
<1> QED
  BY <1>2, <1>3 DEF DataForLiving

\* The poll sends data only for channels it was asked for.
LEMMA PollKeeps ==
    ASSUME LinkTyped, Poll, FlushOrdered, DataForLiving, StreamsInStep
    PROVE  FlushOrdered' /\ DataForLiving' /\ StreamsInStep'
<1>1. /\ UNCHANGED <<streams, dataTarget>> /\ delivery' = <<>> /\ flush = <<>>
      /\ eeStream' = StreamsAfter(delivery)
  BY DEF Poll, engineVars, LinkTyped, PhasesTyped
<1>2. dataTarget' = NoTarget
  BY <1>1 DEF FlushOrdered
<1>3. /\ Paired(flush') /\ Closed(flush')
      /\ \A i \in DOMAIN flush' : flush'[i].cmd = "DataTarget" =>
           \E s \in Streams, c \in Channels : flush'[i] = Target(s, c) /\ Served(s, c) > 0
  BY PollFlush DEF Fitted
<1>4. ASSUME NEW s \in Streams, NEW c \in Channels, Targeted(s, c)'
      PROVE  /\ eeStream'[s] \in {"ready", "playing"}
             /\ \E i \in DOMAIN delivery : delivery[i] = DataRequest(s, c)
  <2>1. dataTarget' # <<s, c>>
    BY <1>2 DEF NoTarget
  <2>2. PICK i \in DOMAIN flush' : flush'[i] = Target(s, c)
    BY <1>4, <2>1 DEF Targeted
  <2>3. flush'[i].cmd = "DataTarget"
    BY <2>2, RecordKinds
  <2>4. Served(s, c) > 0
    BY <1>3, <2>2, <2>3, RecordKinds
  <2>5. Wanted(s, c) # 0
    BY <2>4, ServedOf
  <2> QED
    BY <1>1, <2>5, ServedOf
<1>5. FlushOrdered'
  BY <1>2, <1>3, <1>4 DEF FlushOrdered
<1>6. DataForLiving'
  <2>1. DOMAIN streams \subseteq Streams
    BY DEF LinkTyped, EngineTyped
  <2> QED
    BY <1>1, <1>4, <2>1 DEF DataForLiving
<1> QED
  BY <1>1, <1>5, <1>6 DEF StreamsInStep

\* The end of a flush leaves no data on its way.
LEMMA FinishKeeps ==
    ASSUME LinkTyped, FinishFlush, FlushOrdered, StreamsInStep
    PROVE  FlushOrdered' /\ DataForLiving' /\ StreamsInStep' /\ \A s, c : ~Targeted(s, c)'
<1>1. /\ UNCHANGED <<streams, dataTarget, delivery, flush>> /\ flush = <<>> /\ delivery = <<>>
  BY DEF FinishFlush, QueueReplies, LinkTyped, PhasesTyped
<1>2. FlushOrdered' /\ \A s, c : ~Targeted(s, c)'
  BY <1>1, NoData DEF FlushOrdered
<1> QED
  BY <1>1, <1>2 DEF DataForLiving, StreamsInStep

\* The audio thread leaves the data on its way.
LEMMA AudioOrders ==
    ASSUME LinkTyped, Audio, FlushOrdered, DataForLiving, StreamsInStep
    PROVE  FlushOrdered' /\ DataForLiving'
<1>1. UNCHANGED <<flush, delivery, eeStream, dataTarget>>
  BY DEF Audio, Render, linkVars, guestVars
<1>2. FlushOrdered'
  BY <1>1 DEF FlushOrdered, Targeted
<1>3. PICK bend \in Bends, ended \in SUBSET Sounding : Render(bend, ended)
  BY DEF Audio
<1>4. ASSUME NEW s \in DOMAIN streams', NEW c \in Channels
      PROVE  s \in DOMAIN streams /\ streams'[s].channels[c].dead = streams[s].channels[c].dead
  <2>1. s \in DOMAIN streams /\ streams'[s] = Frame(streams[s], bend[s])
    BY <1>3 DEF Render
  <2>2. bend[s] \in [Bendable -> Nat]
    <3>1. bend[s] \in [Bendable -> BentSteps]
      BY <2>1 DEF Bends
    <3> QED
      BY <3>1, LinkAssumption
  <2>3. streams[s] \in Stream /\ StreamInStep(streams[s])
    BY <2>1 DEF LinkTyped, EngineTyped, StreamsInStep
  <2> QED
    BY <2>1, <2>2, <2>3, FrameOf
<1>5. DataForLiving'
  BY <1>1, <1>4 DEF DataForLiving, Targeted
<1> QED
  BY <1>2, <1>5

----------------------------------------------------------------------------
(* What always holds *)

\* The inductive invariant: the streams are in step because data reaches only
\* channels that were not given up, and a stream is described anew only while
\* none of its data is on its way, which the guest's wait for the answer gives.
InStep == LinkTyped /\ FlushOrdered /\ DataForLiving /\ StreamsInStep /\ Answered

\* The initial state is well formed.
LEMMA InitTyped == ASSUME Init PROVE LinkTyped
<1> USE DEF Init, EngineInit
<1>1. QueuesTyped
  <2>1. \A X : <<>> \in Seq(X) /\ Len(<<>>) = 0
    OBVIOUS
  <2>2. ring \in BOOLEAN
    OBVIOUS
  <2> HIDE DEF Init, EngineInit
  <2>3. /\ calls = <<>> /\ flush = <<>> /\ reply = <<>> /\ deferred = <<>>
        /\ queued = <<>> /\ delivery = <<>> /\ lost = <<>>
    BY DEF Init, EngineInit
  <2> QED
    BY <2>1, <2>2, <2>3, LinkAssumption DEF QueuesTyped
<1>2. PhasesTyped
  BY DEF PhasesTyped
<1>3. EngineTyped
  BY DEF EngineTyped
<1>4. GuestTyped
  <2>1. /\ eeStream \in [Streams -> {"none", "asked", "ready", "playing", "gone"}]
        /\ eeVoice \in [Voices -> {"none", "idle", "playing"}]
        /\ spuLeft \in Nat /\ spuInFlight \in BOOLEAN /\ terminating \in BOOLEAN
        /\ bent \in [Streams -> SUBSET Bendable]
    OBVIOUS
  <2>2. held \in [Streams -> Nat]
    OBVIOUS
  <2>3. \A s \in Streams, c \in Channels : sent[s][c] = 0 /\ held[s] = 0
    OBVIOUS
  <2>4. sent \in [Streams -> [Channels -> Nat]]
    <3>1. [c \in Channels |-> 0] \in [Channels -> Nat]
      OBVIOUS
    <3> QED
      BY <3>1
  <2> QED
    BY <2>1, <2>2, <2>3, <2>4 DEF GuestTyped
<1> QED
  BY <1>1, <1>2, <1>3, <1>4 DEF LinkTyped

\* The invariant holds at the start.
LEMMA InitInStep == ASSUME Init PROVE InStep
<1>1. LinkTyped
  BY InitTyped
<1>2. FlushOrdered /\ DataForLiving /\ StreamsInStep
  <2>1. flush = <<>> /\ dataTarget = NoTarget /\ streams = <<>>
    BY DEF Init, EngineInit
  <2>2. \A s, c : ~Targeted(s, c)
    BY <2>1 DEF Targeted, NoTarget
  <2>3. DOMAIN streams = {}
    BY <2>1
  <2> QED
    BY <2>1, <2>2, <2>3 DEF FlushOrdered, DataForLiving, StreamsInStep, Paired, Closed
<1>3. Answered
  <2>1. ASSUME NEW r \in Asks PROVE Fine(Parts(r), Awaits(r))
    <3>1. Parts(r) = 0
      BY CountedNone DEF Parts, Init, EngineInit
    <3>2. ~Awaits(r)
      <4>1. ~spuInFlight /\ ~terminating /\ \A s \in Streams : eeStream[s] # "asked"
        BY DEF Init
      <4> QED
        BY <4>1, AwaitsOf, AsksKinds
    <3> QED
      BY <3>1, <3>2 DEF Fine, One
  <2> QED
    BY <1>1, <2>1, AnsweredIs DEF LinkTyped
<1> QED
  BY <1>1, <1>2, <1>3 DEF InStep

\* Every step keeps the invariant.
LEMMA NextInStep == ASSUME InStep, Next PROVE InStep'
<1> USE DEF InStep
<1>1. LinkTyped' /\ FlushOrdered' /\ DataForLiving' /\ StreamsInStep'
  <2>1. CASE Game
    BY <2>1, GameTyped, GameKeeps
  <2>2. CASE \E s \in Streams : ReadMore(s)
    BY <2>2, ReadTyped, ReadKeeps
  <2>3. CASE DeliverReplies
    BY <2>3, DeliverKeeps, DeliverOrders
  <2>4. CASE Poll
    BY <2>4, PollTyped, PollKeeps
  <2>5. CASE Service
    <3>1. CASE Walk
      <4>1. LinkTyped'
        BY <3>1, WalkTyped
      <4> QED
        BY <3>1, <4>1, WalkKeeps
    <3>2. CASE FinishFlush
      BY <3>2, FinishTyped, FinishKeeps
    <3> QED
      BY <2>5, <3>1, <3>2, WalkOf
  <2>6. CASE Audio
    BY <2>6, AudioKeeps, AudioOrders
  <2> QED
    BY <2>1, <2>2, <2>3, <2>4, <2>5, <2>6 DEF Next
<1>2. Answered'
  BY <1>1, AnsweredSteps
<1> QED
  BY <1>1, <1>2

\* A step that changes nothing keeps it.
LEMMA StutterInStep == ASSUME InStep, UNCHANGED vars PROVE InStep'
<1>1. UNCHANGED <<streams, voices, queued, dataTarget, phase, calls, flush, reply, deferred, delivery,
                  ring, lost, eeStream, eeVoice, held, sent, spuLeft, spuInFlight, bent, terminating>>
  BY DEF vars, engineVars, linkVars, guestVars
<1>2. LinkTyped'
  BY <1>1 DEF InStep, LinkTyped, QueuesTyped, PhasesTyped, EngineTyped, GuestTyped
<1>3. FlushOrdered' /\ DataForLiving' /\ StreamsInStep'
  BY <1>1 DEF InStep, FlushOrdered, DataForLiving, StreamsInStep, Targeted
<1>4. Answered'
  <2>1. \A r \in Asks : Parts(r)' = Parts(r) /\ Awaits(r)' = Awaits(r)
    BY <1>1 DEF Parts, Awaits
  <2> QED
    BY <1>2, <2>1, AnsweredSame DEF InStep
<1> QED
  BY <1>2, <1>3, <1>4 DEF InStep

\* The invariant the synth's theorems rest on.
LEMMA AlwaysInStep == Spec => []InStep
<1>1. Init => InStep
  BY InitInStep
<1>2. InStep /\ [Next]_vars => InStep'
  BY NextInStep, StutterInStep
<1> QED
  BY <1>1, <1>2, PTL DEF Spec

\* The channels of a stream that were never bent and are heard stand at the same
\* sample and the same part of it: an underrun stalls a stream instead of
\* skewing its channels (Render).  One that no bent channel comes before is
\* where the song is.
THEOREM ChannelsInStepHolds == Spec => []ChannelsInStep
<1>1. InStep => ChannelsInStep
  <2> SUFFICES ASSUME InStep, NEW s \in DOMAIN streams, NEW c \in Channels \ Bendable,
                      Heard(streams[s].channels[c])
               PROVE  /\ \A d \in Channels \ Bendable :
                           Heard(streams[s].channels[d]) =>
                             /\ streams[s].channels[c].pos = streams[s].channels[d].pos
                             /\ streams[s].channels[c].phase = streams[s].channels[d].phase
                      /\ (\A d \in Bendable : Heard(streams[s].channels[d]) => c < d) =>
                           streams[s].channels[c].pos = streams[s].consumed
    BY DEF ChannelsInStep
  <2>1. StreamInStep(streams[s])
    BY DEF InStep, StreamsInStep
  <2>2. \A d \in Channels : Heard(streams[s].channels[d]) <=> streams[s].channels[d].gotData
    <3>1. \A d \in Channels : streams[s].channels[d] \in Channel
      BY DEF InStep, LinkTyped, EngineTyped, Stream
    <3> QED
      BY <2>1, <3>1 DEF StreamInStep, Heard, Channel
  <2>3. \A d \in Channels \ Bendable :
          Heard(streams[s].channels[d]) => Together(streams[s].channels[c], streams[s].channels[d])
    BY <2>1, <2>2 DEF StreamInStep
  <2>4. (\A d \in Bendable : Heard(streams[s].channels[d]) => c < d) => First(streams[s], c)
    BY <2>2, LinkAssumption DEF First
  <2>5. First(streams[s], c) => streams[s].channels[c].pos = streams[s].consumed
    BY <2>1, <2>2 DEF StreamInStep
  <2> QED
    BY <2>3, <2>4, <2>5 DEF Together
<1> QED
  BY <1>1, AlwaysInStep, PTL

----------------------------------------------------------------------------
(* The voices, record by record *)

Sounds(v) == v \in DOMAIN voices /\ voices[v].playing

\* The records of voices, and what tells them apart.
LEMMA VoiceKinds ==
    /\ \A cmd, v : VoiceCommand(cmd, v).cmd = cmd /\ VoiceCommand(cmd, v).voice = v
    /\ \A cmd, to, v, w : VoiceCommand(cmd, v) = VoiceCommand(to, w) <=> cmd = to /\ v = w
BY DEF VoiceCommand

\* What a record does to a voice.
VoiceStep(r, v) ==
    \/ r = VoiceCommand("Create", v) /\ v \in DOMAIN voices' /\ ~Sounds(v)'
    \/ /\ r = VoiceCommand("Start", v)
       /\ v \in DOMAIN voices' <=> v \in DOMAIN voices
       /\ v \in DOMAIN voices => Sounds(v)'
       /\ v \notin DOMAIN voices => ~Sounds(v)'
    \/ /\ r = VoiceCommand("StopSample", v)
       /\ v \in DOMAIN voices' <=> v \in DOMAIN voices
       /\ ~Sounds(v)'
    \/ r = VoiceCommand("DestroySample", v) /\ v \notin DOMAIN voices' /\ ~Sounds(v)'
    \/ /\ \A cmd \in {"Create", "Start", "StopSample", "DestroySample"} : r # VoiceCommand(cmd, v)
       /\ v \in DOMAIN voices' <=> v \in DOMAIN voices
       /\ Sounds(v)' <=> Sounds(v)

\* A record's work on a voice is one of these.
LEMMA WorkOnVoices ==
    ASSUME EngineTyped, NEW r, StreamWork(r) \/ VoiceWork(r) \/ AnswerWork(r), NEW v \in Voices
    PROVE  VoiceStep(r, v)
<1>0. voices \in [DOMAIN voices -> Voice]
  BY DEF EngineTyped
<1>1. ASSUME voices' = voices, \A cmd : r # VoiceCommand(cmd, v)
      PROVE  VoiceStep(r, v)
  BY <1>1 DEF VoiceStep, Sounds
<1>2. ASSUME NEW w \in Voices, v # w, \E cmd : r = VoiceCommand(cmd, w),
             v \in DOMAIN voices' <=> v \in DOMAIN voices,
             v \in DOMAIN voices => voices'[v] = voices[v]
      PROVE  VoiceStep(r, v)
  <2>1. \A cmd : r # VoiceCommand(cmd, v)
    BY <1>2, VoiceKinds
  <2> QED
    BY <1>2, <2>1 DEF VoiceStep, Sounds
<1>3. CASE VoiceWork(r)
  <2>1. ASSUME NEW w \in Voices, r = VoiceCommand("Create", w), SampleCreate(w)
        PROVE  VoiceStep(r, v)
    <3>1. voices' = With(voices, w, NewVoice) /\ ~NewVoice.playing
      BY <2>1 DEF SampleCreate, NewVoice
    <3>2. CASE v = w
      BY <2>1, <3>1, <3>2 DEF With, VoiceStep, Sounds
    <3>3. CASE v # w
      BY <1>2, <2>1, <3>1, <3>3 DEF With
    <3> QED
      BY <3>2, <3>3
  <2>2. ASSUME NEW w \in Voices, r = VoiceCommand("Start", w), SampleStart(w)
        PROVE  VoiceStep(r, v)
    <3>1. voices' = IF w \in DOMAIN voices
                    THEN [voices EXCEPT ![w] = [playing |-> TRUE, paused |-> FALSE]] ELSE voices
      BY <2>2 DEF SampleStart
    <3>2. CASE v = w
      BY <2>2, <3>1, <3>2 DEF VoiceStep, Sounds
    <3>3. CASE v # w
      BY <1>2, <2>2, <3>1, <3>3
    <3> QED
      BY <3>2, <3>3
  <2>3. ASSUME NEW w \in Voices, r = VoiceCommand("StopSample", w), SampleStop(w)
        PROVE  VoiceStep(r, v)
    <3>1. voices' = IF w \in DOMAIN voices THEN [voices EXCEPT ![w].playing = FALSE] ELSE voices
      BY <2>3 DEF SampleStop
    <3>2. CASE v = w
      BY <1>0, <2>3, <3>1, <3>2 DEF VoiceStep, Sounds, Voice
    <3>3. CASE v # w
      BY <1>2, <2>3, <3>1, <3>3
    <3> QED
      BY <3>2, <3>3
  <2>4. ASSUME NEW w \in Voices, NEW on \in BOOLEAN, SamplePause(w, on),
               r = VoiceCommand("Pause", w) \/ r = VoiceCommand("Resume", w)
        PROVE  VoiceStep(r, v)
    <3>1. voices' = IF w \in DOMAIN voices THEN [voices EXCEPT ![w].paused = on] ELSE voices
      BY <2>4 DEF SamplePause
    <3>2. CASE v = w
      <4>1. \A cmd \in {"Create", "Start", "StopSample", "DestroySample"} : r # VoiceCommand(cmd, v)
        BY <2>4, VoiceKinds
      <4>2. (v \in DOMAIN voices' <=> v \in DOMAIN voices)
        BY <3>1
      <4>3. Sounds(v)' <=> Sounds(v)
        BY <1>0, <3>1, <3>2 DEF Sounds, Voice
      <4> QED
        BY <4>1, <4>2, <4>3 DEF VoiceStep
    <3>3. CASE v # w
      BY <1>2, <2>4, <3>1, <3>3
    <3> QED
      BY <3>2, <3>3
  <2>5. ASSUME NEW w \in Voices, r = VoiceCommand("DestroySample", w), SampleDestroy(w)
        PROVE  VoiceStep(r, v)
    <3>1. voices' = Without(voices, w)
      BY <2>5 DEF SampleDestroy
    <3>2. CASE v = w
      BY <2>5, <3>1, <3>2 DEF Without, VoiceStep, Sounds
    <3>3. CASE v # w
      BY <1>2, <2>5, <3>1, <3>3 DEF Without
    <3> QED
      BY <3>2, <3>3
  <2> QED
    BY <1>3, <2>1, <2>2, <2>3, <2>4, <2>5 DEF VoiceWork
<1>4. CASE AnswerWork(r)
  <2>1. voices' = voices
    BY <1>4 DEF AnswerWork, StreamInfo, engineVars
  <2>2. \A cmd : r # VoiceCommand(cmd, v)
    <3>1. r = SpuChunk \/ r = Terminate \/ \E s \in Streams : r = Command("StreamInfo", s)
      BY <1>4, AsksKinds, SMTT(40) DEF AnswerWork
    <3> QED
      BY <3>1 DEF VoiceCommand, SpuChunk, Terminate, Command
  <2> QED
    BY <1>1, <2>1, <2>2
<1>5. CASE StreamWork(r)
  <2>1. voices' = voices
    BY <1>5 DEF StreamWork, StreamPlay, StreamStop, SetPlaying, StreamDestroy, StreamDataBatchEnd,
                StreamSlipSpeed, StreamSlipOff, StreamSlipOffset, StreamDataTarget, StreamData
  <2>2. \A cmd : r # VoiceCommand(cmd, v)
    <3>1. \/ \E cmd, s : r = Command(cmd, s)
          \/ \E cmd, s, c : r = ChannelCommand(cmd, s, c)
          \/ \E s, c, n : r = [cmd |-> "SlipOffset", stream |-> s, channel |-> c, samples |-> n]
          \/ \E n : r = DataRecord(n)
      BY <1>5 DEF StreamWork, Target
    <3> QED
      BY <3>1 DEF VoiceCommand, Command, ChannelCommand, DataRecord
  <2> QED
    BY <1>1, <2>1, <2>2
<1> QED
  BY <1>3, <1>4, <1>5

\* Whatever the guest waits for is under way exactly once, or was lost exactly
\* once by a delivery: handleRpc, which lets one answer ride the result and
\* defers the others, loses and doubles none.
THEOREM AnswersExactHolds == Spec => []AnswersExact
<1>1. Answered => AnswersExact
  <2> SUFFICES ASSUME Answered PROVE AnswersExact
    OBVIOUS
  <2>1. ASSUME NEW r \in Asks PROVE Accounted(r, AnswerTo(r)) = One(Awaits(r))
    BY DEF Answered, Fine
  <2>2. Accounted(SpuChunk, SpuSendDone) = One(spuInFlight)
    BY <2>1, AsksKinds, AwaitsOf
  <2>3. Accounted(Terminate, Terminated) = One(terminating)
    BY <2>1, AsksKinds, AwaitsOf
  <2>4. ASSUME NEW s \in Streams
        PROVE  Accounted(Command("StreamInfo", s), StreamOp(s)) = One(eeStream[s] = "asked")
    BY <2>1, AsksKinds, AwaitsOf
  <2> QED
    BY <2>2, <2>3, <2>4 DEF AnswersExact
<1> QED
  BY <1>1, AlwaysInStep, PTL DEF InStep

----------------------------------------------------------------------------
(* What the guest believes of a voice *)

\* The voice is there once the first i records of the queue are done.
Lives(q, i, v, there) ==
    \/ \E j \in 1 .. i : /\ q[j] = VoiceCommand("Create", v)
                         /\ \A k \in j + 1 .. i : q[k] # VoiceCommand("DestroySample", v)
    \/ there /\ \A k \in 1 .. i : q[k] # VoiceCommand("DestroySample", v)

\* A record that silences the voice, and one that starts or silences it.
Hushes(r, v) == \E cmd \in {"Create", "StopSample", "DestroySample"} : r = VoiceCommand(cmd, v)
Concerns(r, v) == Hushes(r, v) \/ r = VoiceCommand("Start", v)

\* What the guest believes of a voice agrees with what it is (there, on) and the
\* records on their way: a voice is started while it is there, one the guest
\* has is there in the end, and one it believes playing is on in the end.
Believed(q, v, there, state, on) ==
    /\ \A i \in DOMAIN q : q[i] = VoiceCommand("Start", v) => Lives(q, i - 1, v, there)
    /\ state # "none" => Lives(q, Len(q), v, there)
    /\ state = "playing" =>
         \/ \E i \in DOMAIN q : /\ q[i] = VoiceCommand("Start", v)
                                /\ \A k \in i + 1 .. Len(q) : ~Hushes(q[k], v)
         \/ on /\ \A k \in DOMAIN q : ~Hushes(q[k], v)

\* Records that do not concern the voice change nothing.
LEMMA BelievedSame ==
    ASSUME NEW q, NEW p, NEW v, NEW there, NEW state, NEW on, Believed(q, v, there, state, on),
           Len(q) \in Nat, Len(p) = Len(q), DOMAIN q = 1 .. Len(q), DOMAIN p = 1 .. Len(q),
           \A i \in DOMAIN q : p[i] = q[i] \/ (~Concerns(p[i], v) /\ ~Concerns(q[i], v))
    PROVE  Believed(p, v, there, state, on)
<1>1. \A i \in DOMAIN q : /\ Hushes(p[i], v) <=> Hushes(q[i], v)
                          /\ \A cmd \in {"Create", "Start", "DestroySample"} :
                               p[i] = VoiceCommand(cmd, v) <=> q[i] = VoiceCommand(cmd, v)
  BY DEF Concerns, Hushes
<1>2. ASSUME NEW i \in 0 .. Len(q), Lives(q, i, v, there)
      PROVE  Lives(p, i, v, there)
  <2>1. \A k \in 1 .. i : k \in DOMAIN q
    OBVIOUS
  <2>2. ASSUME NEW j \in 1 .. i, q[j] = VoiceCommand("Create", v),
               \A k \in j + 1 .. i : q[k] # VoiceCommand("DestroySample", v)
        PROVE  p[j] = VoiceCommand("Create", v) /\ \A k \in j + 1 .. i : p[k] # VoiceCommand("DestroySample", v)
    <3>1. \A k \in j + 1 .. i : k \in DOMAIN q
      OBVIOUS
    <3> QED
      BY <1>1, <2>1, <2>2, <3>1
  <2> QED
    BY <1>1, <1>2, <2>1, <2>2 DEF Lives
<1>3. \A i \in DOMAIN p : p[i] = VoiceCommand("Start", v) => Lives(p, i - 1, v, there)
  <2> SUFFICES ASSUME NEW i \in DOMAIN p, p[i] = VoiceCommand("Start", v)
               PROVE  Lives(p, i - 1, v, there)
    OBVIOUS
  <2>1. i \in DOMAIN q /\ q[i] = VoiceCommand("Start", v) /\ i - 1 \in 0 .. Len(q)
    BY <1>1
  <2> QED
    BY <1>2, <2>1 DEF Believed
<1>4. state # "none" => Lives(p, Len(p), v, there)
  <2>1. Len(q) \in 0 .. Len(q)
    OBVIOUS
  <2> QED
    BY <1>2, <2>1 DEF Believed
<1>5. ASSUME NEW i \in DOMAIN q, q[i] = VoiceCommand("Start", v),
             \A k \in i + 1 .. Len(q) : ~Hushes(q[k], v)
      PROVE  i \in DOMAIN p /\ p[i] = VoiceCommand("Start", v)
             /\ \A k \in i + 1 .. Len(p) : ~Hushes(p[k], v)
  <2>1. \A k \in i + 1 .. Len(q) : k \in DOMAIN q
    OBVIOUS
  <2> QED
    BY <1>1, <1>5, <2>1
<1>6. (\A k \in DOMAIN q : ~Hushes(q[k], v)) => \A k \in DOMAIN p : ~Hushes(p[k], v)
  BY <1>1
<1>7. state = "playing" =>
        \/ \E i \in DOMAIN p : /\ p[i] = VoiceCommand("Start", v)
                               /\ \A k \in i + 1 .. Len(p) : ~Hushes(p[k], v)
        \/ on /\ \A k \in DOMAIN p : ~Hushes(p[k], v)
  BY <1>5, <1>6 DEF Believed
<1> QED
  BY <1>3, <1>4, <1>7 DEF Believed

\* A record is called.
LEMMA BelievedCall ==
    ASSUME NEW X, NEW q \in Seq(X), NEW x \in X, NEW v, NEW there, NEW state, NEW on, NEW to,
           Believed(q, v, there, state, on),
           \/ ~Concerns(x, v) /\ to = state
           \/ x = VoiceCommand("Create", v) /\ state = "none" /\ to = "idle"
           \/ x = VoiceCommand("Start", v) /\ state # "none" /\ to = "playing"
           \/ x = VoiceCommand("StopSample", v) /\ state # "none" /\ to = "idle"
           \/ x = VoiceCommand("DestroySample", v) /\ to = "none"
    PROVE  Believed(Append(q, x), v, there, to, on)
<1> DEFINE p == Append(q, x)
           n == Len(q)
<1>1. /\ n \in Nat /\ DOMAIN q = 1 .. n /\ Len(p) = n + 1 /\ DOMAIN p = 1 .. n + 1
      /\ p[n + 1] = x /\ \A i \in 1 .. n : p[i] = q[i]
  OBVIOUS
<1> HIDE DEF p, n
<1>2. ASSUME NEW i \in 0 .. n, Lives(q, i, v, there) PROVE Lives(p, i, v, there)
  <2>1. \A k \in 1 .. i : p[k] = q[k]
    BY <1>1
  <2>2. \A j \in 1 .. i : \A k \in j + 1 .. i : p[k] = q[k]
    BY <1>1
  <2> QED
    BY <1>2, <2>1, <2>2 DEF Lives
<1>3. x # VoiceCommand("DestroySample", v) /\ Lives(q, n, v, there) => Lives(p, n + 1, v, there)
  <2> SUFFICES ASSUME x # VoiceCommand("DestroySample", v), Lives(q, n, v, there)
               PROVE  Lives(p, n + 1, v, there)
    OBVIOUS
  <2>1. CASE there /\ \A k \in 1 .. n : q[k] # VoiceCommand("DestroySample", v)
    <3>1. \A k \in 1 .. n + 1 : p[k] # VoiceCommand("DestroySample", v)
      <4> TAKE k \in 1 .. n + 1
      <4>1. k \in 1 .. n \/ k = n + 1
        BY <1>1
      <4> QED
        BY <1>1, <2>1, <4>1
    <3> QED
      BY <2>1, <3>1 DEF Lives
  <2>2. ASSUME NEW j \in 1 .. n, q[j] = VoiceCommand("Create", v),
               \A k \in j + 1 .. n : q[k] # VoiceCommand("DestroySample", v)
        PROVE  Lives(p, n + 1, v, there)
    <3>1. \A k \in j + 1 .. n + 1 : p[k] # VoiceCommand("DestroySample", v)
      <4> TAKE k \in j + 1 .. n + 1
      <4>1. (k \in j + 1 .. n /\ k \in 1 .. n) \/ k = n + 1
        BY <1>1
      <4> QED
        BY <1>1, <2>2, <4>1
    <3>2. j \in 1 .. n + 1 /\ p[j] = VoiceCommand("Create", v)
      BY <1>1, <2>2
    <3> QED
      BY <3>1, <3>2 DEF Lives
  <2> QED
    BY <2>1, <2>2 DEF Lives
<1>4. x = VoiceCommand("Create", v) => Lives(p, n + 1, v, there)
  <2> SUFFICES ASSUME x = VoiceCommand("Create", v) PROVE Lives(p, n + 1, v, there)
    OBVIOUS
  <2>1. n + 1 \in 1 .. n + 1 /\ ~\E k \in (n + 1) + 1 .. n + 1 : TRUE
    BY <1>1
  <2> QED
    BY <1>1, <2>1 DEF Lives
<1>5. /\ x = VoiceCommand("Create", v) => x # VoiceCommand("Start", v) /\ x # VoiceCommand("DestroySample", v)
      /\ x = VoiceCommand("Start", v) => ~Hushes(x, v) /\ x # VoiceCommand("DestroySample", v)
      /\ x = VoiceCommand("StopSample", v) => x # VoiceCommand("Start", v) /\ x # VoiceCommand("DestroySample", v)
      /\ x = VoiceCommand("DestroySample", v) => x # VoiceCommand("Start", v)
      /\ ~Concerns(x, v) => ~Hushes(x, v) /\ x # VoiceCommand("Start", v) /\ x # VoiceCommand("DestroySample", v)
  BY VoiceKinds DEF Hushes, Concerns
<1>6. ASSUME NEW i \in DOMAIN p, p[i] = VoiceCommand("Start", v) PROVE Lives(p, i - 1, v, there)
  <2>1. CASE i \in 1 .. n
    <3>1. i \in DOMAIN q /\ q[i] = VoiceCommand("Start", v) /\ i - 1 \in 0 .. n
      BY <1>1, <1>6, <2>1
    <3> QED
      BY <1>2, <3>1 DEF Believed
  <2>2. CASE i = n + 1
    <3>1. x = VoiceCommand("Start", v) /\ i - 1 = n
      BY <1>1, <1>6, <2>2
    <3>2. Lives(q, n, v, there)
      BY <1>5, <3>1, VoiceKinds DEF Believed, Concerns, n
    <3>3. n \in 0 .. n
      BY <1>1
    <3> QED
      BY <1>2, <3>1, <3>2, <3>3
  <2> QED
    BY <1>1, <2>1, <2>2
<1>7. to # "none" => Lives(p, n + 1, v, there)
  <2> SUFFICES ASSUME to # "none" PROVE Lives(p, n + 1, v, there)
    OBVIOUS
  <2>1. x = VoiceCommand("Create", v) \/ (x # VoiceCommand("DestroySample", v) /\ state # "none")
    BY <1>5
  <2> QED
    BY <1>3, <1>4, <2>1 DEF Believed, n
<1>8. ASSUME to = "playing"
      PROVE  \/ \E i \in DOMAIN p : /\ p[i] = VoiceCommand("Start", v)
                                    /\ \A k \in i + 1 .. n + 1 : ~Hushes(p[k], v)
             \/ on /\ \A k \in DOMAIN p : ~Hushes(p[k], v)
  <2>1. CASE x = VoiceCommand("Start", v)
    <3>1. n + 1 \in DOMAIN p /\ p[n + 1] = VoiceCommand("Start", v)
          /\ \A k \in (n + 1) + 1 .. n + 1 : FALSE
      BY <1>1, <2>1
    <3> QED
      BY <3>1
  <2>2. CASE ~Concerns(x, v) /\ state = "playing"
    <3>1. ~Hushes(x, v)
      BY <1>5, <2>2
    <3>2. ASSUME NEW i \in DOMAIN q, q[i] = VoiceCommand("Start", v),
                 \A k \in i + 1 .. n : ~Hushes(q[k], v)
          PROVE  i \in DOMAIN p /\ p[i] = VoiceCommand("Start", v)
                 /\ \A k \in i + 1 .. n + 1 : ~Hushes(p[k], v)
      <4>1. i \in DOMAIN p /\ p[i] = q[i]
        BY <1>1
      <4>2. \A k \in i + 1 .. n + 1 : (k \in i + 1 .. n /\ p[k] = q[k]) \/ p[k] = x
        BY <1>1
      <4> QED
        BY <3>1, <3>2, <4>1, <4>2
    <3>3. (\A k \in DOMAIN q : ~Hushes(q[k], v)) => \A k \in DOMAIN p : ~Hushes(p[k], v)
      <4>1. \A k \in DOMAIN p : (k \in DOMAIN q /\ p[k] = q[k]) \/ p[k] = x
        BY <1>1
      <4> QED
        BY <3>1, <4>1
    <3> QED
      BY <2>2, <3>2, <3>3 DEF Believed, n
  <2>3. x = VoiceCommand("Start", v) \/ (~Concerns(x, v) /\ state = "playing")
    BY <1>8
  <2> QED
    BY <2>1, <2>2, <2>3
<1> QED
  BY <1>1, <1>6, <1>7, <1>8 DEF Believed, p

\* The first record is done, and did its work on the voice.
LEMMA BelievedWork ==
    ASSUME NEW X, NEW q \in Seq(X), q # <<>>, NEW v, NEW there, NEW state, NEW on, NEW stays, NEW still,
           Believed(q, v, there, state, on),
           \/ ~Concerns(Head(q), v) /\ (there => stays) /\ (on => still)
           \/ Head(q) = VoiceCommand("Create", v) /\ stays
           \/ Head(q) = VoiceCommand("Start", v) /\ (there => stays /\ still)
           \/ Head(q) = VoiceCommand("StopSample", v) /\ (there => stays)
           \/ Head(q) = VoiceCommand("DestroySample", v)
    PROVE  Believed(Tail(q), v, stays, state, still)
<1> DEFINE p == Tail(q)
           n == Len(q)
           x == Head(q)
<1>1. /\ n \in Nat \ {0} /\ DOMAIN q = 1 .. n /\ Len(p) = n - 1 /\ DOMAIN p = 1 .. n - 1
      /\ q[1] = x /\ \A i \in 1 .. n - 1 : p[i] = q[i + 1]
  <2>1. n # 0
    BY EmptySeq
  <2> QED
    BY <2>1
<1> HIDE DEF p, n, x
<1>2. \A i \in 2 .. n : i - 1 \in 1 .. n - 1 /\ p[i - 1] = q[i]
  BY <1>1
<1>3. /\ x = VoiceCommand("Create", v) => x # VoiceCommand("Start", v) /\ x # VoiceCommand("DestroySample", v)
      /\ x = VoiceCommand("Start", v) => x # VoiceCommand("Create", v) /\ ~Hushes(x, v)
                                         /\ x # VoiceCommand("DestroySample", v)
      /\ x = VoiceCommand("StopSample", v) => x # VoiceCommand("Create", v) /\ Hushes(x, v)
                                              /\ x # VoiceCommand("Start", v)
      /\ x = VoiceCommand("DestroySample", v) => x # VoiceCommand("Create", v) /\ Hushes(x, v)
                                              /\ x # VoiceCommand("Start", v)
      /\ x = VoiceCommand("Create", v) => Hushes(x, v)
      /\ ~Concerns(x, v) => ~Hushes(x, v) /\ x # VoiceCommand("Start", v) /\ x # VoiceCommand("Create", v)
  BY VoiceKinds DEF Hushes, Concerns
<1>4. ASSUME NEW i \in 1 .. n, Lives(q, i, v, there)
      PROVE  Lives(p, i - 1, v, stays)
  <2>1. ASSUME NEW j \in 2 .. i, q[j] = VoiceCommand("Create", v),
               \A k \in j + 1 .. i : q[k] # VoiceCommand("DestroySample", v)
        PROVE  Lives(p, i - 1, v, stays)
    <3>1. j - 1 \in 1 .. i - 1 /\ p[j - 1] = q[j]
      BY <1>1, <1>2
    <3>2. \A k \in (j - 1) + 1 .. i - 1 : p[k] # VoiceCommand("DestroySample", v)
      <4> TAKE k \in (j - 1) + 1 .. i - 1
      <4>1. k + 1 \in j + 1 .. i /\ k \in 1 .. n - 1
        BY <1>1
      <4> QED
        BY <1>1, <2>1, <4>1
    <3> QED
      BY <2>1, <3>1, <3>2 DEF Lives
  <2>2. ASSUME \A k \in 2 .. i : q[k] # VoiceCommand("DestroySample", v), stays
        PROVE  Lives(p, i - 1, v, stays)
    <3>1. \A k \in 1 .. i - 1 : p[k] # VoiceCommand("DestroySample", v)
      <4> TAKE k \in 1 .. i - 1
      <4>1. k + 1 \in 2 .. i /\ k \in 1 .. n - 1
        BY <1>1
      <4> QED
        BY <1>1, <2>2, <4>1
    <3> QED
      BY <2>2, <3>1 DEF Lives
  <2>3. CASE there /\ \A k \in 1 .. i : q[k] # VoiceCommand("DestroySample", v)
    <3>1. x # VoiceCommand("DestroySample", v)
      BY <1>1, <2>3
    <3>2. stays
      BY <2>3, <3>1 DEF x
    <3>3. \A k \in 2 .. i : q[k] # VoiceCommand("DestroySample", v)
      BY <2>3
    <3> QED
      BY <2>2, <3>2, <3>3
  <2>4. ASSUME NEW j \in 1 .. i, q[j] = VoiceCommand("Create", v),
               \A k \in j + 1 .. i : q[k] # VoiceCommand("DestroySample", v)
        PROVE  Lives(p, i - 1, v, stays)
    <3>1. CASE j = 1
      <4>1. x = VoiceCommand("Create", v)
        BY <1>1, <2>4, <3>1
      <4>2. stays
        BY <1>3, <4>1 DEF x
      <4>3. \A k \in 2 .. i : q[k] # VoiceCommand("DestroySample", v)
        BY <2>4, <3>1
      <4> QED
        BY <2>2, <4>2, <4>3
    <3>2. CASE j # 1
      <4>1. j \in 2 .. i
        BY <3>2
      <4> QED
        BY <2>1, <2>4, <4>1
    <3> QED
      BY <3>1, <3>2
  <2> QED
    BY <1>4, <2>3, <2>4 DEF Lives
<1>5. ASSUME NEW i \in DOMAIN p, p[i] = VoiceCommand("Start", v) PROVE Lives(p, i - 1, v, stays)
  <2>1. i + 1 \in DOMAIN q /\ q[i + 1] = VoiceCommand("Start", v) /\ (i + 1) - 1 = i /\ i \in 1 .. n
    BY <1>1, <1>5
  <2>2. Lives(q, i, v, there)
    BY <2>1 DEF Believed
  <2> QED
    BY <1>4, <2>1, <2>2
<1>6. state # "none" => Lives(p, n - 1, v, stays)
  <2>1. n \in 1 .. n
    BY <1>1
  <2> QED
    BY <1>4, <2>1 DEF Believed, n
<1>7. ASSUME state = "playing"
      PROVE  \/ \E i \in DOMAIN p : /\ p[i] = VoiceCommand("Start", v)
                                    /\ \A k \in i + 1 .. n - 1 : ~Hushes(p[k], v)
             \/ still /\ \A k \in DOMAIN p : ~Hushes(p[k], v)
  <2>1. ASSUME NEW i \in DOMAIN q, q[i] = VoiceCommand("Start", v),
               \A k \in i + 1 .. n : ~Hushes(q[k], v), i # 1
        PROVE  \E j \in DOMAIN p : /\ p[j] = VoiceCommand("Start", v)
                                   /\ \A k \in j + 1 .. n - 1 : ~Hushes(p[k], v)
    <3>1. i - 1 \in DOMAIN p /\ p[i - 1] = VoiceCommand("Start", v)
      BY <1>1, <1>2, <2>1
    <3>2. \A k \in (i - 1) + 1 .. n - 1 : ~Hushes(p[k], v)
      <4> TAKE k \in (i - 1) + 1 .. n - 1
      <4>1. k + 1 \in i + 1 .. n /\ k \in 1 .. n - 1
        BY <1>1
      <4> QED
        BY <1>1, <2>1, <4>1
    <3> QED
      BY <3>1, <3>2
  <2>2. ASSUME \A k \in 2 .. n : ~Hushes(q[k], v)
        PROVE  \A k \in DOMAIN p : ~Hushes(p[k], v)
    <3> TAKE k \in DOMAIN p
    <3>1. k + 1 \in 2 .. n /\ p[k] = q[k + 1]
      BY <1>1
    <3> QED
      BY <2>2, <3>1
  <2>3. CASE q[1] = VoiceCommand("Start", v) /\ \A k \in 2 .. n : ~Hushes(q[k], v)
    <3>1. x = VoiceCommand("Start", v) /\ 1 \in DOMAIN q
      BY <1>1, <2>3
    <3>2. Lives(q, 0, v, there)
      BY <1>1, <2>3, <3>1 DEF Believed
    <3>3. there
      BY <3>2 DEF Lives
    <3>4. still
      BY <1>3, <3>1, <3>3 DEF x
    <3> QED
      BY <2>2, <2>3, <3>4
  <2>4. CASE on /\ \A k \in DOMAIN q : ~Hushes(q[k], v)
    <3>1. ~Hushes(x, v) /\ \A k \in 2 .. n : ~Hushes(q[k], v)
      BY <1>1, <2>4
    <3>2. CASE x = VoiceCommand("Start", v)
      BY <1>1, <2>3, <3>1, <3>2
    <3>3. CASE x # VoiceCommand("Start", v)
      <4>1. ~Concerns(x, v)
        BY <3>1, <3>3 DEF Concerns
      <4>2. still
        BY <2>4, <4>1 DEF x, Concerns, Hushes
      <4> QED
        BY <2>2, <3>1, <4>2
    <3> QED
      BY <3>2, <3>3
  <2>5. \/ \E i \in DOMAIN q : /\ q[i] = VoiceCommand("Start", v)
                               /\ \A k \in i + 1 .. n : ~Hushes(q[k], v)
        \/ on /\ \A k \in DOMAIN q : ~Hushes(q[k], v)
    BY <1>7 DEF Believed, n
  <2> QED
    BY <2>1, <2>3, <2>4, <2>5
<1> QED
  BY <1>1, <1>5, <1>6, <1>7 DEF Believed, p

\* Records that do not concern the voice are put behind.
LEMMA BelievedMore ==
    ASSUME NEW X, NEW q \in Seq(X), NEW u \in Seq(X), NEW v, NEW there, NEW state, NEW on,
           Believed(q, v, there, state, on), \A i \in DOMAIN u : ~Concerns(u[i], v)
    PROVE  Believed(q \o u, v, there, state, on)
<1> DEFINE p == q \o u
           n == Len(q)
           m == Len(q) + Len(u)
<1>1. /\ n \in Nat /\ m \in Nat /\ n <= m /\ DOMAIN q = 1 .. n /\ Len(p) = m /\ DOMAIN p = 1 .. m
      /\ \A i \in 1 .. n : p[i] = q[i]
      /\ \A i \in 1 .. m : i > n => ~Concerns(p[i], v)
  OBVIOUS
<1> HIDE DEF p, n, m
<1>2. \A x : ~Concerns(x, v) => ~Hushes(x, v) /\ x # VoiceCommand("Start", v)
                                /\ x # VoiceCommand("DestroySample", v)
  BY DEF Concerns, Hushes
<1>3. ASSUME NEW i \in 0 .. n, NEW o \in 0 .. m, i <= o, o > i => i = n, Lives(q, i, v, there)
      PROVE  Lives(p, o, v, there)
  <2>1. ASSUME NEW j \in 1 .. i, q[j] = VoiceCommand("Create", v),
               \A k \in j + 1 .. i : q[k] # VoiceCommand("DestroySample", v)
        PROVE  Lives(p, o, v, there)
    <3>1. j \in 1 .. o /\ p[j] = q[j]
      BY <1>1, <1>3
    <3>2. \A k \in j + 1 .. o : p[k] # VoiceCommand("DestroySample", v)
      <4> TAKE k \in j + 1 .. o
      <4>1. (k \in j + 1 .. i /\ k \in 1 .. n) \/ (k > n /\ k \in 1 .. m)
        BY <1>1, <1>3
      <4> QED
        BY <1>1, <1>2, <2>1, <4>1
    <3> QED
      BY <2>1, <3>1, <3>2 DEF Lives
  <2>2. CASE there /\ \A k \in 1 .. i : q[k] # VoiceCommand("DestroySample", v)
    <3>1. \A k \in 1 .. o : p[k] # VoiceCommand("DestroySample", v)
      <4> TAKE k \in 1 .. o
      <4>1. (k \in 1 .. i /\ k \in 1 .. n) \/ (k > n /\ k \in 1 .. m)
        BY <1>1, <1>3
      <4> QED
        BY <1>1, <1>2, <2>2, <4>1
    <3> QED
      BY <2>2, <3>1 DEF Lives
  <2> QED
    BY <1>3, <2>1, <2>2 DEF Lives
<1>4. ASSUME NEW i \in DOMAIN p, p[i] = VoiceCommand("Start", v) PROVE Lives(p, i - 1, v, there)
  <2>1. i \in 1 .. n
    BY <1>1, <1>2, <1>4
  <2>2. i \in DOMAIN q /\ q[i] = VoiceCommand("Start", v) /\ i - 1 \in 0 .. n /\ i - 1 \in 0 .. m
    BY <1>1, <1>4, <2>1
  <2>3. Lives(q, i - 1, v, there)
    BY <2>2, SMTT(40) DEF Believed
  <2> QED
    BY <1>1, <1>3, <2>2, <2>3
<1>5. state # "none" => Lives(p, m, v, there)
  <2>1. n \in 0 .. n /\ m \in 0 .. m
    BY <1>1
  <2> QED
    BY <1>1, <1>3, <2>1 DEF Believed, n
<1>6. ASSUME NEW i \in DOMAIN q, q[i] = VoiceCommand("Start", v),
             \A k \in i + 1 .. n : ~Hushes(q[k], v)
      PROVE  i \in DOMAIN p /\ p[i] = VoiceCommand("Start", v)
             /\ \A k \in i + 1 .. m : ~Hushes(p[k], v)
  <2>1. i \in DOMAIN p /\ p[i] = q[i]
    BY <1>1
  <2>2. \A k \in i + 1 .. m : (k \in i + 1 .. n /\ k \in 1 .. n) \/ (k > n /\ k \in 1 .. m)
    BY <1>1
  <2> QED
    BY <1>1, <1>2, <1>6, <2>1, <2>2
<1>7. (\A k \in DOMAIN q : ~Hushes(q[k], v)) => \A k \in DOMAIN p : ~Hushes(p[k], v)
  <2>1. \A k \in DOMAIN p : k \in 1 .. n \/ k > n
    BY <1>1
  <2> QED
    BY <1>1, <1>2, <2>1
<1>8. state = "playing" =>
        \/ \E i \in DOMAIN p : /\ p[i] = VoiceCommand("Start", v)
                               /\ \A k \in i + 1 .. m : ~Hushes(p[k], v)
        \/ on /\ \A k \in DOMAIN p : ~Hushes(p[k], v)
  BY <1>6, <1>7 DEF Believed, n
<1> QED
  BY <1>1, <1>4, <1>5, <1>8 DEF Believed, p

\* The records for the engine that are on their way, in order.
Trail == IF phase = "walk" THEN flush ELSE calls

Owed(v) ==
    \/ Brings(queued, SampleDone(v)) \/ Brings(delivery, SampleDone(v))
    \/ Brings(lost, SampleDone(v))

VoicesBelieved ==
    \A v \in Voices : Believed(Trail, v, v \in DOMAIN voices, eeVoice[v], Sounds(v) \/ Owed(v))

\* The records that do not concern a voice.
LEMMA Unconcerned ==
    /\ \A v : ~Concerns(SpuChunk, v) /\ ~Concerns(Terminate, v)
    /\ \A r \in StreamCommands \cup SlipCommands \cup Realignments \cup StreamRecord : \A v : ~Concerns(r, v)
    /\ \A v, w, cmd : v # w => ~Concerns(VoiceCommand(cmd, w), v)
    /\ \A v, w : ~Concerns(VoiceCommand("Pause", w), v) /\ ~Concerns(VoiceCommand("Resume", w), v)
<1>1. \A r, v : Concerns(r, v) => \E cmd \in {"Create", "Start", "StopSample", "DestroySample"} :
                                    r = VoiceCommand(cmd, v)
  BY DEF Concerns, Hushes
<1>2. \A v, cmd : cmd \in {"Create", "Start", "StopSample", "DestroySample"} =>
                    VoiceCommand(cmd, v).cmd = cmd
  BY VoiceKinds
<1>3. \A r, v : r.cmd \notin {"Create", "Start", "StopSample", "DestroySample"} => ~Concerns(r, v)
  BY <1>1, <1>2
<1>4. \A v : ~Concerns(SpuChunk, v) /\ ~Concerns(Terminate, v)
  BY <1>3 DEF SpuChunk, Terminate
<1>5. \A r \in StreamCommands : r.cmd \in {"StreamInfo", "Play", "Stop", "Destroy"}
  BY DEF StreamCommands, Command
<1>6. \A r \in SlipCommands : r.cmd \in {"SlipSpeed", "SlipStop"}
  BY DEF SlipCommands, ChannelCommand
<1>7. \A r \in Realignments : r.cmd = "SlipOffset"
  BY DEF Realignments
<1>8. \A r \in StreamRecord : r.cmd \in {"DataTarget", "Data", "BatchEnd"}
  BY RecordKinds DEF StreamRecord
<1>9. \A v, w, cmd : v # w => ~Concerns(VoiceCommand(cmd, w), v)
  BY VoiceKinds DEF Concerns, Hushes
<1>10. \A v, w : ~Concerns(VoiceCommand("Pause", w), v) /\ ~Concerns(VoiceCommand("Resume", w), v)
  BY <1>3, VoiceKinds
<1> QED
  BY <1>3, <1>4, <1>5, <1>6, <1>7, <1>8, <1>9, <1>10

\* The game's calls: the guest believes of a voice what its record will make of
\* it.
LEMMA BelievedGame ==
    ASSUME LinkTyped, VoicesBelieved, Game
    PROVE  VoicesBelieved'
<1>1. calls \in Seq(FlushRecord) /\ eeVoice \in [Voices -> {"none", "idle", "playing"}]
  <2>1. GameRecord \subseteq FlushRecord
    BY DEF FlushRecord
  <2> QED
    BY <2>1 DEF LinkTyped, QueuesTyped, GuestTyped
<1>2. GameRecord \subseteq FlushRecord /\ Terminate \in FlushRecord
  BY DEF FlushRecord
<1>3. ASSUME NEW x \in FlushRecord, phase = "game", Trail' = Append(calls, x),
             UNCHANGED <<voices, queued, delivery, lost>>, NEW v \in Voices,
             \/ ~Concerns(x, v) /\ eeVoice'[v] = eeVoice[v]
             \/ x = VoiceCommand("Create", v) /\ eeVoice[v] = "none" /\ eeVoice'[v] = "idle"
             \/ x = VoiceCommand("Start", v) /\ eeVoice[v] # "none" /\ eeVoice'[v] = "playing"
             \/ x = VoiceCommand("StopSample", v) /\ eeVoice[v] # "none" /\ eeVoice'[v] = "idle"
             \/ x = VoiceCommand("DestroySample", v) /\ eeVoice'[v] = "none"
      PROVE  Believed(Trail, v, v \in DOMAIN voices, eeVoice[v], Sounds(v) \/ Owed(v))'
  <2>1. Believed(calls, v, v \in DOMAIN voices, eeVoice[v], Sounds(v) \/ Owed(v))
    BY <1>3 DEF VoicesBelieved, Trail
  <2>2. Believed(Append(calls, x), v, v \in DOMAIN voices, eeVoice'[v], Sounds(v) \/ Owed(v))
    BY <1>1, <1>3, <2>1, BelievedCall
  <2>3. (v \in DOMAIN voices => v \in DOMAIN voices') /\ (Sounds(v) \/ Owed(v) => Sounds(v)' \/ Owed(v)')
    BY <1>3 DEF Sounds, Owed, Brings
  <2>4. Believed(Append(calls, x), v, v \in DOMAIN voices', eeVoice'[v], Sounds(v)' \/ Owed(v)')
    BY <2>2, <2>3 DEF Believed, Lives
  <2> QED
    BY <1>3, <2>4
<1>4. ASSUME NEW x \in GameRecord, GameCall(x)
      PROVE  x \in FlushRecord /\ phase = "game" /\ Trail' = Append(calls, x)
             /\ UNCHANGED <<voices, queued, delivery, lost>>
  BY <1>2, <1>4 DEF GameCall, engineVars, Trail
<1>5. ASSUME NEW s \in Streams, Prepare(s) \/ Play(s) \/ Stop(s) \/ Destroy(s)
      PROVE  VoicesBelieved'
  <2>1. PICK x \in StreamCommands : GameCall(x) /\ eeVoice' = eeVoice
    BY <1>5 DEF Prepare, Play, Stop, Destroy, StreamCommands
  <2>2. x \in GameRecord
    BY DEF GameRecord
  <2> QED
    BY <1>3, <1>4, <2>1, <2>2, Unconcerned DEF VoicesBelieved
<1>6. ASSUME NEW s \in Streams, NEW c \in Bendable, NEW n \in -MaxSlip .. MaxSlip,
             Bend(s, c) \/ Unbend(s, c) \/ Realign(s, c, n)
      PROVE  VoicesBelieved'
  <2>0. n \in Int
    BY LinkAssumption
  <2>1. PICK x \in SlipCommands \cup Realignments : GameCall(x) /\ eeVoice' = eeVoice
    BY <1>6, <2>0 DEF Bend, Unbend, Realign, SlipCommands, Realignments
  <2>2. x \in GameRecord
    BY DEF GameRecord
  <2> QED
    BY <1>3, <1>4, <2>1, <2>2, Unconcerned DEF VoicesBelieved
<1>7. ASSUME NEW w \in Voices, NEW pause \in BOOLEAN,
             \/ CreateSample(w) \/ StartSample(w) \/ StopSample(w) \/ DestroySample(w)
             \/ PauseSample(w, pause)
      PROVE  VoicesBelieved'
  <2>1. ASSUME NEW cmd \in {"Create", "Start", "StopSample", "Pause", "Resume", "DestroySample"},
               GameCall(VoiceCommand(cmd, w)), NEW to,
               \/ cmd = "Create" /\ eeVoice[w] = "none" /\ to = "idle"
               \/ cmd = "Start" /\ eeVoice[w] # "none" /\ to = "playing"
               \/ cmd = "StopSample" /\ eeVoice[w] # "none" /\ to = "idle"
               \/ cmd = "DestroySample" /\ to = "none"
               \/ cmd \in {"Pause", "Resume"} /\ to = eeVoice[w],
               eeVoice' = [eeVoice EXCEPT ![w] = to]
        PROVE  VoicesBelieved'
    <3>1. VoiceCommand(cmd, w) \in GameRecord
      BY GameRecords
    <3>2. ASSUME NEW v \in Voices, v # w PROVE ~Concerns(VoiceCommand(cmd, w), v) /\ eeVoice'[v] = eeVoice[v]
      BY <1>1, <2>1, <3>2, Unconcerned
    <3>3. eeVoice'[w] = to
      BY <1>1, <2>1
    <3>4. cmd \in {"Pause", "Resume"} => ~Concerns(VoiceCommand(cmd, w), w)
      BY Unconcerned
    <3>5. ASSUME NEW v \in Voices
          PROVE  Believed(Trail, v, v \in DOMAIN voices, eeVoice[v], Sounds(v) \/ Owed(v))'
      <4>1. CASE v = w
        BY <1>3, <1>4, <2>1, <3>1, <3>3, <3>4, <4>1
      <4>2. CASE v # w
        BY <1>3, <1>4, <2>1, <3>1, <3>2, <4>2
      <4> QED
        BY <4>1, <4>2
    <3> QED
      BY <3>5 DEF VoicesBelieved
  <2>2. CASE PauseSample(w, pause)
    <3>1. eeVoice' = [eeVoice EXCEPT ![w] = eeVoice[w]]
      BY <1>1, <2>2 DEF PauseSample
    <3>2. GameCall(VoiceCommand("Pause", w)) \/ GameCall(VoiceCommand("Resume", w))
      BY <2>2 DEF PauseSample
    <3> QED
      BY <2>1, <3>1, <3>2
  <2> QED
    BY <1>7, <2>1, <2>2 DEF CreateSample, StartSample, StopSample, DestroySample
<1>8. CASE StartTerminate
  <2>1. phase = "game" /\ Trail' = Append(calls, Terminate) /\ UNCHANGED <<voices, queued, delivery, lost, eeVoice>>
    BY <1>8 DEF StartTerminate, engineVars, Trail
  <2> QED
    BY <1>2, <1>3, <2>1, Unconcerned DEF VoicesBelieved
<1>9. CASE \E n \in 1 .. MaxChunks : Upload(n)
  BY <1>9 DEF Upload, engineVars, linkVars, VoicesBelieved, Trail, Sounds, Owed, Brings
<1>10. \E pause \in BOOLEAN : TRUE
  OBVIOUS
<1>11. \E n \in -MaxSlip .. MaxSlip : TRUE
  <2>1. 0 \in -MaxSlip .. MaxSlip
    BY LinkAssumption
  <2> QED
    BY <2>1
<1> QED
  BY <1>5, <1>6, <1>7, <1>8, <1>9, <1>10, <1>11 DEF Game


\* What happens without a record: the records that concern the voice stay as
\* they are, and what was on stays on.
LEMMA BelievedOn ==
    ASSUME VoicesBelieved, Trail' = Trail, UNCHANGED eeVoice,
           \A v \in Voices : /\ v \in DOMAIN voices => v \in DOMAIN voices'
                             /\ Sounds(v) \/ Owed(v) => Sounds(v)' \/ Owed(v)'
    PROVE  VoicesBelieved'
<1> SUFFICES ASSUME NEW v \in Voices
             PROVE  Believed(Trail, v, v \in DOMAIN voices', eeVoice[v], Sounds(v)' \/ Owed(v)')
  BY DEF VoicesBelieved
<1>1. Believed(Trail, v, v \in DOMAIN voices, eeVoice[v], Sounds(v) \/ Owed(v))
  BY DEF VoicesBelieved
<1> QED
  BY <1>1 DEF Believed, Lives

\* The replies are delivered: a Done that was queued or lost comes or is lost.
LEMMA BelievedDeliver ==
    ASSUME LinkTyped, LinkTyped', VoicesBelieved, DeliverReplies
    PROVE  VoicesBelieved'
<1>1. phase = "game" /\ phase' = "poll" /\ delivery = <<>>
      /\ UNCHANGED <<calls, eeVoice, voices>>
  BY DEF DeliverReplies, TakeReplies, guestVars, LinkTyped, PhasesTyped
<1>2. Trail' = Trail
  BY <1>1 DEF Trail
<1>3. ASSUME NEW v \in Voices, Owed(v) PROVE Owed(v)'
  <2> DEFINE done == SampleDone(v)
  <2>1. done \in Answer \cup Done /\ queued \in Seq(Reply) /\ lost \in Seq(Reply)
    BY DEF Done, Reply, LinkTyped, QueuesTyped
  <2>2. delivery' \in Seq(Reply) /\ lost' \in Seq(Reply)
    BY DEF LinkTyped, QueuesTyped
  <2> HIDE DEF done
  <2>3. Brings(queued, done) \/ Brings(lost, done)
    BY <1>1, <1>3 DEF Owed, Brings, done
  <2>4. Counted(queued, {done}) > 0 \/ Counted(lost, {done}) > 0
    BY <2>1, <2>3, BringsOf
  <2>5. Counted(delivery', {done}) > 0 \/ Counted(lost', {done}) > 0
    <3>1. Counted(RepliesDue, {done}) = Counted(queued, {done})
      BY <2>1, RepliesDueOf
    <3>2. /\ Counted(delivery', {done}) \in Nat /\ Counted(lost', {done}) \in Nat
          /\ Counted(lost, {done}) \in Nat /\ Counted(RepliesDue, {done}) \in Nat
          /\ Counted(delivery', {done}) + Counted(lost', {done})
               = Counted(RepliesDue, {done}) + Counted(lost, {done})
      BY DeliveredOf
    <3> QED
      BY <2>4, <3>1, <3>2
  <2>6. Brings(delivery', done) \/ Brings(lost', done)
    BY <2>2, <2>5, BringsOf
  <2> QED
    BY <2>6 DEF Owed, done, Brings
<1> QED
  BY <1>1, <1>2, <1>3, BelievedOn DEF Sounds

\* The reader holds more.
LEMMA BelievedRead ==
    ASSUME VoicesBelieved, NEW s \in Streams, ReadMore(s)
    PROVE  VoicesBelieved'
BY BelievedOn DEF ReadMore, engineVars, linkVars, Trail, Sounds, Owed, Brings

\* The audio thread: a voice it ends owes the guest a Done.
LEMMA BelievedAudio ==
    ASSUME LinkTyped, VoicesBelieved, Audio
    PROVE  VoicesBelieved'
<1>1. Trail' = Trail /\ UNCHANGED <<eeVoice, delivery, lost>>
  BY DEF Audio, linkVars, guestVars, Trail
<1>2. PICK ended \in SUBSET Sounding :
        /\ voices' = [v \in DOMAIN voices |-> [voices[v] EXCEPT !.playing = @ /\ v \notin ended]]
        /\ LET ids == SetToSeq(ended)
           IN  queued' = queued \o [i \in 1 .. Len(ids) |-> SampleDone(ids[i])]
  BY DEF Audio, Render
<1> DEFINE ids == SetToSeq(ended)
           dones == [i \in 1 .. Len(ids) |-> SampleDone(ids[i])]
<1>3. dones \in Seq(Done) /\ \A v \in ended : \E i \in DOMAIN dones : dones[i] = SampleDone(v)
  BY DonesOf DEF LinkTyped
<1>4. queued' = queued \o dones /\ queued \in Seq(Answer \cup Done)
  BY <1>2 DEF LinkTyped, QueuesTyped
<1> HIDE DEF dones, ids
<1>5. /\ \A i \in DOMAIN queued : i \in DOMAIN queued' /\ queued'[i] = queued[i]
      /\ \A i \in DOMAIN dones : Len(queued) + i \in DOMAIN queued' /\ queued'[Len(queued) + i] = dones[i]
  BY <1>3, <1>4
<1>6. ASSUME NEW v \in Voices, Owed(v) PROVE Owed(v)'
  BY <1>1, <1>5, <1>6 DEF Owed, Brings
<1>7. ASSUME NEW v \in Voices, Sounds(v) PROVE Sounds(v)' \/ Owed(v)'
  <2>1. CASE v \in ended
    BY <1>3, <1>5, <2>1 DEF Owed, Brings
  <2>2. CASE v \notin ended
    BY <1>2, <1>7, <2>2 DEF Sounds, LinkTyped, EngineTyped, Voice
  <2> QED
    BY <2>1, <2>2
<1>8. \A v \in Voices : v \in DOMAIN voices => v \in DOMAIN voices'
  BY <1>2
<1> QED
  BY <1>1, <1>6, <1>7, <1>8, BelievedOn

\* The poll: the guest hears of the sounds that are over, and what it sends
\* besides its calls concerns no voice.
LEMMA BelievedPoll ==
    ASSUME LinkTyped, VoicesBelieved, Poll
    PROVE  VoicesBelieved'
<1>1. phase = "poll" /\ Trail = calls /\ calls' = <<>> /\ delivery' = <<>>
      /\ UNCHANGED <<voices, queued, lost>>
  BY DEF Poll, engineVars, Trail
<1>2. Trail' = flush'
  BY <1>1 DEF Poll, Trail
<1>3. PICK q \in Seq(StreamRecord) :
        flush' = calls \o (IF ShipsChunk THEN <<SpuChunk>> ELSE <<>>) \o q
  BY PollFlush
<1> DEFINE chunk == IF ShipsChunk THEN <<SpuChunk>> ELSE <<>>
<1>4. /\ calls \in Seq(FlushRecord) /\ chunk \in Seq(FlushRecord) /\ q \in Seq(FlushRecord)
      /\ \A i \in DOMAIN chunk : chunk[i] = SpuChunk
  <2>1. GameRecord \subseteq FlushRecord /\ SpuChunk \in FlushRecord /\ StreamRecord \subseteq FlushRecord
    BY DEF FlushRecord
  <2>2. calls \in Seq(GameRecord)
    BY DEF LinkTyped, QueuesTyped
  <2> QED
    BY <2>1, <2>2
<1> HIDE DEF chunk
<1>5. ASSUME NEW v \in Voices
      PROVE  Believed(Trail, v, v \in DOMAIN voices, eeVoice[v], Sounds(v) \/ Owed(v))'
  <2>1. Believed(calls, v, v \in DOMAIN voices, eeVoice[v], Sounds(v) \/ Owed(v))
    BY <1>1 DEF VoicesBelieved
  <2>2. Believed(calls \o chunk, v, v \in DOMAIN voices, eeVoice[v], Sounds(v) \/ Owed(v))
    BY <1>4, <2>1, BelievedMore, Unconcerned
  <2>3. calls \o chunk \in Seq(FlushRecord) /\ \A i \in DOMAIN q : q[i] \in StreamRecord
    BY <1>3, <1>4
  <2>4. Believed((calls \o chunk) \o q, v, v \in DOMAIN voices, eeVoice[v], Sounds(v) \/ Owed(v))
    <3>1. \A i \in DOMAIN q : ~Concerns(q[i], v)
      BY <2>3, Unconcerned
    <3> QED
      BY <1>4, <2>2, <2>3, <3>1, BelievedMore
  <2>5. flush' = (calls \o chunk) \o q
    BY <1>3 DEF chunk
  <2>6. /\ eeVoice'[v] # "none" => eeVoice[v] # "none"
        /\ eeVoice'[v] = "playing" => eeVoice[v] = "playing" /\ ~Brings(delivery, SampleDone(v))
    BY DEF Poll, VoicesAfter
  <2>7. /\ v \in DOMAIN voices => v \in DOMAIN voices'
        /\ Sounds(v) => Sounds(v)'
        /\ Brings(queued, SampleDone(v)) => Brings(queued, SampleDone(v))'
        /\ Brings(lost, SampleDone(v)) => Brings(lost, SampleDone(v))'
    BY <1>1 DEF Sounds, Brings
  <2>8. eeVoice'[v] = "playing" /\ (Sounds(v) \/ Owed(v)) => Sounds(v)' \/ Owed(v)'
    BY <2>6, <2>7 DEF Owed
  <2>9. Believed(flush', v, v \in DOMAIN voices', eeVoice'[v], Sounds(v)' \/ Owed(v)')
    BY <2>4, <2>5, <2>6, <2>7, <2>8 DEF Believed, Lives
  <2> QED
    BY <1>2, <2>9
<1> QED
  BY <1>5 DEF VoicesBelieved

\* The service works off a record.
LEMMA BelievedWalk ==
    ASSUME LinkTyped, VoicesBelieved, Walk
    PROVE  VoicesBelieved'
<1> DEFINE r == Head(flush)
<1>1. /\ Trail = flush /\ Trail' = flush' /\ flush # <<>>
      /\ eeVoice' = eeVoice /\ delivery' = delivery /\ queued' = queued /\ lost' = lost
  BY WorkTyped DEF Walk, Trail, guestVars, LinkTyped
<1>2. /\ flush \in Seq(FlushRecord) /\ Tail(flush) \in Seq(FlushRecord)
      /\ Len(flush) \in Nat /\ Len(Tail(flush)) = Len(flush) - 1 /\ r = flush[1]
      /\ \A i \in 1 .. Len(flush) - 1 : Tail(flush)[i] = flush[i + 1]
  BY <1>1, HeadTyped DEF LinkTyped, QueuesTyped
<1>3. ASSUME NEW v \in Voices
      PROVE  Believed(Trail, v, v \in DOMAIN voices, eeVoice[v], Sounds(v) \/ Owed(v))'
  <2>1. Believed(flush, v, v \in DOMAIN voices, eeVoice[v], Sounds(v) \/ Owed(v))
    BY <1>1 DEF VoicesBelieved
  <2>2. VoiceStep(r, v)
    BY WorkOnVoices DEF Walk, LinkTyped
  <2>3. Owed(v)' <=> Owed(v)
    BY <1>1 DEF Owed, Brings
  <2>4. CASE flush' = Tail(flush)
    <3>1. \/ ~Concerns(r, v) /\ (v \in DOMAIN voices => v \in DOMAIN voices')
             /\ (Sounds(v) \/ Owed(v) => Sounds(v)' \/ Owed(v)')
          \/ r = VoiceCommand("Create", v) /\ v \in DOMAIN voices'
          \/ r = VoiceCommand("Start", v)
             /\ (v \in DOMAIN voices => v \in DOMAIN voices' /\ (Sounds(v)' \/ Owed(v)'))
          \/ r = VoiceCommand("StopSample", v) /\ (v \in DOMAIN voices => v \in DOMAIN voices')
          \/ r = VoiceCommand("DestroySample", v)
      BY <2>2, <2>3 DEF VoiceStep, Concerns, Hushes
    <3> HIDE DEF r
    <3>2. Believed(Tail(flush), v, v \in DOMAIN voices', eeVoice[v], Sounds(v)' \/ Owed(v)')
      BY <1>1, <1>2, <2>1, <3>1, BelievedWork DEF r
    <3> QED
      BY <1>1, <2>4, <3>2
  <2>5. ASSUME NEW x \in Realignments, r.cmd = "SlipStop", flush' = <<x>> \o Tail(flush)
        PROVE  Believed(Trail, v, v \in DOMAIN voices, eeVoice[v], Sounds(v) \/ Owed(v))'
    <3>1. \A w, cmd : cmd \in {"Create", "Start", "StopSample", "DestroySample"} => r # VoiceCommand(cmd, w)
      BY <2>5, VoiceKinds
    <3>2. ~Concerns(r, v) /\ ~Concerns(x, v)
      BY <3>1, Unconcerned DEF Concerns, Hushes
    <3>3. (v \in DOMAIN voices' <=> v \in DOMAIN voices) /\ (Sounds(v)' <=> Sounds(v))
      BY <2>2, <3>1 DEF VoiceStep
    <3> HIDE DEF r
    <3>4. Len(flush) # 0
      BY <1>1, <1>2, EmptySeq
    <3>5. /\ Len(flush') = Len(flush) /\ DOMAIN flush = 1 .. Len(flush) /\ DOMAIN flush' = 1 .. Len(flush)
          /\ flush'[1] = x /\ \A i \in 2 .. Len(flush) : flush'[i] = Tail(flush)[i - 1]
      BY <1>2, <2>5, <3>4
    <3>6. \A i \in DOMAIN flush : flush'[i] = flush[i] \/ (~Concerns(flush'[i], v) /\ ~Concerns(flush[i], v))
      <4> TAKE i \in DOMAIN flush
      <4>1. CASE i = 1
        BY <1>2, <3>2, <3>5, <4>1
      <4>2. CASE i \in 2 .. Len(flush)
        <5>1. i - 1 \in 1 .. Len(flush) - 1 /\ (i - 1) + 1 = i
          BY <1>2, <4>2
        <5> QED
          BY <1>2, <3>5, <4>2, <5>1
      <4>3. i = 1 \/ i \in 2 .. Len(flush)
        BY <1>2, <3>5
      <4> QED
        BY <4>1, <4>2, <4>3
    <3>7. Believed(flush', v, v \in DOMAIN voices, eeVoice[v], Sounds(v) \/ Owed(v))
      BY <1>2, <2>1, <3>5, <3>6, BelievedSame
    <3>8. Believed(flush', v, v \in DOMAIN voices', eeVoice'[v], Sounds(v)' \/ Owed(v)')
      BY <1>1, <2>3, <3>3, <3>7 DEF Believed, Lives
    <3> QED
      BY <1>1, <3>8
  <2> QED
    BY <2>4, <2>5 DEF Walk
<1> QED
  BY <1>3 DEF VoicesBelieved

\* The flush is answered: no Done rides its result.
LEMMA BelievedFinish ==
    ASSUME LinkTyped, VoicesBelieved, FinishFlush
    PROVE  VoicesBelieved'
<1>1. /\ Trail = <<>> /\ Trail' = <<>> /\ voices' = voices
      /\ delivery' = delivery /\ lost' = lost
      /\ queued' = queued \o deferred /\ eeVoice' = VoicesAfter(reply)
  BY DEF FinishFlush, QueueReplies, Trail, LinkTyped, PhasesTyped
<1>2. /\ queued \in Seq(Answer \cup Done) /\ deferred \in Seq(Answer)
  BY DEF LinkTyped, QueuesTyped
<1>3. \A i \in DOMAIN queued : i \in DOMAIN queued' /\ queued'[i] = queued[i]
  BY <1>1, <1>2
<1>4. ASSUME NEW v \in Voices, Sounds(v) \/ Owed(v) PROVE Sounds(v)' \/ Owed(v)'
  BY <1>1, <1>3, <1>4 DEF Sounds, Owed, Brings
<1>5. ASSUME NEW v \in Voices
      PROVE  Believed(<<>>, v, v \in DOMAIN voices', eeVoice'[v], Sounds(v)' \/ Owed(v)')
  <2>1. Believed(<<>>, v, v \in DOMAIN voices, eeVoice[v], Sounds(v) \/ Owed(v))
    BY <1>1 DEF VoicesBelieved
  <2>2. /\ eeVoice'[v] # "none" => eeVoice[v] # "none"
        /\ eeVoice'[v] = "playing" => eeVoice[v] = "playing"
    BY <1>1 DEF VoicesAfter
  <2> QED
    BY <1>1, <1>4, <2>1, <2>2 DEF Believed, Lives
<1> QED
  BY <1>1, <1>5 DEF VoicesBelieved

\* Every step keeps what the guest believes.
LEMMA BelievedSteps ==
    ASSUME LinkTyped, LinkTyped', VoicesBelieved, Next
    PROVE  VoicesBelieved'
BY WalkOf, BelievedGame, BelievedRead, BelievedDeliver, BelievedPoll, BelievedWalk, BelievedFinish,
   BelievedAudio DEF Next

\* A voice the guest believes is playing is playing, or its start or its Done
\* is still under way (the replies of mixVoices and the guest's queue of calls).
THEOREM DoneComesBackHolds == Spec => []DoneComesBack
<1>1. Init => VoicesBelieved
  BY DEF Init, EngineInit, VoicesBelieved, Believed, Trail
<1>2. InStep /\ InStep' /\ VoicesBelieved /\ [Next]_vars => VoicesBelieved'
  <2> SUFFICES ASSUME InStep, InStep', VoicesBelieved, [Next]_vars PROVE VoicesBelieved'
    OBVIOUS
  <2>1. LinkTyped /\ LinkTyped'
    BY DEF InStep
  <2>2. CASE Next
    BY <2>1, <2>2, BelievedSteps
  <2>3. CASE UNCHANGED vars
    BY <2>3, BelievedOn DEF vars, engineVars, linkVars, guestVars, Trail, Sounds, Owed, Brings
  <2> QED
    BY <2>2, <2>3
<1>3. InStep /\ VoicesBelieved => DoneComesBack
  <2> SUFFICES ASSUME InStep, VoicesBelieved, NEW v \in Voices, eeVoice[v] = "playing", ~Sounds(v)
               PROVE  \/ Times(queued \o delivery \o lost, SampleDone(v)) > 0
                      \/ Times(calls \o flush, VoiceCommand("Start", v)) > 0
    BY DEF DoneComesBack, Sounds
  <2>1. /\ calls \in Seq(FlushRecord) /\ flush \in Seq(FlushRecord)
        /\ queued \in Seq(Reply) /\ delivery \in Seq(Reply) /\ lost \in Seq(Reply)
    <3>1. GameRecord \subseteq FlushRecord /\ Answer \cup Done \subseteq Reply
      BY DEF FlushRecord, Reply
    <3>2. /\ calls \in Seq(GameRecord) /\ flush \in Seq(FlushRecord)
          /\ queued \in Seq(Answer \cup Done) /\ delivery \in Seq(Reply) /\ lost \in Seq(Reply)
      BY DEF InStep, LinkTyped, QueuesTyped
    <3> QED
      BY <3>1, <3>2
  <2>2. ASSUME NEW X, NEW q \in Seq(X), NEW u \in Seq(X), NEW x,
               (\E i \in DOMAIN q : q[i] = x) \/ (\E i \in DOMAIN u : u[i] = x)
        PROVE  Times(q \o u, x) > 0
    <3>1. Counted(q, {x}) \in Nat /\ Counted(u, {x}) \in Nat
      BY CountedType
    <3>2. Counted(q, {x}) # 0 \/ Counted(u, {x}) # 0
      <4>1. (\E i \in DOMAIN q : q[i] \in {x}) \/ (\E i \in DOMAIN u : u[i] \in {x})
        BY <2>2
      <4> QED
        BY <4>1, CountedType
    <3>3. Times(q \o u, x) = Counted(q, {x}) + Counted(u, {x})
      BY TimesCounted, CountedConcat
    <3> QED
      BY <3>1, <3>2, <3>3
  <2>3. \/ \E i \in DOMAIN Trail : Trail[i] = VoiceCommand("Start", v)
        \/ Owed(v)
    BY DEF VoicesBelieved, Believed
  <2>4. CASE Owed(v)
    <3> DEFINE x == SampleDone(v)
               qd == queued \o delivery
    <3>1. qd \in Seq(Reply)
      BY <2>1
    <3>2. Counted(qd, {x}) = Counted(queued, {x}) + Counted(delivery, {x})
      <4> HIDE DEF x
      <4> QED
        BY <2>1, CountedConcat
    <3>3. Brings(queued, x) \/ Brings(delivery, x) \/ Brings(lost, x)
      BY <2>4 DEF Owed
    <3> HIDE DEF x, qd
    <3>4. Counted(qd \o lost, {x}) = Counted(qd, {x}) + Counted(lost, {x})
      BY <2>1, <3>1, CountedConcat
    <3>5. Counted(queued, {x}) \in Nat /\ Counted(delivery, {x}) \in Nat /\ Counted(lost, {x}) \in Nat
      BY <2>1, CountedType
    <3>6. Counted(queued, {x}) > 0 \/ Counted(delivery, {x}) > 0 \/ Counted(lost, {x}) > 0
      BY <2>1, <3>3, BringsOf
    <3>7. Counted(qd \o lost, {x}) > 0
      BY <3>2, <3>4, <3>5, <3>6
    <3>8. Times(queued \o delivery \o lost, SampleDone(v)) = Counted(qd \o lost, {x})
      BY TimesCounted DEF qd, x
    <3> QED
      BY <3>7, <3>8
  <2>5. CASE \E i \in DOMAIN Trail : Trail[i] = VoiceCommand("Start", v)
    BY <2>1, <2>2, <2>5 DEF Trail
  <2> QED
    BY <2>3, <2>4, <2>5
<1>4. Spec => []VoicesBelieved
  BY <1>1, <1>2, AlwaysInStep, PTL DEF Spec
<1> QED
  BY <1>3, <1>4, AlwaysInStep, PTL

----------------------------------------------------------------------------
(* The data of a stream *)

\* The samples that are on their way to a channel: the records of the flush
\* bring them, the one after its target is the first.
Coming(s, c) ==
    Loaded(flush, s, c) + (IF dataTarget = <<s, c>> THEN flush[1].len ELSE 0)

\* Two sequences put together.
LEMMA ConcatOf ==
    ASSUME NEW X, NEW a \in Seq(X), NEW b \in Seq(X)
    PROVE  /\ a \o b \in Seq(X) /\ Len(a) \in Nat /\ Len(b) \in Nat /\ Len(a \o b) = Len(a) + Len(b)
           /\ \A i \in 1 .. Len(a) + Len(b) : (a \o b)[i] = IF i <= Len(a) THEN a[i] ELSE b[i - Len(a)]
OBVIOUS

\* Sequences with the same elements are the same.
LEMMA SameSequence ==
    ASSUME NEW X, NEW a \in Seq(X), NEW b \in Seq(X), Len(a) = Len(b), \A i \in 1 .. Len(b) : a[i] = b[i]
    PROVE  a = b
<1>1. /\ DOMAIN a = 1 .. Len(b) /\ DOMAIN b = 1 .. Len(b)
      /\ a = [i \in DOMAIN a |-> a[i]] /\ b = [i \in DOMAIN b |-> b[i]]
  OBVIOUS
<1> QED
  BY <1>1

\* A sequence is its first two elements and the others.
LEMMA PairBefore ==
    ASSUME NEW X, NEW h \in Seq(X), NEW w \in Seq(X), NEW q \in Seq(X),
           Len(h) = 2, Len(q) = Len(w) + 2
    PROVE  h[1] = q[1] /\ h[2] = q[2] /\ (\A i \in 1 .. Len(w) : w[i] = q[i + 2]) => q = h \o w
<1> DEFINE p == h \o w
<1>1. /\ p \in Seq(X) /\ Len(p) = Len(h) + Len(w) /\ Len(w) \in Nat
      /\ \A i \in 1 .. Len(h) + Len(w) : p[i] = IF i <= Len(h) THEN h[i] ELSE w[i - Len(h)]
  BY ConcatOf, ZenonT(60)
<1> HIDE DEF p
<1> SUFFICES ASSUME h[1] = q[1], h[2] = q[2], \A i \in 1 .. Len(w) : w[i] = q[i + 2]
             PROVE  p = q
  BY DEF p
<1>2. \A i \in 1 .. Len(q) : p[i] = q[i]
  <2> TAKE i \in 1 .. Len(q)
  <2>1. Len(h) + Len(w) = Len(q)
    BY <1>1
  <2>2. CASE i = 1 \/ i = 2
    <3>1. p[i] = h[i]
      BY <1>1, <2>1, <2>2
    <3> QED
      BY <2>2, <3>1
  <2>3. CASE i - 2 \in 1 .. Len(w)
    <3>1. i \in 1 .. Len(h) + Len(w) /\ ~(i <= Len(h)) /\ i - Len(h) = i - 2 /\ (i - 2) + 2 = i
      BY <1>1, <2>1, <2>3
    <3>2. p[i] = w[i - 2]
      BY <1>1, <3>1
    <3> QED
      BY <2>3, <3>1, <3>2
  <2>4. i = 1 \/ i = 2 \/ i - 2 \in 1 .. Len(w)
    BY <1>1
  <2> QED
    BY <2>2, <2>3, <2>4
<1>3. p = q
  <2>1. Len(p) = Len(q)
    BY <1>1
  <2> QED
    BY <1>1, <1>2, <2>1, SameSequence
<1> QED
  BY <1>3
\* The first record of a flush takes its data with it, which is behind it.
LEMMA LoadedHead ==
    ASSUME NEW q \in Seq(FlushRecord), q # <<>>, Fitted(q), NEW s, NEW c
    PROVE  /\ Fitted(Tail(q)) /\ Loaded(q, s, c) \in Nat /\ Loaded(Tail(q), s, c) \in Nat
           /\ Head(q).cmd # "DataTarget" => Loaded(q, s, c) = Loaded(Tail(q), s, c)
           /\ \A t \in Streams, d \in Channels : Head(q) = Target(t, d) =>
                /\ Tail(q)[1].len \in Nat
                /\ Loaded(q, s, c)
                     = Loaded(Tail(q), s, c) + (IF t = s /\ d = c THEN Tail(q)[1].len ELSE 0)
<1> DEFINE u == Tail(q)
<1>1. /\ Len(q) \in Nat \ {0} /\ u \in Seq(FlushRecord) /\ Len(u) = Len(q) - 1
      /\ DOMAIN q = 1 .. Len(q) /\ DOMAIN u = 1 .. Len(q) - 1 /\ Head(q) = q[1]
      /\ \A i \in 1 .. Len(q) - 1 : u[i] = q[i + 1]
  <2>1. Len(q) # 0
    BY EmptySeq
  <2> QED
    BY <2>1
<1> HIDE DEF u
<1>2. Fitted(u)
  <2>1. ASSUME NEW i \in DOMAIN u, u[i].cmd = "DataTarget" PROVE i < Len(u) /\ u[i + 1].cmd = "Data"
    <3>1. i + 1 \in DOMAIN q /\ q[i + 1].cmd = "DataTarget"
      BY <1>1, <2>1
    <3>2. i + 1 < Len(q) /\ q[(i + 1) + 1].cmd = "Data"
      BY <3>1 DEF Fitted, Paired
    <3>3. i + 1 \in 1 .. Len(q) - 1
      BY <1>1, <3>2
    <3> QED
      BY <1>1, <3>2, <3>3
  <2>2. ASSUME NEW i \in DOMAIN u, u[i].cmd = "Data" PROVE u[i].len \in Nat
    <3>1. i + 1 \in DOMAIN q /\ q[i + 1] = u[i]
      BY <1>1
    <3> QED
      BY <2>2, <3>1 DEF Fitted
  <2> QED
    BY <2>1, <2>2 DEF Fitted, Paired
<1>3. Loaded(q, s, c) \in Nat /\ Loaded(u, s, c) \in Nat
  BY <1>1, <1>2, LoadFinite
<1>4. ASSUME NEW x \in FlushRecord, x.cmd # "DataTarget", x.cmd = "Data" => x.len \in Nat
      PROVE  <<x>> \in Seq(FlushRecord) /\ Fitted(<<x>>) /\ Loaded(<<x>>, s, c) = 0
  <2>1. /\ <<x>> \in Seq(FlushRecord) /\ Len(<<x>>) = 1 /\ DOMAIN <<x>> = {1} /\ <<x>>[1] = x
    OBVIOUS
  <2>2. Fitted(<<x>>)
    BY <1>4, <2>1 DEF Fitted, Paired
  <2>3. x # Target(s, c)
    BY <1>4, RecordKinds
  <2>4. \A i \in 1 .. Len(<<x>>) : <<x>>[i] # Target(s, c)
    BY <2>1, <2>3
  <2> QED
    BY <2>1, <2>2, <2>4, LoadedNone
<1>5. ASSUME Head(q).cmd # "DataTarget" PROVE Loaded(q, s, c) = Loaded(u, s, c)
  <2>1. Head(q) \in FlushRecord /\ (Head(q).cmd = "Data" => Head(q).len \in Nat)
    BY <1>1 DEF Fitted
  <2> DEFINE h == <<Head(q)>>
  <2>2. q = h \o u
    BY <1>1 DEF u
  <2>3. h \in Seq(FlushRecord) /\ Fitted(h) /\ Loaded(h, s, c) = 0
    BY <1>4, <1>5, <2>1
  <2> HIDE DEF h
  <2>4. Loaded(h \o u, s, c) = Loaded(h, s, c) + Loaded(u, s, c)
    BY <1>1, <1>2, <2>3, LoadedConcat
  <2> QED
    BY <1>3, <2>2, <2>3, <2>4
<1>6. ASSUME NEW t \in Streams, NEW d \in Channels, Head(q) = Target(t, d)
      PROVE  /\ u[1].len \in Nat
             /\ Loaded(q, s, c) = Loaded(u, s, c) + (IF t = s /\ d = c THEN u[1].len ELSE 0)
  <2>1. 1 < Len(q) /\ q[2].cmd = "Data" /\ u[1] = q[2] /\ 1 \in DOMAIN u
    <3>1. 1 \in DOMAIN q /\ q[1].cmd = "DataTarget"
      BY <1>1, <1>6, RecordKinds
    <3>2. 1 < Len(q) /\ q[1 + 1].cmd = "Data"
      BY <3>1 DEF Fitted, Paired
    <3>3. 1 \in 1 .. Len(q) - 1
      BY <1>1, <3>2
    <3> QED
      BY <1>1, <3>2, <3>3
  <2>2. PICK n \in Nat : u[1] = DataRecord(n)
    <3>1. u[1] \in FlushRecord
      BY <1>1, <2>1
    <3> QED
      BY <2>1, <3>1, Kinds
  <2>3. u[1].len = n /\ u[1].cmd = "Data" /\ u # <<>> /\ Head(u) = u[1]
    BY <1>1, <2>1, <2>2, RecordKinds
  <2> DEFINE w == Tail(u)
             h == <<Target(t, d), DataRecord(n)>>
             g == <<u[1]>>
  <2>4. /\ w \in Seq(FlushRecord) /\ q = h \o w /\ u = g \o w
    <3>1. /\ w \in Seq(FlushRecord) /\ Len(w) = Len(q) - 2 /\ \A i \in 1 .. Len(q) - 2 : w[i] = q[i + 2]
      BY <1>1, <2>1, <2>3
    <3>2. u = g \o w
      BY <1>1, <2>3
    <3>3. h \in Seq(FlushRecord) /\ Len(h) = 2 /\ h[1] = q[1] /\ h[2] = q[2]
      <4>1. Target(t, d) \in FlushRecord /\ DataRecord(n) \in FlushRecord
        BY <1>1, <1>6, <2>1, <2>2
      <4> QED
        BY <1>1, <1>6, <2>1, <2>2, <4>1
    <3> HIDE DEF w, h
    <3>4. Len(q) = Len(w) + 2 /\ \A i \in 1 .. Len(w) : w[i] = q[i + 2]
      BY <1>1, <3>1
    <3>5. q = h \o w
      BY <3>1, <3>3, <3>4, PairBefore
    <3> QED
      BY <3>1, <3>2, <3>5
  <2>5. /\ h \in Seq(FlushRecord) /\ Fitted(h)
        /\ Loaded(h, s, c) = IF s = t /\ c = d THEN n ELSE 0
    <3>1. Targets \cup Loads \subseteq FlushRecord
      BY DEF FlushRecord, StreamRecord
    <3> QED
      BY <3>1, LoadedPair
  <2>6. g \in Seq(FlushRecord) /\ Fitted(g) /\ Loaded(g, s, c) = 0
    BY <1>1, <1>4, <2>1, <2>2, <2>3
  <2>7. Fitted(w)
    <3>1. ASSUME NEW i \in DOMAIN w
          PROVE  /\ i + 1 \in DOMAIN u /\ u[i + 1] = w[i]
                 /\ i < Len(w) <=> i + 1 < Len(u)
                 /\ i < Len(w) => u[(i + 1) + 1] = w[i + 1]
      BY <1>1, <2>1, <2>3
    <3> HIDE DEF w
    <3> QED
      BY <1>2, <3>1 DEF Fitted, Paired
  <2> HIDE DEF w, h, g
  <2>8. /\ Loaded(h \o w, s, c) = Loaded(h, s, c) + Loaded(w, s, c)
        /\ Loaded(g \o w, s, c) = Loaded(g, s, c) + Loaded(w, s, c)
    BY <2>4, <2>5, <2>6, <2>7, LoadedConcat
  <2>9. Loaded(w, s, c) \in Nat
    BY <2>4, <2>7, LoadFinite
  <2> QED
    BY <2>3, <2>4, <2>5, <2>6, <2>8, <2>9
<1> QED
  BY <1>2, <1>3, <1>5, <1>6 DEF u


\* The records of a flush whose targets have their data fit together.
LEMMA FlushFits == ASSUME NEW q \in Seq(FlushRecord), Paired(q) PROVE Fitted(q)
<1>1. ASSUME NEW i \in DOMAIN q, q[i].cmd = "Data" PROVE q[i].len \in Nat
  <2>1. q[i] \in FlushRecord
    OBVIOUS
  <2> QED
    BY <1>1, <2>1, FlushKinds, RecordKinds
<1> QED
  BY <1>1 DEF Fitted

\* Nothing is coming where no record is headed for.
LEMMA NothingComing ==
    ASSUME NEW s, NEW c
    PROVE  /\ LinkTyped /\ ~Targeted(s, c) => Coming(s, c) = 0
           /\ LinkTyped' /\ ~Targeted(s, c)' => Coming(s, c)' = 0
<1>1. ASSUME LinkTyped, ~Targeted(s, c) PROVE Coming(s, c) = 0
  <2>1. DOMAIN flush = 1 .. Len(flush)
    BY <1>1 DEF LinkTyped, QueuesTyped
  <2>2. Loaded(flush, s, c) = 0
    BY <1>1, <2>1, LoadedNone DEF Targeted
  <2> QED
    BY <1>1, <2>2 DEF Coming, Targeted
<1>2. ASSUME LinkTyped', ~Targeted(s, c)' PROVE Coming(s, c)' = 0
  <2>1. DOMAIN flush' = 1 .. Len(flush')
    BY <1>2 DEF LinkTyped, QueuesTyped
  <2>2. Loaded(flush', s, c) = 0
    BY <1>2, <2>1, LoadedNone DEF Targeted
  <2> QED
    BY <1>2, <2>2 DEF Coming, Targeted
<1> QED
  BY <1>1, <1>2

\* A data record brings the channel it is for what is coming to it, and no
\* other record changes what is coming.
LEMMA ComingWalk ==
    ASSUME LinkTyped, FlushOrdered, Walk, NEW s \in Streams, NEW c \in Channels
    PROVE  LET r == Head(flush)
           IN  /\ Coming(s, c) \in Nat /\ Coming(s, c)' \in Nat
               /\ r.cmd = "Data" /\ dataTarget = <<s, c>> =>
                    r.len \in Nat /\ Coming(s, c) = Coming(s, c)' + r.len
               /\ ~(r.cmd = "Data" /\ dataTarget = <<s, c>>) => Coming(s, c)' = Coming(s, c)
<1> DEFINE r == Head(flush)
           u == Tail(flush)
<1>1. /\ flush # <<>> /\ flush \in Seq(FlushRecord) /\ r \in FlushRecord /\ r = flush[1]
  BY HeadTyped DEF Walk, LinkTyped, QueuesTyped
<1>2. Fitted(flush)
  BY <1>1, FlushFits DEF FlushOrdered
<1>3. /\ Fitted(u) /\ Loaded(flush, s, c) \in Nat /\ Loaded(u, s, c) \in Nat
      /\ r.cmd # "DataTarget" => Loaded(flush, s, c) = Loaded(u, s, c)
      /\ \A t \in Streams, d \in Channels : r = Target(t, d) =>
           /\ u[1].len \in Nat
           /\ Loaded(flush, s, c) = Loaded(u, s, c) + (IF t = s /\ d = c THEN u[1].len ELSE 0)
  BY <1>1, <1>2, LoadedHead
<1>4. Loaded(flush', s, c) = Loaded(u, s, c) /\ (r.cmd # "SlipStop" => flush' = u)
  <2>1. CASE flush' = u
    BY <2>1, SMTT(40)
  <2>2. CASE r.cmd = "SlipStop" /\ \E x \in Realignments : flush' = <<x>> \o u
    <3>1. PICK x \in Realignments : flush' = <<x>> \o u
      BY <2>2
    <3>2. x \in GameRecord /\ x \in FlushRecord /\ x.cmd # "DataTarget"
      <4>1. x \in GameRecord /\ x \in FlushRecord
        BY DEF GameRecord, FlushRecord
      <4> QED
        BY <4>1, RecordKinds
    <3>3. u \in Seq(FlushRecord)
      BY <1>1, HeadTyped DEF LinkTyped
    <3> HIDE DEF u
    <3>4. /\ flush' \in Seq(FlushRecord) /\ flush' # <<>> /\ Head(flush') = x /\ Tail(flush') = u
      BY <3>1, <3>2, <3>3
    <3>5. Fitted(flush')
      BY <3>4, FlushAdvances, FlushFits DEF FlushOrdered
    <3> QED
      BY <2>2, <3>2, <3>4, <3>5, LoadedHead
  <2> QED
    BY <2>1, <2>2 DEF Walk
<1>5. \/ dataTarget' = dataTarget /\ r.cmd \notin {"DataTarget", "Data"}
      \/ \E t \in Streams, d \in Channels : r = Target(t, d) /\ dataTarget' = <<t, d>>
      \/ r.cmd = "Data" /\ dataTarget' = NoTarget
  <2>1. StreamWork(r) \/ VoiceWork(r) \/ AnswerWork(r)
    BY DEF Walk
  <2> QED
    BY <2>1, TargetWork DEF LinkTyped
<1>6. dataTarget # NoTarget => r.cmd = "Data"
  BY <1>1 DEF FlushOrdered
<1>7. <<s, c>> # NoTarget
  BY DEF NoTarget
<1>8. r.cmd = "Data" => r.len \in Nat
  BY <1>1, FlushKinds, RecordKinds
<1> DEFINE n == Loaded(u, s, c)
<1>9. /\ Coming(s, c) = Loaded(flush, s, c) + (IF dataTarget = <<s, c>> THEN r.len ELSE 0)
      /\ Coming(s, c)' = n + (IF dataTarget' = <<s, c>> THEN flush'[1].len ELSE 0)
  BY <1>1, <1>4 DEF Coming
<1>10. \A t, d : Target(t, d).cmd = "DataTarget"
  BY RecordKinds
<1> HIDE DEF r, u, n
<1>11. CASE dataTarget' = dataTarget /\ r.cmd \notin {"DataTarget", "Data"}
  BY <1>3, <1>6, <1>7, <1>9, <1>11 DEF n
<1>12. CASE \E t \in Streams, d \in Channels : r = Target(t, d) /\ dataTarget' = <<t, d>>
  <2>1. PICK t \in Streams, d \in Channels : r = Target(t, d) /\ dataTarget' = <<t, d>>
    BY <1>12
  <2>2. flush' = u /\ r.cmd = "DataTarget" /\ dataTarget # <<s, c>>
    BY <1>4, <1>6, <1>7, <1>10, <2>1
  <2>3. <<t, d>> = <<s, c>> <=> t = s /\ d = c
    OBVIOUS
  <2> QED
    BY <1>3, <1>9, <2>1, <2>2, <2>3 DEF n
<1>13. CASE r.cmd = "Data" /\ dataTarget' = NoTarget
  <2>1. /\ Loaded(flush, s, c) = n /\ n \in Nat /\ r.len \in Nat
        /\ dataTarget' # <<s, c>>
    BY <1>3, <1>7, <1>8, <1>13 DEF n
  <2>2. Coming(s, c) = n + (IF dataTarget = <<s, c>> THEN r.len ELSE 0) /\ Coming(s, c)' = n
    BY <1>9, <2>1
  <2> QED
    BY <1>13, <2>1, <2>2 DEF r
<1> QED
  BY <1>5, <1>11, <1>12, <1>13 DEF r

\* A stream that exists was described by the guest.
Known == \A s \in DOMAIN streams : eeStream[s] # "none"

\* A stream is sent nothing before it is ready.
Unsent == \A s \in Streams, c \in Channels : eeStream[s] \in {"none", "asked"} => sent[s][c] = 0

\* What a channel was sent is played, held or coming; nothing is coming that it
\* does not await, and it is not asked of the guest but for what it awaits.
ChannelBalanced(c, ch, coming, total, asked) ==
    /\ ch.pos + ch.pcm + coming = total
    /\ coming <= ch.inflight
    /\ asked * RequestLen <= ch.inflight
    /\ c \notin Bendable => ch.pcm + ch.inflight < TargetLen + RequestLen

Balanced ==
    \A s \in DOMAIN streams, c \in Channels :
        ChannelBalanced(c, streams[s].channels[c], Coming(s, c), sent[s][c],
                        Times(delivery, DataRequest(s, c)))

\* The inductive invariant of a stream's data.
DataKept == Known /\ Unsent /\ Balanced

\* No reply is delivered to a guest that does not poll.
LEMMA NothingDelivered == \A x : delivery = <<>> => Times(delivery, x) = 0
  BY TimesCounted, CountedNone

LEMMA NothingDeliveredNext == \A x : delivery' = <<>> => Times(delivery', x) = 0
  BY TimesCounted, CountedNone

\* What a record does to a channel keeps it balanced.
LEMMA BalancedWork ==
    ASSUME NEW ch \in Channel, NEW n \in Nat, NEW total \in Nat, NEW c,
           ChannelBalanced(c, ch, n, total, 0)
    PROVE  /\ \A len, m \in Nat : n = m + len => ChannelBalanced(c, Fed(ch, len), m, total, 0)
           /\ n = 0 => \A anyGot \in BOOLEAN : ChannelBalanced(c, BatchEnded(ch, anyGot), 0, total, 0)
           /\ ChannelBalanced(c, [ch EXCEPT !.slipping = TRUE], n, total, 0)
           /\ ChannelBalanced(c, [ch EXCEPT !.slipping = FALSE], n, total, 0)
           /\ c \in Bendable => \A delta \in Int : ChannelBalanced(c, MovedTo(ch, delta), n, total, 0)
<1>0. RequestLen \in Nat \ {0} /\ TargetLen \in Nat \ {0}
  BY EngineAssumption
<1> DEFINE p == ch.pcm
           f == ch.inflight
           o == ch.pos
<1>1. p \in Nat /\ f \in Nat /\ o \in Int
  BY DEF Channel
<1>2. o + p + n = total /\ n <= f /\ (c \notin Bendable => p + f < TargetLen + RequestLen)
  BY DEF ChannelBalanced
<1>3. ASSUME NEW len \in Nat, NEW m \in Nat, n = m + len PROVE ChannelBalanced(c, Fed(ch, len), m, total, 0)
  <2> DEFINE to == Fed(ch, len)
  <2>1. to.pcm = p + len /\ to.inflight = (IF f > len THEN f - len ELSE 0) /\ to.pos = o
    BY DEF Fed, Channel
  <2> HIDE DEF p, f, o, to
  <2>2. to.inflight = f - len
    BY <1>1, <1>2, <1>3, <2>1
  <2>3. to.pos + to.pcm + m = total /\ m <= to.inflight /\ to.pcm + to.inflight = p + f /\ 0 <= to.inflight
    BY <1>1, <1>2, <1>3, <2>1, <2>2
  <2>4. 0 * RequestLen = 0
    BY <1>0
  <2> QED
    BY <1>0, <1>2, <2>3, <2>4 DEF ChannelBalanced, to
<1>4. ASSUME n = 0, NEW anyGot \in BOOLEAN PROVE ChannelBalanced(c, BatchEnded(ch, anyGot), 0, total, 0)
  <2> DEFINE to == BatchEnded(ch, anyGot)
  <2>1. to.pcm = p /\ to.inflight = 0 /\ to.pos = o
    BY DEF BatchEnded, Channel
  <2> HIDE DEF p, f, o, to
  <2>2. 0 * RequestLen = 0
    BY <1>0
  <2>3. to.pos + to.pcm + 0 = total /\ (c \notin Bendable => to.pcm + to.inflight < TargetLen + RequestLen)
    BY <1>0, <1>1, <1>2, <1>4, <2>1
  <2> QED
    BY <2>1, <2>2, <2>3 DEF ChannelBalanced, to
<1>5. ASSUME NEW b \in BOOLEAN PROVE ChannelBalanced(c, [ch EXCEPT !.slipping = b], n, total, 0)
  <2>1. /\ [ch EXCEPT !.slipping = b].pcm = p /\ [ch EXCEPT !.slipping = b].inflight = f
        /\ [ch EXCEPT !.slipping = b].pos = o
    BY DEF Channel
  <2> QED
    BY <2>1 DEF ChannelBalanced
<1>6. ASSUME c \in Bendable, NEW delta \in Int PROVE ChannelBalanced(c, MovedTo(ch, delta), n, total, 0)
  <2> DEFINE move == IF delta > 0 THEN Least(delta, ch.pcm) ELSE delta
             to == MovedTo(ch, delta)
  <2>1. to.pcm = p - move /\ to.inflight = f /\ to.pos = o + move
    BY DEF MovedTo, Channel
  <2>2. move \in Int
    BY <1>1 DEF Least
  <2> HIDE DEF p, f, o, to, move
  <2>3. to.pos + to.pcm + n = total
    BY <1>1, <1>2, <2>1, <2>2
  <2>4. 0 * RequestLen = 0
    BY <1>0
  <2> QED
    BY <1>1, <1>2, <1>6, <2>1, <2>3, <2>4 DEF ChannelBalanced, to
<1> QED
  BY <1>3, <1>4, <1>5, <1>6

\* A record worked off keeps the data of the streams.
LEMMA DataWalk ==
    ASSUME LinkTyped, LinkTyped', Walk, Answered, FlushOrdered, DataKept
    PROVE  DataKept'
<1> DEFINE r == Head(flush)
<1>1. /\ FlushOrdered'
      /\ \A s \in Streams, c \in Channels : Targeted(s, c)' => r # Command("BatchEnd", s)
  BY WalkOrders
<1>2. delivery = <<>> /\ delivery' = <<>>
  BY DEF Walk, LinkTyped, PhasesTyped
<1>3. eeStream' = eeStream /\ sent' = sent /\ sent \in [Streams -> [Channels -> Nat]]
  BY DEF Walk, guestVars, LinkTyped, GuestTyped
<1>4. \A x : Times(delivery, x) = 0 /\ Times(delivery', x) = 0
  BY <1>2, NothingDelivered, NothingDeliveredNext
<1>5. Unsent'
  BY <1>3 DEF DataKept, Unsent
<1>6. ASSUME NEW s \in DOMAIN streams', NEW c \in Channels
      PROVE  /\ eeStream[s] # "none"
             /\ ChannelBalanced(c, streams'[s].channels[c], Coming(s, c)', sent[s][c], 0)
  <2>0. s \in Streams
    BY DEF LinkTyped, EngineTyped
  <2>1. StreamStep(r, s)
    <3>1. StreamWork(r) \/ VoiceWork(r) \/ AnswerWork(r)
      BY DEF Walk
    <3> QED
      BY <3>1, WorkOnStreams DEF LinkTyped
  <2>2. CASE r = Command("StreamInfo", s) /\ streams'[s] = NewStream
    <3>1. eeStream[s] = "asked"
      <4>1. r \in Asks /\ flush # <<>>
        BY <2>0, <2>2, AsksKinds DEF Walk
      <4>2. Awaits(r)
        BY <4>1, HeadAwaited
      <4> QED
        BY <2>2, <4>2, AwaitsOf
    <3>2. Coming(s, c)' = 0
      <4>1. ~Targeted(s, c)'
        BY <1>1, <1>3, <2>0, <3>1 DEF FlushOrdered
      <4> QED
        BY <4>1, NothingComing
    <3>3. sent[s][c] = 0
      BY <2>0, <3>1 DEF DataKept, Unsent
    <3>4. LET ch == streams'[s].channels[c] IN ch.pcm = 0 /\ ch.pos = 0 /\ ch.inflight = 0
      BY <2>2 DEF NewStream, NewChannel
    <3>5. 0 * RequestLen = 0 /\ 0 + 0 < TargetLen + RequestLen
      BY EngineAssumption
    <3> QED
      BY <3>1, <3>2, <3>3, <3>4, <3>5 DEF ChannelBalanced
  <2>3. CASE s \in DOMAIN streams /\ ChannelWork(r, s, c)
    <3> DEFINE ch == streams[s].channels[c]
               to == streams'[s].channels[c]
               n == Coming(s, c)
               m == Coming(s, c)'
               total == sent[s][c]
    <3>1. ch \in Channel
      BY <2>3 DEF LinkTyped, EngineTyped, Stream
    <3>2. ChannelBalanced(c, ch, n, total, 0)
      <4>1. Times(delivery, DataRequest(s, c)) = 0
        BY <1>4
      <4> QED
        BY <2>3, <4>1 DEF DataKept, Balanced
    <3>3. /\ n \in Nat /\ m \in Nat /\ total \in Nat
          /\ r.cmd = "Data" /\ dataTarget = <<s, c>> => r.len \in Nat /\ n = m + r.len
          /\ ~(r.cmd = "Data" /\ dataTarget = <<s, c>>) => m = n
      BY <1>3, <2>0, ComingWalk
    <3>4. r = Command("BatchEnd", s) => m = 0 /\ r.cmd # "Data"
      <4> SUFFICES ASSUME r = Command("BatchEnd", s) PROVE m = 0 /\ r.cmd # "Data"
        OBVIOUS
      <4>1. ~Targeted(s, c)'
        BY <1>1, <2>0
      <4>2. r.cmd = "BatchEnd"
        BY RecordKinds
      <4> QED
        BY <4>1, <4>2, NothingComing
    <3>5. ASSUME r.cmd # "Data"
          PROVE  m = n
      BY <3>3, <3>5
    <3>6. ChannelWork(r, s, c)
      BY <2>3
    <3>7. \/ to = ch /\ m = n
          \/ n = 0 /\ m = 0 /\ \E anyGot \in BOOLEAN : to = BatchEnded(ch, anyGot)
          \/ r.len \in Nat /\ n = m + r.len /\ to = Fed(ch, r.len)
          \/ m = n /\ to = [ch EXCEPT !.slipping = TRUE]
          \/ m = n /\ to = [ch EXCEPT !.slipping = FALSE]
          \/ m = n /\ c \in Bendable /\ \E delta \in Int : to = MovedTo(ch, delta)
      <4> HIDE DEF n, m, r
      <4> QED
        BY <3>3, <3>4, <3>5, <3>6 DEF ChannelWork
    <3> HIDE DEF ch, to, n, m, total, r
    <3>8. ChannelBalanced(c, to, m, total, 0)
      <4>1. CASE n = 0 /\ m = 0 /\ \E anyGot \in BOOLEAN : to = BatchEnded(ch, anyGot)
        BY <3>1, <3>2, <3>3, <4>1, BalancedWork
      <4>2. CASE r.len \in Nat /\ n = m + r.len /\ to = Fed(ch, r.len)
        BY <3>1, <3>2, <3>3, <4>2, BalancedWork
      <4>3. CASE m = n /\ (to = [ch EXCEPT !.slipping = TRUE] \/ to = [ch EXCEPT !.slipping = FALSE])
        <5>1. /\ ChannelBalanced(c, [ch EXCEPT !.slipping = TRUE], n, total, 0)
              /\ ChannelBalanced(c, [ch EXCEPT !.slipping = FALSE], n, total, 0)
          BY <3>1, <3>2, <3>3, BalancedWork
        <5> QED
          BY <4>3, <5>1
      <4>4. CASE m = n /\ c \in Bendable /\ \E delta \in Int : to = MovedTo(ch, delta)
        <5>1. \A delta \in Int : ChannelBalanced(c, MovedTo(ch, delta), n, total, 0)
          BY <3>1, <3>2, <3>3, <4>4, BalancedWork
        <5> QED
          BY <4>4, <5>1
      <4> QED
        BY <3>2, <3>7, <4>1, <4>2, <4>3, <4>4
    <3>9. eeStream[s] # "none"
      BY <2>3 DEF DataKept, Known
    <3> QED
      BY <3>8, <3>9 DEF to, m, total
  <2> QED
    BY <2>1, <2>2, <2>3 DEF StreamStep
<1>7. Known'
  <2>1. 1 \in Channels
    BY EngineAssumption DEF Channels
  <2> QED
    BY <1>3, <1>6, <2>1 DEF Known
<1>8. Balanced'
  BY <1>3, <1>4, <1>6 DEF Balanced
<1> QED
  BY <1>5, <1>7, <1>8 DEF DataKept

\* Data is on its way only during a walk.
LEMMA OnlyInWalk ==
    ASSUME LinkTyped, FlushOrdered, phase # "walk"
    PROVE  /\ flush = <<>> /\ dataTarget = NoTarget
           /\ \A s, c : ~Targeted(s, c) /\ Coming(s, c) = 0
<1>1. flush = <<>> /\ dataTarget = NoTarget
  BY DEF LinkTyped, PhasesTyped, FlushOrdered
<1>2. \A s, c : ~Targeted(s, c)
  BY <1>1 DEF Targeted, NoTarget
<1> QED
  BY <1>1, <1>2, NothingComing

\* What the game's calls do to the guest's streams.
LEMMA GameStreams ==
    ASSUME LinkTyped, Game
    PROVE  /\ phase = "game" /\ UNCHANGED <<streams, dataTarget, queued, delivery, sent>>
           /\ \A s \in Streams :
                \/ eeStream'[s] = eeStream[s]
                \/ eeStream[s] = "none" /\ eeStream'[s] = "asked"
                \/ eeStream[s] \in {"ready", "playing"} /\ eeStream'[s] \in {"ready", "playing", "gone"}
           /\ \/ \E x \in GameRecord :
                   /\ calls' = Append(calls, x) /\ flush' = flush
                   /\ \A s \in Streams : x = Command("StreamInfo", s) => eeStream[s] = "none"
              \/ calls' = <<>> /\ flush' = Append(calls, Terminate)
              \/ calls' = calls /\ flush' = flush
<1> DEFINE Kept == phase = "game" /\ UNCHANGED <<streams, dataTarget, queued, delivery, sent>>
           Moves == \A s \in Streams :
                      \/ eeStream'[s] = eeStream[s]
                      \/ eeStream[s] = "none" /\ eeStream'[s] = "asked"
                      \/ eeStream[s] \in {"ready", "playing"} /\ eeStream'[s] \in {"ready", "playing", "gone"}
           Calls(x) == /\ calls' = Append(calls, x) /\ flush' = flush
                       /\ \A s \in Streams : x = Command("StreamInfo", s) => eeStream[s] = "none"
           Goal == Kept /\ Moves /\ (\/ \E x \in GameRecord : Calls(x)
                                     \/ calls' = <<>> /\ flush' = Append(calls, Terminate)
                                     \/ calls' = calls /\ flush' = flush)
<1>0. eeStream \in [Streams -> {"none", "asked", "ready", "playing", "gone"}]
  BY DEF LinkTyped, GuestTyped
<1>1. ASSUME NEW x, GameCall(x) PROVE Kept /\ calls' = Append(calls, x) /\ flush' = flush
  BY <1>1 DEF GameCall, engineVars
<1>2. ASSUME NEW s \in Streams, Prepare(s) PROVE Goal
  <2>1. GameCall(Command("StreamInfo", s)) /\ eeStream[s] = "none" /\ eeStream' = [eeStream EXCEPT ![s] = "asked"]
    BY <1>2 DEF Prepare
  <2>2. \A t \in Streams : Command("StreamInfo", s) = Command("StreamInfo", t) <=> s = t
    BY DEF Command
  <2>3. Moves
    BY <1>0, <2>1
  <2> QED
    BY <1>1, <2>1, <2>2, <2>3, GameRecords
<1>3. ASSUME NEW s \in Streams, Play(s) \/ Stop(s) \/ Destroy(s) PROVE Goal
  <2>1. PICK cmd \in {"Play", "Stop", "Destroy"}, to \in {"ready", "playing", "gone"} :
          /\ GameCall(Command(cmd, s)) /\ eeStream[s] \in {"ready", "playing"}
          /\ eeStream' = [eeStream EXCEPT ![s] = to]
    BY <1>3 DEF Play, Stop, Destroy
  <2>2. \A t \in Streams : Command(cmd, s) # Command("StreamInfo", t)
    BY DEF Command
  <2>3. Moves
    BY <1>0, <2>1
  <2> QED
    BY <1>1, <2>1, <2>2, <2>3, GameRecords
<1>4. ASSUME NEW s \in Streams, NEW c \in Bendable, NEW n \in -MaxSlip .. MaxSlip,
             Bend(s, c) \/ Unbend(s, c) \/ Realign(s, c, n)
      PROVE  Goal
  <2>1. n \in Int
    BY LinkAssumption
  <2>2. PICK x \in GameRecord : GameCall(x) /\ x.cmd \in {"SlipSpeed", "SlipStop", "SlipOffset"}
    BY <1>4, <2>1, GameRecords DEF Bend, Unbend, Realign, ChannelCommand
  <2>3. \A t \in Streams : x # Command("StreamInfo", t)
    BY <2>2 DEF Command
  <2>4. eeStream' = eeStream
    BY <1>4 DEF Bend, Unbend, Realign
  <2> QED
    BY <1>1, <2>2, <2>3, <2>4
<1>5. ASSUME NEW v \in Voices, NEW pause \in BOOLEAN,
             \/ CreateSample(v) \/ StartSample(v) \/ StopSample(v) \/ DestroySample(v)
             \/ PauseSample(v, pause)
      PROVE  Goal
  <2>1. PICK cmd \in {"Create", "Start", "StopSample", "Pause", "Resume", "DestroySample"} :
          GameCall(VoiceCommand(cmd, v)) /\ eeStream' = eeStream
    BY <1>5 DEF CreateSample, StartSample, StopSample, DestroySample, PauseSample
  <2>2. \A t \in Streams : VoiceCommand(cmd, v) # Command("StreamInfo", t)
    BY DEF VoiceCommand, Command
  <2> QED
    BY <1>1, <2>1, <2>2, GameRecords
<1>6. ASSUME NEW n \in 1 .. MaxChunks, Upload(n) PROVE Goal
  BY <1>6 DEF Upload, engineVars, linkVars
<1>7. ASSUME StartTerminate PROVE Goal
  BY <1>7 DEF StartTerminate, engineVars
<1>8. \E pause \in BOOLEAN : TRUE
  OBVIOUS
<1>9. \E n \in -MaxSlip .. MaxSlip : TRUE
  <2>1. 0 \in -MaxSlip .. MaxSlip
    BY LinkAssumption
  <2> QED
    BY <2>1
<1>10. Goal
  <2> HIDE DEF Goal, Kept, Moves, Calls
  <2>1. CASE \E s \in Streams : Prepare(s) \/ Play(s) \/ Stop(s) \/ Destroy(s)
    BY <1>2, <1>3, <2>1
  <2>2. CASE \E s \in Streams, c \in Bendable :
               \/ Bend(s, c) \/ Unbend(s, c)
               \/ \E samples \in -MaxSlip .. MaxSlip : Realign(s, c, samples)
    BY <1>4, <1>9, <2>2
  <2>3. CASE \E v \in Voices :
               \/ CreateSample(v) \/ StartSample(v) \/ StopSample(v) \/ DestroySample(v)
               \/ \E pause \in BOOLEAN : PauseSample(v, pause)
    BY <1>5, <1>8, <2>3
  <2>4. CASE \E n \in 1 .. MaxChunks : Upload(n)
    BY <1>6, <2>4
  <2> QED
    BY <1>7, <2>1, <2>2, <2>3, <2>4 DEF Game
<1> QED
  BY <1>10

\* The data stays as it is when the streams and what is under way do, and no
\* stream is forgotten or asked for anew.
LEMMA DataSame ==
    ASSUME LinkTyped, DataKept, UNCHANGED <<streams, delivery, sent>>,
           \A s \in Streams, c \in Channels : Coming(s, c)' = Coming(s, c),
           \A s \in Streams : /\ eeStream'[s] = "none" => eeStream[s] = "none"
                              /\ eeStream'[s] = "asked" => eeStream[s] \in {"none", "asked"}
    PROVE  DataKept'
<1>1. DOMAIN streams \subseteq Streams
  BY DEF LinkTyped, EngineTyped
<1>2. Known' /\ Unsent'
  BY <1>1 DEF DataKept, Known, Unsent
<1>3. Balanced'
  BY <1>1 DEF DataKept, Balanced
<1> QED
  BY <1>2, <1>3 DEF DataKept

\* The game's calls leave the data of the streams.
LEMMA DataGame ==
    ASSUME LinkTyped, LinkTyped', Game, FlushOrdered, StreamsInStep, DataKept
    PROVE  DataKept'
<1>1. phase = "game"
  BY GameStreams
<1>2. \A s, c : Coming(s, c) = 0 /\ Coming(s, c)' = 0
  <2>1. \A s, c : ~Targeted(s, c)'
    BY GameKeeps
  <2> QED
    BY <1>1, <2>1, OnlyInWalk, NothingComing
<1> QED
  BY <1>2, GameStreams, DataSame

\* The reader leaves the data of the streams.
LEMMA DataRead ==
    ASSUME LinkTyped, NEW t \in Streams, ReadMore(t), DataKept
    PROVE  DataKept'
<1>1. UNCHANGED <<streams, dataTarget, flush, delivery, eeStream, sent>>
  BY DEF ReadMore, engineVars, linkVars
<1> QED
  BY <1>1, DataSame DEF Coming

\* The end of a flush leaves the data of the streams.
LEMMA DataFinish ==
    ASSUME LinkTyped, FinishFlush, DataKept
    PROVE  DataKept'
<1>1. UNCHANGED <<streams, dataTarget, flush, delivery, sent>> /\ eeStream' = StreamsAfter(reply)
  BY DEF FinishFlush, QueueReplies
<1>2. \A s \in Streams : eeStream'[s] = eeStream[s] \/ eeStream'[s] = "ready"
  BY <1>1 DEF StreamsAfter
<1> QED
  BY <1>1, <1>2, DataSame DEF Coming

\* A product grows with its factor.
LEMMA TimesLess ==
    ASSUME NEW a \in Nat, NEW b \in Nat, NEW k \in Nat, a <= b
    PROVE  a * k \in Nat /\ b * k \in Nat /\ a * k <= b * k
<1> DEFINE d == b - a
<1>1. d \in Nat /\ b = a + d
  OBVIOUS
<1>2. a * k \in Nat /\ b * k \in Nat /\ d * k \in Nat
  BY <1>1
<1> HIDE DEF d
<1>3. (a + d) * k = a * k + d * k
  BY <1>1
<1> QED
  BY <1>1, <1>2, <1>3

\* A stream is given no more than it was asked for.
LEMMA ServedLess ==
    ASSUME LinkTyped, NEW s \in Streams, NEW c \in Channels
    PROVE  Served(s, c) <= Times(delivery, DataRequest(s, c)) * RequestLen
<1> DEFINE n == Times(delivery, DataRequest(s, c))
           w == Wanted(s, c)
<1>1. n \in Nat /\ w \in Nat /\ w <= n
  <2>1. n \in Nat
    BY TimesCounted, CountedType DEF LinkTyped, QueuesTyped
  <2> QED
    BY <2>1 DEF Wanted
<1>2. RequestLen \in Nat
  BY EngineAssumption
<1> HIDE DEF n, w
<1>3. w * RequestLen <= n * RequestLen /\ w * RequestLen \in Nat /\ n * RequestLen \in Nat
  BY <1>1, <1>2, TimesLess
<1>4. held[s] \in Nat /\ sent[s][c] \in Nat /\ sent[s][c] <= held[s]
  BY DEF LinkTyped, GuestTyped
<1>5. Served(s, c) = IF c \in Real THEN Least(held[s] - sent[s][c], w * RequestLen) ELSE 0
  BY DEF Served, w
<1>6. Served(s, c) <= w * RequestLen
  BY <1>3, <1>4, <1>5 DEF Least
<1>7. Served(s, c) \in Nat
  BY ServedOf
<1> QED
  BY <1>3, <1>6, <1>7 DEF n

\* What a delivery asks a stream's channel for is what the channel awaits, but
\* for what is lost of it.
LEMMA DeliveredRequests ==
    ASSUME LinkTyped, DeliverReplies, NEW s \in DOMAIN streams, NEW c \in Channels
    PROVE  LET n == Times(delivery', DataRequest(s, c))
               k == Requests(streams[s].channels[c])
           IN  /\ n \in Nat /\ k \in Nat /\ n <= k
               /\ Times(lost', DataRequest(s, c)) = 0 => n = k
<1> DEFINE x == DataRequest(s, c)
           k == Requests(streams[s].channels[c])
<1>1. s \in Streams /\ streams[s].channels[c] \in Channel
  BY DEF LinkTyped, EngineTyped, Stream
<1>2. Counted(RepliesDue, {x}) = k
  BY <1>1, RepliesDueOf
<1> HIDE DEF x, k
<1>3. /\ Counted(delivery', {x}) \in Nat /\ Counted(lost', {x}) \in Nat
      /\ Counted(lost, {x}) \in Nat /\ k \in Nat
      /\ Counted(delivery', {x}) + Counted(lost', {x}) = k + Counted(lost, {x})
      /\ Counted(lost, {x}) <= Counted(lost', {x})
  BY <1>2, DeliveredOf
<1>4. /\ Counted(delivery', {x}) <= k
      /\ Counted(lost', {x}) = 0 => Counted(delivery', {x}) = k
  BY <1>3
<1>5. Times(delivery', x) = Counted(delivery', {x}) /\ Times(lost', x) = Counted(lost', {x})
  BY TimesCounted
<1> QED
  BY <1>3, <1>4, <1>5 DEF x, k

\* A delivery asks for data only where it is short of the target.
LEMMA DataDeliver ==
    ASSUME LinkTyped, LinkTyped', DeliverReplies, FlushOrdered, DataKept
    PROVE  DataKept'
<1>1. phase = "game" /\ delivery = <<>> /\ sent' = sent /\ eeStream' = eeStream
  BY DEF DeliverReplies, guestVars, LinkTyped, PhasesTyped
<1>2. \A s, c : Coming(s, c) = 0 /\ Coming(s, c)' = 0
  <2>1. \A s, c : ~Targeted(s, c)'
    BY DeliverOrders
  <2> QED
    BY <1>1, <2>1, OnlyInWalk, NothingComing
<1>3. DOMAIN streams' = DOMAIN streams /\ \A s \in DOMAIN streams : streams'[s] = Asked(streams[s])
  BY DEF DeliverReplies, TakeReplies
<1>4. Known' /\ Unsent'
  BY <1>1, <1>3 DEF DataKept, Known, Unsent
<1>5. ASSUME NEW s \in DOMAIN streams, NEW c \in Channels
      PROVE  ChannelBalanced(c, streams'[s].channels[c], 0, sent[s][c], Times(delivery', DataRequest(s, c)))
  <2> DEFINE ch == streams[s].channels[c]
             to == streams'[s].channels[c]
             n == Times(delivery', DataRequest(s, c))
             k == Requests(ch)
             R == RequestLen
             total == sent[s][c]
  <2>1. streams[s] \in Stream /\ ch \in Channel
    BY DEF LinkTyped, EngineTyped, Stream
  <2>2. to.pcm = ch.pcm /\ to.pos = ch.pos /\ to.inflight = ch.inflight + k * R
    BY <1>3, <2>1, AskedOf
  <2>3. n \in Nat /\ k \in Nat /\ n <= k
    BY DeliveredRequests
  <2>4. k > 0 => ch.pcm + ch.inflight + (k - 1) * R < TargetLen
    BY <2>1, RequestsDue
  <2>5. ChannelBalanced(c, ch, 0, total, 0)
    <3>1. Times(delivery, DataRequest(s, c)) = 0
      BY <1>1, NothingDelivered
    <3> QED
      BY <1>2, <3>1 DEF DataKept, Balanced
  <2>6. ch.pcm \in Nat /\ ch.inflight \in Nat /\ ch.pos \in Int /\ R \in Nat \ {0} /\ TargetLen \in Nat
    BY <2>1, EngineAssumption DEF Channel
  <2> DEFINE p == ch.pcm
             f == ch.inflight
             o == ch.pos
             nR == n * R
             kR == k * R
  <2>7. nR \in Nat /\ kR \in Nat /\ nR <= kR
    <3> HIDE DEF n, k, R
    <3> QED
      BY <2>3, <2>6, TimesLess
  <2>8. (k - 1) * R = kR - R /\ (k = 0 => kR = 0)
    <3> HIDE DEF k, R
    <3> QED
      BY <2>3, <2>6
  <2>9. /\ o + p + 0 = total /\ (c \notin Bendable => p + f < TargetLen + R)
    BY <2>5 DEF ChannelBalanced
  <2>10. to.pcm = p /\ to.pos = o /\ to.inflight = f + kR
    BY <2>2
  <2>11. k > 0 => p + f + (kR - R) < TargetLen
    BY <2>4, <2>8
  <2>12. p \in Nat /\ f \in Nat /\ o \in Int /\ R \in Nat \ {0}
    BY <2>6
  <2>13. n * RequestLen = nR
    OBVIOUS
  <2> HIDE DEF p, f, o, nR, kR, n, k, R, to, ch, total
  <2>14. to.pos + to.pcm + 0 = total /\ 0 <= to.inflight /\ nR <= to.inflight
    BY <2>7, <2>9, <2>10, <2>12
  <2>15. c \notin Bendable => to.pcm + to.inflight < TargetLen + R
    BY <2>3, <2>6, <2>7, <2>8, <2>9, <2>10, <2>11, <2>12
  <2> QED
    BY <2>13, <2>14, <2>15 DEF ChannelBalanced, n, R, to, total
<1>6. Balanced'
  BY <1>1, <1>2, <1>3, <1>5 DEF Balanced
<1> QED
  BY <1>4, <1>6 DEF DataKept

\* A poll sends a channel at most what it awaits.
LEMMA DataPoll ==
    ASSUME LinkTyped, LinkTyped', Poll, FlushOrdered, DataKept
    PROVE  DataKept'
<1>1. /\ UNCHANGED <<streams, dataTarget>> /\ delivery' = <<>> /\ phase = "poll"
      /\ eeStream' = StreamsAfter(delivery)
      /\ sent' = [s \in Streams |-> [c \in Channels |-> sent[s][c] + Served(s, c)]]
  BY DEF Poll, engineVars
<1>2. dataTarget' = NoTarget /\ \A s, c : Coming(s, c) = 0
  BY <1>1, OnlyInWalk
<1>3. ASSUME NEW s \in Streams, NEW c \in Channels
      PROVE  /\ Coming(s, c)' = Served(s, c) /\ Served(s, c) \in Nat
             /\ sent'[s][c] = sent[s][c] + Served(s, c) /\ sent[s][c] \in Nat
             /\ eeStream'[s] \notin {"ready", "playing"} => Served(s, c) = 0
  <2>1. Loaded(flush', s, c) = Served(s, c)
    BY PollFlush
  <2>2. Served(s, c) \in Nat
    BY ServedOf
  <2>3. <<s, c>> # NoTarget
    BY DEF NoTarget
  <2>4. Coming(s, c)' = Served(s, c)
    BY <1>2, <2>1, <2>2, <2>3 DEF Coming
  <2>5. eeStream'[s] \notin {"ready", "playing"} => Served(s, c) = 0
    BY <1>1, ServedOf
  <2>6. sent[s][c] \in Nat
    BY DEF LinkTyped, GuestTyped
  <2> QED
    BY <1>1, <2>2, <2>4, <2>5, <2>6
<1>4. \A s \in Streams : /\ eeStream'[s] # "none" <=> eeStream[s] # "none"
                         /\ eeStream'[s] = "asked" => eeStream[s] = "asked"
  BY <1>1 DEF StreamsAfter
<1>5. Known'
  BY <1>1, <1>4 DEF DataKept, Known, LinkTyped, EngineTyped
<1>6. Unsent'
  BY <1>3, <1>4 DEF DataKept, Unsent
<1>7. ASSUME NEW s \in DOMAIN streams, NEW c \in Channels
      PROVE  ChannelBalanced(c, streams[s].channels[c], Served(s, c), sent'[s][c], 0)
  <2> DEFINE ch == streams[s].channels[c]
             n == Times(delivery, DataRequest(s, c)) * RequestLen
             v == Served(s, c)
  <2>1. s \in Streams /\ ch \in Channel
    BY DEF LinkTyped, EngineTyped, Stream
  <2>2. /\ ch.pos + ch.pcm + 0 = sent[s][c] /\ n <= ch.inflight
        /\ c \notin Bendable => ch.pcm + ch.inflight < TargetLen + RequestLen
    <3>1. ChannelBalanced(c, ch, 0, sent[s][c], Times(delivery, DataRequest(s, c)))
      BY <1>2 DEF DataKept, Balanced
    <3> QED
      BY <3>1 DEF ChannelBalanced
  <2>3. v <= n /\ v \in Nat /\ sent'[s][c] = sent[s][c] + v /\ sent[s][c] \in Nat
    BY <1>3, <2>1, ServedLess
  <2>4. n \in Nat
    <3>1. Times(delivery, DataRequest(s, c)) \in Nat
      BY TimesCounted, CountedType DEF LinkTyped, QueuesTyped
    <3> QED
      BY <3>1, TimesLess, EngineAssumption
  <2>5. ch.pcm \in Nat /\ ch.inflight \in Nat /\ ch.pos \in Int
    BY <2>1 DEF Channel
  <2> HIDE DEF n, v, ch
  <2>6. ch.pos + ch.pcm + v = sent'[s][c] /\ v <= ch.inflight /\ 0 <= ch.inflight
    BY <2>2, <2>3, <2>4, <2>5
  <2>7. 0 * RequestLen = 0
    BY EngineAssumption
  <2> QED
    BY <2>2, <2>6, <2>7 DEF ChannelBalanced, ch, v
<1>8. Balanced'
  <2>1. \A x : Times(delivery', x) = 0
    BY <1>1, NothingDeliveredNext
  <2>2. DOMAIN streams \subseteq Streams
    BY DEF LinkTyped, EngineTyped
  <2> QED
    BY <1>1, <1>3, <1>7, <2>1, <2>2 DEF Balanced
<1> QED
  BY <1>5, <1>6, <1>8 DEF DataKept

\* What the audio thread plays was sent.
LEMMA DataAudio ==
    ASSUME LinkTyped, Audio, StreamsInStep, DataKept
    PROVE  DataKept'
<1>1. UNCHANGED <<flush, delivery, eeStream, dataTarget, sent>>
  BY DEF Audio, Render, linkVars, guestVars
<1>2. PICK bend \in Bends, ended \in SUBSET Sounding : Render(bend, ended)
  BY DEF Audio
<1>3. DOMAIN streams' = DOMAIN streams
  BY <1>2 DEF Render
<1>4. ASSUME NEW s \in DOMAIN streams, NEW c \in Channels
      PROVE  ChannelBalanced(c, streams'[s].channels[c], Coming(s, c), sent[s][c],
                             Times(delivery, DataRequest(s, c)))
  <2> DEFINE ch == streams[s].channels[c]
             to == streams'[s].channels[c]
             n == Coming(s, c)
             total == sent[s][c]
             x == Times(delivery, DataRequest(s, c)) * RequestLen
  <2>1. streams'[s] = Frame(streams[s], bend[s])
    BY <1>2 DEF Render
  <2>2. bend[s] \in [Bendable -> Nat]
    <3>1. bend[s] \in [Bendable -> BentSteps]
      BY DEF Bends
    <3> QED
      BY <3>1, LinkAssumption
  <2>3. streams[s] \in Stream /\ StreamInStep(streams[s])
    BY DEF LinkTyped, EngineTyped, StreamsInStep
  <2>4. /\ Frame(streams[s], bend[s]) \in Stream
        /\ to.inflight = ch.inflight /\ to.pos + to.pcm = ch.pos + ch.pcm
        /\ c \notin Bendable => to.pcm <= ch.pcm
    BY <2>1, <2>2, <2>3, FrameOf
  <2>5. ch \in Channel /\ to \in Channel
    BY <2>1, <2>3, <2>4 DEF Stream
  <2>6. ChannelBalanced(c, ch, n, total, Times(delivery, DataRequest(s, c)))
    BY DEF DataKept, Balanced
  <2>7. /\ ch.pcm \in Nat /\ ch.inflight \in Nat /\ ch.pos \in Int
        /\ to.pcm \in Nat /\ to.inflight \in Nat /\ to.pos \in Int
        /\ TargetLen \in Nat /\ RequestLen \in Nat
    BY <2>5, EngineAssumption DEF Channel
  <2>8. /\ ch.pos + ch.pcm + n = total /\ n <= ch.inflight /\ x <= ch.inflight
        /\ c \notin Bendable => ch.pcm + ch.inflight < TargetLen + RequestLen
    BY <2>6 DEF ChannelBalanced
  <2> HIDE DEF ch, to, n, total, x
  <2>9. to.pos + to.pcm + n = total /\ n <= to.inflight /\ x <= to.inflight
    BY <2>4, <2>8
  <2>10. c \notin Bendable => to.pcm + to.inflight < TargetLen + RequestLen
    BY <2>4, <2>7, <2>8
  <2> QED
    BY <2>9, <2>10 DEF ChannelBalanced, ch, to, n, total, x
<1>5. Balanced'
  <2>1. \A s, c : Coming(s, c)' = Coming(s, c)
    BY <1>1 DEF Coming
  <2> QED
    BY <1>1, <1>3, <1>4, <2>1 DEF Balanced
<1>6. Known' /\ Unsent'
  BY <1>1, <1>3 DEF DataKept, Known, Unsent
<1> QED
  BY <1>5, <1>6 DEF DataKept

\* Every step keeps the data of the streams.
LEMMA DataSteps ==
    ASSUME InStep, InStep', DataKept, Next
    PROVE  DataKept'
<1> USE DEF InStep
<1>1. CASE Game
  BY <1>1, DataGame
<1>2. CASE \E s \in Streams : ReadMore(s)
  BY <1>2, DataRead
<1>3. CASE DeliverReplies
  BY <1>3, DataDeliver
<1>4. CASE Poll
  BY <1>4, DataPoll
<1>5. CASE Service
  BY <1>5, WalkOf, DataWalk, DataFinish
<1>6. CASE Audio
  BY <1>6, DataAudio
<1> QED
  BY <1>1, <1>2, <1>3, <1>4, <1>5, <1>6 DEF Next

\* A stream that exists has no description under way while its answer is.
OnceDescribed ==
    \A s \in DOMAIN streams : eeStream[s] = "asked" =>
        /\ Counted(calls, {Command("StreamInfo", s)}) = 0
        /\ Counted(flush, {Command("StreamInfo", s)}) = 0

\* Between a delivery and its poll only the audio thread replies.
PollClear == phase = "poll" => queued \in Seq(Done)

\* No delivery lost a request for the channel, or its stream's answer.
Uncut(s, c) == Times(lost, DataRequest(s, c)) = 0 /\ Times(lost, StreamOp(s)) = 0

\* A channel that awaits data has a request at the guest or an end of batch on
\* its way, unless its stream is about to be destroyed or a request was lost.
AskedCovered ==
    \A s \in DOMAIN streams, c \in Channels :
        streams[s].channels[c].inflight > 0 /\ eeStream[s] # "gone" /\ Uncut(s, c) =>
            \/ Times(delivery, DataRequest(s, c)) > 0
            \/ Times(flush, Command("BatchEnd", s)) > 0

Covered == OnceDescribed /\ PollClear /\ AskedCovered

\* Every step leaves the descriptions of the streams that exist.
LEMMA OnceDescribedSteps ==
    ASSUME InStep, InStep', Known, OnceDescribed, Next
    PROVE  OnceDescribed'
<1> DEFINE I(s) == Command("StreamInfo", s)
<1>0. LinkTyped /\ LinkTyped' /\ DOMAIN streams \subseteq Streams /\ DOMAIN streams' \subseteq Streams
  BY DEF InStep, LinkTyped, EngineTyped
<1>1. /\ calls \in Seq(FlushRecord) /\ flush \in Seq(FlushRecord)
      /\ GameRecord \subseteq FlushRecord /\ Terminate \in FlushRecord
  BY <1>0 DEF LinkTyped, QueuesTyped, FlushRecord
<1>2. ASSUME UNCHANGED <<calls, flush>>, DOMAIN streams' = DOMAIN streams,
             \A s \in Streams : eeStream'[s] = "asked" => eeStream[s] = "asked"
      PROVE  OnceDescribed'
  BY <1>0, <1>2 DEF OnceDescribed
<1>3. CASE Game
  <2>1. streams' = streams /\ flush = <<>>
    BY <1>0, <1>3, GameStreams DEF LinkTyped, PhasesTyped
  <2>2. \A s \in DOMAIN streams : eeStream'[s] = "asked" => eeStream[s] = "asked"
    BY <1>0, <1>3, GameStreams DEF Known
  <2>3. ASSUME NEW x \in GameRecord, calls' = Append(calls, x), flush' = flush,
               \A s \in Streams : x = I(s) => eeStream[s] = "none"
        PROVE  OnceDescribed'
    <3> SUFFICES ASSUME NEW s \in DOMAIN streams, eeStream[s] = "asked"
                 PROVE  Counted(calls', {I(s)}) = 0 /\ Counted(flush', {I(s)}) = 0
      BY <2>1, <2>2 DEF OnceDescribed
    <3>1. Counted(calls, {I(s)}) = 0 /\ Counted(flush, {I(s)}) = 0
      BY DEF OnceDescribed
    <3>2. x # I(s)
      BY <1>0, <2>3
    <3>3. Counted(calls', {I(s)}) = Counted(calls, {I(s)}) + One(x \in {I(s)})
      BY <1>1, <2>3, CountedAppend
    <3>4. One(x \in {I(s)}) = 0
      BY <3>2 DEF One
    <3> QED
      BY <2>3, <3>1, <3>3, <3>4
  <2>4. ASSUME calls' = <<>>, flush' = Append(calls, Terminate)
        PROVE  OnceDescribed'
    <3> SUFFICES ASSUME NEW s \in DOMAIN streams, eeStream[s] = "asked"
                 PROVE  Counted(calls', {I(s)}) = 0 /\ Counted(flush', {I(s)}) = 0
      BY <2>1, <2>2 DEF OnceDescribed
    <3>1. Counted(calls, {I(s)}) = 0
      BY DEF OnceDescribed
    <3>2. Counted(flush', {I(s)}) = Counted(calls, {I(s)}) + One(Terminate \in {I(s)})
      BY <1>1, <2>4, CountedAppend
    <3>3. One(Terminate \in {I(s)}) = 0
      BY AsksKinds DEF One
    <3> QED
      BY <2>4, <3>1, <3>2, <3>3, CountedNone
  <2>5. ASSUME calls' = calls, flush' = flush
        PROVE  OnceDescribed'
    BY <2>1, <2>2, <2>5 DEF OnceDescribed
  <2> QED
    BY <1>0, <1>3, <2>3, <2>4, <2>5, GameStreams
<1>4. CASE \E s \in Streams : ReadMore(s)
  BY <1>2, <1>4 DEF ReadMore, linkVars, engineVars
<1>5. CASE DeliverReplies
  BY <1>2, <1>5 DEF DeliverReplies, TakeReplies, guestVars
<1>6. CASE Poll
  <2>1. /\ streams' = streams /\ calls' = <<>> /\ flush = <<>>
        /\ \A s \in Streams : eeStream'[s] = "asked" => eeStream[s] = "asked"
    BY <1>0, <1>6 DEF Poll, engineVars, StreamsAfter, LinkTyped, PhasesTyped
  <2> SUFFICES ASSUME NEW s \in DOMAIN streams, eeStream[s] = "asked"
               PROVE  Counted(calls', {I(s)}) = 0 /\ Counted(flush', {I(s)}) = 0
    BY <1>0, <2>1 DEF OnceDescribed
  <2> DEFINE k == IF ShipsChunk THEN <<SpuChunk>> ELSE <<>>
             F == FlushRecord
  <2>2. PICK q \in Seq(StreamRecord) : flush' = calls \o k \o q
    BY <1>0, <1>6, PollFlush
  <2>3. k \in Seq(F) /\ q \in Seq(F) /\ calls \in Seq(F)
    <3>1. SpuChunk \in FlushRecord /\ StreamRecord \subseteq FlushRecord
      BY DEF FlushRecord
    <3>2. q \in Seq(FlushRecord)
      BY <3>1
    <3> QED
      BY <1>1, <3>1, <3>2
  <2>4. \A i \in DOMAIN k : k[i] \notin {I(s)}
    <3>1. SpuChunk # I(s)
      BY AsksKinds
    <3> QED
      BY <3>1
  <2>5. \A i \in DOMAIN q : q[i] \notin {I(s)}
    <3>1. I(s) \notin StreamRecord
      <4>1. I(s).cmd = "StreamInfo"
        BY DEF Command
      <4>2. \A r \in StreamRecord : r.cmd \in {"DataTarget", "Data", "BatchEnd"}
        BY RecordKinds DEF StreamRecord
      <4> QED
        BY <4>1, <4>2
    <3> QED
      BY <3>1
  <2> HIDE DEF k, F, I
  <2>6. Counted(k, {I(s)}) = 0 /\ Counted(q, {I(s)}) = 0
    BY <2>3, <2>4, <2>5, CountedType
  <2>7. calls \o k \in Seq(F)
    BY <2>3
  <2>8. /\ Counted(calls \o k, {I(s)}) = Counted(calls, {I(s)}) + Counted(k, {I(s)})
        /\ Counted((calls \o k) \o q, {I(s)}) = Counted(calls \o k, {I(s)}) + Counted(q, {I(s)})
    <3>1. \A a, b \in Seq(F) : \A S : Counted(a \o b, S) = Counted(a, S) + Counted(b, S)
      BY CountedConcat
    <3> QED
      BY <2>3, <2>7, <3>1, ZenonT(60)
  <2>9. Counted(calls, {I(s)}) = 0
    BY DEF OnceDescribed, I
  <2> QED
    BY <2>1, <2>2, <2>6, <2>8, <2>9, CountedNone
<1>7. CASE Walk
  <2>1. /\ eeStream' = eeStream /\ calls = <<>> /\ calls' = <<>> /\ flush # <<>>
        /\ StreamWork(Head(flush)) \/ VoiceWork(Head(flush)) \/ AnswerWork(Head(flush))
    BY <1>0, <1>7 DEF Walk, guestVars, LinkTyped, PhasesTyped
  <2> SUFFICES ASSUME NEW s \in DOMAIN streams', eeStream[s] = "asked"
               PROVE  Counted(flush', {I(s)}) = 0
    BY <2>1, CountedNone DEF OnceDescribed
  <2>2. /\ Counted(flush, {I(s)}) = Counted(flush', {I(s)}) + One(Head(flush) \in {I(s)})
        /\ Counted(flush, {I(s)}) \in Nat /\ Counted(flush', {I(s)}) \in Nat
    <3>1. \A x \in Realignments : x \notin {I(s)}
      BY DEF Realignments, Command
    <3>2. flush' \in Seq(FlushRecord)
      BY <1>0, <1>7, FlushAdvances
    <3> QED
      BY <1>0, <1>1, <1>7, <3>1, <3>2, FlushAdvances, CountedType
  <2>3. CASE Head(flush) = I(s)
    <3>1. I(s) \in Asks
      BY <1>0, AsksKinds
    <3>2. Parts(I(s)) = One(Awaits(I(s)))
      <4>1. \A r \in Asks : Fine(Parts(r), Awaits(r))
        BY AnsweredIs DEF InStep, LinkTyped
      <4> QED
        BY <3>1, <4>1 DEF Fine
    <3>3. Parts(I(s)) <= 1
      <4>1. \A b : One(b) <= 1
        BY DEF One
      <4>2. Parts(I(s)) \in Nat /\ One(Awaits(I(s))) \in Nat
        BY <1>0, PartsOf DEF Parts, One, LinkTyped
      <4> QED
        BY <3>2, <4>1, <4>2
    <3>4. Counted(flush, {I(s)}) <= Parts(I(s)) /\ Parts(I(s)) \in Nat
      BY <1>0, PartsOf DEF Parts, LinkTyped
    <3>5. One(Head(flush) \in {I(s)}) = 1
      BY <2>3 DEF One
    <3> QED
      BY <2>2, <3>3, <3>4, <3>5
  <2>4. CASE Head(flush) # I(s)
    <3>1. s \in DOMAIN streams
      <4>1. StreamStep(Head(flush), s)
        BY <1>0, <2>1, WorkOnStreams DEF LinkTyped
      <4> QED
        BY <2>4, <4>1 DEF StreamStep
    <3>2. Counted(flush, {I(s)}) = 0
      BY <3>1 DEF OnceDescribed
    <3>3. One(Head(flush) \in {I(s)}) = 0
      BY <2>4 DEF One
    <3> QED
      BY <2>2, <3>2, <3>3
  <2> QED
    BY <2>3, <2>4
<1>8. CASE FinishFlush
  BY <1>2, <1>8 DEF FinishFlush, QueueReplies, StreamsAfter
<1>9. CASE Audio
  BY <1>2, <1>9 DEF Audio, Render, linkVars, guestVars
<1> QED
  BY <1>0, <1>3, <1>4, <1>5, <1>6, <1>7, <1>8, <1>9, WalkOf DEF Next

\* Only the audio thread replies between a delivery and its poll.
LEMMA PollClearSteps ==
    ASSUME LinkTyped, PollClear, Next
    PROVE  PollClear'
<1>1. CASE Game
  <2>1. phase' # "poll"
    <3>1. CASE phase' = phase
      BY <1>1, <3>1, GameStreams
    <3>2. CASE StartTerminate
      BY <3>2 DEF StartTerminate
    <3>3. phase' = phase \/ StartTerminate
      <4>1. \A x : GameCall(x) => phase' = phase
        BY DEF GameCall
      <4>2. \A n : Upload(n) => phase' = phase
        BY DEF Upload, linkVars
      <4> QED
        BY <1>1, <4>1, <4>2 DEF Game, Prepare, Play, Stop, Destroy, Bend, Unbend, Realign,
                                CreateSample, StartSample, StopSample, DestroySample, PauseSample
    <3> QED
      BY <3>1, <3>2, <3>3
  <2> QED
    BY <2>1 DEF PollClear
<1>2. CASE \E s \in Streams : ReadMore(s)
  BY <1>2 DEF ReadMore, engineVars, linkVars, PollClear
<1>3. CASE DeliverReplies
  BY <1>3 DEF DeliverReplies, TakeReplies, PollClear
<1>4. CASE Poll
  BY <1>4 DEF Poll, PollClear
<1>5. CASE Walk
  BY <1>5 DEF Walk, PollClear
<1>6. CASE FinishFlush
  BY <1>6 DEF FinishFlush, PollClear
<1>7. CASE Audio
  <2>1. PICK bend \in Bends, ended \in SUBSET Sounding : Render(bend, ended)
    BY <1>7 DEF Audio
  <2> DEFINE dones == [i \in 1 .. Len(SetToSeq(ended)) |-> SampleDone(SetToSeq(ended)[i])]
  <2>2. dones \in Seq(Done)
    BY DonesOf DEF LinkTyped
  <2>3. queued' = queued \o dones /\ phase' = phase
    BY <1>7, <2>1 DEF Render, Audio, linkVars
  <2> HIDE DEF dones
  <2> QED
    BY <2>2, <2>3 DEF PollClear
<1> QED
  BY <1>1, <1>2, <1>3, <1>4, <1>5, <1>6, <1>7, WalkOf DEF Next

\* A stream that was described gets its answer with the next poll, unless it was
\* lost.
LEMMA AnswerDelivered ==
    ASSUME LinkTyped, Answered, OnceDescribed, PollClear, phase = "poll",
           NEW s \in DOMAIN streams, eeStream[s] = "asked", Times(lost, StreamOp(s)) = 0
    PROVE  Brings(delivery, StreamOp(s))
<1> DEFINE r == Command("StreamInfo", s)
           x == StreamOp(s)
<1>1. s \in Streams
  BY DEF LinkTyped, EngineTyped
<1>2. r \in Asks /\ AnswerTo(r) = x /\ Awaits(r)
  BY <1>1, AsksKinds, AwaitsOf
<1>3. Parts(r) = 1
  <2>1. Fine(Parts(r), Awaits(r))
    BY <1>2, AnsweredIs DEF LinkTyped
  <2> QED
    BY <1>2, <2>1 DEF Fine, One
<1>4. flush = <<>> /\ reply = <<>> /\ deferred = <<>>
  BY DEF LinkTyped, PhasesTyped
<1>5. Counted(calls, {r}) = 0
  BY DEF OnceDescribed
<1>6. Counted(queued, {x}) = 0
  <2>1. queued \in Seq(Done)
    BY DEF PollClear
  <2>2. x \notin Done
    BY DEF Done, StreamOp, SampleDone
  <2>3. \A i \in DOMAIN queued : queued[i] \notin {x}
    <3> HIDE DEF x
    <3> QED
      BY <2>1, <2>2
  <2> HIDE DEF x
  <2> QED
    BY <2>1, <2>3, CountedType
<1>7. Counted(delivery, {x}) = 1
  <2>1. Parts(r) = Counted(calls, {r}) + Counted(flush, {r}) + Counted(reply, {x})
                    + Counted(deferred, {x}) + Counted(queued, {x}) + Counted(delivery, {x})
                    + Counted(lost, {x})
    BY <1>2 DEF Parts
  <2>2. Counted(flush, {r}) = 0 /\ Counted(reply, {x}) = 0 /\ Counted(deferred, {x}) = 0
    BY <1>4, CountedNone
  <2>4. Counted(lost, {x}) = 0
    BY TimesCounted
  <2>3. Counted(delivery, {x}) \in Nat
    BY CountedType DEF LinkTyped, QueuesTyped
  <2> HIDE DEF r, x
  <2> QED
    BY <1>3, <1>5, <1>6, <2>1, <2>2, <2>3, <2>4
<1>8. delivery \in Seq(Reply)
  BY DEF LinkTyped, QueuesTyped
<1> HIDE DEF x
<1>9. Brings(delivery, x) <=> Counted(delivery, {x}) > 0
  BY <1>8, BringsOf
<1> QED
  BY <1>7, <1>9 DEF x

\* What awaits data before the delivery of the next poll is to be destroyed.
LEMMA NothingAwaited ==
    ASSUME LinkTyped, AskedCovered, flush = <<>>, delivery = <<>>,
           NEW s \in DOMAIN streams, NEW c \in Channels, eeStream[s] # "gone", Uncut(s, c)
    PROVE  streams[s].channels[c].inflight = 0
<1>1. Times(delivery, DataRequest(s, c)) = 0 /\ Times(flush, Command("BatchEnd", s)) = 0
  BY TimesCounted, CountedNone
<1>2. streams[s].channels[c].inflight \in Nat
  BY DEF LinkTyped, EngineTyped, Stream, Channel
<1> QED
  BY <1>1, <1>2 DEF AskedCovered

\* A delivery requests all that its streams await, or loses a request of theirs.
LEMMA CoveredDeliver ==
    ASSUME LinkTyped, AskedCovered, DeliverReplies
    PROVE  AskedCovered'
<1>1. flush = <<>> /\ delivery = <<>> /\ eeStream' = eeStream
  BY DEF DeliverReplies, guestVars, LinkTyped, PhasesTyped
<1>2. DOMAIN streams' = DOMAIN streams /\ \A s \in DOMAIN streams : streams'[s] = Asked(streams[s])
  BY DEF DeliverReplies, TakeReplies
<1>3. ASSUME NEW s \in DOMAIN streams, NEW c \in Channels, eeStream[s] # "gone",
             streams'[s].channels[c].inflight > 0, Uncut(s, c)'
      PROVE  Times(delivery', DataRequest(s, c)) > 0
  <2> DEFINE ch == streams[s].channels[c]
             k == Requests(ch)
  <2>1. ch.inflight = 0
    <3>1. \A x : Times(lost', x) = 0 => Times(lost, x) = 0
      <4> TAKE x
      <4>1. Counted(lost, {x}) \in Nat /\ Counted(lost', {x}) \in Nat /\ Counted(lost, {x}) <= Counted(lost', {x})
        BY DeliveredOf
      <4> QED
        BY <4>1, TimesCounted
    <3>2. Uncut(s, c)
      BY <1>3, <3>1 DEF Uncut
    <3> QED
      BY <1>1, <1>3, <3>2, NothingAwaited
  <2>2. streams'[s].channels[c].inflight = ch.inflight + k * RequestLen
    <3>1. streams[s] \in Stream
      BY DEF LinkTyped, EngineTyped
    <3> QED
      BY <1>2, <3>1, AskedOf
  <2>3. k \in Nat /\ Times(delivery', DataRequest(s, c)) = k
    BY <1>3, DeliveredRequests DEF Uncut
  <2>4. RequestLen \in Nat
    BY EngineAssumption
  <2> HIDE DEF k
  <2>5. k # 0
    <3> SUFFICES ASSUME k = 0 PROVE FALSE
      OBVIOUS
    <3>1. 0 * RequestLen = 0
      BY <2>4
    <3> QED
      BY <1>3, <2>1, <2>2, <3>1
  <2> QED
    BY <2>3, <2>5
<1> QED
  BY <1>1, <1>2, <1>3 DEF AskedCovered

\* A poll closes the requests of every stream that is ready with a record.
LEMMA CoveredPoll ==
    ASSUME LinkTyped, LinkTyped', Answered, Known, OnceDescribed, PollClear, AskedCovered, Poll
    PROVE  AskedCovered'
<1>1. /\ streams' = streams /\ lost' = lost /\ phase = "poll" /\ flush = <<>> /\ eeStream' = StreamsAfter(delivery)
  BY DEF Poll, engineVars, LinkTyped, PhasesTyped
<1>2. ASSUME NEW s \in DOMAIN streams, NEW c \in Channels, eeStream'[s] # "gone",
             streams[s].channels[c].inflight > 0, Uncut(s, c)
      PROVE  Times(flush', Command("BatchEnd", s)) > 0
  <2>1. s \in Streams /\ eeStream \in [Streams -> {"none", "asked", "ready", "playing", "gone"}]
    BY DEF LinkTyped, EngineTyped, GuestTyped
  <2>2. eeStream[s] \in {"asked", "ready", "playing"}
    BY <1>1, <1>2, <2>1 DEF StreamsAfter, Known
  <2>3. Times(delivery, DataRequest(s, c)) > 0
    <3>1. Times(flush, Command("BatchEnd", s)) = 0
      BY <1>1, TimesCounted, CountedNone
    <3> QED
      BY <1>2, <2>2, <3>1 DEF AskedCovered
  <2>4. StreamsAfter(delivery)[s] \in {"ready", "playing"}
    BY <1>1, <1>2, <2>1, <2>2, AnswerDelivered DEF StreamsAfter, Uncut
  <2>5. Wanted(s, c) # 0
    BY <2>1, <2>3, <2>4, ServedOf
  <2>6. \E i \in DOMAIN flush' : flush'[i] = Command("BatchEnd", s)
    BY <2>1, <2>5, PollFlush
  <2>7. flush' \in Seq(FlushRecord)
    BY PollFlush
  <2> DEFINE x == Command("BatchEnd", s)
  <2>8. Counted(flush', {x}) \in Nat /\ Counted(flush', {x}) # 0
    BY <2>6, <2>7, CountedType
  <2>9. Times(flush', x) = Counted(flush', {x})
    BY TimesCounted
  <2> QED
    BY <2>8, <2>9
<1> QED
  BY <1>1, <1>2 DEF AskedCovered, Uncut

\* An end of batch on its way stays so until it ends the waits of its stream.
LEMMA CoveredWalk ==
    ASSUME LinkTyped, LinkTyped', AskedCovered, Walk
    PROVE  AskedCovered'
<1> DEFINE r == Head(flush)
<1>1. /\ eeStream' = eeStream /\ lost' = lost /\ delivery = <<>> /\ r \in FlushRecord
      /\ StreamWork(r) \/ VoiceWork(r) \/ AnswerWork(r)
  <2>1. flush # <<>>
    BY DEF Walk
  <2> QED
    BY <2>1, HeadTyped DEF Walk, guestVars, LinkTyped, PhasesTyped
<1>2. ASSUME NEW s \in DOMAIN streams', NEW c \in Channels, eeStream[s] # "gone",
             streams'[s].channels[c].inflight > 0, Uncut(s, c)
      PROVE  Times(flush', Command("BatchEnd", s)) > 0
  <2> DEFINE x == Command("BatchEnd", s)
             ch == streams[s].channels[c]
             to == streams'[s].channels[c]
  <2>1. StreamStep(r, s)
    BY <1>1, WorkOnStreams DEF LinkTyped
  <2>2. ~(streams'[s] = NewStream)
    <3> SUFFICES ASSUME streams'[s] = NewStream PROVE FALSE
      OBVIOUS
    <3>1. to.inflight = 0
      BY DEF NewStream, NewChannel
    <3> QED
      BY <1>2, <3>1
  <2>3. s \in DOMAIN streams /\ ChannelWork(r, s, c)
    BY <2>1, <2>2 DEF StreamStep
  <2>4. ch \in Channel
    BY <2>3 DEF LinkTyped, EngineTyped, Stream
  <2>5. x.cmd = "BatchEnd"
    BY RecordKinds
  <2>6. r # x /\ ch.inflight > 0
    <3>1. ASSUME NEW anyGot \in BOOLEAN PROVE BatchEnded(ch, anyGot).inflight = 0
      BY <2>4 DEF BatchEnded, Channel
    <3>2. ASSUME NEW len \in Nat, Fed(ch, len).inflight > 0 PROVE ch.inflight > 0
      <4>1. Fed(ch, len).inflight = IF ch.inflight > len THEN ch.inflight - len ELSE 0
        BY <2>4 DEF Fed, Channel
      <4>2. ch.inflight \in Nat
        BY <2>4 DEF Channel
      <4> QED
        BY <3>2, <4>1, <4>2
    <3>3. ASSUME NEW b \in BOOLEAN PROVE [ch EXCEPT !.slipping = b].inflight = ch.inflight
      BY <2>4 DEF Channel
    <3>4. ASSUME NEW delta \in Int PROVE MovedTo(ch, delta).inflight = ch.inflight
      BY <2>4 DEF MovedTo, Channel
    <3>5. to.inflight > 0 /\ TRUE \in BOOLEAN /\ FALSE \in BOOLEAN
      BY <1>2
    <3> HIDE DEF x, r
    <3>6. CASE to = ch /\ r # x
      BY <3>5, <3>6
    <3>7. CASE \E anyGot \in BOOLEAN : to = BatchEnded(ch, anyGot)
      BY <3>1, <3>5, <3>7
    <3>8. CASE r.cmd = "Data" /\ r.len \in Nat /\ to = Fed(ch, r.len)
      <4> HIDE DEF ch, to
      <4> QED
        BY <2>5, <3>2, <3>5, <3>8
    <3>9. CASE /\ r.cmd \in {"SlipSpeed", "SlipStop", "SlipOffset"}
               /\ \/ to = [ch EXCEPT !.slipping = TRUE]
                  \/ to = [ch EXCEPT !.slipping = FALSE]
                  \/ \E delta \in Int : to = MovedTo(ch, delta)
      <4>1. to.inflight = ch.inflight
        BY <3>3, <3>4, <3>5, <3>9
      <4> QED
        BY <2>5, <3>5, <3>9, <4>1
    <3> QED
      BY <2>3, <3>6, <3>7, <3>8, <3>9 DEF ChannelWork, x
  <2>7. Times(flush, x) > 0
    <3>1. Times(delivery, DataRequest(s, c)) = 0
      BY <1>1, NothingDelivered
    <3> QED
      BY <1>2, <2>3, <2>6, <3>1 DEF AskedCovered
  <2>8. /\ Counted(flush, {x}) = Counted(flush', {x}) + One(r \in {x})
        /\ Counted(flush', {x}) \in Nat
    <3>1. \A y \in Realignments : y \notin {x}
      BY DEF Realignments, Command
    <3> HIDE DEF x
    <3>2. flush' \in Seq(FlushRecord)
      BY FlushAdvances
    <3> QED
      BY <3>1, <3>2, FlushAdvances, CountedType
  <2>9. One(r \in {x}) = 0
    BY <2>6 DEF One
  <2>10. Times(flush, x) = Counted(flush, {x}) /\ Times(flush', x) = Counted(flush', {x})
    BY TimesCounted
  <2> HIDE DEF x, r
  <2>11. Times(flush', x) > 0
    BY <2>7, <2>8, <2>9, <2>10
  <2> QED
    BY <2>11 DEF x
<1> QED
  BY <1>1, <1>2 DEF AskedCovered, Uncut

\* The game's calls lose no reply.
LEMMA GameLost == ASSUME Game PROVE lost' = lost
BY DEF Game, GameCall, StartTerminate, Upload, linkVars, Prepare, Play, Stop, Destroy, Bend, Unbend, Realign,
       CreateSample, StartSample, StopSample, DestroySample, PauseSample

\* Every step leaves what is awaited covered.
LEMMA CoveredSteps ==
    ASSUME InStep, InStep', Answered, DataKept, Covered, Next
    PROVE  Covered'
<1>1. LinkTyped /\ LinkTyped' /\ Known /\ AskedCovered /\ OnceDescribed /\ PollClear /\ StreamsInStep
  BY DEF InStep, DataKept, Covered
<1>2. DOMAIN streams \subseteq Streams
  BY <1>1 DEF LinkTyped, EngineTyped
<1>3. ASSUME streams' = streams, lost' = lost, flush = <<>>, delivery = <<>>,
             \A s \in Streams : eeStream[s] = "gone" => eeStream'[s] = "gone"
      PROVE  AskedCovered'
  <2> SUFFICES ASSUME NEW s \in DOMAIN streams, NEW c \in Channels, eeStream'[s] # "gone",
                      streams[s].channels[c].inflight > 0, Uncut(s, c)
               PROVE  FALSE
    BY <1>3 DEF AskedCovered, Uncut
  <2>1. eeStream[s] # "gone"
    BY <1>2, <1>3
  <2>2. streams[s].channels[c].inflight = 0
    BY <1>1, <1>3, <2>1, NothingAwaited
  <2> QED
    BY <2>2
<1>4. AskedCovered'
  <2>1. CASE Game
    <3>1. streams' = streams /\ phase = "game"
      BY <1>1, <2>1, GameStreams
    <3>2. flush = <<>> /\ delivery = <<>>
      BY <1>1, <3>1 DEF LinkTyped, PhasesTyped
    <3>3. \A s \in Streams : eeStream[s] = "gone" => eeStream'[s] = "gone"
      BY <1>1, <2>1, GameStreams
    <3>4. lost' = lost
      BY <2>1, GameLost
    <3> QED
      BY <1>3, <3>1, <3>2, <3>3, <3>4
  <2>2. CASE \E s \in Streams : ReadMore(s)
    <3>1. UNCHANGED <<streams, flush, delivery, lost, eeStream>>
      BY <2>2 DEF ReadMore, engineVars, linkVars
    <3> QED
      BY <1>1, <3>1 DEF AskedCovered, Uncut
  <2>3. CASE DeliverReplies
    BY <1>1, <2>3, CoveredDeliver
  <2>4. CASE Poll
    BY <1>1, <2>4, CoveredPoll
  <2>5. CASE Walk
    BY <1>1, <2>5, CoveredWalk
  <2>6. CASE FinishFlush
    <3>1. streams' = streams /\ lost' = lost /\ phase = "walk" /\ flush = <<>> /\ eeStream' = StreamsAfter(reply)
      BY <2>6 DEF FinishFlush, QueueReplies
    <3>2. delivery = <<>>
      BY <1>1, <3>1 DEF LinkTyped, PhasesTyped
    <3>3. \A s \in Streams : eeStream[s] = "gone" => eeStream'[s] = "gone"
      BY <3>1 DEF StreamsAfter
    <3> QED
      BY <1>3, <3>1, <3>2, <3>3
  <2>7. CASE Audio
    <3>1. UNCHANGED <<flush, delivery, lost, eeStream>>
      BY <2>7 DEF Audio, Render, linkVars, guestVars
    <3>2. PICK bend \in Bends, ended \in SUBSET Sounding : Render(bend, ended)
      BY <2>7 DEF Audio
    <3>3. ASSUME NEW s \in DOMAIN streams', NEW c \in Channels
          PROVE  /\ s \in DOMAIN streams
                 /\ streams'[s].channels[c].inflight = streams[s].channels[c].inflight
      <4>1. s \in DOMAIN streams /\ streams'[s] = Frame(streams[s], bend[s])
        BY <3>2 DEF Render
      <4>2. bend[s] \in [Bendable -> Nat]
        <5>1. bend[s] \in [Bendable -> BentSteps]
          BY <4>1 DEF Bends
        <5> QED
          BY <5>1, LinkAssumption
      <4>3. streams[s] \in Stream /\ StreamInStep(streams[s])
        BY <1>1, <4>1 DEF LinkTyped, EngineTyped, StreamsInStep
      <4> QED
        BY <4>1, <4>2, <4>3, FrameOf
    <3> QED
      BY <1>1, <3>1, <3>3 DEF AskedCovered, Uncut
  <2> QED
    BY <1>1, <2>1, <2>2, <2>3, <2>4, <2>5, <2>6, <2>7, WalkOf DEF Next
<1> QED
  BY <1>1, <1>4, OnceDescribedSteps, PollClearSteps DEF Covered

\* The invariants of the data hold at the start.
LEMMA InitData == ASSUME Init PROVE DataKept /\ Covered
<1>1. /\ DOMAIN streams = {} /\ phase = "game"
      /\ \A s \in Streams, c \in Channels : sent[s][c] = 0
  BY DEF Init, EngineInit
<1> QED
  BY <1>1 DEF DataKept, Known, Unsent, Balanced, Covered, OnceDescribed, PollClear, AskedCovered

\* A step that changes nothing keeps them.
LEMMA StutterData == ASSUME LinkTyped, DataKept, Covered, UNCHANGED vars PROVE DataKept' /\ Covered'
<1>1. UNCHANGED <<streams, queued, dataTarget, phase, calls, flush, delivery, lost, eeStream, sent>>
  BY DEF vars, engineVars, linkVars, guestVars
<1>2. DataKept'
  BY <1>1, DataSame DEF Coming
<1>3. Covered'
  BY <1>1 DEF Covered, OnceDescribed, PollClear, AskedCovered, Uncut
<1> QED
  BY <1>2, <1>3

\* What was asked for is answered, unless a delivery loses the request, a channel
\* that is never bent holds and awaits less than the target and one request, and every
\* sample sent reaches its channel's buffer and leaves it by being played or dropped to
\* catch up (the accounts of data in flight: streamDataTarget,
\* streamData and streamDataBatchEnd against the requests of takeReplies).
THEOREM DataAccountedHolds == Spec => []DataAccounted
<1>2. Init => DataKept /\ Covered
  BY InitData
<1>3. InStep /\ InStep' /\ DataKept /\ Covered /\ [Next]_vars => DataKept' /\ Covered'
  <2> SUFFICES ASSUME InStep, InStep', DataKept, Covered, [Next]_vars PROVE DataKept' /\ Covered'
    OBVIOUS
  <2>1. LinkTyped /\ Answered
    BY DEF InStep
  <2>2. CASE Next
    BY <2>1, <2>2, DataSteps, CoveredSteps
  <2>3. CASE UNCHANGED vars
    BY <2>1, <2>3, StutterData
  <2> QED
    BY <2>2, <2>3
<1>4. InStep /\ DataKept /\ Covered => DataAccounted
  <2> SUFFICES ASSUME InStep, DataKept, Covered PROVE DataAccounted
    OBVIOUS
  <2>0. LinkTyped /\ FlushOrdered /\ DOMAIN streams \subseteq Streams
    BY DEF InStep, LinkTyped, EngineTyped
  <2>1. AskedIsAnswered
    <3> SUFFICES ASSUME NEW s \in DOMAIN streams, NEW c \in Channels,
                        streams[s].channels[c].inflight > 0, eeStream[s] \in {"ready", "playing"}
                 PROVE  \/ Times(delivery \o lost, DataRequest(s, c)) > 0
                        \/ Times(calls \o flush, Command("BatchEnd", s)) > 0
      BY DEF AskedIsAnswered
    <3> DEFINE x == Command("BatchEnd", s)
    <3>1. calls \in Seq(FlushRecord) /\ flush \in Seq(FlushRecord)
      <4>1. GameRecord \subseteq FlushRecord
        BY DEF FlushRecord
      <4>2. calls \in Seq(GameRecord) /\ flush \in Seq(FlushRecord)
        BY <2>0 DEF LinkTyped, QueuesTyped
      <4> QED
        BY <4>1, <4>2
    <3>2. /\ Counted(calls \o flush, {x}) = Counted(calls, {x}) + Counted(flush, {x})
          /\ Counted(calls, {x}) \in Nat /\ Counted(flush, {x}) \in Nat
      BY <3>1, CountedConcat, CountedType
    <3>3. Times(flush, x) = Counted(flush, {x}) /\ Times(calls \o flush, x) = Counted(calls \o flush, {x})
      BY TimesCounted
    <3> DEFINE y == DataRequest(s, c)
    <3>4. /\ Counted(delivery \o lost, {y}) = Counted(delivery, {y}) + Counted(lost, {y})
          /\ Counted(delivery, {y}) \in Nat /\ Counted(lost, {y}) \in Nat
      <4>1. delivery \in Seq(Reply) /\ lost \in Seq(Reply)
        BY <2>0 DEF LinkTyped, QueuesTyped
      <4> HIDE DEF y
      <4> QED
        BY <4>1, CountedConcat, CountedType
    <3>5. /\ Times(delivery, y) = Counted(delivery, {y}) /\ Times(lost, y) = Counted(lost, {y})
          /\ Times(delivery \o lost, y) = Counted(delivery \o lost, {y})
      BY TimesCounted
    <3>6. Times(lost, StreamOp(s)) = 0
      <4> DEFINE r == Command("StreamInfo", s)
                 z == StreamOp(s)
      <4>1. r \in Asks /\ AnswerTo(r) = z /\ ~Awaits(r)
        BY <2>0, AsksKinds, AwaitsOf
      <4>2. Parts(r) = 0
        <5>1. Fine(Parts(r), Awaits(r))
          BY <2>0, <4>1, AnsweredIs DEF LinkTyped, InStep
        <5> QED
          BY <4>1, <5>1 DEF Fine, One
      <4>3. Parts(r) = Counted(calls, {r}) + Counted(flush, {r}) + Counted(reply, {z})
                        + Counted(deferred, {z}) + Counted(queued, {z}) + Counted(delivery, {z})
                        + Counted(lost, {z})
        BY <4>1 DEF Parts
      <4>4. /\ Counted(calls, {r}) \in Nat /\ Counted(flush, {r}) \in Nat /\ Counted(reply, {z}) \in Nat
            /\ Counted(deferred, {z}) \in Nat /\ Counted(queued, {z}) \in Nat /\ Counted(delivery, {z}) \in Nat
            /\ Counted(lost, {z}) \in Nat
        BY <2>0, <4>1, PartsOf DEF LinkTyped
      <4>5. Times(lost, z) = Counted(lost, {z})
        BY TimesCounted
      <4> DEFINE n1 == Counted(calls, {r})
                 n2 == Counted(flush, {r})
                 n3 == Counted(reply, {z})
                 n4 == Counted(deferred, {z})
                 n5 == Counted(queued, {z})
                 n6 == Counted(delivery, {z})
                 n7 == Counted(lost, {z})
      <4>6. n1 + n2 + n3 + n4 + n5 + n6 + n7 = 0
        BY <4>2, <4>3
      <4>7. n1 \in Nat /\ n2 \in Nat /\ n3 \in Nat /\ n4 \in Nat /\ n5 \in Nat /\ n6 \in Nat /\ n7 \in Nat
        BY <4>4
      <4> HIDE DEF n1, n2, n3, n4, n5, n6, n7
      <4>8. n7 = 0
        BY <4>6, <4>7
      <4> QED
        BY <4>5, <4>8 DEF n7
    <3>7. Times(delivery, y) > 0 \/ Times(flush, x) > 0 \/ Times(lost, y) # 0
      BY <3>6 DEF Covered, AskedCovered, Uncut
    <3> HIDE DEF x, y
    <3>8. Times(delivery \o lost, y) > 0 \/ Times(calls \o flush, x) > 0
      BY <3>2, <3>3, <3>4, <3>5, <3>7
    <3> QED
      BY <3>8 DEF x, y
  <2>2. BuffersBounded
    BY DEF DataKept, Balanced, ChannelBalanced, BuffersBounded
  <2>3. SamplesConserved
    <3> SUFFICES ASSUME NEW s \in DOMAIN streams, NEW c \in Channels, phase \in {"game", "poll"}
                 PROVE  streams[s].channels[c].pos + streams[s].channels[c].pcm = sent[s][c]
      BY DEF SamplesConserved
    <3>1. Coming(s, c) = 0
      BY <2>0, OnlyInWalk
    <3>2. streams[s].channels[c].pos + streams[s].channels[c].pcm + 0 = sent[s][c]
      BY <3>1 DEF DataKept, Balanced, ChannelBalanced
    <3>3. streams[s].channels[c].pos \in Int /\ streams[s].channels[c].pcm \in Nat
      BY <2>0 DEF LinkTyped, EngineTyped, Stream, Channel
    <3> QED
      BY <3>2, <3>3
  <2> QED
    BY <2>1, <2>2, <2>3 DEF DataAccounted
<1>5. Spec => [](DataKept /\ Covered)
  BY <1>2, <1>3, AlwaysInStep, PTL DEF Spec
<1> QED
  BY <1>4, <1>5, AlwaysInStep, PTL
=============================================================================

---------------------------- MODULE GuestHeap_proofs ----------------------------
(* The blocks of the runtime arena stay an exact, coalesced cover of it, every block in
   use keeps exactly one holder, and the allocator implements MemoryPool, for every
   arena, reserve, size and alignment. *)
EXTENDS GuestHeap, FiniteSetTheorems, TLAPS

\* What the operations do to a list of blocks is proved apart from the actions.
LEMMA BlockFacts ==
    ASSUME NEW b \in Block
    PROVE  /\ b.addr \in Nat /\ Base <= b.addr /\ b.addr < Limit
           /\ b.size \in Nat /\ b.size > 0
           /\ b.free \in BOOLEAN
           /\ End(b) \in Nat /\ End(b) > b.addr
           /\ \A x : x \in Cells(b) <=> x \in Nat /\ b.addr <= x /\ x < End(b)
  BY ArenaAssumption DEF Block, Arena, End, Cells

LEMMA AlignedUp ==
    ASSUME NEW v \in Nat, NEW al \in Nat \ {0}
    PROVE  /\ alignGuestHeapValue(v, al) \in Nat
           /\ v <= alignGuestHeapValue(v, al)
<1>1. v % al \in Nat /\ v % al < al
  OBVIOUS
<1> QED
  BY <1>1 DEF alignGuestHeapValue

\* A free block that gives n units leaves an exact list, and one more block in use.
LEMMA TakenExact ==
    ASSUME NEW B, Exact(B), NEW b \in B, b.free,
           NEW a \in Nat, NEW n \in Nat \ {0}, b.addr <= a, a + n <= End(b)
    PROVE  /\ Exact(Taken(B, b, a, n))
           /\ \A d : d \in Taken(B, b, a, n) /\ ~d.free <=>
                \/ d \in B /\ ~d.free
                \/ d = [addr |-> a, size |-> n, free |-> FALSE]
           /\ \A d \in B : ~d.free => d.addr # a
<1> DEFINE T == Taken(B, b, a, n)
           p == [addr |-> b.addr, size |-> a - b.addr, free |-> TRUE]
           u == [addr |-> a, size |-> n, free |-> FALSE]
           s == [addr |-> a + n, size |-> End(b) - (a + n), free |-> TRUE]
<1>1. b \in Block /\ B \subseteq Block /\ End(b) <= Limit
  BY DEF Exact, Cover
<1>2. /\ b.addr \in Nat /\ Base <= b.addr /\ End(b) \in Nat /\ b.addr < End(b)
  BY <1>1, BlockFacts
<1>3. u \in Block /\ u.addr = a /\ End(u) = a + n /\ ~u.free
  BY <1>1, <1>2, ArenaAssumption DEF Block, Arena, End
<1>4. b.addr < a => p \in Block /\ p.addr = b.addr /\ End(p) = a /\ p.free
  BY <1>1, <1>2, ArenaAssumption DEF Block, Arena, End
<1>5. a + n < End(b) => s \in Block /\ s.addr = a + n /\ End(s) = End(b) /\ s.free
  <2> SUFFICES ASSUME a + n < End(b)
               PROVE  s \in Block /\ s.addr = a + n /\ End(s) = End(b) /\ s.free
    OBVIOUS
  <2>1. End(b) - (a + n) \in Nat \ {0} /\ a + n \in Base .. Limit - 1
    BY <1>1, <1>2, ArenaAssumption
  <2>2. s \in Block
    BY <2>1 DEF Block, Arena
  <2> QED
    BY <2>1, <2>2, <1>2 DEF End
<1>6. \A d : d \in T <=>
        \/ d \in B /\ d # b
        \/ d = p /\ b.addr < a
        \/ d = u
        \/ d = s /\ a + n < End(b)
  BY DEF Taken, Piece
<1> HIDE DEF T, p, u, s
<1>7. T \subseteq Block
  BY <1>1, <1>3, <1>4, <1>5, <1>6
\* What is new in the list lies within b.
<1>8. \A d \in T : \/ d \in B /\ d # b
                   \/ b.addr <= d.addr /\ End(d) <= End(b)
  BY <1>2, <1>3, <1>4, <1>5, <1>6
<1>9. \A c \in B : c # b => End(c) <= b.addr \/ End(b) <= c.addr
  BY DEF Exact, Apart, Disjoint
<1>10. Apart(T)
  <2> SUFFICES ASSUME NEW d \in T, NEW e \in T, d # e
               PROVE  Disjoint(d, e)
    BY DEF Apart
  <2>1. /\ d.addr \in Nat /\ End(d) \in Nat /\ e.addr \in Nat /\ End(e) \in Nat
    BY <1>7, BlockFacts
  <2>2. CASE d \in B /\ d # b /\ e \in B /\ e # b
    BY <2>2 DEF Exact, Apart
  <2>3. CASE d \in B /\ d # b /\ ~(e \in B /\ e # b)
    BY <2>1, <2>3, <1>2, <1>8, <1>9 DEF Disjoint
  <2>4. CASE e \in B /\ e # b /\ ~(d \in B /\ d # b)
    BY <2>1, <2>4, <1>2, <1>8, <1>9 DEF Disjoint
  <2>5. CASE ~(d \in B /\ d # b) /\ ~(e \in B /\ e # b)
    BY <2>5, <1>2, <1>3, <1>4, <1>5, <1>6 DEF Disjoint
  <2> QED
    BY <2>2, <2>3, <2>4, <2>5
<1>11. Cover(T)
  <2>1. ASSUME NEW x \in Arena
        PROVE  \E d \in T : x \in Cells(d)
    <3>1. PICK c \in B : x \in Cells(c)
      BY DEF Exact, Cover
    <3>2. CASE c # b
      BY <3>1, <3>2, <1>6
    <3>3. CASE c = b
      <4>1. x \in Nat /\ b.addr <= x /\ x < End(b)
        BY <3>1, <3>3, <1>1, BlockFacts
      <4>2. CASE x < a
        <5>1. p \in T /\ p \in Block /\ p.addr = b.addr /\ End(p) = a
          BY <4>1, <4>2, <1>2, <1>4, <1>6
        <5> QED
          BY <5>1, <4>1, <4>2, BlockFacts
      <4>3. CASE a <= x /\ x < a + n
        <5>1. u \in T
          BY <1>6
        <5> QED
          BY <5>1, <1>3, <4>1, <4>3, BlockFacts
      <4>4. CASE a + n <= x
        <5>1. s \in T /\ s \in Block /\ s.addr = a + n /\ End(s) = End(b)
          BY <4>1, <4>4, <1>2, <1>5, <1>6
        <5> QED
          BY <5>1, <4>1, <4>4, BlockFacts
      <4> QED
        BY <4>1, <4>2, <4>3, <4>4
    <3> QED
      BY <3>2, <3>3
  <2>2. ASSUME NEW d \in T
        PROVE  End(d) <= Limit
    <3>1. CASE d \in B
      BY <3>1 DEF Exact, Cover
    <3>2. CASE d \notin B
      <4>1. End(d) \in Nat /\ End(d) <= End(b)
        BY <3>2, <1>7, <1>8, BlockFacts
      <4> QED
        BY <4>1, <1>1, <1>2, ArenaAssumption
    <3> QED
      BY <3>1, <3>2
  <2> QED
    BY <2>1, <2>2 DEF Cover
<1>12. Coalesced(T)
  <2> SUFFICES ASSUME NEW d \in T, NEW e \in T, d.free, e.free, End(d) = e.addr
               PROVE  FALSE
    BY DEF Coalesced
  <2>1. /\ d.addr < End(d) /\ e.addr < End(e)
        /\ d.addr \in Nat /\ End(d) \in Nat /\ e.addr \in Nat /\ End(e) \in Nat
    BY <1>7, BlockFacts
  <2>2. \A c \in B : c.free => End(c) # b.addr /\ End(b) # c.addr
    BY DEF Exact, Coalesced
  <2>3. CASE d \in B /\ d # b /\ e \in B /\ e # b
    BY <2>3 DEF Exact, Coalesced
  \* A new free block begins where b began or ends where b ended.
  <2>4. \A f \in T : f.free => \/ f \in B /\ f # b
                               \/ f.addr = b.addr /\ End(f) = a
                               \/ f.addr = a + n /\ End(f) = End(b)
    BY <1>3, <1>4, <1>5, <1>6
  <2>5. CASE d \in B /\ d # b /\ ~(e \in B /\ e # b)
    <3>1. End(d) = b.addr \/ End(d) = a + n
      BY <2>4, <2>5
    <3> QED
      BY <3>1, <2>1, <2>2, <2>5, <1>2, <1>9
  <2>6. CASE e \in B /\ e # b /\ ~(d \in B /\ d # b)
    <3>1. e.addr = a \/ e.addr = End(b)
      BY <2>4, <2>6
    <3> QED
      BY <3>1, <2>1, <2>2, <2>6, <1>2, <1>9
  <2>7. CASE ~(d \in B /\ d # b) /\ ~(e \in B /\ e # b)
    <3>1. End(d) = a \/ End(d) = End(b)
      BY <2>4, <2>7
    <3>2. e.addr = b.addr \/ e.addr = a + n
      BY <2>4, <2>7
    <3> QED
      BY <3>1, <3>2, <2>1, <2>4, <2>7, <1>2
  <2> QED
    BY <2>3, <2>5, <2>6, <2>7
<1>13. \A d : d \in T /\ ~d.free <=> (d \in B /\ ~d.free) \/ d = u
  BY <1>3, <1>4, <1>5, <1>6
<1> QED
  <2>1. \A d \in B : ~d.free => d.addr # a
    <3> SUFFICES ASSUME NEW d \in B, ~d.free
                 PROVE  d.addr # a
      OBVIOUS
    <3>1. d # b /\ d.addr \in Nat /\ End(d) \in Nat /\ d.addr < End(d)
      BY <1>1, BlockFacts
    <3> QED
      BY <3>1, <1>2, <1>9
  <2> QED
    BY <2>1, <1>7, <1>10, <1>11, <1>12, <1>13 DEF Exact, T, u

\* A block in use that is freed leaves an exact list, and one block less in use.
LEMMA FreedExact ==
    ASSUME NEW B, Exact(B), NEW b \in B, ~b.free
    PROVE  /\ Exact(Freed(B, b))
           /\ \A d : d \in Freed(B, b) /\ ~d.free <=> d \in B /\ ~d.free /\ d # b
<1> DEFINE joined == {b} \cup Merges(B, b)
           lo == CHOOSE x \in {c.addr : c \in joined} : \A c \in joined : x <= c.addr
           hi == CHOOSE x \in {End(c) : c \in joined} : \A c \in joined : End(c) <= x
           w == [addr |-> lo, size |-> hi - lo, free |-> TRUE]
           F == Freed(B, b)
<1>1. b \in Block /\ B \subseteq Block
  BY DEF Exact
<1>2. \A c \in B : /\ c.addr \in Nat /\ Base <= c.addr /\ End(c) \in Nat
                   /\ c.addr < End(c) /\ End(c) <= Limit
  BY <1>1, BlockFacts DEF Exact, Cover
<1>3. \A c, d \in B : c # d => End(c) <= d.addr \/ End(d) <= c.addr
  BY DEF Exact, Apart, Disjoint
<1>4. \A c : c \in joined <=>
        \/ c = b
        \/ c \in B /\ c.free /\ (End(c) = b.addr \/ c.addr = End(b))
  BY DEF Merges
<1> HIDE DEF joined
\* The least address and the greatest end of the joined blocks.
<1>5. \E x \in {c.addr : c \in joined} : \A c \in joined : x <= c.addr
  <2>1. CASE \E c \in B : c.free /\ End(c) = b.addr
    <3>1. PICK c \in B : c.free /\ End(c) = b.addr
      BY <2>1
    <3>2. \A d \in joined : c.addr <= d.addr
      BY <3>1, <1>2, <1>3, <1>4
    <3> QED
      BY <3>1, <3>2, <1>4
  <2>2. CASE ~\E c \in B : c.free /\ End(c) = b.addr
    <3>1. \A d \in joined : b.addr <= d.addr
      BY <2>2, <1>2, <1>4
    <3> QED
      BY <3>1, <1>4
  <2> QED
    BY <2>1, <2>2
<1>6. \E x \in {End(c) : c \in joined} : \A c \in joined : End(c) <= x
  <2>1. CASE \E c \in B : c.free /\ c.addr = End(b)
    <3>1. PICK c \in B : c.free /\ c.addr = End(b)
      BY <2>1
    <3>2. \A d \in joined : End(d) <= End(c)
      BY <3>1, <1>2, <1>3, <1>4
    <3> QED
      BY <3>1, <3>2, <1>4
  <2>2. CASE ~\E c \in B : c.free /\ c.addr = End(b)
    <3>1. \A d \in joined : End(d) <= End(b)
      BY <2>2, <1>2, <1>4
    <3> QED
      BY <3>1, <1>4
  <2> QED
    BY <2>1, <2>2
<1>7. /\ lo \in {c.addr : c \in joined} /\ \A c \in joined : lo <= c.addr
      /\ hi \in {End(c) : c \in joined} /\ \A c \in joined : End(c) <= hi
  BY <1>5, <1>6
<1>8. F = (B \ joined) \cup Piece(lo, hi, TRUE)
  BY DEF Freed, joined
<1> HIDE DEF lo, hi, F
<1>9. PICK first \in joined : lo = first.addr
  BY <1>7
<1>10. PICK last \in joined : hi = End(last)
  BY <1>7
<1>11. joined \subseteq B /\ b \in joined
  BY <1>4
<1>12. /\ lo \in Nat /\ hi \in Nat /\ lo <= b.addr /\ End(b) <= hi /\ lo < hi
       /\ Base <= lo /\ hi <= Limit
  BY <1>2, <1>7, <1>9, <1>10, <1>11
<1>13. w \in Block /\ w.addr = lo /\ End(w) = hi /\ w.free
  BY <1>12, ArenaAssumption DEF Block, Arena, End
<1>14. \A d : d \in F <=> (d \in B /\ d \notin joined) \/ d = w
  BY <1>8, <1>12 DEF Piece
<1> HIDE DEF w
\* The joined blocks have no gap between them, so any other block is outside w.
<1>15. \A d \in B : d \notin joined => End(d) <= lo \/ hi <= d.addr
  <2> SUFFICES ASSUME NEW d \in B, d \notin joined
               PROVE  End(d) <= lo \/ hi <= d.addr
    OBVIOUS
  <2>1. d # b /\ d # first /\ d # last /\ first \in B /\ last \in B
    BY <1>4, <1>9, <1>10
  <2>2. /\ End(d) <= b.addr \/ End(b) <= d.addr
        /\ End(d) <= first.addr \/ End(first) <= d.addr
        /\ End(d) <= last.addr \/ End(last) <= d.addr
    BY <2>1, <1>3
  <2>3. End(first) = b.addr \/ first = b
    BY <1>2, <1>4, <1>9, <1>12
  <2>4. last.addr = End(b) \/ last = b
    BY <1>2, <1>4, <1>10, <1>12
  <2> QED
    BY <2>1, <2>2, <2>3, <2>4, <1>2, <1>9, <1>10
<1>16. Apart(F)
  BY <1>3, <1>13, <1>14, <1>15 DEF Apart, Disjoint
<1>17. Cover(F)
  <2>1. ASSUME NEW x \in Arena
        PROVE  \E d \in F : x \in Cells(d)
    <3>1. PICK c \in B : x \in Cells(c)
      BY DEF Exact, Cover
    <3>2. x \in Nat /\ c.addr <= x /\ x < End(c)
      BY <3>1, <1>1, BlockFacts
    <3>3. CASE c \in joined
      <4>1. lo <= x /\ x < hi
        BY <3>2, <3>3, <1>2, <1>7, <1>12
      <4> QED
        BY <4>1, <3>2, <1>13, <1>14, BlockFacts
    <3>4. CASE c \notin joined
      BY <3>1, <3>4, <1>14
    <3> QED
      BY <3>3, <3>4
  <2>2. \A d \in F : End(d) <= Limit
    BY <1>2, <1>12, <1>13, <1>14
  <2> QED
    BY <2>1, <2>2 DEF Cover
<1>18. Coalesced(F)
  <2> SUFFICES ASSUME NEW d \in F, NEW e \in F, d.free, e.free, End(d) = e.addr
               PROVE  FALSE
    BY DEF Coalesced
  <2>1. \A c, f \in B : c.free /\ f.free => End(c) # f.addr
    BY DEF Exact, Coalesced
  <2>2. CASE d # w /\ e # w
    BY <2>1, <2>2, <1>14
  <2>3. CASE d # w /\ e = w
    <3>1. d \in B /\ d \notin joined /\ End(d) = first.addr /\ first \in B
      BY <2>3, <1>9, <1>11, <1>13, <1>14
    <3>2. first = b \/ first.free
      BY <1>4
    <3> QED
      BY <3>1, <3>2, <2>1, <1>4
  <2>4. CASE d = w /\ e # w
    <3>1. e \in B /\ e \notin joined /\ End(last) = e.addr /\ last \in B
      BY <2>4, <1>10, <1>11, <1>13, <1>14
    <3>2. last = b \/ last.free
      BY <1>4
    <3> QED
      BY <3>1, <3>2, <2>1, <1>4
  <2>5. CASE d = w /\ e = w
    BY <2>5, <1>12, <1>13
  <2> QED
    BY <2>2, <2>3, <2>4, <2>5
<1>19. \A d : d \in F /\ ~d.free <=> d \in B /\ ~d.free /\ d # b
  BY <1>4, <1>13, <1>14
<1>20. F \subseteq Block
  BY <1>1, <1>13, <1>14
<1> QED
  BY <1>16, <1>17, <1>18, <1>19, <1>20 DEF Exact, F

\* A block in use that is cut in two, before its tail is freed.
LEMMA CutExact ==
    ASSUME NEW B, Exact(B), NEW u \in B, ~u.free, NEW n \in Nat \ {0}, n < u.size
    PROVE  /\ Exact(Cut(B, u, n))
           /\ Rest(u, n) \in Cut(B, u, n) /\ ~Rest(u, n).free
           /\ \A d : d \in Cut(B, u, n) /\ ~d.free /\ d # Rest(u, n) <=>
                \/ d \in B /\ ~d.free /\ d # u
                \/ d = Kept(u, n)
<1> DEFINE S == Cut(B, u, n)
           h == Kept(u, n)
           t == Rest(u, n)
<1>1. u \in Block /\ B \subseteq Block /\ End(u) <= Limit
  BY DEF Exact, Cover
<1>2. /\ u.addr \in Nat /\ u.size \in Nat /\ End(u) = u.addr + u.size
      /\ Base <= u.addr /\ u.addr < Limit
  BY <1>1, BlockFacts DEF End
<1>3. h \in Block /\ h.addr = u.addr /\ End(h) = u.addr + n /\ ~h.free
  BY <1>1, <1>2, ArenaAssumption DEF Block, Arena, End, Kept
<1>4. t \in Block /\ t.addr = u.addr + n /\ End(t) = End(u) /\ ~t.free
  BY <1>1, <1>2, ArenaAssumption DEF Block, Arena, End, Rest
<1>5. \A d : d \in S <=> (d \in B /\ d # u) \/ d = h \/ d = t
  BY DEF Cut
<1> HIDE DEF S, h, t
<1>6. \A c \in B : /\ c.addr \in Nat /\ End(c) \in Nat /\ c.addr < End(c)
                   /\ End(c) <= Limit
                   /\ c # u => End(c) <= u.addr \/ End(u) <= c.addr
  BY <1>1, BlockFacts DEF Exact, Apart, Disjoint, Cover
<1>7. S \subseteq Block
  BY <1>1, <1>3, <1>4, <1>5
<1>8. Apart(S)
  <2> SUFFICES ASSUME NEW d \in S, NEW e \in S, d # e
               PROVE  Disjoint(d, e)
    BY DEF Apart
  <2>1. CASE d \in B /\ e \in B /\ d # u /\ e # u
    BY <2>1 DEF Exact, Apart
  <2>2. /\ d.addr \in Nat /\ End(d) \in Nat /\ e.addr \in Nat /\ End(e) \in Nat
    BY <1>7, BlockFacts
  <2>3. \A f \in S : (f \in B /\ f # u) \/ (u.addr <= f.addr /\ End(f) <= End(u))
    BY <1>2, <1>3, <1>4, <1>5
  <2>4. CASE d \in B /\ d # u /\ ~(e \in B /\ e # u)
    BY <2>2, <2>3, <2>4, <1>2, <1>6 DEF Disjoint
  <2>5. CASE e \in B /\ e # u /\ ~(d \in B /\ d # u)
    BY <2>2, <2>3, <2>5, <1>2, <1>6 DEF Disjoint
  <2>6. CASE ~(d \in B /\ d # u) /\ ~(e \in B /\ e # u)
    BY <2>6, <1>2, <1>3, <1>4, <1>5 DEF Disjoint
  <2> QED
    BY <2>1, <2>4, <2>5, <2>6
<1>9. Cover(S)
  <2>1. ASSUME NEW x \in Arena
        PROVE  \E d \in S : x \in Cells(d)
    <3>1. PICK c \in B : x \in Cells(c)
      BY DEF Exact, Cover
    <3>2. x \in Nat /\ c.addr <= x /\ x < End(c)
      BY <3>1, <1>1, BlockFacts
    <3>3. CASE c # u
      BY <3>1, <3>3, <1>5
    <3>4. CASE c = u /\ x < u.addr + n
      BY <3>2, <3>4, <1>3, <1>5, BlockFacts
    <3>5. CASE c = u /\ u.addr + n <= x
      BY <3>2, <3>5, <1>4, <1>5, BlockFacts
    <3> QED
      BY <3>2, <3>3, <3>4, <3>5, <1>2
  <2>2. ASSUME NEW d \in S
        PROVE  End(d) <= Limit
    <3>1. CASE d \in B
      BY <3>1, <1>6
    <3>2. CASE d = h \/ d = t
      BY <3>2, <1>1, <1>2, <1>3, <1>4, ArenaAssumption
    <3> QED
      BY <3>1, <3>2, <1>5
  <2> QED
    BY <2>1, <2>2 DEF Cover
<1>10. Coalesced(S)
  BY <1>3, <1>4, <1>5 DEF Exact, Coalesced
<1> QED
  <2>1. Exact(S)
    BY <1>7, <1>8, <1>9, <1>10 DEF Exact
  <2>2. t \notin B
    <3> SUFFICES ASSUME t \in B
                 PROVE  FALSE
      OBVIOUS
    <3>1. t # u /\ t.addr < End(u) /\ u.addr < End(t)
      BY <1>2, <1>4
    <3> QED
      BY <3>1, <1>2, <1>4, <1>6
  <2>3. h # t
    BY <1>2, <1>3, <1>4
  <2>4. \A d : d \in S /\ ~d.free /\ d # t <=> (d \in B /\ ~d.free /\ d # u) \/ d = h
    BY <2>2, <2>3, <1>3, <1>5
  <2> QED
    BY <2>1, <2>4, <1>4, <1>5 DEF S, h, t

\* A block in use that takes the units it lacks from the free block behind it.
LEMMA GrownExact ==
    ASSUME NEW B, Exact(B), NEW u \in B, ~u.free, NEW c \in B, c.free, c.addr = End(u),
           NEW n \in Nat, u.size < n, n <= u.size + c.size
    PROVE  /\ Exact(Grown(B, u, c, n))
           /\ \A d : d \in Grown(B, u, c, n) /\ ~d.free <=>
                \/ d \in B /\ ~d.free /\ d # u
                \/ d = Kept(u, n)
<1> DEFINE G == Grown(B, u, c, n)
           g == Kept(u, n)
           r == [addr |-> u.addr + n, size |-> End(c) - (u.addr + n), free |-> TRUE]
<1>1. u \in Block /\ c \in Block /\ B \subseteq Block /\ End(c) <= Limit
  BY DEF Exact, Cover
<1>2. /\ u.addr \in Nat /\ u.size \in Nat /\ End(u) = u.addr + u.size
      /\ c.addr \in Nat /\ c.size \in Nat /\ End(c) = c.addr + c.size
      /\ Base <= u.addr /\ u.addr < Limit /\ u.size > 0
  BY <1>1, BlockFacts DEF End
<1>3. g \in Block /\ g.addr = u.addr /\ End(g) = u.addr + n /\ ~g.free
  BY <1>1, <1>2, ArenaAssumption DEF Block, Arena, End, Kept
<1>4. u.addr + n < End(c) => r \in Block /\ r.addr = u.addr + n /\ End(r) = End(c) /\ r.free
  <2> SUFFICES ASSUME u.addr + n < End(c)
               PROVE  r \in Block /\ r.addr = u.addr + n /\ End(r) = End(c) /\ r.free
    OBVIOUS
  <2>1. End(c) - (u.addr + n) \in Nat \ {0} /\ u.addr + n \in Base .. Limit - 1
    BY <1>1, <1>2, ArenaAssumption
  <2>2. r \in Block
    BY <2>1 DEF Block, Arena
  <2> QED
    BY <2>1, <2>2, <1>2 DEF End
<1>5. \A d : d \in G <=>
        (d \in B /\ d # u /\ d # c) \/ d = g \/ (d = r /\ u.addr + n < End(c))
  BY DEF Grown, Piece
<1> HIDE DEF G, g, r
<1>6. \A d \in B : /\ d.addr \in Nat /\ End(d) \in Nat /\ d.addr < End(d)
                   /\ End(d) <= Limit
                   /\ d # u => End(d) <= u.addr \/ End(u) <= d.addr
                   /\ d # c => End(d) <= c.addr \/ End(c) <= d.addr
  BY <1>1, BlockFacts DEF Exact, Apart, Disjoint, Cover
<1>7. G \subseteq Block
  BY <1>1, <1>3, <1>4, <1>5
\* What is new in the list lies within u and c.
<1>7a. \A d \in G : \/ d \in B /\ d # u /\ d # c
                    \/ u.addr <= d.addr /\ End(d) <= End(c)
  <2> SUFFICES ASSUME NEW d \in G, ~(d \in B /\ d # u /\ d # c)
               PROVE  u.addr <= d.addr /\ End(d) <= End(c)
    OBVIOUS
  <2>1. CASE d = g
    BY <2>1, <1>2, <1>3
  <2>2. CASE d = r /\ u.addr + n < End(c)
    BY <2>2, <1>2, <1>4
  <2> QED
    BY <2>1, <2>2, <1>5
<1>8. \A d \in B : d # u /\ d # c => End(d) <= u.addr \/ End(c) <= d.addr
  BY <1>2, <1>6
<1>9. Apart(G)
  <2> SUFFICES ASSUME NEW d \in G, NEW e \in G, d # e
               PROVE  Disjoint(d, e)
    BY DEF Apart
  <2>1. CASE d \in B /\ d # u /\ d # c /\ e \in B /\ e # u /\ e # c
    BY <2>1 DEF Exact, Apart
  <2>2. /\ d.addr \in Nat /\ End(d) \in Nat /\ e.addr \in Nat /\ End(e) \in Nat
    BY <1>7, BlockFacts
  <2>3. CASE d \in B /\ d # u /\ d # c /\ ~(e \in B /\ e # u /\ e # c)
    BY <2>2, <2>3, <1>2, <1>7a, <1>8 DEF Disjoint
  <2>4. CASE e \in B /\ e # u /\ e # c /\ ~(d \in B /\ d # u /\ d # c)
    BY <2>2, <2>4, <1>2, <1>7a, <1>8 DEF Disjoint
  <2>5. CASE ~(d \in B /\ d # u /\ d # c) /\ ~(e \in B /\ e # u /\ e # c)
    <3>1. \A f \in G : (f \in B /\ f # u /\ f # c) \/ f = g \/ (f = r /\ u.addr + n < End(c))
      BY <1>5
    <3> QED
      BY <2>5, <3>1, <1>2, <1>3, <1>4 DEF Disjoint
  <2> QED
    BY <2>1, <2>3, <2>4, <2>5
<1>10. Cover(G)
  <2>1. ASSUME NEW x \in Arena
        PROVE  \E d \in G : x \in Cells(d)
    <3>1. PICK d \in B : x \in Cells(d)
      BY DEF Exact, Cover
    <3>2. x \in Nat /\ d.addr <= x /\ x < End(d)
      BY <3>1, <1>1, BlockFacts
    <3>3. CASE d # u /\ d # c
      BY <3>1, <3>3, <1>5
    <3>4. CASE d = u \/ d = c
      <4>1. u.addr <= x /\ x < End(c)
        BY <3>2, <3>4, <1>2
      <4>2. CASE x < u.addr + n
        <5>1. g \in G /\ x \in Cells(g)
          BY <3>2, <4>1, <4>2, <1>3, <1>5, BlockFacts
        <5> QED
          BY <5>1
      <4>3. CASE u.addr + n <= x
        <5>1. u.addr + n < End(c)
          BY <3>2, <4>1, <4>3, <1>2
        <5>2. r \in G /\ x \in Cells(r)
          BY <3>2, <4>1, <4>3, <5>1, <1>4, <1>5, BlockFacts
        <5> QED
          BY <5>2
      <4> QED
        BY <4>2, <4>3, <3>2, <1>2
    <3> QED
      BY <3>3, <3>4
  <2>2. ASSUME NEW d \in G
        PROVE  End(d) <= Limit
    <3>1. CASE d \in B
      BY <3>1, <1>6
    <3>2. CASE d \notin B
      <4>1. End(d) <= End(c) /\ End(d) \in Nat
        BY <3>2, <1>7, <1>7a, BlockFacts
      <4> QED
        BY <4>1, <1>1, <1>2, ArenaAssumption
    <3> QED
      BY <3>1, <3>2
  <2> QED
    BY <2>1, <2>2 DEF Cover
<1>11. Coalesced(G)
  <2>1. \A d, e \in B : d.free /\ e.free => End(d) # e.addr
    BY DEF Exact, Coalesced
  <2>2. \A d \in G : d.free => d \in B \/ (d = r /\ u.addr + n < End(c))
    <3> SUFFICES ASSUME NEW d \in G, d.free
                 PROVE  d \in B \/ (d = r /\ u.addr + n < End(c))
      OBVIOUS
    <3>1. d # g
      BY <1>3
    <3> QED
      BY <3>1, <1>5
  <2> SUFFICES ASSUME NEW d \in G, NEW e \in G, d.free, e.free, End(d) = e.addr
               PROVE  FALSE
    BY DEF Coalesced
  <2>3. CASE d \in B /\ e \in B
    BY <2>1, <2>3
  <2>4. CASE d \in B /\ e \notin B
    <3>1. e = r /\ u.addr + n < End(c) /\ d # u /\ d # c
      <4>1. e = r /\ u.addr + n < End(c)
        BY <2>2, <2>4
      <4>2. d # u
        OBVIOUS
      <4>3. d # c
        BY <4>1, <2>4, <1>2, <1>4
      <4> QED
        BY <4>1, <4>2, <4>3
    <3>2. End(d) = u.addr + n /\ d.addr \in Nat /\ End(d) \in Nat /\ d.addr < End(d)
      BY <3>1, <2>4, <1>4, <1>6
    <3>3. End(d) <= u.addr \/ End(c) <= d.addr
      BY <3>1, <2>4, <1>8
    <3> QED
      BY <3>1, <3>2, <3>3, <1>2
  <2>5. CASE d \notin B /\ e \in B
    BY <2>1, <2>2, <2>5, <1>4
  <2>6. CASE d \notin B /\ e \notin B
    <3>1. d = r /\ e = r /\ u.addr + n < End(c)
      BY <2>2, <2>6
    <3> QED
      BY <3>1, <1>2, <1>4
  <2> QED
    BY <2>3, <2>4, <2>5, <2>6
<1>12. \A d : d \in G /\ ~d.free <=> (d \in B /\ ~d.free /\ d # u) \/ d = g
  BY <1>3, <1>4, <1>5
<1> QED
  BY <1>7, <1>9, <1>10, <1>11, <1>12 DEF Exact, G, g

LEMMA UniqueAddress ==
    ASSUME NEW B, Exact(B), NEW b \in B, NEW c \in B, b.addr = c.addr
    PROVE  b = c
<1>1. \A d \in B : d.addr \in Nat /\ End(d) \in Nat /\ d.addr < End(d)
  BY BlockFacts DEF Exact
<1> QED
  BY <1>1 DEF Exact, Apart, Disjoint

--------------------------------------------------------------------------------
\* What the calls do to the list and to the blocks in use.
InUse(B) == {b \in B : ~b.free}
Used(a, n) == [addr |-> a, size |-> n, free |-> FALSE]

\* The block u in use, if any, is replaced by one of n units at a.
Replaced(B, C, u, a, n) ==
    /\ Exact(C) /\ a \in Nat
    /\ InUse(C) = (InUse(B) \ {u}) \cup {Used(a, n)}
    /\ \A d \in InUse(B) \ {u} : d.addr # a

LEMMA GrantFacts ==
    ASSUME HeapExact, NEW n \in Nat \ {0}, NEW al \in Nat \ {0}, NEW v, Grant(n, al, v)
    PROVE  /\ Exact(blocks') /\ answer' \in Nat
           /\ InUse(blocks') = InUse(blocks) \cup {Used(answer', n)}
           /\ \A d \in InUse(blocks) : d.addr # answer'
<1>1. PICK b \in blocks :
        /\ FirstFit(b, n, al)
        /\ blocks' = Taken(blocks, b, AlignedStart(b, al), n)
        /\ answer' = AlignedStart(b, al)
  BY DEF Grant
<1>2. b \in Block
  BY DEF HeapExact, Exact
<1>3. AlignedStart(b, al) \in Nat /\ b.addr <= AlignedStart(b, al)
  BY <1>2, BlockFacts, AlignedUp DEF AlignedStart
<1>4. b.free /\ AlignedStart(b, al) + n <= End(b)
  BY <1>1 DEF FirstFit, Fits
<1> QED
  BY <1>1, <1>3, <1>4, TakenExact DEF HeapExact, InUse, Used

LEMMA ReleaseFacts ==
    ASSUME HeapExact, NEW a, NEW b \in FindBlock(blocks, a), Release(b)
    PROVE  /\ Exact(blocks')
           /\ b \in InUse(blocks) /\ b.addr = a
           /\ InUse(blocks') = InUse(blocks) \ {b}
<1>1. b \in blocks /\ ~b.free /\ b.addr = a /\ blocks' = Freed(blocks, b)
  BY DEF FindBlock, Release
<1> QED
  BY <1>1, FreedExact DEF HeapExact, InUse

LEMMA ShrinkFacts ==
    ASSUME HeapExact, NEW u \in blocks, ~u.free, NEW n \in Nat \ {0}, ShrinkTo(u, n)
    PROVE  Replaced(blocks, blocks', u, u.addr, n) /\ held' = held
<1>1. u \in Block /\ u.addr \in Nat /\ u.size \in Nat
  BY BlockFacts DEF HeapExact, Exact
<1>2. \A d \in InUse(blocks) \ {u} : d.addr # u.addr
  BY UniqueAddress DEF HeapExact, InUse
<1>3. CASE n = u.size
  <2>1. blocks' = blocks /\ u = Used(u.addr, n)
    BY <1>1, <1>3 DEF ShrinkTo, Block, Used
  <2> QED
    BY <2>1, <1>1, <1>2 DEF Replaced, HeapExact, InUse, ShrinkTo
<1>4. CASE n # u.size
  <2>1. n < u.size /\ blocks' = Freed(Cut(blocks, u, n), Rest(u, n))
    BY <1>1, <1>4 DEF ShrinkTo
  <2>2. /\ Exact(Cut(blocks, u, n))
        /\ Rest(u, n) \in Cut(blocks, u, n) /\ ~Rest(u, n).free
        /\ \A d : d \in Cut(blocks, u, n) /\ ~d.free /\ d # Rest(u, n) <=>
             \/ d \in blocks /\ ~d.free /\ d # u
             \/ d = Kept(u, n)
    BY <2>1, CutExact DEF HeapExact
  <2>3. /\ Exact(blocks')
        /\ \A d : d \in blocks' /\ ~d.free <=>
             \/ d \in blocks /\ ~d.free /\ d # u
             \/ d = Kept(u, n)
    BY <2>1, <2>2, FreedExact
  <2>4. InUse(blocks') = (InUse(blocks) \ {u}) \cup {Used(u.addr, n)}
    BY <2>3 DEF InUse, Used, Kept
  <2> QED
    BY <2>3, <2>4, <1>1, <1>2 DEF Replaced, ShrinkTo
<1> QED
  BY <1>3, <1>4

LEMMA GrowFacts ==
    ASSUME HeapExact, NEW u \in blocks, ~u.free, NEW n \in Nat \ {0}, GrowInPlace(u, n)
    PROVE  Replaced(blocks, blocks', u, u.addr, n) /\ held' = held
<1>1. u \in Block /\ u.addr \in Nat /\ u.size \in Nat
  BY BlockFacts DEF HeapExact, Exact
<1>2. \A d \in InUse(blocks) \ {u} : d.addr # u.addr
  BY UniqueAddress DEF HeapExact, InUse
<1>3. PICK c \in blocks : RoomBehind(u, c, n) /\ blocks' = Grown(blocks, u, c, n)
  BY DEF GrowInPlace
<1>4. c.free /\ c.addr = End(u) /\ u.size < n /\ n <= u.size + c.size
  BY <1>1, <1>3, BlockFacts DEF RoomBehind, GrowInPlace, HeapExact, Exact
<1>5. /\ Exact(blocks')
      /\ \A d : d \in blocks' /\ ~d.free <=>
           \/ d \in blocks /\ ~d.free /\ d # u
           \/ d = Kept(u, n)
  BY <1>3, <1>4, GrownExact DEF HeapExact
<1>6. InUse(blocks') = (InUse(blocks) \ {u}) \cup {Used(u.addr, n)}
  BY <1>5 DEF InUse, Used, Kept
<1> QED
  BY <1>1, <1>2, <1>5, <1>6 DEF Replaced, GrowInPlace

\* A block in use that moves into the free block b.
LEMMA MovedFacts ==
    ASSUME HeapExact, NEW u \in blocks, ~u.free, NEW n \in Nat \ {0},
           NEW b \in blocks, FirstFit(b, n, 1),
           blocks' = Freed(Taken(blocks, b, AlignedStart(b, 1), n), u),
           answer' = AlignedStart(b, 1)
    PROVE  /\ Replaced(blocks, blocks', u, answer', n)
           /\ b.free /\ b.addr <= answer' /\ answer' + n <= End(b)
<1>1. b \in Block
  BY DEF HeapExact, Exact
<1>2. answer' \in Nat /\ b.addr <= answer'
  BY <1>1, BlockFacts, AlignedUp DEF AlignedStart
<1>3. b.free /\ answer' + n <= End(b)
  BY DEF FirstFit, Fits
<1> DEFINE T == Taken(blocks, b, answer', n)
<1>4. /\ Exact(T)
      /\ \A d : d \in T /\ ~d.free <=> (d \in blocks /\ ~d.free) \/ d = Used(answer', n)
      /\ \A d \in blocks : ~d.free => d.addr # answer'
  BY <1>2, <1>3, TakenExact DEF HeapExact, Used
<1>5. u \in T /\ blocks' = Freed(T, u)
  BY <1>4
<1> HIDE DEF T
<1>6. /\ Exact(blocks')
      /\ \A d : d \in blocks' /\ ~d.free <=> d \in T /\ ~d.free /\ d # u
  BY <1>4, <1>5, FreedExact
<1>7. Used(answer', n) # u
  BY <1>4 DEF Used
<1>8. InUse(blocks') = (InUse(blocks) \ {u}) \cup {Used(answer', n)}
  BY <1>4, <1>6, <1>7 DEF InUse
<1> QED
  BY <1>2, <1>3, <1>4, <1>6, <1>8 DEF Replaced, InUse

\* A move, and a resize that is refused.
LEMMA MoveFacts ==
    ASSUME HeapExact, NEW u \in blocks, ~u.free, NEW n \in Nat \ {0}, Move(u, n)
    PROVE  \/ /\ Replaced(blocks, blocks', u, answer', n)
              /\ held' = (held \ {u.addr}) \cup {answer'}
           \/ blocks' = blocks /\ held' = held
<1>1. CASE ~CanServe(n, 1) /\ Refuse /\ UNCHANGED held
  BY <1>1 DEF Refuse
<1> QED
  BY <1>1, MovedFacts DEF Move

--------------------------------------------------------------------------------
\* BlocksHeld in terms of the blocks in use.
Held(B, hs, st, ow) ==
    /\ \A b \in InUse(B) : b.addr \in hs \/ \E t \in Threads : ow[t] /\ st[t] = b.addr
    /\ \A a \in hs : \E b \in InUse(B) : b.addr = a
    /\ \A t \in Threads : ow[t] =>
        /\ \E b \in InUse(B) : b.addr = st[t] /\ b.size = StackSize[t]
        /\ st[t] \notin hs
        /\ \A u \in Threads \ {t} : ow[u] => st[u] # st[t]

ThreadTypes == stack \in [Threads -> Nat \cup {NULL}] /\ owns \in [Threads -> BOOLEAN]

Inv == HeapExact /\ Held(blocks, held, stack, owns) /\ ThreadTypes

LEMMA HeldIsBlocksHeld == Held(blocks, held, stack, owns) <=> BlocksHeld
  BY DEF Held, BlocksHeld, InUse, FindBlock

\* An address in use is a natural number, and its block the only one.
LEMMA UseFacts ==
    ASSUME NEW B, Exact(B)
    PROVE  /\ \A b \in InUse(B) : b.addr \in Nat
           /\ \A b, c \in InUse(B) : b.addr = c.addr => b = c
  BY UniqueAddress, BlockFacts DEF Exact, InUse

LEMMA InitInv == Init => Inv
<1> SUFFICES ASSUME Init PROVE Inv
  OBVIOUS
<1> DEFINE w == [addr |-> Base, size |-> Limit - Base, free |-> TRUE]
<1>1. blocks = {w} /\ held = {} /\ ThreadTypes /\ \A t \in Threads : ~owns[t]
  BY DEF Init, ThreadTypes
<1>2. w \in Block /\ w.addr = Base /\ End(w) = Limit /\ w.free
  BY ArenaAssumption DEF Block, Arena, End
<1> HIDE DEF w
<1>3. Exact(blocks)
  BY <1>1, <1>2, BlockFacts, ArenaAssumption DEF Exact, Apart, Cover, Coalesced, Arena
<1>4. Held(blocks, held, stack, owns)
  BY <1>1, <1>2 DEF Held, InUse
<1> QED
  BY <1>1, <1>3, <1>4 DEF Inv, HeapExact

\* The holders after a block u of the game's is replaced by one at a, or a new one is
\* added.
LEMMA HeldReplaced ==
    ASSUME NEW B, NEW C, NEW u, NEW a, NEW n, NEW hs, NEW st, NEW ow,
           Exact(B), Held(B, hs, st, ow), Replaced(B, C, u, a, n),
           u \in InUse(B) => u.addr \in hs
    PROVE  Held(C, IF u \in InUse(B) THEN (hs \ {u.addr}) \cup {a} ELSE hs \cup {a}, st, ow)
<1> DEFINE hn == IF u \in InUse(B) THEN (hs \ {u.addr}) \cup {a} ELSE hs \cup {a}
           w == Used(a, n)
<1>1. /\ InUse(C) = (InUse(B) \ {u}) \cup {w} /\ w.addr = a
      /\ \A d \in InUse(B) \ {u} : d.addr # a
  BY DEF Replaced, Used
<1> HIDE DEF w
<1>2. \A b, c \in InUse(B) : b.addr = c.addr => b = c
  BY UseFacts
<1>3. \A x : x \in hn <=> x = a \/ (x \in hs /\ ~(u \in InUse(B) /\ x = u.addr))
  OBVIOUS
<1> HIDE DEF hn
<1>4. \A b \in InUse(C) : b.addr \in hn \/ \E t \in Threads : ow[t] /\ st[t] = b.addr
  BY <1>1, <1>2, <1>3 DEF Held
<1>5. \A x \in hn : \E b \in InUse(C) : b.addr = x
  <2> SUFFICES ASSUME NEW x \in hn PROVE \E b \in InUse(C) : b.addr = x
    OBVIOUS
  <2>1. CASE x = a
    BY <2>1, <1>1
  <2>2. CASE x # a
    <3>1. x \in hs /\ ~(u \in InUse(B) /\ x = u.addr)
      BY <2>2, <1>3
    <3>2. PICK b \in InUse(B) : b.addr = x
      BY <3>1 DEF Held
    <3> QED
      BY <3>1, <3>2, <1>1
  <2> QED
    BY <2>1, <2>2
<1>6. ASSUME NEW t \in Threads, ow[t]
      PROVE  /\ \E b \in InUse(C) : b.addr = st[t] /\ b.size = StackSize[t]
             /\ st[t] \notin hn
             /\ \A v \in Threads \ {t} : ow[v] => st[v] # st[t]
  <2>1. PICK b \in InUse(B) : b.addr = st[t] /\ b.size = StackSize[t]
    BY <1>6 DEF Held
  <2>2. st[t] \notin hs /\ \A v \in Threads \ {t} : ow[v] => st[v] # st[t]
    BY <1>6 DEF Held
  <2>3. b # u
    BY <2>1, <2>2
  <2> QED
    BY <2>1, <2>2, <2>3, <1>1, <1>3
<1> QED
  BY <1>4, <1>5, <1>6 DEF Held, hn

\* The holders after a block the game holds is freed.
LEMMA HeldFreed ==
    ASSUME NEW B, NEW C, NEW b \in InUse(B), NEW hs, NEW st, NEW ow,
           Exact(B), Held(B, hs, st, ow), InUse(C) = InUse(B) \ {b}, b.addr \in hs
    PROVE  Held(C, hs \ {b.addr}, st, ow)
<1>1. \A d, c \in InUse(B) : d.addr = c.addr => d = c
  BY UseFacts
<1> QED
  BY <1>1 DEF Held

\* The holders after thread t takes a block for its stack.
LEMMA HeldStackTaken ==
    ASSUME NEW B, NEW C, NEW a \in Nat, NEW hs, NEW t \in Threads, Held(B, hs, stack, owns),
           ThreadTypes, ~owns[t], InUse(C) = InUse(B) \cup {Used(a, StackSize[t])},
           \A d \in InUse(B) : d.addr # a
    PROVE  Held(C, hs, [stack EXCEPT ![t] = a], [owns EXCEPT ![t] = TRUE])
<1> DEFINE st == [stack EXCEPT ![t] = a]
           ow == [owns EXCEPT ![t] = TRUE]
           w == Used(a, StackSize[t])
<1>1. /\ st[t] = a /\ ow[t] = TRUE
      /\ \A u \in Threads \ {t} : st[u] = stack[u] /\ ow[u] = owns[u]
  BY DEF ThreadTypes
<1>2. w.addr = a /\ w.size = StackSize[t]
  BY DEF Used
<1> HIDE DEF st, ow, w
<1>3. \A b \in InUse(C) : b.addr \in hs \/ \E u \in Threads : ow[u] /\ st[u] = b.addr
  <2> SUFFICES ASSUME NEW b \in InUse(C), b.addr \notin hs
               PROVE  \E u \in Threads : ow[u] /\ st[u] = b.addr
    OBVIOUS
  <2>1. CASE b \in InUse(B)
    <3>1. PICK u \in Threads : owns[u] /\ stack[u] = b.addr
      BY <2>1 DEF Held
    <3>2. u # t
      BY <3>1
    <3> QED
      BY <3>1, <3>2, <1>1
  <2>2. CASE b = w
    BY <2>2, <1>1, <1>2
  <2> QED
    BY <2>1, <2>2 DEF w
<1>4. \A x \in hs : \E b \in InUse(C) : b.addr = x
  BY DEF Held
<1>5. ASSUME NEW u \in Threads, ow[u]
      PROVE  /\ \E b \in InUse(C) : b.addr = st[u] /\ b.size = StackSize[u]
             /\ st[u] \notin hs
             /\ \A v \in Threads \ {u} : ow[v] => st[v] # st[u]
  <2>1. \A v \in Threads : owns[v] => stack[v] # a
    BY DEF Held
  <2>2. a \notin hs
    BY DEF Held
  <2>3. CASE u = t
    BY <2>1, <2>2, <2>3, <1>1, <1>2 DEF w
  <2>4. CASE u # t
    <3>1. owns[u] /\ st[u] = stack[u]
      BY <2>4, <1>1, <1>5
    <3>2. \A v \in Threads \ {u} : ow[v] => st[v] # st[u]
      BY <3>1, <2>1, <1>1 DEF Held
    <3> QED
      BY <3>1, <3>2 DEF Held
  <2> QED
    BY <2>3, <2>4
<1> QED
  BY <1>3, <1>4, <1>5 DEF Held, st, ow

\* The holders after thread t gives up its stack, freed when it owned it.
LEMMA HeldStackFreed ==
    ASSUME HeapExact, Held(blocks, held, stack, owns), ThreadTypes,
           NEW t \in Threads, StackFreed(t), NEW st \in [Threads -> Nat \cup {NULL}],
           \A u \in Threads \ {t} : st[u] = stack[u]
    PROVE  Exact(blocks') /\ Held(blocks', held, st, [owns EXCEPT ![t] = FALSE])
<1> DEFINE ow == [owns EXCEPT ![t] = FALSE]
<1>1. ~ow[t] /\ \A u \in Threads \ {t} : ow[u] = owns[u]
  BY DEF ThreadTypes
<1> HIDE DEF ow
<1>2. CASE ~owns[t]
  <2>1. blocks' = blocks
    BY <1>2 DEF StackFreed
  <2> QED
    BY <2>1, <1>1, <1>2 DEF Held, HeapExact, ow
<1>3. CASE owns[t]
  <2>1. PICK b \in FindBlock(blocks, stack[t]) : Release(b)
    BY <1>3 DEF StackFreed
  <2>2. /\ Exact(blocks') /\ b \in InUse(blocks) /\ b.addr = stack[t]
        /\ InUse(blocks') = InUse(blocks) \ {b}
    BY <2>1, ReleaseFacts
  <2>3. \A d, c \in InUse(blocks) : d.addr = c.addr => d = c
    BY UseFacts DEF HeapExact
  <2>4. \A d \in InUse(blocks') : d.addr \in held \/ \E u \in Threads : ow[u] /\ st[u] = d.addr
    <3> SUFFICES ASSUME NEW d \in InUse(blocks'), d.addr \notin held
                 PROVE  \E u \in Threads : ow[u] /\ st[u] = d.addr
      OBVIOUS
    <3>1. PICK u \in Threads : owns[u] /\ stack[u] = d.addr
      BY <2>2 DEF Held
    <3>2. u # t
      BY <3>1, <2>2, <2>3
    <3> QED
      BY <3>1, <3>2, <1>1
  <2>5. \A x \in held : \E d \in InUse(blocks') : d.addr = x
    BY <1>3, <2>2 DEF Held
  <2>6. \A u \in Threads : ow[u] =>
          /\ \E d \in InUse(blocks') : d.addr = st[u] /\ d.size = StackSize[u]
          /\ st[u] \notin held
          /\ \A v \in Threads \ {u} : ow[v] => st[v] # st[u]
    <3> SUFFICES ASSUME NEW u \in Threads, ow[u]
                 PROVE  /\ \E d \in InUse(blocks') : d.addr = st[u] /\ d.size = StackSize[u]
                        /\ st[u] \notin held
                        /\ \A v \in Threads \ {u} : ow[v] => st[v] # st[u]
      OBVIOUS
    <3>1. u # t /\ owns[u] /\ st[u] = stack[u]
      BY <1>1
    <3>2. PICK d \in InUse(blocks) : d.addr = stack[u] /\ d.size = StackSize[u]
      BY <3>1 DEF Held
    <3>3. stack[u] \notin held /\ \A v \in Threads \ {u} : owns[v] => stack[v] # stack[u]
      BY <3>1 DEF Held
    <3>4. d # b
      BY <1>3, <2>2, <3>1, <3>2, <3>3
    <3>5. d \in InUse(blocks')
      BY <2>2, <3>2, <3>4
    <3> QED
      BY <3>1, <3>2, <3>3, <3>5, <1>1
  <2> QED
    BY <2>2, <2>4, <2>5, <2>6 DEF Held, ow
<1> QED
  BY <1>2, <1>3

--------------------------------------------------------------------------------
LEMMA MallocInv ==
    ASSUME Inv, NEW n \in Nat \ {0}, NEW al \in Nat \ {0}, NEW v, guestMalloc(n, al, v)
    PROVE  Inv'
<1>1. ThreadTypes' /\ stack' = stack /\ owns' = owns
  BY DEF guestMalloc, threadVars, Inv, ThreadTypes
<1>2. CASE Grant(n, al, v) /\ held' = held \cup {answer'}
  <2> DEFINE w == Used(answer', n)
  <2>1. /\ Exact(blocks') /\ answer' \in Nat
        /\ InUse(blocks') = InUse(blocks) \cup {w}
        /\ \A d \in InUse(blocks) : d.addr # answer'
    BY <1>2, GrantFacts DEF Inv
  <2>2. w \notin InUse(blocks)
    BY <2>1 DEF Used
  <2>3. Replaced(blocks, blocks', w, answer', n)
    BY <2>1, <2>2 DEF Replaced
  <2> HIDE DEF w
  <2>4. Held(blocks', held \cup {answer'}, stack, owns)
    BY <2>2, <2>3, HeldReplaced DEF Inv, HeapExact
  <2> QED
    BY <2>1, <2>4, <1>1, <1>2 DEF Inv, HeapExact
<1>3. CASE ~CanServe(n, al) /\ Refuse /\ UNCHANGED held
  BY <1>1, <1>3 DEF Inv, HeapExact, Refuse
<1> QED
  BY <1>2, <1>3 DEF guestMalloc

LEMMA FreeInv ==
    ASSUME Inv, NEW a, guestFree(a)
    PROVE  Inv'
<1>1. ThreadTypes' /\ stack' = stack /\ owns' = owns /\ held' = held \ {a}
  BY DEF guestFree, threadVars, Inv, ThreadTypes
<1>2. ASSUME NEW b \in FindBlock(blocks, a), a \in held, Release(b)
      PROVE  Inv'
  <2>1. /\ Exact(blocks') /\ b \in InUse(blocks) /\ b.addr = a
        /\ InUse(blocks') = InUse(blocks) \ {b}
    BY <1>2, ReleaseFacts DEF Inv
  <2>2. Held(blocks', held \ {b.addr}, stack, owns)
    BY <1>2, <2>1, HeldFreed DEF Inv, HeapExact
  <2> QED
    BY <2>1, <2>2, <1>1 DEF Inv, HeapExact
<1>3. CASE FindBlock(blocks, a) = {} /\ UNCHANGED <<blocks, memory>>
  <2>1. a \notin held
    BY <1>3 DEF Inv, Held, InUse, FindBlock
  <2>2. held' = held /\ blocks' = blocks
    BY <2>1, <1>1, <1>3
  <2> QED
    BY <2>2, <1>1 DEF Inv, HeapExact
<1> QED
  BY <1>2, <1>3 DEF guestFree

LEMMA ReallocInv ==
    ASSUME Inv, NEW a, NEW n \in Nat \ {0}, guestRealloc(a, n)
    PROVE  Inv'
<1>1. ThreadTypes' /\ stack' = stack /\ owns' = owns
  BY DEF guestRealloc, threadVars, Inv, ThreadTypes
<1>2. PICK u \in FindBlock(blocks, a) :
        a \in held /\ (ShrinkTo(u, n) \/ GrowInPlace(u, n) \/ Move(u, n))
  BY DEF guestRealloc
<1>3. u \in blocks /\ ~u.free /\ u.addr = a /\ u \in InUse(blocks) /\ u.addr \in held
  BY <1>2 DEF FindBlock, InUse
<1>4. ASSUME NEW x, Replaced(blocks, blocks', u, x, n), held' = (held \ {u.addr}) \cup {x}
      PROVE  Inv'
  <2>1. Held(blocks', (held \ {u.addr}) \cup {x}, stack, owns)
    BY <1>3, <1>4, HeldReplaced DEF Inv, HeapExact
  <2> QED
    BY <2>1, <1>1, <1>4 DEF Inv, HeapExact, Replaced
<1>5. CASE ShrinkTo(u, n)
  <2>1. Replaced(blocks, blocks', u, u.addr, n) /\ held' = held
    BY <1>3, <1>5, ShrinkFacts DEF Inv
  <2> QED
    BY <2>1, <1>3, <1>4
<1>6. CASE GrowInPlace(u, n)
  <2>1. Replaced(blocks, blocks', u, u.addr, n) /\ held' = held
    BY <1>3, <1>6, GrowFacts DEF Inv
  <2> QED
    BY <2>1, <1>3, <1>4
<1>7. CASE Move(u, n)
  <2>1. CASE Replaced(blocks, blocks', u, answer', n)
             /\ held' = (held \ {u.addr}) \cup {answer'}
    BY <2>1, <1>4
  <2>2. CASE blocks' = blocks /\ held' = held
    BY <2>2, <1>1 DEF Inv, HeapExact
  <2> QED
    BY <1>3, <1>7, <2>1, <2>2, MoveFacts DEF Inv
<1> QED
  BY <1>2, <1>5, <1>6, <1>7

LEMMA StartThreadInv ==
    ASSUME Inv, NEW t \in Threads, StartThread(t)
    PROVE  Inv'
<1>1. held' = held
  BY DEF StartThread
<1>2. CASE UNCHANGED <<blocks, stack, owns>>
  BY <1>1, <1>2 DEF Inv, HeapExact, ThreadTypes
<1>3. ASSUME stack[t] = NULL, NEW v \in Values, Grant(StackSize[t], 1, v),
             stack' = [stack EXCEPT ![t] = answer'], owns' = [owns EXCEPT ![t] = TRUE]
      PROVE  Inv'
  <2>1. StackSize[t] \in Nat \ {0} /\ NULL \notin Nat
    BY ArenaAssumption
  <2>2. /\ Exact(blocks') /\ answer' \in Nat
        /\ InUse(blocks') = InUse(blocks) \cup {Used(answer', StackSize[t])}
        /\ \A d \in InUse(blocks) : d.addr # answer'
    BY <2>1, <1>3, GrantFacts DEF Inv
  <2>3. ~owns[t]
    <3>1. \A b \in InUse(blocks) : b.addr # NULL
      BY <2>1, UseFacts DEF Inv, HeapExact
    <3> QED
      BY <3>1, <1>3 DEF Inv, Held
  <2>4. Held(blocks', held, [stack EXCEPT ![t] = answer'], [owns EXCEPT ![t] = TRUE])
    BY <2>2, <2>3, HeldStackTaken DEF Inv
  <2>5. ThreadTypes'
    BY <2>2, <1>3 DEF Inv, ThreadTypes
  <2> QED
    BY <2>2, <2>4, <2>5, <1>1, <1>3 DEF Inv, HeapExact
<1> QED
  BY <1>2, <1>3 DEF StartThread, heapVars, threadVars, Refuse

\* The calls that give up a stack.
LEMMA StackFreedInv ==
    ASSUME Inv, NEW t \in Threads, StackFreed(t), held' = held,
           owns' = [owns EXCEPT ![t] = FALSE],
           stack' = stack \/ stack' = [stack EXCEPT ![t] = NULL]
    PROVE  Inv'
<1>1. stack' \in [Threads -> Nat \cup {NULL}] /\ \A u \in Threads \ {t} : stack'[u] = stack[u]
  BY DEF Inv, ThreadTypes
<1>2. Exact(blocks') /\ Held(blocks', held, stack', [owns EXCEPT ![t] = FALSE])
  BY <1>1, HeldStackFreed DEF Inv
<1>3. ThreadTypes'
  BY <1>1 DEF Inv, ThreadTypes
<1> QED
  BY <1>2, <1>3 DEF Inv, HeapExact

\* Every call keeps the list exact and the holders right.
LEMMA Inductive == Inv /\ [Next]_vars => Inv'
<1> SUFFICES ASSUME Inv, [Next]_vars PROVE Inv'
  OBVIOUS
<1>1. /\ \A n \in Sizes : n \in Nat \ {0}
      /\ \A al \in Alignments : al \in Nat \ {0}
  BY ArenaAssumption
<1>2. ASSUME NEW n \in Sizes, NEW al \in Alignments, NEW v \in Values, guestMalloc(n, al, v)
      PROVE  Inv'
  BY <1>1, <1>2, MallocInv
<1>3. ASSUME NEW n \in Sizes, guestCalloc(n)
      PROVE  Inv'
  BY <1>1, <1>3, MallocInv DEF guestCalloc
<1>4. ASSUME NEW a \in Arena, guestFree(a)
      PROVE  Inv'
  BY <1>4, FreeInv
<1>5. ASSUME NEW a \in Arena, NEW n \in Sizes, guestRealloc(a, n)
      PROVE  Inv'
  BY <1>1, <1>5, ReallocInv
<1>6. ASSUME NEW t \in Threads, CreateThread(t) \/ ExitThread(t)
      PROVE  Inv'
  BY <1>6 DEF CreateThread, ExitThread, heapVars, Inv, HeapExact, ThreadTypes
<1>7. ASSUME NEW t \in Threads, StartThread(t)
      PROVE  Inv'
  BY <1>7, StartThreadInv
<1>8. ASSUME NEW t \in Threads, ExitDeleteThread(t) \/ TerminateThread(t) \/ DeleteThread(t)
      PROVE  Inv'
  BY <1>8, StackFreedInv DEF ExitDeleteThread, TerminateThread, DeleteThread, Gone
<1>9. CASE UNCHANGED vars
  BY <1>9 DEF vars, Inv, HeapExact, ThreadTypes
<1> QED
  BY <1>2, <1>3, <1>4, <1>5, <1>6, <1>7, <1>8, <1>9 DEF Next, HeapCall, ThreadCall

\* The blocks are the arena, cut without overlap or gap, and no two neighbours are free:
\* guestMalloc, guestRealloc and guestFree of ps2_runtime.cpp keep m_guestHeapBlocks so.
THEOREM HeapExactHolds == Spec => []HeapExact
<1>1. Inv => HeapExact
  BY DEF Inv
<1> QED
  BY <1>1, InitInv, Inductive, PTL DEF Spec

\* Every block in use has the one holder that will free it: a thread that owns its
\* stack has it whole and to itself, whatever the game and other threads free.
THEOREM BlocksHeldHolds == Spec => []BlocksHeld
<1>1. Inv => BlocksHeld
  BY HeldIsBlocksHeld DEF Inv
<1> QED
  BY <1>1, InitInv, Inductive, PTL DEF Spec

--------------------------------------------------------------------------------
(* The heap is a pool of areas *)

\* Numbers rounded up to a multiple.
LEMMA Multiples ==
    ASSUME NEW v \in Nat, NEW al \in Nat \ {0}
    PROVE  /\ alignGuestHeapValue(v, al) % al = 0
           /\ \A a \in Nat : a % al = 0 /\ v <= a => alignGuestHeapValue(v, al) <= a
<1> DEFINE q == v \div al
           r == v % al
<1>1. v = al * q + r /\ q \in Nat /\ r \in Nat /\ r < al
  OBVIOUS
<1> HIDE DEF q
<1>2. CASE r = 0
  BY <1>2 DEF alignGuestHeapValue
<1>3. CASE r # 0
  <2>1. alignGuestHeapValue(v, al) = al * (q + 1) /\ q + 1 \in Nat
    BY <1>1, <1>3 DEF alignGuestHeapValue
  <2>2. \A k \in Nat : (al * k) % al = 0
    OBVIOUS
  <2>3. ASSUME NEW a \in Nat, a % al = 0, v <= a
        PROVE  al * (q + 1) <= a
    <3> DEFINE k == a \div al
    <3>1. a = al * k /\ k \in Nat
      BY <2>3
    <3> HIDE DEF k
    <3>2. al * k > al * q
      BY <1>1, <1>3, <2>3, <3>1
    <3>3. k >= q + 1
      BY <1>1, <3>1, <3>2
    <3> QED
      BY <1>1, <3>1, <3>3
  <2> QED
    BY <2>1, <2>2, <2>3
<1> QED
  BY <1>2, <1>3

\* A holder fills its memory with one value.
Uniform(B, mem) == \A b \in InUse(B) : \A x \in Cells(b) : mem[x] = mem[b.addr]

\* What a holder sees of a block.
View(b, mem) == [size |-> b.size, contents |-> {mem[b.addr]}]

LEMMA ViewFacts ==
    ASSUME NEW b, NEW mem
    PROVE  View(b, mem).size = b.size /\ View(b, mem).contents = {mem[b.addr]}
  BY DEF View

\* The areas of a list: what a holder sees of the blocks in use.
Shown(B, mem, areas) ==
    /\ areas = [a \in {b.addr : b \in InUse(B)} |-> areas[a]]
    /\ \A b \in InUse(B) : areas[b.addr] = View(b, mem)

\* Two shows of one list are the same.
LEMMA ShownOnce ==
    ASSUME NEW B, NEW mem, NEW one, NEW two, Shown(B, mem, one), Shown(B, mem, two)
    PROVE  one = two
<1> DEFINE D == {b.addr : b \in InUse(B)}
<1>1. \A a \in D : one[a] = two[a]
  BY DEF Shown
<1>2. one = [a \in D |-> one[a]]
  BY Zenon DEF Shown
<1>3. two = [a \in D |-> two[a]]
  BY Zenon DEF Shown
<1> HIDE DEF D
<1> QED
  BY <1>1, <1>2, <1>3

\* The areas of the pool are a show of the list.
LEMMA LiveShown ==
    ASSUME HeapExact, Uniform(blocks, memory)
    PROVE  Shown(blocks, memory, Live)
<1>1. Areas = {b.addr : b \in InUse(blocks)}
  BY DEF Areas, InUse
<1>2. ASSUME NEW b \in InUse(blocks)
      PROVE  Live[b.addr] = View(b, memory)
  <2>1. FindBlock(blocks, b.addr) = {b}
    BY UniqueAddress DEF FindBlock, InUse, HeapExact
  <2>2. (CHOOSE c \in FindBlock(blocks, b.addr) : TRUE) = b
    BY <2>1
  <2>3. {memory[x] : x \in Cells(b)} = {memory[b.addr]}
    <3>1. b.addr \in Cells(b)
      BY BlockFacts DEF HeapExact, Exact, InUse
    <3> QED
      BY <3>1 DEF Uniform
  <2>4. b.addr \in Areas
    BY <1>1
  <2> QED
    BY <2>2, <2>3, <2>4 DEF Live, View
<1>3. Live = [a \in Areas |-> Live[a]]
  BY DEF Live
<1> QED
  BY <1>1, <1>2, <1>3 DEF Shown

LEMMA AreaCells ==
    ASSUME NEW b \in Block
    PROVE  Pool!Area(b.addr, b.size) = Cells(b)
<1>1. b.addr \in Nat /\ b.size \in Nat \ {0}
  BY BlockFacts
<1>2. b.addr + (b.size - 1) = (b.addr + b.size) - 1
  BY <1>1
<1> QED
  BY <1>2 DEF Pool!Area, Cells, End

\* What is free, with and without one of the areas.
LEMMA FreeFacts ==
    ASSUME NEW B, Exact(B), NEW mem, NEW areas, Shown(B, mem, areas)
    PROVE  /\ \A x : x \in Pool!Free(areas) <=>
                x \in Arena /\ \A d \in InUse(B) : x \notin Cells(d)
           /\ \A u \in InUse(B) : \A x : x \in Pool!Free(Pool!Without(areas, u.addr)) <=>
                x \in Arena /\ \A d \in InUse(B) \ {u} : x \notin Cells(d)
           /\ DOMAIN areas = {b.addr : b \in InUse(B)}
<1> DEFINE D == {b.addr : b \in InUse(B)}
<1>1. DOMAIN areas = D
  BY DEF Shown
<1>2. \A d \in InUse(B) : Pool!Area(d.addr, areas[d.addr].size) = Cells(d)
  <2>1. \A d \in InUse(B) : areas[d.addr].size = d.size
    BY ViewFacts DEF Shown
  <2>2. \A d \in InUse(B) : Pool!Area(d.addr, d.size) = Cells(d)
    BY AreaCells DEF Exact, InUse
  <2> QED
    BY <2>1, <2>2
<1>3. \A x : x \in Pool!Taken(areas) <=> \E d \in InUse(B) : x \in Cells(d)
  BY <1>1, <1>2 DEF Pool!Taken
<1>4. ASSUME NEW u \in InUse(B)
      PROVE  \A x : x \in Pool!Taken(Pool!Without(areas, u.addr)) <=>
                 \E d \in InUse(B) \ {u} : x \in Cells(d)
  <2> DEFINE less == Pool!Without(areas, u.addr)
  <2>1. DOMAIN less = D \ {u.addr} /\ \A a \in D \ {u.addr} : less[a] = areas[a]
    BY <1>1 DEF Pool!Without, Pool!Restrict
  <2>2. D \ {u.addr} = {d.addr : d \in InUse(B) \ {u}}
    BY UseFacts
  <2> HIDE DEF less
  <2>3. \A d \in InUse(B) \ {u} : Pool!Area(d.addr, less[d.addr].size) = Cells(d)
    BY <1>2, <2>1, <2>2
  <2>4. ASSUME NEW x
        PROVE  x \in Pool!Taken(less) <=> \E d \in InUse(B) \ {u} : x \in Cells(d)
    <3>1. x \in Pool!Taken(less) <=>
            \E a \in DOMAIN less : x \in Pool!Area(a, less[a].size)
      BY DEF Pool!Taken
    <3>2. \A a : a \in DOMAIN less <=> \E d \in InUse(B) \ {u} : a = d.addr
      BY <2>1, <2>2
    <3> QED
      BY <2>3, <3>1, <3>2
  <2> QED
    BY <2>4 DEF less
<1> QED
  BY <1>1, <1>3, <1>4 DEF Pool!Free, Pool!Arena, Arena
\* Memory in which the n units from a on hold v, and the blocks but u what they held.
Stored(B, u, mem, now, a, n, v) ==
    /\ \A d \in InUse(B) \ {u} : \A x \in Cells(d) : now[x] = mem[x]
    /\ \A x \in Pool!Area(a, n) : now[x] = v

\* The areas with one more.
Gains(areas, next, a, n, v) == next = Pool!With(areas, a, n, {v})

\* What is filled with one value stays so when a block gives way to another.
LEMMA ShiftedUniform ==
    ASSUME NEW B, NEW C, Exact(B), NEW mem, NEW now, Uniform(B, mem), NEW u, NEW a, NEW v,
           NEW n \in Nat \ {0}, Replaced(B, C, u, a, n),
           Stored(B, u, mem, now, a, n, v)
    PROVE  Uniform(C, now)
<1> DEFINE w == Used(a, n)
<1>1. /\ Exact(C) /\ InUse(C) = (InUse(B) \ {u}) \cup {w}
  BY DEF Replaced
<1>2. w \in Block /\ w.addr = a /\ w.size = n
  BY <1>1 DEF Exact, InUse, Used
<1>3. Cells(w) = Pool!Area(a, n)
  BY <1>2, AreaCells
<1> HIDE DEF w
<1>4. \A d \in InUse(C) : d.addr \in Cells(d)
  BY <1>1, BlockFacts DEF Exact, InUse
<1>5. \A d \in InUse(B) \ {u} : \A x \in Cells(d) : now[x] = now[d.addr]
  BY <1>1, <1>4 DEF Uniform, Stored
<1>6. \A x \in Cells(w) : now[x] = now[w.addr]
  BY <1>1, <1>3, <1>4 DEF Stored
<1> QED
  BY <1>1, <1>5, <1>6 DEF Uniform

\* The areas when the block u gives way to one of n units at a, filled with v.
LEMMA Shifted ==
    ASSUME NEW B, NEW C, Exact(B), NEW mem, NEW now, Uniform(B, mem), NEW u, NEW a, NEW v,
           NEW n \in Nat \ {0}, Replaced(B, C, u, a, n),
           Stored(B, u, mem, now, a, n, v),
           NEW areas, Shown(B, mem, areas), NEW next, Shown(C, now, next)
    PROVE  /\ u \in InUse(B) => Gains(Pool!Without(areas, u.addr), next, a, n, v)
           /\ u \notin InUse(B) => Gains(areas, next, a, n, v)
           /\ u \in InUse(B) => Pool!Area(a, n) \subseteq Pool!Free(Pool!Without(areas, u.addr))
           /\ u \notin InUse(B) => Pool!Area(a, n) \subseteq Pool!Free(areas)
           /\ a \in Arena
<1> DEFINE w == Used(a, n)
<1>1. /\ Exact(C) /\ InUse(C) = (InUse(B) \ {u}) \cup {w}
      /\ \A d \in InUse(B) \ {u} : d.addr # a
  BY DEF Replaced
<1>2. w.addr = a /\ w.size = n /\ Cells(w) = Pool!Area(a, n)
  <2>1. w \in Block
    BY <1>1 DEF Exact, InUse
  <2>2. w.addr = a /\ w.size = n
    BY DEF Used
  <2> QED
    BY <2>1, <2>2, AreaCells
<1> HIDE DEF w
<1>3. \A d \in InUse(C) : d \in Block /\ d.addr \in Cells(d)
  BY <1>1, BlockFacts DEF Exact, InUse
<1>4. \A d \in InUse(B) \ {u} : now[d.addr] = mem[d.addr]
  BY <1>1, <1>3 DEF Stored
<1>5. now[a] = v
  BY <1>1, <1>2, <1>3 DEF Stored
<1>7. \A d \in InUse(B) \ {u} : \A x \in Cells(w) : x \notin Cells(d)
  <2> SUFFICES ASSUME NEW d \in InUse(B) \ {u}, NEW x \in Cells(w), x \in Cells(d)
               PROVE  FALSE
    OBVIOUS
  <2>1. Disjoint(d, w) /\ d \in Block /\ w \in Block
    BY <1>1, <1>2 DEF Exact, Apart, InUse
  <2> QED
    BY <2>1, BlockFacts DEF Disjoint
<1>8. \A x \in Cells(w) : x \in Arena
  <2>1. w \in Block /\ End(w) <= Limit
    BY <1>1 DEF Exact, InUse, Cover
  <2> QED
    BY <2>1, BlockFacts, ArenaAssumption DEF Arena
<1>9. a \in Arena
  BY <1>1, <1>2, <1>3 DEF Block
\* The two functions have one domain and the same values.
<1>10. ASSUME NEW old, NEW S, S = IF u \in InUse(B) THEN InUse(B) \ {u} ELSE InUse(B),
              DOMAIN old = {d.addr : d \in S},
              \A d \in S : old[d.addr] = View(d, mem)
       PROVE  Gains(old, next, a, n, v)
  <2> DEFINE new == Pool!With(old, a, n, {v})
             D == {d.addr : d \in InUse(C)}
  <2>1. S = InUse(B) \ {u}
    BY <1>10
  <2>2. D = {d.addr : d \in S} \cup {a}
    BY <1>1, <1>2, <2>1
  <2>3. DOMAIN new = D /\ new = [x \in D |-> new[x]]
    BY <1>10, <2>2 DEF Pool!With
  <2>4. new[a] = View(w, now)
    BY <1>2, <1>5, <2>2 DEF Pool!With, View
  <2>5. ASSUME NEW d \in S
        PROVE  new[d.addr] = View(d, now)
    <3>1. d.addr # a /\ d.addr \in DOMAIN old
      BY <1>1, <1>10, <2>1
    <3>2. new[d.addr] = old[d.addr]
      BY <3>1 DEF Pool!With
    <3>3. View(d, now) = View(d, mem)
      BY <1>4, <2>1 DEF View
    <3> QED
      BY <3>2, <3>3, <1>10
  <2> HIDE DEF new
  <2>6. Shown(C, now, new)
    BY <1>1, <1>2, <2>1, <2>3, <2>4, <2>5 DEF Shown
  <2> QED
    BY <2>6, ShownOnce DEF new, Gains
<1>11. CASE u \in InUse(B)
  <2> DEFINE less == Pool!Without(areas, u.addr)
             S == InUse(B) \ {u}
  <2>1. DOMAIN areas = {b.addr : b \in InUse(B)}
    BY FreeFacts
  <2>2. {b.addr : b \in InUse(B)} \ {u.addr} = {d.addr : d \in S}
    BY <1>11, UseFacts
  <2>3. DOMAIN less = {d.addr : d \in S} /\ \A x \in DOMAIN less : less[x] = areas[x]
    BY <2>1, <2>2 DEF Pool!Without, Pool!Restrict
  <2>4. \A d \in S : less[d.addr] = View(d, mem)
    BY <2>3 DEF Shown
  <2> HIDE DEF less
  <2>5. Gains(less, next, a, n, v)
    BY <1>10, <1>11, <2>3, <2>4
  <2>6. ASSUME NEW x \in Cells(w)
        PROVE  x \in Pool!Free(less)
    BY <1>7, <1>8, <1>11, FreeFacts DEF less
  <2> QED
    BY <1>2, <1>9, <1>11, <2>5, <2>6 DEF less
<1>12. CASE u \notin InUse(B)
  <2>1. DOMAIN areas = {b.addr : b \in InUse(B)}
    BY FreeFacts
  <2>2. Gains(areas, next, a, n, v)
    BY <1>10, <1>12, <2>1 DEF Shown
  <2>3. ASSUME NEW x \in Cells(w)
        PROVE  x \in Pool!Free(areas)
    <3>1. x \in Arena /\ \A d \in InUse(B) : x \notin Cells(d)
      BY <1>7, <1>8, <1>12
    <3> QED
      BY <3>1, FreeFacts
  <2> QED
    BY <1>2, <1>9, <1>12, <2>2, <2>3
<1> QED
  BY <1>11, <1>12
LEMMA VacatedUniform ==
    ASSUME NEW B, NEW C, Exact(B), NEW mem, NEW now, Uniform(B, mem), NEW b \in InUse(B),
           InUse(C) = InUse(B) \ {b},
           \A d \in InUse(C) : \A x \in Cells(d) : now[x] = mem[x]
    PROVE  Uniform(C, now)
<1>1. \A d \in InUse(C) : d \in InUse(B) /\ d.addr \in Cells(d)
  BY BlockFacts DEF Exact, InUse
<1> QED
  BY <1>1 DEF Uniform

\* The areas when the block b is freed.
LEMMA Vacated ==
    ASSUME NEW B, NEW C, Exact(B), NEW mem, NEW now, NEW b \in InUse(B),
           InUse(C) = InUse(B) \ {b},
           \A d \in InUse(C) : \A x \in Cells(d) : now[x] = mem[x],
           NEW areas, Shown(B, mem, areas), NEW next, Shown(C, now, next)
    PROVE  next = Pool!Without(areas, b.addr)
<1> DEFINE less == Pool!Without(areas, b.addr)
           D == {d.addr : d \in InUse(C)}
<1>1. \A d \in InUse(C) : d \in InUse(B) /\ d.addr \in Cells(d)
  BY BlockFacts DEF Exact, InUse
<1>2. \A d \in InUse(C) : now[d.addr] = mem[d.addr]
  BY <1>1
<1>3. DOMAIN areas = {d.addr : d \in InUse(B)}
  BY FreeFacts
<1>4. {d.addr : d \in InUse(B)} \ {b.addr} = D
  BY UseFacts
<1>5. /\ less = [x \in D |-> less[x]]
      /\ \A x \in D : less[x] = areas[x]
  BY <1>3, <1>4 DEF Pool!Without, Pool!Restrict
<1> HIDE DEF less
<1>6. ASSUME NEW d \in InUse(C)
      PROVE  less[d.addr] = View(d, now)
  <2>1. less[d.addr] = View(d, mem)
    BY <1>1, <1>5 DEF Shown
  <2> QED
    BY <1>2, <2>1 DEF View
<1>7. Shown(C, now, less)
  BY <1>5, <1>6 DEF Shown
<1> QED
  BY <1>7, ShownOnce DEF less

\* A run of units none of which is in use lies within one free block.
LEMMA OneBlock ==
    ASSUME NEW B, Exact(B), NEW b \in B, b.free, NEW a \in Nat, NEW n \in Nat \ {0},
           b.addr <= a, a < End(b),
           \A x \in a .. a + (n - 1) : x \in Arena /\ \A d \in InUse(B) : x \notin Cells(d)
    PROVE  a + n <= End(b)
<1> SUFFICES ASSUME End(b) < a + n
             PROVE  FALSE
  BY BlockFacts DEF Exact
<1>1. b \in Block /\ End(b) \in Nat
  BY BlockFacts DEF Exact
<1>2. End(b) \in a .. a + (n - 1)
  BY <1>1
<1>3. PICK c \in B : End(b) \in Cells(c)
  BY <1>2 DEF Exact, Cover
<1>4. c.free /\ c \in Block
  BY <1>2, <1>3 DEF InUse, Exact, Block
<1>5. /\ c.addr \in Nat /\ End(c) \in Nat /\ c.addr <= End(b) /\ End(b) < End(c)
      /\ b.addr \in Nat /\ b.addr < End(b)
  BY <1>1, <1>3, <1>4, BlockFacts
<1>6. c # b /\ Disjoint(b, c)
  BY <1>5 DEF Exact, Apart
<1>7. End(b) = c.addr
  BY <1>1, <1>5, <1>6 DEF Disjoint
<1> QED
  BY <1>4, <1>7 DEF Exact, Coalesced

\* A place of the pool is room for the first fit.
LEMMA PlaceFits ==
    ASSUME NEW B, Exact(B), NEW mem, NEW areas, Shown(B, mem, areas),
           NEW n \in Nat \ {0}, NEW al \in Nat \ {0}, NEW a \in Arena,
           Pool!Place(areas, a, n, al)
    PROVE  \E b \in B : Fits(b, n, al)
<1>1. a \in Nat /\ a % al = 0
  BY ArenaAssumption DEF Arena, Pool!Place
<1>2. \A x \in a .. a + (n - 1) : x \in Arena /\ \A d \in InUse(B) : x \notin Cells(d)
  BY FreeFacts DEF Pool!Place, Pool!Area
<1>3. PICK b \in B : a \in Cells(b)
  BY DEF Exact, Cover
<1>4. a \in a .. a + (n - 1)
  BY <1>1
<1>5. b.free /\ b \in Block
  BY <1>2, <1>3, <1>4 DEF InUse, Exact, Block
<1>6. b.addr \in Nat /\ End(b) \in Nat /\ b.addr <= a /\ a < End(b)
  BY <1>3, <1>5, BlockFacts
<1>7. a + n <= End(b)
  BY <1>1, <1>2, <1>5, <1>6, OneBlock
<1>8. AlignedStart(b, al) \in Nat /\ AlignedStart(b, al) <= a
  BY <1>1, <1>6, Multiples, AlignedUp DEF AlignedStart
<1> QED
  BY <1>1, <1>5, <1>6, <1>7, <1>8 DEF Fits

\* A block that can be resized in the pool has room behind it.
LEMMA RoomFits ==
    ASSUME HeapExact, NEW areas, Shown(blocks, memory, areas), NEW u \in InUse(blocks),
           NEW n \in Nat, u.size < n,
           Pool!Area(u.addr, n) \subseteq Pool!Free(Pool!Without(areas, u.addr))
    PROVE  \E c \in blocks : RoomBehind(u, c, n)
<1>1. u \in blocks /\ u \in Block /\ Exact(blocks)
  BY DEF HeapExact, Exact, InUse
<1>2. u.addr \in Nat /\ u.size \in Nat \ {0} /\ End(u) = u.addr + u.size /\ End(u) \in Nat
  BY <1>1, BlockFacts DEF End
<1>3. ASSUME NEW x \in Nat, End(u) <= x, x < u.addr + n
      PROVE  x \in Arena /\ \A d \in InUse(blocks) : x \notin Cells(d)
  <2>1. x \in Pool!Area(u.addr, n)
    BY <1>2, <1>3 DEF Pool!Area
  <2>2. x \in Arena /\ \A d \in InUse(blocks) \ {u} : x \notin Cells(d)
    BY <1>1, <2>1, FreeFacts
  <2>3. x \notin Cells(u)
    BY <1>1, <1>3, BlockFacts
  <2> QED
    BY <2>2, <2>3
<1>4. PICK c \in blocks : End(u) \in Cells(c)
  BY <1>1, <1>2, <1>3 DEF Exact, Cover
<1>5. c.free /\ c \in Block
  BY <1>1, <1>2, <1>3, <1>4 DEF InUse, Exact, Block
<1>6. /\ c.addr \in Nat /\ End(c) \in Nat /\ c.addr <= End(u) /\ End(u) < End(c)
      /\ c.size \in Nat /\ End(c) = c.addr + c.size
  BY <1>4, <1>5, BlockFacts DEF End
<1>7. c.addr = End(u)
  <2>1. c # u /\ u.addr < End(u)
    BY <1>2, <1>6
  <2>2. Disjoint(u, c)
    BY <1>1, <2>1 DEF Exact, Apart
  <2> QED
    BY <1>2, <1>6, <2>1, <2>2 DEF Disjoint
<1>8. End(u) + (n - u.size) <= End(c)
  <2>1. n - u.size \in Nat \ {0} /\ End(u) + (n - u.size) = u.addr + n
    BY <1>2
  <2>2. \A x \in End(u) .. End(u) + ((n - u.size) - 1) :
            x \in Arena /\ \A d \in InUse(blocks) : x \notin Cells(d)
    BY <1>2, <1>3, <2>1
  <2> QED
    BY <1>1, <1>2, <1>5, <1>6, <1>7, <2>1, <2>2, OneBlock
<1> QED
  BY <1>2, <1>5, <1>6, <1>7, <1>8 DEF RoomBehind
\* The units that are free are those of the free blocks.
LEMMA SameFree ==
    ASSUME HeapExact, NEW areas, Shown(blocks, memory, areas)
    PROVE  /\ Pool!Free(areas) = UNION {Cells(b) : b \in {c \in blocks : c.free}}
           /\ IsFiniteSet(Pool!Free(areas))
<1> DEFINE F == UNION {Cells(b) : b \in {c \in blocks : c.free}}
<1>1. Exact(blocks) /\ \A b \in blocks : b \in Block /\ End(b) <= Limit
  BY DEF HeapExact, Exact, Cover
<1>2. ASSUME NEW x \in F PROVE x \in Pool!Free(areas)
  <2>1. PICK b \in blocks : b.free /\ x \in Cells(b)
    OBVIOUS
  <2>2. x \in Nat /\ b.addr <= x /\ x < End(b) /\ Base <= b.addr /\ b.addr \in Nat
        /\ End(b) \in Nat /\ End(b) <= Limit
    BY <1>1, <2>1, BlockFacts
  <2>3. x \in Arena
    BY <2>2, ArenaAssumption DEF Arena
  <2>4. ASSUME NEW d \in InUse(blocks), x \in Cells(d) PROVE FALSE
    <3>1. d \in blocks /\ d # b /\ d \in Block /\ d.addr <= x /\ x < End(d)
          /\ d.addr \in Nat /\ End(d) \in Nat
      BY <1>1, <2>1, <2>4, BlockFacts DEF InUse
    <3>2. Disjoint(b, d)
      BY <1>1, <2>1, <3>1 DEF Exact, Apart
    <3> QED
      BY <2>2, <3>1, <3>2 DEF Disjoint
  <2> QED
    BY <1>1, <2>3, <2>4, FreeFacts
<1>3. ASSUME NEW x \in Pool!Free(areas) PROVE x \in F
  <2>1. x \in Arena /\ \A d \in InUse(blocks) : x \notin Cells(d)
    BY <1>1, FreeFacts
  <2>2. PICK b \in blocks : x \in Cells(b)
    BY <1>1, <2>1 DEF Exact, Cover
  <2>3. b.free
    BY <1>1, <2>1, <2>2 DEF InUse, Block
  <2> QED
    BY <2>2, <2>3
<1>4. IsFiniteSet(Pool!Free(areas))
  <2>1. IsFiniteSet(Arena)
    BY FS_Interval, ArenaAssumption DEF Arena
  <2>2. Pool!Free(areas) \subseteq Arena
    BY <1>1, FreeFacts
  <2> QED
    BY <2>1, <2>2, FS_Subset
<1> QED
  BY <1>2, <1>3, <1>4

\* A refusal for the reserve's sake is one of the pool's; without a reserve a place is
\* enough.
LEMMA SameReserve ==
    ASSUME HeapExact, NEW areas, Shown(blocks, memory, areas), NEW n \in Nat \ {0}
    PROVE  /\ HeldBack(n) => Pool!HeldBack(areas, n)
           /\ \A a \in Nat : ~HeldBack(n) /\ Pool!Area(a, n) \subseteq Pool!Free(areas) =>
                   ~Pool!HeldBack(areas, n)
<1>1. TotalFree = Pool!Cardinality(Pool!Free(areas))
  <2>1. \A S : Pool!Cardinality(S) = Cardinality(S)
    BY DEF Pool!Cardinality, Cardinality
  <2> QED
    BY <2>1, SameFree DEF TotalFree
<1>2. HeldBack(n) => Pool!HeldBack(areas, n)
  BY <1>1 DEF HeldBack, Pool!HeldBack
<1>3. ASSUME NEW a \in Nat, ~HeldBack(n), Pool!Area(a, n) \subseteq Pool!Free(areas)
      PROVE  ~Pool!HeldBack(areas, n)
  <2>1. CASE Reserve # 0
    BY <1>1, <1>3, <2>1 DEF HeldBack, Pool!HeldBack
  <2>2. CASE Reserve = 0
    <3>1. Cardinality(a .. a + (n - 1)) = n
      <4>1. a + (n - 1) - a + 1 = n /\ a \in Int /\ a + (n - 1) \in Int /\ ~(a > a + (n - 1))
        OBVIOUS
      <4>2. Cardinality(a .. a + (n - 1)) = a + (n - 1) - a + 1
        BY <4>1, FS_Interval
      <4> QED
        BY <4>1, <4>2
    <3>2. Cardinality(a .. a + (n - 1)) <= Cardinality(Pool!Free(areas))
      BY <1>3, SameFree, FS_Subset DEF Pool!Area
    <3>3. TotalFree = Cardinality(Pool!Free(areas)) /\ TotalFree \in Nat
      BY SameFree, FS_CardinalityType DEF TotalFree
    <3> QED
      BY <1>1, <2>2, <3>1, <3>2, <3>3, ArenaAssumption DEF Pool!HeldBack
  <2> QED
    BY <2>1, <2>2
<1> QED
  BY <1>2, <1>3

--------------------------------------------------------------------------------
(* The calls as steps of the pool *)

PoolInv == HeapExact /\ Uniform(blocks, memory)

\* The list shows what is live, before a call and after it.
LEMMA LiveBefore ==
    ASSUME PoolInv
    PROVE  Exact(blocks) /\ Shown(blocks, memory, Live)
  BY LiveShown DEF PoolInv, HeapExact

LEMMA LiveAfter == HeapExact' /\ Uniform(blocks', memory') => Shown(blocks', memory', Live')
<1>1. HeapExact /\ Uniform(blocks, memory) => Shown(blocks, memory, Live)
  BY LiveShown
<1>2. (HeapExact /\ Uniform(blocks, memory) => Shown(blocks, memory, Live))'
  BY <1>1, PTL
<1> QED
  BY <1>2

\* No unit belongs to two blocks in use.
LEMMA CellsApart ==
    ASSUME NEW B, Exact(B), NEW d \in InUse(B), NEW x \in Cells(d)
    PROVE  x \in Arena /\ \A e \in InUse(B) : e # d => x \notin Cells(e)
<1>1. \A e \in InUse(B) : e \in Block /\ End(e) <= Limit
  BY DEF Exact, Cover, InUse
<1>2. x \in Arena
  BY <1>1, BlockFacts, ArenaAssumption DEF Arena
<1>3. \A e \in InUse(B) : e # d => Disjoint(e, d)
  BY DEF Exact, Apart, InUse
<1> QED
  BY <1>1, <1>2, <1>3, BlockFacts DEF Disjoint

LEMMA FilledFacts ==
    ASSUME NEW mem, NEW a, NEW n, NEW v, NEW x \in Arena
    PROVE  Filled(mem, a, n, v)[x] = IF x \in Pool!Area(a, n) THEN v ELSE mem[x]
  BY DEF Filled, Pool!Area

\* A block in use that is replaced keeps clear of the others.
LEMMA ReplacedApart ==
    ASSUME NEW B, NEW C, NEW u, NEW a, NEW n \in Nat \ {0}, Exact(B), Replaced(B, C, u, a, n)
    PROVE  /\ \A x \in Pool!Area(a, n) : x \in Arena
           /\ \A d \in InUse(B) \ {u} : \A x \in Cells(d) : x \in Arena /\ x \notin Pool!Area(a, n)
<1> DEFINE w == Used(a, n)
<1>1. /\ Exact(C) /\ w \in InUse(C) /\ InUse(B) \ {u} \subseteq InUse(C)
      /\ \A d \in InUse(B) \ {u} : d.addr # a
  BY DEF Replaced
<1>2. w \in Block /\ w.addr = a /\ w.size = n
  BY <1>1 DEF Exact, InUse, Used
<1>3. Cells(w) = Pool!Area(a, n) /\ \A d \in InUse(B) \ {u} : d # w
  BY <1>1, <1>2, AreaCells
<1> HIDE DEF w
<1> QED
  BY <1>1, <1>3, CellsApart

\* A call that puts a block in use at a, filled with v, in the place of u or of none.
LEMMA ShiftStep ==
    ASSUME PoolInv, NEW u, NEW a, NEW n \in Nat \ {0}, NEW v,
           Replaced(blocks, blocks', u, a, n),
           Stored(blocks, u, memory, memory', a, n, v)
    PROVE  /\ PoolInv'
           /\ u \in InUse(blocks) =>
                /\ Gains(Pool!Without(Live, u.addr), Live', a, n, v)
                /\ Pool!Area(a, n) \subseteq Pool!Free(Pool!Without(Live, u.addr))
           /\ u \notin InUse(blocks) =>
                /\ Gains(Live, Live', a, n, v)
                /\ Pool!Area(a, n) \subseteq Pool!Free(Live)
           /\ a \in Pool!Arena
<1>1. Exact(blocks) /\ Shown(blocks, memory, Live) /\ Uniform(blocks, memory)
  BY LiveBefore DEF PoolInv
<1>2. HeapExact' /\ Uniform(blocks', memory')
  <2>1. HeapExact'
    BY DEF Replaced, HeapExact
  <2>2. Uniform(blocks', memory')
    BY <1>1, ShiftedUniform
  <2> QED
    BY <2>1, <2>2
<1>3. Shown(blocks', memory', Live')
  BY <1>2, LiveAfter
<1>4. Pool!Arena = Arena
  BY DEF Pool!Arena, Arena
<1>5. PoolInv'
  BY <1>2 DEF PoolInv
<1>6. /\ u \in InUse(blocks) =>
           /\ Gains(Pool!Without(Live, u.addr), Live', a, n, v)
           /\ Pool!Area(a, n) \subseteq Pool!Free(Pool!Without(Live, u.addr))
      /\ u \notin InUse(blocks) =>
           /\ Gains(Live, Live', a, n, v)
           /\ Pool!Area(a, n) \subseteq Pool!Free(Live)
      /\ a \in Arena
  <2>1. a \in Arena
    BY <1>1, <1>3, Shifted
  <2>2. ASSUME u \in InUse(blocks)
        PROVE  Gains(Pool!Without(Live, u.addr), Live', a, n, v)
    BY <1>1, <1>3, <2>2, Shifted
  <2>3. ASSUME u \in InUse(blocks)
        PROVE  Pool!Area(a, n) \subseteq Pool!Free(Pool!Without(Live, u.addr))
    BY <1>1, <1>3, <2>3, Shifted
  <2>4. ASSUME u \notin InUse(blocks)
        PROVE  Gains(Live, Live', a, n, v)
    BY <1>1, <1>3, <2>4, Shifted
  <2>5. ASSUME u \notin InUse(blocks)
        PROVE  Pool!Area(a, n) \subseteq Pool!Free(Live)
    BY <1>1, <1>3, <2>5, Shifted
  <2> QED
    BY <2>1, <2>2, <2>3, <2>4, <2>5
<1> QED
  BY <1>4, <1>5, <1>6

\* A call that frees the block b.
LEMMA ReleasePool ==
    ASSUME PoolInv, NEW a, NEW b \in FindBlock(blocks, a), Release(b)
    PROVE  PoolInv' /\ a \in DOMAIN Live /\ Live' = Pool!Without(Live, a)
<1>1. Exact(blocks) /\ Shown(blocks, memory, Live) /\ Uniform(blocks, memory) /\ HeapExact
  BY LiveBefore DEF PoolInv
<1>2. /\ Exact(blocks') /\ b \in InUse(blocks) /\ b.addr = a
      /\ InUse(blocks') = InUse(blocks) \ {b}
  BY <1>1, ReleaseFacts
<1>3. memory' = Filled(memory, b.addr, b.size, Junk) /\ Pool!Area(b.addr, b.size) = Cells(b)
  BY <1>1, <1>2, AreaCells DEF Release, Exact, InUse
<1>4. \A d \in InUse(blocks') : \A x \in Cells(d) : memory'[x] = memory[x]
  BY <1>1, <1>2, <1>3, CellsApart, FilledFacts
<1>5. HeapExact' /\ Uniform(blocks', memory')
  BY <1>1, <1>2, <1>4, VacatedUniform DEF HeapExact
<1>6. Shown(blocks', memory', Live')
  BY <1>5, LiveAfter
<1>7. Live' = Pool!Without(Live, a)
  BY <1>1, <1>2, <1>4, <1>6, Vacated
<1>8. a \in DOMAIN Live
  <2>1. DOMAIN Live = {d.addr : d \in InUse(blocks)}
    BY <1>1, FreeFacts
  <2> QED
    BY <1>2, <2>1
<1> QED
  BY <1>5, <1>7, <1>8 DEF PoolInv

\* An allocation is one of the pool's.
LEMMA GrantPool ==
    ASSUME PoolInv, NEW n \in Nat \ {0}, NEW al \in Nat \ {0}, NEW v, Grant(n, al, v)
    PROVE  PoolInv' /\ Pool!Allocate(n, al, v)
<1> DEFINE a == answer'
           w == Used(a, n)
<1>1. Exact(blocks) /\ Shown(blocks, memory, Live) /\ HeapExact
  BY LiveBefore DEF PoolInv
<1>2. /\ Exact(blocks') /\ a \in Nat
      /\ InUse(blocks') = InUse(blocks) \cup {w}
      /\ \A d \in InUse(blocks) : d.addr # a
  BY <1>1, GrantFacts
<1>3. w \notin InUse(blocks) /\ Replaced(blocks, blocks', w, a, n)
  BY <1>2 DEF Replaced, Used
<1>4. memory' = Filled(memory, a, n, v) /\ a % al = 0 /\ ~HeldBack(n)
  <2>1. PICK b \in blocks : memory' = Filled(memory, a, n, v) /\ a = AlignedStart(b, al)
    BY DEF Grant
  <2>2. b.addr \in Nat
    BY <1>1, BlockFacts DEF Exact
  <2> QED
    BY <2>1, <2>2, Multiples DEF AlignedStart, Grant
<1> HIDE DEF w
<1>5. Stored(blocks, w, memory, memory', a, n, v)
  BY <1>1, <1>3, <1>4, FilledFacts, ReplacedApart DEF Stored
<1>7. /\ PoolInv' /\ a \in Pool!Arena
      /\ Gains(Live, Live', a, n, v)
      /\ Pool!Area(a, n) \subseteq Pool!Free(Live)
  BY <1>3, <1>5, ShiftStep
<1>8. ~Pool!HeldBack(Live, n)
  BY <1>1, <1>2, <1>4, <1>7, SameReserve
<1> QED
  BY <1>4, <1>7, <1>8 DEF Pool!Allocate, Pool!Place, Gains

\* A refusal is one of the pool's: there is no place, or the reserve is needed.
LEMMA RefusePool ==
    ASSUME PoolInv, NEW n \in Nat \ {0}, NEW al \in Nat \ {0}, ~CanServe(n, al)
    PROVE  Pool!HeldBack(Live, n) \/ \A a \in Pool!Arena : ~Pool!Place(Live, a, n, al)
<1>1. Exact(blocks) /\ Shown(blocks, memory, Live) /\ HeapExact /\ Pool!Arena = Arena
  BY LiveBefore DEF PoolInv, Pool!Arena, Arena
<1>2. HeldBack(n) \/ \A b \in blocks : ~Fits(b, n, al)
  BY DEF CanServe
<1> QED
  BY <1>1, <1>2, SameReserve, PlaceFits

LEMMA RefuseStep ==
    ASSUME PoolInv, Refuse
    PROVE  PoolInv' /\ Live' = Live /\ answer' = NULL
  BY DEF PoolInv, HeapExact, Live, Areas, FindBlock, Refuse

\* The contents of an area are the value its block is filled with.
LEMMA LiveContents ==
    ASSUME PoolInv, NEW u \in InUse(blocks)
    PROVE  u.addr \in DOMAIN Live /\ Live[u.addr].contents = {memory[u.addr]}
<1>1. Shown(blocks, memory, Live)
  BY LiveBefore
<1>2. DOMAIN Live = {d.addr : d \in InUse(blocks)}
  BY <1>1, LiveBefore, FreeFacts
<1> QED
  BY <1>1, <1>2, ViewFacts DEF Shown

\* A block in use that is replaced by one of n units with its contents.
LEMMA ResizeStep ==
    ASSUME PoolInv, NEW u \in InUse(blocks), NEW a, NEW n \in Nat \ {0},
           Replaced(blocks, blocks', u, a, n),
           Stored(blocks, u, memory, memory', a, n, memory[u.addr]), answer' = a
    PROVE  PoolInv' /\ u.addr \in DOMAIN Live /\ Pool!Resize(u.addr, n, 1)
<1> DEFINE v == memory[u.addr]
<1>1. Stored(blocks, u, memory, memory', a, n, v)
  OBVIOUS
<1>2. Live[u.addr].contents = {v} /\ u.addr \in DOMAIN Live
  BY LiveContents
<1> HIDE DEF v
<1>3. /\ PoolInv' /\ a \in Pool!Arena
      /\ Gains(Pool!Without(Live, u.addr), Live', a, n, v)
      /\ Pool!Area(a, n) \subseteq Pool!Free(Pool!Without(Live, u.addr))
  BY <1>1, ShiftStep
<1>4. a % 1 = 0
  BY DEF Replaced
<1> QED
  BY <1>2, <1>3, <1>4 DEF Pool!Resize, Gains

\* guestRealloc to fewer units: the tail is freed, the rest keeps what it holds.
LEMMA ShrinkPool ==
    ASSUME PoolInv, NEW u \in InUse(blocks), NEW n \in Nat \ {0}, ShrinkTo(u, n)
    PROVE  PoolInv' /\ u.addr \in DOMAIN Live /\ Pool!Resize(u.addr, n, 1)
<1>1. Exact(blocks) /\ HeapExact /\ u \in Block /\ u \in blocks /\ ~u.free
  BY DEF PoolInv, HeapExact, Exact, InUse
<1>2. Replaced(blocks, blocks', u, u.addr, n)
  BY <1>1, ShrinkFacts
<1>3. /\ memory' = Filled(memory, u.addr + n, u.size - n, Junk)
      /\ n <= u.size /\ answer' = u.addr
  BY DEF ShrinkTo
<1>4. u.addr \in Nat /\ u.size \in Nat
  BY <1>1, BlockFacts
<1>5. ASSUME NEW x \in Pool!Area(u.addr, n)
      PROVE  memory'[x] = memory[u.addr]
  <2>1. x \in Nat /\ u.addr <= x /\ x < u.addr + n
    BY <1>4, <1>5 DEF Pool!Area
  <2>2. x \in Cells(u)
    BY <1>1, <1>3, <1>4, <2>1, BlockFacts DEF End
  <2>3. x \in Arena /\ memory[x] = memory[u.addr]
    BY <1>1, <2>2, CellsApart DEF PoolInv, Uniform
  <2>4. x \notin Pool!Area(u.addr + n, u.size - n)
    BY <1>3, <1>4, <2>1 DEF Pool!Area
  <2> QED
    BY <1>3, <2>3, <2>4, FilledFacts
<1>6. ASSUME NEW d \in InUse(blocks) \ {u}, NEW x \in Cells(d)
      PROVE  memory'[x] = memory[x]
  <2>1. x \in Arena /\ x \notin Cells(u)
    BY <1>1, CellsApart
  <2>2. x \in Nat
    BY <2>1, ArenaAssumption DEF Arena
  <2>3. x \notin Pool!Area(u.addr + n, u.size - n)
    <3> SUFFICES ASSUME x \in Pool!Area(u.addr + n, u.size - n) PROVE FALSE
      OBVIOUS
    <3>1. u.addr <= x /\ x < u.addr + u.size
      BY <1>3, <1>4, <2>2 DEF Pool!Area
    <3> QED
      BY <1>1, <2>1, <2>2, <3>1, BlockFacts DEF End
  <2> QED
    BY <1>3, <2>1, <2>3, FilledFacts
<1>7. Stored(blocks, u, memory, memory', u.addr, n, memory[u.addr])
  BY <1>5, <1>6 DEF Stored
<1> QED
  BY <1>2, <1>3, <1>7, ResizeStep

\* guestRealloc in place: the units taken from behind join the area.
LEMMA GrowPool ==
    ASSUME PoolInv, NEW u \in InUse(blocks), NEW n \in Nat \ {0}, GrowInPlace(u, n)
    PROVE  PoolInv' /\ u.addr \in DOMAIN Live /\ Pool!Resize(u.addr, n, 1)
<1>1. Exact(blocks) /\ HeapExact /\ u \in Block /\ u \in blocks /\ ~u.free
  BY DEF PoolInv, HeapExact, Exact, InUse
<1>2. Replaced(blocks, blocks', u, u.addr, n)
  BY <1>1, GrowFacts
<1>3. /\ memory' = Filled(memory, End(u), n - u.size, memory[u.addr])
      /\ u.size < n /\ answer' = u.addr
  BY <1>1, BlockFacts DEF GrowInPlace
<1>4. u.addr \in Nat /\ u.size \in Nat /\ End(u) = u.addr + u.size
  BY <1>1, BlockFacts DEF End
<1>5. /\ \A x \in Pool!Area(u.addr, n) : x \in Arena
      /\ \A d \in InUse(blocks) \ {u} : \A x \in Cells(d) :
             x \in Arena /\ x \notin Pool!Area(u.addr, n)
  BY <1>1, <1>2, ReplacedApart
<1>6. ASSUME NEW x \in Pool!Area(u.addr, n)
      PROVE  memory'[x] = memory[u.addr]
  <2>1. x \in Nat /\ u.addr <= x /\ x < u.addr + n
    BY <1>4, <1>6 DEF Pool!Area
  <2>2. CASE x < End(u)
    <3>1. x \in Cells(u)
      BY <1>1, <2>1, <2>2, BlockFacts
    <3>2. memory[x] = memory[u.addr]
      BY <3>1 DEF PoolInv, Uniform
    <3> QED
      BY <1>3, <1>5, <3>2, FilledFacts
  <2>3. CASE End(u) <= x
    <3>1. x \in Pool!Area(End(u), n - u.size)
      BY <1>3, <1>4, <2>1, <2>3 DEF Pool!Area
    <3> QED
      BY <1>3, <1>5, <3>1, FilledFacts
  <2> QED
    BY <1>4, <2>1, <2>2, <2>3
<1>7. ASSUME NEW d \in InUse(blocks) \ {u}, NEW x \in Cells(d)
      PROVE  memory'[x] = memory[x]
  <2>1. x \in Arena /\ x \notin Pool!Area(u.addr, n)
    BY <1>5
  <2>2. x \notin Pool!Area(End(u), n - u.size)
    <3> SUFFICES ASSUME x \in Pool!Area(End(u), n - u.size) PROVE FALSE
      OBVIOUS
    <3>1. x \in Nat /\ u.addr <= x /\ x <= u.addr + (n - 1)
      BY <1>3, <1>4 DEF Pool!Area
    <3> QED
      BY <1>4, <2>1, <3>1 DEF Pool!Area
  <2> QED
    BY <1>3, <2>1, <2>2, FilledFacts
<1>8. Stored(blocks, u, memory, memory', u.addr, n, memory[u.addr])
  BY <1>6, <1>7 DEF Stored
<1> QED
  BY <1>2, <1>3, <1>8, ResizeStep

\* guestRealloc elsewhere, with a copy, and its refusal.
LEMMA MovePool ==
    ASSUME PoolInv, NEW u \in InUse(blocks), NEW n \in Nat \ {0}, Move(u, n)
    PROVE  PoolInv' /\ u.addr \in DOMAIN Live /\ Pool!Resize(u.addr, n, 1)
<1>1. Exact(blocks) /\ HeapExact /\ u \in Block /\ u \in blocks /\ ~u.free
  BY DEF PoolInv, HeapExact, Exact, InUse
<1>2. u.addr \in Nat /\ u.size \in Nat /\ End(u) = u.addr + u.size /\ u.size < n
  BY <1>1, BlockFacts DEF End, Move
<1>3. ASSUME NEW b \in blocks, FirstFit(b, n, 1),
             blocks' = Freed(Taken(blocks, b, AlignedStart(b, 1), n), u),
             memory' = Filled(Filled(Copied(u, AlignedStart(b, 1)), AlignedStart(b, 1) + u.size,
                                     n - u.size, memory[u.addr]),
                              u.addr, u.size, Junk),
             answer' = AlignedStart(b, 1)
      PROVE  PoolInv' /\ u.addr \in DOMAIN Live /\ Pool!Resize(u.addr, n, 1)
  <2> DEFINE a == answer'
             copy == Copied(u, a)
             full == Filled(copy, a + u.size, n - u.size, memory[u.addr])
  <2>1. /\ Replaced(blocks, blocks', u, a, n) /\ a \in Nat
        /\ b.free /\ b.addr <= a /\ a + n <= End(b)
    BY <1>1, <1>3, MovedFacts DEF Replaced
  <2>2. memory' = Filled(full, u.addr, u.size, Junk)
    BY <1>3
  <2>3. \A x \in Arena : copy[x] = IF x \in a .. a + u.size - 1
                                   THEN memory[u.addr + (x - a)] ELSE memory[x]
    BY DEF Copied
  <2>4. \A x \in Arena : /\ memory'[x] = IF x \in Pool!Area(u.addr, u.size) THEN Junk ELSE full[x]
                         /\ full[x] = IF x \in Pool!Area(a + u.size, n - u.size)
                                      THEN memory[u.addr] ELSE copy[x]
    BY <2>2, FilledFacts
  <2>5. /\ \A x \in Pool!Area(a, n) : x \in Arena
        /\ \A d \in InUse(blocks) \ {u} : \A x \in Cells(d) :
               x \in Arena /\ x \notin Pool!Area(a, n)
    BY <1>1, <2>1, ReplacedApart
  <2> HIDE DEF copy, full, a
  <2>6. ASSUME NEW x \in Pool!Area(a, n)
        PROVE  memory'[x] = memory[u.addr]
    <3>1. x \in Nat /\ a <= x /\ x < a + n
      BY <2>1, <2>6 DEF Pool!Area
    <3>2. x \notin Pool!Area(u.addr, u.size)
      <4>1. b \in Block /\ End(b) \in Nat /\ b.addr \in Nat /\ Disjoint(b, u)
        BY <1>1, <2>1, BlockFacts DEF Exact, Apart
      <4> QED
        BY <1>2, <2>1, <3>1, <4>1 DEF Disjoint, Pool!Area
    <3>3. CASE x < a + u.size
      <4>1. x \notin Pool!Area(a + u.size, n - u.size) /\ x \in a .. a + u.size - 1
        BY <1>2, <2>1, <3>1, <3>3 DEF Pool!Area
      <4>2. u.addr + (x - a) \in Cells(u)
        BY <1>1, <1>2, <2>1, <3>1, <3>3, BlockFacts
      <4>3. memory[u.addr + (x - a)] = memory[u.addr]
        BY <4>2 DEF PoolInv, Uniform
      <4> QED
        BY <2>3, <2>4, <2>5, <3>2, <4>1, <4>3
    <3>4. CASE a + u.size <= x
      <4>1. x \in Pool!Area(a + u.size, n - u.size)
        BY <1>2, <2>1, <3>1, <3>4 DEF Pool!Area
      <4> QED
        BY <2>4, <2>5, <3>2, <4>1
    <3> QED
      BY <1>2, <2>1, <3>1, <3>3, <3>4
  <2>7. ASSUME NEW d \in InUse(blocks) \ {u}, NEW x \in Cells(d)
        PROVE  memory'[x] = memory[x]
    <3>1. x \in Arena /\ x \notin Pool!Area(a, n) /\ x \notin Cells(u)
      BY <1>1, <2>5, CellsApart
    <3>2. x \in Nat
      BY <3>1, ArenaAssumption DEF Arena
    <3>3. x \notin Pool!Area(u.addr, u.size)
      BY <1>1, <3>1, AreaCells
    <3>4. x \notin Pool!Area(a + u.size, n - u.size) /\ x \notin a .. a + u.size - 1
      BY <1>2, <2>1, <3>1, <3>2 DEF Pool!Area
    <3> QED
      BY <2>3, <2>4, <3>1, <3>3, <3>4
  <2>8. Stored(blocks, u, memory, memory', a, n, memory[u.addr])
    BY <2>6, <2>7 DEF Stored
  <2> QED
    BY <2>1, <2>8, ResizeStep DEF a
<1>4. CASE ~CanServe(n, 1) /\ Refuse
  <2>1. PoolInv' /\ Live' = Live /\ answer' = NULL
    BY <1>4, RefuseStep
  <2>2. Pool!HeldBack(Live, n) \/ \A a \in Pool!Arena : ~Pool!Place(Live, a, n, 1)
    BY <1>4, RefusePool
  <2>3. ~(Pool!Area(u.addr, n) \subseteq Pool!Free(Pool!Without(Live, u.addr)))
    BY <1>1, <1>2, LiveBefore, RoomFits DEF Move
  <2>4. u.addr \in DOMAIN Live
    BY LiveContents
  <2> QED
    BY <2>1, <2>2, <2>3, <2>4 DEF Pool!Resize
<1> QED
  BY <1>3, <1>4 DEF Move

--------------------------------------------------------------------------------
(* The heap implements the pool *)

\* A step that leaves blocks, memory and the answer alone is none of the pool's.
LEMMA IdlePool ==
    ASSUME PoolInv, UNCHANGED <<blocks, memory>>
    PROVE  PoolInv' /\ Live' = Live
  BY DEF PoolInv, HeapExact, Live, Areas, FindBlock

\* A stack that is given back, or was not owned.
LEMMA StackPool ==
    ASSUME PoolInv, NEW t \in Threads, StackFreed(t), UNCHANGED answer
    PROVE  PoolInv' /\ [Pool!PoolNext]_(Pool!poolVars)
<1>1. ASSUME NEW b \in FindBlock(blocks, stack[t]), Release(b)
      PROVE  PoolInv' /\ Pool!PoolNext
  <2>1. PoolInv' /\ stack[t] \in DOMAIN Live /\ Live' = Pool!Without(Live, stack[t])
    BY <1>1, ReleasePool
  <2> QED
    BY <2>1 DEF Pool!PoolNext, Pool!Release
<1>2. CASE UNCHANGED <<blocks, memory>>
  BY <1>2, IdlePool DEF Pool!poolVars
<1> QED
  BY <1>1, <1>2 DEF StackFreed

\* Every call is a call of the pool, or none of its business.
LEMMA PoolStep ==
    ASSUME PoolInv, [Next]_vars
    PROVE  PoolInv' /\ [Pool!PoolNext]_(Pool!poolVars)
<1>1. /\ \A n \in Sizes : n \in Nat \ {0}
      /\ \A al \in Alignments : al \in Nat \ {0}
      /\ \A t \in Threads : StackSize[t] \in Nat \ {0}
  BY ArenaAssumption
<1>2. ASSUME NEW n \in Nat \ {0}, NEW al \in Nat \ {0}, NEW v, ~CanServe(n, al), Refuse
      PROVE  PoolInv' /\ Pool!Allocate(n, al, v)
  <2>1. PoolInv' /\ Live' = Live /\ answer' = NULL
    BY <1>2, RefuseStep
  <2>2. Pool!HeldBack(Live, n) \/ \A a \in Pool!Arena : ~Pool!Place(Live, a, n, al)
    BY <1>2, RefusePool
  <2> QED
    BY <2>1, <2>2 DEF Pool!Allocate
<1>3. ASSUME NEW n \in Sizes, NEW al \in Alignments \cup {1}, NEW v \in Values \cup {Zero},
             guestMalloc(n, al, v)
      PROVE  PoolInv' /\ Pool!PoolNext
  <2>1. n \in Nat \ {0} /\ al \in Nat \ {0}
    BY <1>1
  <2>2. PoolInv' /\ Pool!Allocate(n, al, v)
    BY <1>2, <1>3, <2>1, GrantPool DEF guestMalloc
  <2> QED
    BY <2>2 DEF Pool!PoolNext
<1>4. ASSUME NEW a \in Arena, guestFree(a)
      PROVE  PoolInv' /\ [Pool!PoolNext]_(Pool!poolVars)
  <2>1. ASSUME NEW b \in FindBlock(blocks, a), Release(b)
        PROVE  PoolInv' /\ Pool!PoolNext
    <3>1. PoolInv' /\ a \in DOMAIN Live /\ Live' = Pool!Without(Live, a)
      BY <2>1, ReleasePool
    <3> QED
      BY <1>4, <3>1 DEF Pool!PoolNext, Pool!Release, guestFree
  <2>2. CASE UNCHANGED <<blocks, memory>>
    BY <1>4, <2>2, IdlePool DEF Pool!poolVars, guestFree
  <2> QED
    BY <1>4, <2>1, <2>2 DEF guestFree
<1>5. ASSUME NEW a \in Arena, NEW n \in Sizes, guestRealloc(a, n)
      PROVE  PoolInv' /\ Pool!PoolNext
  <2>1. PICK u \in FindBlock(blocks, a) : ShrinkTo(u, n) \/ GrowInPlace(u, n) \/ Move(u, n)
    BY <1>5 DEF guestRealloc
  <2>2. u \in InUse(blocks) /\ u.addr = a
    BY DEF FindBlock, InUse
  <2>3. PoolInv' /\ a \in DOMAIN Live /\ Pool!Resize(a, n, 1)
    BY <1>1, <2>1, <2>2, ShrinkPool, GrowPool, MovePool
  <2> QED
    BY <2>3 DEF Pool!PoolNext
<1>6. ASSUME NEW t \in Threads, StartThread(t)
      PROVE  PoolInv' /\ [Pool!PoolNext]_(Pool!poolVars)
  <2> DEFINE n == StackSize[t]
             one == 1
  <2>1. n \in Nat \ {0} /\ one \in Nat \ {0} /\ one \in Alignments \cup {1}
    BY <1>1
  <2>2. CASE UNCHANGED heapVars
    BY <2>2, IdlePool DEF Pool!poolVars, heapVars
  <2>3. ASSUME NEW v \in Values, Grant(n, 1, v)
        PROVE  PoolInv' /\ Pool!PoolNext
    <3>1. PoolInv' /\ Pool!Allocate(n, one, v)
      BY <2>1, <2>3, GrantPool
    <3> QED
      BY <3>1 DEF Pool!PoolNext
  <2>4. CASE ~CanServe(n, 1) /\ Refuse
    <3>1. PoolInv' /\ Pool!Allocate(n, one, Zero)
      BY <1>2, <2>1, <2>4
    <3> QED
      BY <3>1 DEF Pool!PoolNext
  <2> QED
    BY <1>6, <2>2, <2>3, <2>4 DEF StartThread
<1>7. ASSUME NEW t \in Threads, CreateThread(t) \/ ExitThread(t)
      PROVE  PoolInv' /\ [Pool!PoolNext]_(Pool!poolVars)
  BY <1>7, IdlePool DEF CreateThread, ExitThread, heapVars, Pool!poolVars
<1>8. ASSUME NEW t \in Threads, ExitDeleteThread(t) \/ TerminateThread(t) \/ DeleteThread(t)
      PROVE  PoolInv' /\ [Pool!PoolNext]_(Pool!poolVars)
  BY <1>8, StackPool DEF ExitDeleteThread, TerminateThread, DeleteThread
<1>9. CASE UNCHANGED vars
  BY <1>9, IdlePool DEF vars, Pool!poolVars
<1>10. CASE HeapCall
  BY <1>3, <1>4, <1>5, <1>10 DEF HeapCall, guestCalloc
<1>11. CASE ThreadCall
  BY <1>6, <1>7, <1>8, <1>11 DEF ThreadCall
<1> QED
  BY <1>9, <1>10, <1>11 DEF Next

LEMMA PoolStart == Init => PoolInv /\ Pool!PoolInit
<1> SUFFICES ASSUME Init PROVE PoolInv /\ Pool!PoolInit
  OBVIOUS
<1>1. HeapExact
  BY InitInv DEF Inv
<1>2. InUse(blocks) = {}
  BY DEF Init, InUse
<1>3. Live = [a \in {} |-> NULL]
  <2>1. Areas = {}
    BY <1>2 DEF Areas, InUse
  <2> QED
    BY <2>1 DEF Live
<1> QED
  BY <1>1, <1>2, <1>3 DEF PoolInv, Uniform, Pool!PoolInit, Init

\* The allocator is a pool of areas that belong to their holders alone, aligned and with
\* their contents kept, also by a resize that moves them; a request is refused only when
\* there is no place, or for the reserve (guestMalloc, guestCalloc, guestRealloc and
\* guestFree, with the stacks of StartThread).
THEOREM PoolSpecHolds == Spec => PoolSpec
<1> QED
  BY PoolStart, PoolStep, PTL DEF Spec, PoolSpec, Pool!PoolSpec
================================================================================

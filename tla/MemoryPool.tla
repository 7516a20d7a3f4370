------------------------------- MODULE MemoryPool -------------------------------
(* What guest code and the host layer may rely on when they take memory from the
   runtime arena: an area is theirs alone, aligned as asked, and keeps its contents
   until they give it back, also when a resize moves it; a request is refused only
   when no place is left for it, or when it would eat into the host's reserve.
   Addresses and sizes count units of 16 bytes. *)
EXTENDS Naturals, FiniteSets, Functions

CONSTANTS
    Base, Limit,  \* the arena is Base .. Limit - 1
    Reserve,      \* what a request larger than it has to leave free
    Sizes, Alignments, Values,
    NULL

VARIABLES
    live,         \* the areas in use: from an address to a size and the contents
    answer        \* what the last call returned

poolVars == <<live, answer>>

Arena == Base .. Limit - 1
Area(a, n) == a .. a + n - 1
Taken(areas) == UNION {Area(a, areas[a].size) : a \in DOMAIN areas}
Free(areas) == Arena \ Taken(areas)

\* a is a place for n units aligned to al.
Place(areas, a, n, al) == a % al = 0 /\ Area(a, n) \subseteq Free(areas)

HeldBack(areas, n) == n > Reserve /\ Cardinality(Free(areas)) < n + Reserve

Without(areas, a) == Restrict(areas, DOMAIN areas \ {a})
With(areas, a, n, v) ==
    [b \in DOMAIN areas \cup {a} |->
        IF b = a THEN [size |-> n, contents |-> v] ELSE areas[b]]

Allocate(n, al, v) ==
    \/ \E a \in Arena :
        /\ answer' = a
        /\ live' = With(live, a, n, {v})
        /\ Place(live, a, n, al)
        /\ ~HeldBack(live, n)
    \/ /\ answer' = NULL
       /\ UNCHANGED live
       /\ HeldBack(live, n) \/ \A a \in Arena : ~Place(live, a, n, al)

Release(a) == live' = Without(live, a) /\ UNCHANGED answer

\* A resized area stays or moves, and takes its contents along; one that cannot be
\* resized stays as it is.
Resize(a, n, al) ==
    \/ \E b \in Arena :
        /\ answer' = b
        /\ live' = With(Without(live, a), b, n, live[a].contents)
        /\ Area(b, n) \subseteq Free(Without(live, a))
        /\ b = a \/ b % al = 0
    \/ /\ answer' = NULL
       /\ UNCHANGED live
       /\ ~(Area(a, n) \subseteq Free(Without(live, a)))
       /\ HeldBack(live, n) \/ \A b \in Arena : ~Place(live, b, n, al)

PoolInit == live = [a \in {} |-> NULL] /\ answer = NULL

PoolNext ==
    \/ \E n \in Sizes, al \in Alignments, v \in Values : Allocate(n, al, v)
    \/ \E a \in DOMAIN live : Release(a)
    \/ \E a \in DOMAIN live, n \in Sizes, al \in Alignments : Resize(a, n, al)

PoolSpec == PoolInit /\ [][PoolNext]_poolVars
================================================================================

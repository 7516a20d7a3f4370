------------------------------- MODULE GuestHeap --------------------------------
(* The runtime arena: the guest memory behind guestMalloc, guestCalloc, guestRealloc
   and guestFree of ps2_runtime.cpp, and the thread stacks StartThread takes from it.

   m_guestHeapBlocks is a list in address order. An operation replaces a block by its
   pieces in place, so the order is that of the addresses and the model keeps a set.
   Addresses and sizes are in units of 16 bytes, to which the code rounds both; the
   alignments are what normalizeGuestHeapAlignment makes of an argument, in the same
   units. guestRealloc takes one too, which its callers leave at the default of one unit. A caller fills the memory it gets with a value. *)
EXTENDS Naturals, FiniteSets

CONSTANTS
    Base, Limit,   \* the arena is Base .. Limit - 1
    Reserve,       \* kGuestHeapRuntimeReserve
    Sizes,         \* the sizes the callers ask for
    Alignments,
    Values,        \* what a caller may fill its memory with
    Zero,          \* what guestCalloc fills it with
    Junk,          \* what free memory holds: no caller reads it
    NULL,          \* address zero
    Threads,
    StackSize      \* StackSize[t]: the stack size in the ThreadParam of t

ASSUME ArenaAssumption ==
    /\ Base \in Nat \ {0} /\ Limit \in Nat /\ Base < Limit
    /\ Reserve \in Nat
    /\ Sizes \subseteq Nat \ {0}
    /\ Alignments \subseteq Nat \ {0}
    /\ NULL \notin Nat
    /\ StackSize \in [Threads -> Nat \ {0}]

VARIABLES
    blocks,   \* m_guestHeapBlocks
    memory,   \* the guest memory of the arena
    answer,   \* the address the last call returned
    held,     \* the addresses the game and the host layer hold
    thread,   \* "none", "dormant" or "alive", per thread
    stack,    \* GuestThread::stack; NULL before the first start
    owns      \* GuestThread::ownsStack

heapVars == <<blocks, memory, answer>>
threadVars == <<thread, stack, owns>>
vars == <<blocks, memory, answer, held, thread, stack, owns>>

Arena == Base .. Limit - 1
Block == [addr : Arena, size : Nat \ {0}, free : BOOLEAN]
End(b) == b.addr + b.size
Cells(b) == b.addr .. End(b) - 1

\* A block from lo to hi, and none when nothing is left of it.
Piece(lo, hi, f) ==
    IF lo < hi THEN {[addr |-> lo, size |-> hi - lo, free |-> f]} ELSE {}

alignGuestHeapValue(v, al) == IF v % al = 0 THEN v ELSE v + (al - (v % al))

\* findGuestHeapBlockIndexLocked: the block in use that begins at a.
FindBlock(B, a) == {b \in B : ~b.free /\ b.addr = a}

--------------------------------------------------------------------------------
(* allocateGuestBlockLocked *)

TotalFree == Cardinality(UNION {Cells(b) : b \in {c \in blocks : c.free}})

\* A request larger than the reserve has to leave the reserve free.
HeldBack(n) == Reserve # 0 /\ n > Reserve /\ TotalFree < n + Reserve

AlignedStart(b, al) == alignGuestHeapValue(b.addr, al)
Fits(b, n, al) == b.free /\ AlignedStart(b, al) + n <= End(b)

\* b is the first free block of the list that n units fit in.
FirstFit(b, n, al) ==
    /\ b \in blocks /\ Fits(b, n, al)
    /\ \A c \in blocks : Fits(c, n, al) => b.addr <= c.addr

\* The free block b gives the units from a on.
Taken(B, b, a, n) ==
    (B \ {b}) \cup Piece(b.addr, a, TRUE)
              \cup Piece(a, a + n, FALSE)
              \cup Piece(a + n, End(b), TRUE)

CanServe(n, al) == ~HeldBack(n) /\ \E b \in blocks : Fits(b, n, al)

--------------------------------------------------------------------------------
(* freeGuestBlockLocked with coalesceGuestHeapLocked: b becomes free and one block with
   the free blocks before and behind it. The sweep goes over the whole list, but meets
   no other two: outside a call no two neighbours are free (HeapExact). *)

\* Mutant: only the block behind is merged.
MergesBehind(B, b) == {c \in B : c.free /\ c.addr = End(b)}

Merges(B, b) == {c \in B : c.free /\ (End(c) = b.addr \/ c.addr = End(b))}

Freed(B, b) ==
    LET joined == {b} \cup Merges(B, b)
        lo == CHOOSE x \in {c.addr : c \in joined} : \A c \in joined : x <= c.addr
        hi == CHOOSE x \in {End(c) : c \in joined} : \A c \in joined : End(c) <= x
    IN (B \ joined) \cup Piece(lo, hi, TRUE)

--------------------------------------------------------------------------------
(* The calls. Filled: the n units from a on hold v. Allocated memory holds what its
   caller writes there at once, Zero after guestCalloc; freed memory is junk. *)

Filled(mem, a, n, v) == [x \in Arena |-> IF x \in a .. a + n - 1 THEN v ELSE mem[x]]

\* One allocation and what the caller stores in it.
Grant(n, al, v) ==
    /\ ~HeldBack(n)
    /\ \E b \in blocks :
        /\ FirstFit(b, n, al)
        /\ blocks' = Taken(blocks, b, AlignedStart(b, al), n)
        /\ memory' = Filled(memory, AlignedStart(b, al), n, v)
        /\ answer' = AlignedStart(b, al)

Refuse == answer' = NULL /\ UNCHANGED <<blocks, memory>>

guestMalloc(n, al, v) ==
    /\ \/ Grant(n, al, v) /\ held' = held \cup {answer'}
       \/ ~CanServe(n, al) /\ Refuse /\ UNCHANGED held
    /\ UNCHANGED threadVars

guestCalloc(n) == guestMalloc(n, 1, Zero)

Release(b) ==
    /\ blocks' = Freed(blocks, b)
    /\ memory' = Filled(memory, b.addr, b.size, Junk)

\* A free of memory the caller holds, or of an address it gave back before and nobody
\* took since.
guestFree(a) ==
    /\ held' = held \ {a}
    /\ \/ \E b \in FindBlock(blocks, a) : a \in held /\ Release(b)
       \/ FindBlock(blocks, a) = {} /\ UNCHANGED <<blocks, memory>>
    /\ UNCHANGED <<answer, threadVars>>

--------------------------------------------------------------------------------
(* guestRealloc of the block u in use, which its caller holds. *)

\* u in two, the n units it keeps and its tail.
Kept(u, n) == [addr |-> u.addr, size |-> n, free |-> FALSE]
Rest(u, n) == [addr |-> u.addr + n, size |-> u.size - n, free |-> FALSE]
Cut(B, u, n) == (B \ {u}) \cup {Kept(u, n), Rest(u, n)}

ShrinkTo(u, n) ==
    /\ n <= u.size
    /\ blocks' = IF n = u.size THEN blocks ELSE Freed(Cut(blocks, u, n), Rest(u, n))
    /\ memory' = Filled(memory, u.addr + n, u.size - n, Junk)
    /\ answer' = u.addr
    /\ UNCHANGED held

\* c is the free block right behind u, and large enough.
RoomBehind(u, c, n) == c.free /\ c.addr = End(u) /\ u.size + c.size >= n

Grown(B, u, c, n) ==
    (B \ {u, c}) \cup {Kept(u, n)} \cup Piece(u.addr + n, End(c), TRUE)

GrowInPlace(u, n) ==
    /\ n > u.size
    /\ \E c \in blocks :
        /\ RoomBehind(u, c, n)
        /\ blocks' = Grown(blocks, u, c, n)
        /\ memory' = Filled(memory, End(u), n - u.size, memory[u.addr])
        /\ answer' = u.addr
    /\ UNCHANGED held

\* The block is taken elsewhere, its contents are copied, and then the old one is freed.
\* Mutant: the old block is freed, and its memory reused, before the copy.
CopiedLate(u, a) == Filled(memory, a, u.size, Junk)

Copied(u, a) ==
    [x \in Arena |-> IF x \in a .. a + u.size - 1 THEN memory[u.addr + (x - a)] ELSE memory[x]]

Move(u, n) ==
    /\ n > u.size /\ \A c \in blocks : ~RoomBehind(u, c, n)
    /\ \/ /\ ~HeldBack(n)
          /\ \E b \in blocks :
              LET a == AlignedStart(b, 1) IN
              /\ FirstFit(b, n, 1)
              /\ blocks' = Freed(Taken(blocks, b, a, n), u)
              /\ memory' = Filled(Filled(Copied(u, a), a + u.size, n - u.size, memory[u.addr]),
                                  u.addr, u.size, Junk)
              /\ answer' = a
              /\ held' = (held \ {u.addr}) \cup {a}
       \/ ~CanServe(n, 1) /\ Refuse /\ UNCHANGED held

guestRealloc(a, n) ==
    /\ a \in held
    /\ \E u \in FindBlock(blocks, a) : ShrinkTo(u, n) \/ GrowInPlace(u, n) \/ Move(u, n)
    /\ UNCHANGED threadVars

--------------------------------------------------------------------------------
(* The thread calls that take or give back a stack. *)

\* freeGuestBlockLocked of t's stack when it owns it.
\* Mutant: whatever the record names as the stack is freed.
StackFreedUnowned(t) ==
    \/ \E b \in FindBlock(blocks, stack[t]) : Release(b)
    \/ FindBlock(blocks, stack[t]) = {} /\ UNCHANGED <<blocks, memory>>

StackFreed(t) ==
    IF owns[t] THEN \E b \in FindBlock(blocks, stack[t]) : Release(b)
               ELSE UNCHANGED <<blocks, memory>>

Gone(t) ==
    /\ thread' = [thread EXCEPT ![t] = "none"]
    /\ stack' = [stack EXCEPT ![t] = NULL]
    /\ owns' = [owns EXCEPT ![t] = FALSE]

CreateThread(t) ==
    /\ thread[t] = "none"
    /\ thread' = [thread EXCEPT ![t] = "dormant"]
    /\ UNCHANGED <<heapVars, held, stack, owns>>

\* A stack is taken on the first start, and kept until the thread is deleted.
StartThread(t) ==
    /\ thread[t] = "dormant"
    /\ \/ /\ stack[t] # NULL
          /\ thread' = [thread EXCEPT ![t] = "alive"]
          /\ UNCHANGED <<heapVars, stack, owns>>
       \/ /\ stack[t] = NULL
          /\ \E v \in Values : Grant(StackSize[t], 1, v)
          /\ thread' = [thread EXCEPT ![t] = "alive"]
          /\ stack' = [stack EXCEPT ![t] = answer']
          /\ owns' = [owns EXCEPT ![t] = TRUE]
       \/ /\ stack[t] = NULL /\ ~CanServe(StackSize[t], 1)
          /\ Refuse
          /\ UNCHANGED threadVars
    /\ UNCHANGED held

ExitThread(t) ==
    /\ thread[t] = "alive"
    /\ thread' = [thread EXCEPT ![t] = "dormant"]
    /\ UNCHANGED <<heapVars, held, stack, owns>>

ExitDeleteThread(t) ==
    /\ thread[t] = "alive"
    /\ StackFreed(t) /\ Gone(t)
    /\ UNCHANGED <<answer, held>>

\* The stack is freed; the record keeps its address.
TerminateThread(t) ==
    /\ thread[t] = "alive"
    /\ StackFreed(t)
    /\ thread' = [thread EXCEPT ![t] = "dormant"]
    /\ owns' = [owns EXCEPT ![t] = FALSE]
    /\ UNCHANGED <<answer, held, stack>>

DeleteThread(t) ==
    /\ thread[t] = "dormant"
    /\ StackFreed(t) /\ Gone(t)
    /\ UNCHANGED <<answer, held>>

--------------------------------------------------------------------------------
\* resetGuestHeapLocked on the first call: one free block.
Init ==
    /\ blocks = {[addr |-> Base, size |-> Limit - Base, free |-> TRUE]}
    /\ memory = [x \in Arena |-> Junk]
    /\ answer = NULL /\ held = {}
    /\ thread = [t \in Threads |-> "none"]
    /\ stack = [t \in Threads |-> NULL]
    /\ owns = [t \in Threads |-> FALSE]

HeapCall ==
    \/ \E n \in Sizes, al \in Alignments, v \in Values : guestMalloc(n, al, v)
    \/ \E n \in Sizes : guestCalloc(n)
    \/ \E a \in Arena : guestFree(a)
    \/ \E a \in Arena, n \in Sizes : guestRealloc(a, n)

ThreadCall ==
    \E t \in Threads :
        \/ CreateThread(t) \/ StartThread(t) \/ ExitThread(t)
        \/ ExitDeleteThread(t) \/ TerminateThread(t) \/ DeleteThread(t)

Next == HeapCall \/ ThreadCall

Spec == Init /\ [][Next]_vars

--------------------------------------------------------------------------------
\* The blocks are the arena, cut into pieces that do not overlap and leave nothing
\* out, and no two neighbours are free: coalesceGuestHeapLocked misses no pair.
Disjoint(b, c) == End(b) <= c.addr \/ End(c) <= b.addr

Apart(B) == \A b, c \in B : b = c \/ Disjoint(b, c)
Cover(B) ==
    /\ \A x \in Arena : \E b \in B : x \in Cells(b)
    /\ \A b \in B : End(b) <= Limit
Coalesced(B) == \A b, c \in B : b.free /\ c.free => End(b) # c.addr

Exact(B) == B \subseteq Block /\ Apart(B) /\ Cover(B) /\ Coalesced(B)
HeapExact == Exact(blocks)

\* Every block in use has one holder who will free it: the game or the host layer, or
\* one thread, whose stack it is whole. Nothing leaks and nothing is freed under a
\* thread that owns it; a thread that was terminated no longer owns its stack, although
\* its record still names it.
BlocksHeld ==
    /\ \A b \in blocks : ~b.free =>
        b.addr \in held \/ \E t \in Threads : owns[t] /\ stack[t] = b.addr
    /\ \A a \in held : FindBlock(blocks, a) # {}
    /\ \A t \in Threads : owns[t] =>
        /\ \E b \in FindBlock(blocks, stack[t]) : b.size = StackSize[t]
        /\ stack[t] \notin held
        /\ \A u \in Threads \ {t} : owns[u] => stack[u] # stack[t]

\* The allocator is a pool of areas that belong to their holders, aligned, apart from
\* each other and with their contents kept; a request is refused only for lack of room.
Areas == {b.addr : b \in {c \in blocks : ~c.free}}
Live ==
    [a \in Areas |->
        LET b == CHOOSE c \in FindBlock(blocks, a) : TRUE
        IN [size |-> b.size, contents |-> {memory[x] : x \in Cells(b)}]]
Pool == INSTANCE MemoryPool WITH
    Values <- Values \cup {Zero},
    Sizes <- Sizes \cup {StackSize[t] : t \in Threads},
    Alignments <- Alignments \cup {1},
    live <- Live
PoolSpec == Pool!PoolSpec
================================================================================

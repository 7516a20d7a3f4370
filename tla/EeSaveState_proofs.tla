-------------------------- MODULE EeSaveState_proofs ---------------------------
(***************************************************************************)
(* What survives saves, torn files and restarts, proved for any threads,   *)
(* slots, pool and lengths: there is always one vertical blank to come, no *)
(* two threads share a callback stack, and a thread that waits for the     *)
(* host has its callback.  The proofs about the loop are those of          *)
(* EeEventLoop_proofs; what is new is that a file that loads is as good as *)
(* the running kernel it was taken from.                                   *)
(***************************************************************************)
EXTENDS EeSaveState, EeEventLoop_proofs

\* The stacks handed out are those above top, to one owner each, and none is lost.
StacksOK(tops, top) ==
    /\ top \in Int
    /\ IsFiniteSet(DOMAIN tops) /\ Cardinality(DOMAIN tops) = PoolSize - top
    /\ \A o \in DOMAIN tops : tops[o] \in top + 1 .. PoolSize
    /\ \A o, p \in DOMAIN tops : tops[o] = tops[p] => o = p
    /\ \A k \in top + 1 .. PoolSize : \E o \in DOMAIN tops : tops[o] = k

\* What a file that loads holds: one vertical blank to come, a running thread that
\* waits for nothing, no wait for the host, and stacks of which none is lost.
FileOK(file) ==
    /\ file.deadlines \in Seq(Stamps)
    /\ file.nextDeadline = updateNextDeadline(file.deadlines)
    /\ Holds(file.deadlines, "VBlankStart", 0) /\ Once(file.deadlines, "VBlankStart", 0)
    /\ file.timer \in Nat
    /\ file.waits \in [Threads -> Waits]
    /\ file.current \in Threads \cup {Dispatcher, None}
    /\ file.current \in Threads => file.waits[file.current] = NoWait
    /\ \A t \in Threads : file.waits[t].reason # "External"
    /\ \E top : StacksOK(file.stacks, top)

FilesOK == \A s \in Slots : Loads(files[s]) => FileOK(files[s])

SaveInv ==
    /\ ListsOK /\ BlankOK /\ ThreadsOK
    /\ WaitersHaveCallbacks
    /\ StacksOK(stacks, stackTop)
    /\ slot \in Slots \cup {NoSlot} /\ DOMAIN files = Slots /\ FilesOK

--------------------------------------------------------------------------------
(* Stacks *)

\* No stack handed out, and the whole pool below.
LEMMA EmptyPool == StacksOK(<<>>, PoolSize)
<1>1. DOMAIN <<>> = {} /\ PoolSize \in Nat
  BY SaveConstantsAssumption
<1>2. IsFiniteSet({}) /\ Cardinality({}) = 0
  BY FS_EmptySet
<1>3. PoolSize + 1 .. PoolSize = {}
  BY <1>1
<1> QED
  BY <1>1, <1>2, <1>3 DEF StacksOK

\* An owner without a stack gets the next one of the pool.
LEMMA StackGiven ==
    ASSUME StacksOK(stacks, stackTop), NEW owner, invocationStackTop(owner)
    PROVE  StacksOK(stacks, stackTop)'
<1>1. CASE owner \in DOMAIN stacks
  BY <1>1 DEF invocationStackTop
<1>2. CASE owner \notin DOMAIN stacks
  <2> DEFINE D == DOMAIN stacks
  <2>1. /\ DOMAIN stacks' = D \cup {owner}
        /\ stacks'[owner] = stackTop /\ \A o \in D : stacks'[o] = stacks[o]
        /\ stackTop' = stackTop - 1
    BY <1>2 DEF invocationStackTop
  <2>2. /\ stackTop \in Int /\ IsFiniteSet(D) /\ Cardinality(D) = PoolSize - stackTop
        /\ \A o \in D : stacks[o] \in stackTop + 1 .. PoolSize
        /\ \A o, p \in D : stacks[o] = stacks[p] => o = p
        /\ \A k \in stackTop + 1 .. PoolSize : \E o \in D : stacks[o] = k
    BY DEF StacksOK
  <2>3. PoolSize \in Nat
    BY SaveConstantsAssumption
  <2> HIDE DEF D
  <2>4. stackTop <= PoolSize
    <3>1. Cardinality(D) \in Nat
      BY <2>2, FS_CardinalityType
    <3> QED
      BY <2>2, <2>3, <3>1
  <2>5. IsFiniteSet(DOMAIN stacks') /\ Cardinality(DOMAIN stacks') = PoolSize - stackTop'
    <3>1. /\ IsFiniteSet(D \cup {owner})
          /\ Cardinality(D \cup {owner}) = Cardinality(D) + 1
      BY <1>2, <2>2, FS_AddElement DEF D
    <3> QED
      BY <2>1, <2>2, <2>3, <3>1
  <2>6. \A o \in DOMAIN stacks' : stacks'[o] \in stackTop' + 1 .. PoolSize
    BY <2>1, <2>2, <2>3, <2>4
  <2>7. \A o, p \in DOMAIN stacks' : stacks'[o] = stacks'[p] => o = p
    <3>1. \A o \in D : stacks[o] # stackTop
      BY <2>2, <2>3
    <3> QED
      BY <2>1, <2>2, <3>1
  <2>8. ASSUME NEW k \in stackTop' + 1 .. PoolSize
        PROVE  \E o \in DOMAIN stacks' : stacks'[o] = k
    <3>1. CASE k = stackTop
      BY <2>1, <3>1
    <3>2. CASE k # stackTop
      <4>1. k \in stackTop + 1 .. PoolSize
        BY <2>1, <2>2, <2>3, <3>2
      <4> QED
        BY <2>1, <2>2, <4>1
    <3> QED
      BY <3>1, <3>2
  <2>9. stackTop' \in Int
    BY <2>1, <2>2
  <2> QED
    BY <2>5, <2>6, <2>7, <2>8, <2>9 DEF StacksOK
<1> QED
  BY <1>1, <1>2

\* A load holds back exactly the stacks that the restored threads own.
LEMMA StacksHeld ==
    ASSUME NEW tops, NEW top, StacksOK(tops, top)
    PROVE  holdAsyncCallbackStacksAbove(tops) = top
<1> DEFINE D == DOMAIN tops
           S == {PoolSize} \cup {tops[o] - 1 : o \in D}
<1>1. /\ top \in Int /\ IsFiniteSet(D) /\ Cardinality(D) = PoolSize - top
      /\ \A o \in D : tops[o] \in top + 1 .. PoolSize
      /\ \A k \in top + 1 .. PoolSize : \E o \in D : tops[o] = k
  BY DEF StacksOK
<1>2. PoolSize \in Nat
  BY SaveConstantsAssumption
<1> HIDE DEF D
<1>3. Cardinality(D) \in Nat
  BY <1>1, FS_CardinalityType
<1>4. top <= PoolSize
  BY <1>1, <1>2, <1>3
<1>5. \A x \in S : x \in Int /\ top <= x
  BY <1>1, <1>2, <1>4
<1>6. top \in S
  <2>1. CASE top = PoolSize
    BY <2>1
  <2>2. CASE top # PoolSize
    <3>1. top + 1 \in top + 1 .. PoolSize
      BY <1>1, <1>2, <1>4, <2>2
    <3>2. PICK o \in D : tops[o] = top + 1
      BY <1>1, <3>1
    <3>3. tops[o] - 1 = top
      BY <1>1, <3>2
    <3> QED
      BY <3>2, <3>3
  <2> QED
    BY <2>1, <2>2
<1> HIDE DEF S
<1>7. Min(S) = top
  <2>1. Min(S) \in S /\ \A y \in S : Min(S) <= y
    BY <1>5, <1>6 DEF Min
  <2> DEFINE m == Min(S)
  <2>2. m \in S /\ m <= top
    BY <1>6, <2>1
  <2> HIDE DEF m
  <2>3. m = top
    BY <1>1, <1>5, <2>2
  <2> QED
    BY <2>3 DEF m
<1> QED
  BY <1>7 DEF S, D, holdAsyncCallbackStacksAbove

--------------------------------------------------------------------------------
(* A file that loads *)

\* The cache depends on the cycles of the list alone.
LEMMA SameCycles ==
    ASSUME NEW l, NEW r, DOMAIN r = DOMAIN l, \A i \in DOMAIN l : r[i].cycle = l[i].cycle
    PROVE  updateNextDeadline(r) = updateNextDeadline(l)
<1>1. \A i \in DOMAIN l : IsFirst(r, i) <=> IsFirst(l, i)
  BY DEF IsFirst
<1>2. \A x : x \in updateNextDeadline(r) <=> \E i \in DOMAIN l : IsFirst(l, i) /\ x = l[i].cycle
  BY <1>1 DEF updateNextDeadline
<1>3. \A x : x \in updateNextDeadline(l) <=> \E i \in DOMAIN l : IsFirst(l, i) /\ x = l[i].cycle
  BY DEF updateNextDeadline
<1> QED
  BY <1>2, <1>3

\* Host times can be replaced: the names and the cycles stay.
LEMMA NewHosts ==
    ASSUME NEW l \in Seq(Stamps), NEW r, DOMAIN r = DOMAIN l,
           \A i \in DOMAIN l : \E h \in Nat : r[i] = [l[i] EXCEPT !.host = h],
           r \in Seq(Range(r))
    PROVE  /\ r \in Seq(Stamps) /\ updateNextDeadline(r) = updateNextDeadline(l)
           /\ \A type, id : /\ Holds(r, type, id) <=> Holds(l, type, id)
                            /\ Once(r, type, id) <=> Once(l, type, id)
<1>1. ASSUME NEW i \in DOMAIN l
      PROVE  /\ r[i] \in Stamps /\ r[i].cycle = l[i].cycle
             /\ r[i].type = l[i].type /\ r[i].id = l[i].id
  <2>1. PICK h \in Nat : r[i] = [l[i] EXCEPT !.host = h]
    OBVIOUS
  <2>2. l[i] \in Stamps
    OBVIOUS
  <2>3. h >= -Lag
    BY ConstantsTyped
  <2> QED
    BY <2>1, <2>2, <2>3 DEF Stamps
<1>2. r \in Seq(Stamps)
  <2>1. Len(r) \in Nat /\ DOMAIN r = 1 .. Len(r) /\ r = [i \in 1 .. Len(r) |-> r[i]]
    OBVIOUS
  <2>2. \A i \in 1 .. Len(r) : r[i] \in Stamps
    BY <1>1, <2>1
  <2> QED
    BY <2>1, <2>2
<1>3. updateNextDeadline(r) = updateNextDeadline(l)
  BY <1>1, SameCycles
<1>4. \A type, id : /\ Holds(r, type, id) <=> Holds(l, type, id)
                    /\ Once(r, type, id) <=> Once(l, type, id)
  BY <1>1, SameNames
<1> QED
  BY <1>2, <1>3, <1>4

\* The next vertical blank is on the list before the file is written.
LEMMA NextBlankListed ==
    ASSUME ListsOK, BlankOK, VBlankStart
    PROVE  Holds(deadlines', "VBlankStart", 0) /\ Once(deadlines', "VBlankStart", 0)
<1>1. BlankOK'
  BY VBlankStartLists
<1>2. PICK d \in Range(due), cycles \in Periods, time \in Periods :
        ProcessNext("VBlankStart", d)
  BY DEF VBlankStart
<1>3. /\ d \in Stamps /\ d.type = "VBlankStart" /\ pc' \in {"Due", "Process"}
      /\ Once(due, "VBlankStart", d.id) => ~Holds(due', "VBlankStart", d.id)
  BY <1>2, ProcessedDue
<1>4. d.id = 0
  BY <1>3 DEF Stamps
<1> QED
  BY <1>1, <1>3, <1>4 DEF BlankOK, Single

\* A whole file, written when no thread waits for the host.
LEMMA WholeFile ==
    ASSUME SaveInv, VBlankStart, isQuiescentForState
    PROVE  FileOK(serializeForState)
<1> DEFINE file == serializeForState
           l == deadlines'
           r == [i \in DOMAIN l |-> [l[i] EXCEPT !.host = 0]]
<1>1. /\ file.deadlines = r /\ file.nextDeadline = nextDeadline' /\ file.timer = timer
      /\ file.current = current /\ file.stacks = stacks
      /\ file.waits = [t \in Threads |-> IF waits[t].reason = "VSync"
                                         THEN VSyncWait(Max({waits[t].left - 1, 0}))
                                         ELSE waits[t]]
  BY DEF serializeForState
<1>2. /\ l \in Seq(Stamps) /\ nextDeadline' = updateNextDeadline(l)
      /\ Holds(l, "VBlankStart", 0) /\ Once(l, "VBlankStart", 0)
  BY VBlankStartLists, NextBlankListed DEF SaveInv, ListsOK
<1>3. timer \in Nat /\ ThreadsOK /\ StacksOK(stacks, stackTop)
  BY DEF SaveInv, ListsOK
<1>4. \A t \in Threads : waits[t].reason # "External"
  BY DEF SaveInv, WaitersHaveCallbacks, isQuiescentForState
<1> HIDE DEF file, l
<1>5. /\ r \in Seq(Stamps) /\ updateNextDeadline(r) = updateNextDeadline(l)
      /\ Holds(r, "VBlankStart", 0) /\ Once(r, "VBlankStart", 0)
  <2>1. DOMAIN l = 1 .. Len(l) /\ Len(l) \in Nat
    BY <1>2
  <2>2. DOMAIN r = DOMAIN l /\ \A i \in DOMAIN l : r[i] = [l[i] EXCEPT !.host = 0]
    OBVIOUS
  <2>3. r \in Seq(Range(r))
    BY <2>1 DEF Range
  <2> HIDE DEF r
  <2> QED
    BY <1>2, <2>2, <2>3, NewHosts
<1>6. ASSUME NEW t \in Threads
      PROVE  /\ file.waits[t] \in Waits /\ file.waits[t].reason # "External"
             /\ waits[t] = NoWait => file.waits[t] = NoWait
  <2>1. file.waits[t] = IF waits[t].reason = "VSync"
                        THEN VSyncWait(Max({waits[t].left - 1, 0}))
                        ELSE waits[t]
    BY <1>1
  <2>2. waits[t] \in Waits /\ waits[t].reason # "External"
    BY <1>3, <1>4 DEF ThreadsOK
  <2>3. CASE waits[t] = NoWait
    BY <2>1, <2>2, <2>3 DEF NoWait
  <2>4. CASE \E n \in 0 .. MaxWait : waits[t] = VSyncWait(n)
    <3>1. PICK n \in 0 .. MaxWait : waits[t] = VSyncWait(n)
      BY <2>4
    <3>2. waits[t].reason = "VSync" /\ waits[t].left = n
      BY <3>1 DEF VSyncWait
    <3> DEFINE m == Max({n - 1, 0})
    <3>3. m \in 0 .. MaxWait
      <4>1. MaxWait \in Nat /\ n \in Nat
        BY ConstantsAssumption
      <4>2. \E x \in {n - 1, 0} : \A y \in {n - 1, 0} : x >= y
        BY <4>1
      <4>3. m \in {n - 1, 0} /\ \A y \in {n - 1, 0} : m >= y
        BY <4>2 DEF Max
      <4> HIDE DEF m
      <4> QED
        BY <4>1, <4>3
    <3>4. file.waits[t] = VSyncWait(m)
      BY <2>1, <3>2
    <3> HIDE DEF m
    <3>5. file.waits[t].reason = "VSync" /\ waits[t] # NoWait
      BY <3>2, <3>4 DEF VSyncWait, NoWait
    <3> QED
      BY <3>3, <3>4, <3>5 DEF Waits
  <2>5. CASE \E tok \in Tokens : waits[t] = ExternalWait(tok)
    BY <2>2, <2>5 DEF ExternalWait
  <2> QED
    BY <2>2, <2>3, <2>4, <2>5 DEF Waits
<1>7. file.waits \in [Threads -> Waits]
  <2>1. file.waits = [t \in Threads |-> file.waits[t]]
    BY <1>1
  <2> QED
    BY <1>6, <2>1
<1>8. /\ file.current \in Threads \cup {Dispatcher, None}
      /\ file.current \in Threads => file.waits[file.current] = NoWait
  BY <1>1, <1>3, <1>6 DEF ThreadsOK
<1>9. \E top : StacksOK(file.stacks, top)
  BY <1>1, <1>3
<1>10. /\ file.deadlines \in Seq(Stamps)
       /\ file.nextDeadline = updateNextDeadline(file.deadlines)
       /\ Holds(file.deadlines, "VBlankStart", 0) /\ Once(file.deadlines, "VBlankStart", 0)
       /\ file.timer \in Nat
  BY <1>1, <1>2, <1>3, <1>5
<1>11. FileOK(file)
  BY <1>6, <1>7, <1>8, <1>9, <1>10 DEF FileOK
<1> QED
  BY <1>11 DEF file

\* A save writes such a file, a bad one or none.
LEMMA FilesStay ==
    ASSUME SaveInv, VBlankStart, NEW wanted, ghpcStateServicePendingSave(wanted)
    PROVE  DOMAIN files' = Slots /\ FilesOK'
<1>1. DOMAIN files = Slots /\ FilesOK
  BY DEF SaveInv
<1>2. CASE UNCHANGED files
  BY <1>1, <1>2 DEF FilesOK
<1>3. CASE isQuiescentForState /\
           \E file \in Written(serializeForState) : files' = [files EXCEPT ![wanted] = file]
  <2>1. FileOK(serializeForState)
    BY <1>3, WholeFile
  <2> DEFINE whole == serializeForState
  <2>2. PICK file \in {BadFile, whole} : files' = [files EXCEPT ![wanted] = file]
    BY <1>3 DEF Written
  <2>3. FileOK(whole)
    BY <2>1
  <2> HIDE DEF whole
  <2>4. Loads(file) => FileOK(file)
    BY <2>2, <2>3 DEF Loads
  <2>5. DOMAIN files' = Slots
    BY <1>1, <2>2
  <2>6. \A s \in Slots : files'[s] = files[s] \/ files'[s] = file
    BY <1>1, <2>2
  <2>7. \A s \in Slots : Loads(files'[s]) => FileOK(files'[s])
    BY <1>1, <2>4, <2>6 DEF FilesOK
  <2> QED
    BY <2>5, <2>7 DEF FilesOK
<1> QED
  BY <1>2, <1>3 DEF ghpcStateServicePendingSave

--------------------------------------------------------------------------------
(* Steps *)

\* Nothing of what survives is touched.
LEMMA DiskStays ==
    ASSUME SaveInv, UNCHANGED disk
    PROVE  slot' \in Slots \cup {NoSlot} /\ DOMAIN files' = Slots /\ FilesOK'
BY DEF SaveInv, disk, FilesOK

\* The machine is as it was made.
LEMMA RestartSaved == SaveInv /\ Restart => SaveInv'
<1> SUFFICES ASSUME SaveInv, Restart
             PROVE  SaveInv'
  OBVIOUS
<1>1. /\ pc' = "Reset" /\ deadlines' = <<>> /\ due' = <<>> /\ nextDeadline' = {} /\ until' = {}
      /\ timer' = 0
  BY DEF Restart
<1>2. <<>> \in Seq(Stamps) /\ DOMAIN <<>> = {}
  BY EmptySeq
<1>3. ListsOK'
  BY <1>1, <1>2 DEF ListsOK, updateNextDeadline
<1>4. BlankOK'
  BY <1>1, <1>2 DEF BlankOK, Single, Holds, Once
<1>5. waits' = [t \in Threads |-> NoWait] /\ current' = None
  BY DEF Restart
<1>6. ThreadsOK'
  <2>1. waits' \in [Threads -> Waits]
    BY <1>5 DEF Waits
  <2>2. None \notin Threads
    BY ConstantsAssumption
  <2> QED
    BY <1>1, <1>5, <2>1, <2>2 DEF ThreadsOK
<1>7. WaitersHaveCallbacks'
  BY <1>5 DEF WaitersHaveCallbacks, NoWait
<1>8. StacksOK(stacks, stackTop)'
  <2>1. stacks' = <<>> /\ stackTop' = PoolSize
    BY DEF Restart
  <2> QED
    BY <2>1, EmptyPool
<1>9. slot' \in Slots \cup {NoSlot} /\ UNCHANGED files
  BY DEF Restart
<1>10. DOMAIN files' = Slots /\ FilesOK'
  BY <1>9 DEF SaveInv, FilesOK
<1> QED
  BY <1>3, <1>4, <1>6, <1>7, <1>8, <1>9, <1>10 DEF SaveInv

\* The steps that leave callbacks, stacks and files alone.
LEMMA KernelStep ==
    ASSUME SaveInv, UNCHANGED <<disk, callbacks>>, ListsOK', BlankOK', ThreadsOK',
           \A t \in Threads : waits'[t].reason = "External" => waits[t].reason = "External"
    PROVE  SaveInv'
<1>1. UNCHANGED <<completions, stacks, stackTop>>
  BY DEF callbacks
<1>2. slot' \in Slots \cup {NoSlot} /\ DOMAIN files' = Slots /\ FilesOK'
  BY DiskStays
<1>3. WaitersHaveCallbacks' /\ StacksOK(stacks, stackTop)'
  BY <1>1 DEF SaveInv, WaitersHaveCallbacks
<1> QED
  BY <1>2, <1>3 DEF SaveInv

LEMMA BootSaved == SaveInv /\ Boot => SaveInv'
<1> SUFFICES ASSUME SaveInv, Boot
             PROVE  SaveInv'
  OBVIOUS
<1>1. Reset /\ UNCHANGED <<disk, callbacks>>
  BY DEF Boot
<1>2. ListsOK' /\ BlankOK' /\ ThreadsOK'
  BY <1>1, ResetLists, PassThreads DEF SaveInv
<1>3. UNCHANGED waits
  BY <1>1 DEF Reset, kernel
<1> QED
  BY <1>1, <1>2, <1>3, KernelStep

LEMMA RefuseSaved == SaveInv /\ RefuseToBoot => SaveInv'
<1> SUFFICES ASSUME SaveInv, RefuseToBoot
             PROVE  SaveInv'
  OBVIOUS
<1>1. PICK cycles \in Periods, time \in Periods :
        /\ deadlines' = <<Deadline("VBlankStart", 0, cycles, time)>>
        /\ nextDeadline' = {cycles}
  BY DEF RefuseToBoot
<1>2. /\ pc = "Reset" /\ pc' = "Ended" /\ UNCHANGED <<due, until, timer, alarms, waits, current>>
      /\ UNCHANGED <<disk, callbacks>>
  BY DEF RefuseToBoot, kernel
<1>3. ListsOK' /\ BlankOK'
  BY <1>1, <1>2, FirstBlank DEF SaveInv
<1>4. ThreadsOK'
  BY <1>2, SameThreads DEF SaveInv
<1> QED
  BY <1>2, <1>3, <1>4, KernelStep

\* A whole file makes a machine as good as the one it was taken from.
LEMMA ResumeSaved == SaveInv /\ Resume => SaveInv'
<1> SUFFICES ASSUME SaveInv, Resume
             PROVE  SaveInv'
  OBVIOUS
<1> DEFINE saved == files[slot]
           l == saved.deadlines
<1>1. FileOK(saved)
  BY DEF SaveInv, FilesOK, Resume
<1>2. /\ pc = "Reset" /\ pc' = "Loop" /\ timer' = saved.timer
      /\ deadlines' = [i \in DOMAIN l |-> [l[i] EXCEPT !.host = Max({l[i].cycle, 0})]]
      /\ nextDeadline' = saved.nextDeadline
      /\ current' = saved.current /\ waits' = saved.waits
      /\ stacks' = saved.stacks /\ stackTop' = holdAsyncCallbackStacksAbove(saved.stacks)
      /\ UNCHANGED <<due, until, disk, completions>>
  BY DEF Resume
<1> HIDE DEF saved
<1>3. /\ l \in Seq(Stamps) /\ saved.nextDeadline = updateNextDeadline(l)
      /\ Holds(l, "VBlankStart", 0) /\ Once(l, "VBlankStart", 0)
  BY <1>1 DEF FileOK
<1> HIDE DEF l
<1>4. /\ deadlines' \in Seq(Stamps) /\ updateNextDeadline(deadlines') = updateNextDeadline(l)
      /\ Holds(deadlines', "VBlankStart", 0) /\ Once(deadlines', "VBlankStart", 0)
  <2>1. DOMAIN l = 1 .. Len(l) /\ Len(l) \in Nat
    BY <1>3
  <2>2. DOMAIN deadlines' = DOMAIN l
    BY <1>2
  <2>3. ASSUME NEW i \in DOMAIN l
        PROVE  \E h \in Nat : deadlines'[i] = [l[i] EXCEPT !.host = h]
    <3> DEFINE c == l[i].cycle
               m == Max({c, 0})
    <3>1. c \in Int
      BY <1>3 DEF Stamps
    <3>2. deadlines'[i] = [l[i] EXCEPT !.host = m]
      BY <1>2
    <3> HIDE DEF c
    <3>3. \E x \in {c, 0} : \A y \in {c, 0} : x >= y
      BY <3>1
    <3>4. m \in {c, 0} /\ \A y \in {c, 0} : m >= y
      BY <3>3 DEF Max
    <3> HIDE DEF m
    <3>5. m \in Nat
      BY <3>1, <3>4
    <3> QED
      BY <3>2, <3>5
  <2>4. deadlines' \in Seq(Range(deadlines'))
    <3>1. deadlines' = [i \in 1 .. Len(l) |-> deadlines'[i]]
      BY <1>2, <2>1
    <3>2. \A i \in 1 .. Len(l) : deadlines'[i] \in Range(deadlines')
      BY <2>1, <2>2 DEF Range
    <3> QED
      BY <2>1, <3>1, <3>2
  <2> QED
    BY <1>3, <2>2, <2>3, <2>4, NewHosts
<1>5. due = <<>> /\ until' \in SUBSET [cycle : Int, host : Int] /\ timer' \in Nat
  BY <1>1, <1>2 DEF SaveInv, ListsOK, FileOK
<1>6. ListsOK'
  BY <1>2, <1>3, <1>4, <1>5 DEF ListsOK
<1>7. BlankOK'
  <2>1. ~Holds(due, "VBlankStart", 0) /\ Once(due, "VBlankStart", 0)
    BY <1>5 DEF Holds, Once
  <2> QED
    BY <1>2, <1>4, <2>1 DEF BlankOK, Single
<1>8. ThreadsOK'
  BY <1>1, <1>2 DEF FileOK, ThreadsOK
<1>9. WaitersHaveCallbacks'
  BY <1>1, <1>2 DEF FileOK, WaitersHaveCallbacks
<1>10. StacksOK(stacks, stackTop)'
  <2>1. PICK top : StacksOK(saved.stacks, top)
    BY <1>1 DEF FileOK
  <2>2. holdAsyncCallbackStacksAbove(saved.stacks) = top
    BY <2>1, StacksHeld
  <2>3. stacks' = saved.stacks /\ stackTop' = top
    BY <1>2, <2>2
  <2> QED
    BY <2>1, <2>3
<1>11. slot' \in Slots \cup {NoSlot} /\ DOMAIN files' = Slots /\ FilesOK'
  BY <1>2, DiskStays
<1> QED
  BY <1>6, <1>7, <1>8, <1>9, <1>10, <1>11 DEF SaveInv

\* The vertical blank wakes threads and may write a file.
LEMMA SavingSaved == SaveInv /\ SavingVBlank => SaveInv'
<1> SUFFICES ASSUME SaveInv, SavingVBlank
             PROVE  SaveInv'
  OBVIOUS
<1>1. VBlankStart /\ UNCHANGED <<slot, callbacks>>
  BY DEF SavingVBlank
<1>2. PICK wanted \in {request} \cup Slots : ghpcStateServicePendingSave(wanted)
  BY DEF SavingVBlank
<1>3. ListsOK' /\ BlankOK' /\ ThreadsOK'
  BY <1>1, VBlankStartLists, VBlankThreads DEF SaveInv
<1>4. DOMAIN files' = Slots /\ FilesOK'
  BY <1>1, <1>2, FilesStay
<1>5. UNCHANGED <<completions, stacks, stackTop>>
  BY <1>1 DEF callbacks
<1>6. ASSUME NEW t \in Threads, waits'[t].reason = "External"
      PROVE  waits[t].reason = "External"
  <2>1. waits'[t] = IF waits[t].reason = "VSync"
                    THEN IF waits[t].left = 0 THEN NoWait ELSE VSyncWait(waits[t].left - 1)
                    ELSE waits[t]
    BY <1>1 DEF VBlankStart, completeVSync
  <2>2. NoWait.reason # "External" /\ VSyncWait(waits[t].left - 1).reason # "External"
    BY DEF NoWait, VSyncWait
  <2> QED
    BY <1>6, <2>1, <2>2
<1>7. WaitersHaveCallbacks' /\ StacksOK(stacks, stackTop)'
  BY <1>5, <1>6 DEF SaveInv, WaitersHaveCallbacks
<1>8. slot' \in Slots \cup {NoSlot}
  BY <1>1 DEF SaveInv
<1> QED
  BY <1>3, <1>4, <1>7, <1>8 DEF SaveInv

\* The executor chooses a thread, or takes a dispatcher record with its stack.
LEMMA SelectSaved == SaveInv /\ (SelectThread \/ SelectDispatcher \/ WaitIdle) => SaveInv'
<1> SUFFICES ASSUME SaveInv, SelectThread \/ SelectDispatcher \/ WaitIdle
             PROVE  SaveInv'
  OBVIOUS
<1>1. CASE SelectThread
  <2>1. Select /\ UNCHANGED <<disk, completions>>
    BY <1>1 DEF SelectThread
  <2>2. ListsOK' /\ BlankOK' /\ ThreadsOK'
    BY <2>1, OtherExecutorLists, SelectThreads DEF SaveInv
  <2>3. invocationStackTop(Dispatcher) \/ UNCHANGED <<stacks, stackTop>>
    BY <1>1 DEF SelectThread
  <2>4. StacksOK(stacks, stackTop)'
    <3>1. StacksOK(stacks, stackTop)
      BY DEF SaveInv
    <3> QED
      BY <2>3, <3>1, StackGiven
  <2>5. WaitersHaveCallbacks'
    BY <2>1 DEF SaveInv, WaitersHaveCallbacks, Select
  <2> QED
    BY <2>1, <2>2, <2>4, <2>5, DiskStays DEF SaveInv
<1>2. CASE SelectDispatcher
  <2>1. /\ pc = "Select" /\ pc' = "Dispatch" /\ current' = Dispatcher
        /\ UNCHANGED <<deadlines, due, nextDeadline, until, timer, alarms, waits>>
        /\ UNCHANGED <<disk, callbacks>>
    BY <1>2 DEF SelectDispatcher, clock
  <2>2. timer' \in Nat /\ until' \in SUBSET [cycle : Int, host : Int]
    BY <2>1 DEF SaveInv, ListsOK
  <2>3. ListsOK' /\ BlankOK'
    BY <2>1, <2>2, QuietLists DEF SaveInv
  <2>4. ThreadsOK'
    <3>1. Dispatcher \notin Threads /\ Dispatcher # None
      BY ConstantsAssumption
    <3> QED
      BY <2>1, <3>1 DEF SaveInv, ThreadsOK
  <2> QED
    BY <2>1, <2>3, <2>4, KernelStep
<1>3. CASE WaitIdle
  <2>1. WaitForEvent /\ UNCHANGED <<disk, callbacks>>
    BY <1>3 DEF WaitIdle
  <2>2. ListsOK' /\ BlankOK' /\ ThreadsOK'
    BY <2>1, WaitForEventLists, PassThreads DEF SaveInv
  <2>3. UNCHANGED waits
    BY <2>1 DEF WaitForEvent, kernel
  <2> QED
    BY <2>1, <2>2, <2>3, KernelStep
<1> QED
  BY <1>1, <1>2, <1>3

\* A completion blocks its thread again, and stays with it.
LEMMA CompletionSaved == SaveInv /\ CompletionBlocks => SaveInv'
<1> SUFFICES ASSUME SaveInv, CompletionBlocks
             PROVE  SaveInv'
  OBVIOUS
<1>1. /\ pc = "Dispatch" /\ pc' = "Loop" /\ current \in completions /\ current' = None
      /\ UNCHANGED <<deadlines, due, nextDeadline, until, timer, alarms>>
      /\ UNCHANGED <<disk, callbacks>>
  BY DEF CompletionBlocks, clock
<1>2. PICK token \in Tokens : waits' = [waits EXCEPT ![current] = ExternalWait(token)]
  BY DEF CompletionBlocks
<1>3. timer' \in Nat /\ until' \in SUBSET [cycle : Int, host : Int]
  BY <1>1 DEF SaveInv, ListsOK
<1>4. ListsOK' /\ BlankOK'
  BY <1>1, <1>3, QuietLists DEF SaveInv
<1>5. waits \in [Threads -> Waits] /\ ExternalWait(token) \in Waits /\ None \notin Threads
  BY ConstantsAssumption DEF SaveInv, ThreadsOK, Waits
<1>6. ThreadsOK'
  <2>1. waits' \in [Threads -> Waits]
    BY <1>2, <1>5
  <2> QED
    BY <1>1, <1>5, <2>1 DEF ThreadsOK
<1>7. UNCHANGED <<completions, stacks, stackTop>>
  BY <1>1 DEF callbacks
<1>8. WaitersHaveCallbacks'
  <2>1. \A t \in Threads : t # current => waits'[t] = waits[t]
    BY <1>2, <1>5
  <2> QED
    BY <1>1, <1>7, <2>1 DEF SaveInv, WaitersHaveCallbacks
<1> QED
  BY <1>1, <1>4, <1>6, <1>7, <1>8, DiskStays DEF SaveInv

\* The thread that runs waits for nothing, so it may lose its callback.
LEMMA DispatchSaved == SaveInv /\ (StartHandlerHere \/ DispatchHere) => SaveInv'
<1> SUFFICES ASSUME SaveInv, StartHandlerHere \/ DispatchHere
             PROVE  SaveInv'
  OBVIOUS
<1>1. /\ StartHandler \/ Dispatch
      /\ invocationStackTop(current) \/ UNCHANGED <<stacks, stackTop>>
      /\ completions' = completions \ {current} /\ UNCHANGED disk
  BY DEF StartHandlerHere, DispatchHere
<1>2. ListsOK' /\ BlankOK'
  BY <1>1, OtherExecutorLists, GuestTimeLists DEF SaveInv
<1>3. ThreadsOK'
  BY <1>1, PassThreads, GuestThreads DEF SaveInv
<1>4. StacksOK(stacks, stackTop)'
  <2>1. StacksOK(stacks, stackTop)
    BY DEF SaveInv
  <2> QED
    BY <1>1, <2>1, StackGiven
<1>5. WaitersHaveCallbacks'
  <2>1. UNCHANGED waits
    BY <1>1 DEF StartHandler, Dispatch, checkpointDue
  <2>2. current \in Threads => waits[current].reason # "External"
    BY DEF SaveInv, ThreadsOK, NoWait
  <2> QED
    BY <1>1, <2>1, <2>2 DEF SaveInv, WaitersHaveCallbacks
<1> QED
  BY <1>1, <1>2, <1>3, <1>4, <1>5, DiskStays DEF SaveInv

\* The calls of guest code that a callback goes with.
LEMMA GuestSaved ==
    ASSUME SaveInv, \/ ReturnHere \/ WaitVSyncHere \/ WaitExternalHere
                    \/ \E token \in Tokens : CompleteExternalWait(token)
    PROVE  SaveInv'
<1>1. CASE ReturnHere \/ WaitVSyncHere \/ WaitExternalHere
  <2>1. /\ GuestReturns \/ WaitVSync \/ WaitExternal
        /\ UNCHANGED <<stacks, stackTop, disk>>
    BY <1>1 DEF ReturnHere, WaitVSyncHere, WaitExternalHere
  <2>2. ListsOK' /\ BlankOK'
    BY <2>1, OtherGuestLists DEF SaveInv
  <2>3. ThreadsOK'
    BY <2>1, GuestThreads DEF SaveInv
  <2>4. StacksOK(stacks, stackTop)'
    BY <2>1 DEF SaveInv
  <2>5. WaitersHaveCallbacks'
    <3>1. waits \in [Threads -> Waits] /\ WaitersHaveCallbacks
      BY DEF SaveInv, ThreadsOK
    <3>2. CASE ReturnHere
      BY <3>1, <3>2 DEF ReturnHere, GuestReturns, WaitersHaveCallbacks
    <3>3. CASE WaitVSyncHere
      <4>1. PICK left \in 0 .. MaxWait : waits' = [waits EXCEPT ![current] = VSyncWait(left)]
        BY <3>3 DEF WaitVSyncHere, WaitVSync, Block
      <4>2. completions \subseteq completions'
        BY <3>3 DEF WaitVSyncHere
      <4>3. \A t \in Threads : waits'[t] = waits[t] \/ waits'[t].reason = "VSync"
        BY <3>1, <4>1 DEF VSyncWait
      <4> QED
        BY <3>1, <4>2, <4>3 DEF WaitersHaveCallbacks
    <3>4. CASE WaitExternalHere
      <4>1. PICK token \in Tokens : waits' = [waits EXCEPT ![current] = ExternalWait(token)]
        BY <3>4 DEF WaitExternalHere, WaitExternal, Block
      <4>2. completions' = completions \cup {current}
        BY <3>4 DEF WaitExternalHere
      <4>3. \A t \in Threads : waits'[t] = waits[t] \/ t = current
        BY <3>1, <4>1
      <4> QED
        BY <3>1, <4>2, <4>3 DEF WaitersHaveCallbacks
    <3> QED
      BY <1>1, <3>2, <3>3, <3>4
  <2> QED
    BY <2>1, <2>2, <2>3, <2>4, <2>5, DiskStays DEF SaveInv
<1>2. ASSUME NEW token \in Tokens, CompleteExternalWait(token)
      PROVE  SaveInv'
  <2>1. /\ UNCHANGED <<pc, current, deadlines, due, nextDeadline, until, timer, alarms>>
        /\ UNCHANGED <<disk, callbacks>>
        /\ waits' = [t \in Threads |->
                       IF waits[t] = ExternalWait(token) THEN NoWait ELSE waits[t]]
    BY <1>2 DEF CompleteExternalWait, clock
  <2>2. timer' \in Nat /\ until' \in SUBSET [cycle : Int, host : Int]
    BY <2>1 DEF SaveInv, ListsOK
  <2>3. ListsOK' /\ BlankOK'
    BY <2>1, <2>2, QuietLists DEF SaveInv
  <2>4. ThreadsOK'
    BY <2>1, WokenThreads DEF SaveInv
  <2>5. \A t \in Threads : waits'[t].reason = "External" => waits[t].reason = "External"
    <3>1. NoWait.reason # "External"
      BY DEF NoWait
    <3> QED
      BY <2>1, <3>1
  <2> QED
    BY <2>1, <2>3, <2>4, <2>5, KernelStep
<1> QED
  BY <1>1, <1>2

\* The other steps of the loop change no wait.
LEMMA ElsewhereSaved == SaveInv /\ Elsewhere => SaveInv'
<1> SUFFICES ASSUME SaveInv, Elsewhere
             PROVE  SaveInv'
  OBVIOUS
<1>1. UNCHANGED <<disk, callbacks>>
  BY DEF Elsewhere
<1> DEFINE Passing == \/ LoopHead \/ StartPass \/ NothingDue \/ TakeDue \/ StartPacing
                      \/ PaceSleep \/ PaceWake \/ VBlankEnd \/ Alarm \/ TakeEvents
                      \/ EventsHandled \/ EndPass \/ WaitSleep \/ WaitWake
           Calling == \/ GuestCheckpoint
                      \/ \E ticks \in AlarmTicks : SetAlarm(ticks)
                      \/ \E id \in AlarmIds : CancelAlarm(id)
                      \/ \E ticks \in TimerTicks : SetTimer(ticks)
<1>2. Passing \/ Calling \/ Tick \/ Finished
  BY DEF Elsewhere
<1>3. CASE Passing
  <2>1. ListsOK' /\ BlankOK'
    BY <1>3, StartPassLists, DueLists, StartPacingLists, PaceWakeLists, VBlankEndLists,
       AlarmLists, WaitWakeLists, OtherExecutorLists DEF SaveInv
  <2>2. ThreadsOK'
    BY <1>3, PassThreads DEF SaveInv
  <2>3. UNCHANGED waits
    BY <1>3 DEF LoopHead, StartPass, NothingDue, TakeDue, StartPacing, PaceSleep, PaceWake,
       VBlankEnd, Alarm, TakeEvents, EventsHandled, EndPass, WaitSleep, WaitWake, kernel
  <2> QED
    BY <1>1, <2>1, <2>2, <2>3, KernelStep
<1>4. CASE Calling
  <2>1. ListsOK' /\ BlankOK'
    BY <1>4, GuestTimeLists, SetAlarmLists, CancelAlarmLists, OtherGuestLists DEF SaveInv
  <2>2. ThreadsOK'
    BY <1>4, GuestThreads DEF SaveInv
  <2>3. UNCHANGED waits
    BY <1>4 DEF GuestCheckpoint, checkpointDue, SetAlarm, CancelAlarm, SetTimer, kernel
  <2> QED
    BY <1>1, <2>1, <2>2, <2>3, KernelStep
<1>5. CASE Tick \/ Finished
  <2>1. ListsOK' /\ BlankOK'
    BY <1>5, TickLists, NextLists DEF SaveInv, Finished
  <2>2. UNCHANGED <<pc, waits, current>>
    BY <1>5 DEF Tick, Finished, vars, kernel
  <2>3. ThreadsOK'
    BY <2>2 DEF SaveInv, ThreadsOK
  <2> QED
    BY <1>1, <2>1, <2>2, <2>3, KernelStep
<1> QED
  BY <1>2, <1>3, <1>4, <1>5

--------------------------------------------------------------------------------
(* Theorems *)

\* The machine, the files and the stacks always agree.
THEOREM SavesAgree == SaveSpec => []SaveInv
<1>1. SaveInit => SaveInv
  <2> SUFFICES ASSUME SaveInit
               PROVE  SaveInv
    OBVIOUS
  <2>1. Init /\ slot = NoSlot /\ stacks = <<>> /\ stackTop = PoolSize
    BY DEF SaveInit
  <2>2. ListsOK /\ BlankOK
    BY <2>1, InitLists
  <2>3. ThreadsOK /\ WaitersHaveCallbacks
    <3>1. pc = "Reset" /\ current = None /\ waits = [t \in Threads |-> NoWait]
      BY <2>1 DEF Init
    <3>2. waits \in [Threads -> Waits] /\ None \notin Threads
      BY <3>1, ConstantsAssumption DEF Waits
    <3> QED
      BY <3>1, <3>2 DEF ThreadsOK, WaitersHaveCallbacks, NoWait
  <2>4. StacksOK(stacks, stackTop)
    BY <2>1, EmptyPool
  <2>5. files = [s \in Slots |-> NoFile]
    BY DEF SaveInit
  <2>6. DOMAIN files = Slots /\ FilesOK
    BY <2>5 DEF FilesOK, Loads
  <2> QED
    BY <2>1, <2>2, <2>3, <2>4, <2>6 DEF SaveInv
<1>2. SaveInv /\ [SaveNext]_saveVars => SaveInv'
  <2> SUFFICES ASSUME SaveInv, [SaveNext]_saveVars
               PROVE  SaveInv'
    OBVIOUS
  <2>1. CASE \E wanted \in Slots : RequestSave(wanted)
    <3>1. UNCHANGED <<vars, files, slot, callbacks>>
      BY <2>1 DEF RequestSave
    <3> QED
      BY <3>1 DEF SaveInv, ListsOK, BlankOK, Single, ThreadsOK, WaitersHaveCallbacks, FilesOK,
         vars, clock, kernel, callbacks
  <2>2. CASE UNCHANGED saveVars
    BY <2>2 DEF SaveInv, ListsOK, BlankOK, Single, ThreadsOK, WaitersHaveCallbacks, FilesOK,
       saveVars, vars, clock, kernel, disk, callbacks
  <2> QED
    BY <2>1, <2>2, RestartSaved, BootSaved, ResumeSaved, RefuseSaved, SavingSaved, SelectSaved,
       CompletionSaved, DispatchSaved, GuestSaved, ElsewhereSaved DEF SaveNext
<1> QED
  BY <1>1, <1>2, PTL DEF SaveSpec

\* No two threads run their handlers on one stack, and none is lost: a load holds back
\* the stacks that the restored threads own, which are all above the lowest of them.
THEOREM StacksDisjointHolds == SaveSpec => []StacksDisjoint
<1>1. StacksOK(stacks, stackTop) => StacksDisjoint
  <2> SUFFICES ASSUME StacksOK(stacks, stackTop)
               PROVE  StacksDisjoint
    OBVIOUS
  <2>1. /\ stackTop \in Int /\ PoolSize \in Nat
        /\ Cardinality(DOMAIN stacks) = PoolSize - stackTop
        /\ \A o \in DOMAIN stacks : stacks[o] \in stackTop + 1 .. PoolSize
        /\ \A o, p \in DOMAIN stacks : stacks[o] = stacks[p] => o = p
    BY SaveConstantsAssumption DEF StacksOK
  <2>2. \A o \in DOMAIN stacks : stacks[o] > stackTop
    BY <2>1
  <2> QED
    BY <2>1, <2>2 DEF StacksDisjoint
<1> QED
  BY <1>1, SavesAgree, PTL DEF SaveInv

\* A thread that waits for the host has its callback in this process: a state is only
\* written when no callback is outstanding, so none that loads has such a thread.
THEOREM WaitersHaveCallbacksHolds == SaveSpec => []WaitersHaveCallbacks
BY SavesAgree, PTL DEF SaveInv

\* There is always one VBlankStart to come, in a machine resumed from a file too: the
\* file is written when the next one is on the list, though in the middle of this one.
THEOREM OneVBlankSaved == SaveSpec => []OneVBlankScheduled
<1>1. SaveInv => OneVBlankScheduled
  BY OneBlank DEF SaveInv
<1> QED
  BY <1>1, SavesAgree, PTL

================================================================================

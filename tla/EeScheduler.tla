------------------------------ MODULE EeScheduler ------------------------------
(***************************************************************************)
(* The emulated EE kernel of ps2xRuntime: guest threads, ready queues,     *)
(* semaphores, event flags, nested invocations and the dispatch loop of    *)
(* EeScheduler.cpp, together with the kernel calls of Syscalls/Thread.cpp  *)
(* and Syscalls/Sync.cpp through which guest code reaches it.              *)
(*                                                                         *)
(* One host thread, the executor, runs everything here.  It is either in   *)
(* the dispatch loop (phases Loop, Select, Dispatch, Post, Idle) or inside *)
(* a recompiled guest function (phase Guest), which calls the kernel.  A   *)
(* kernel call either returns to the guest function or throws              *)
(* EeDispatcherTransfer, which unwinds to the loop (phase Post).           *)
(*                                                                         *)
(* The members the helpers of the scheduler read and write form the record *)
(* ee; a helper is an operator from one such record to the next, so that a *)
(* call is the composition of the helpers its handler calls, in order.     *)
(***************************************************************************)
EXTENDS Integers, Sequences, FiniteSets, SequencesExt, QueueOps

CONSTANTS
    UserThreads,    \* ids createThread hands out (2..255 in the code)
    IdleThreads,    \* ids of dispatcher records (-1, -2, ... in the code)
    PriorityCount,  \* kPriorityCount (128 in the code); 0 is the most urgent
    Semas, Flags,   \* ids of semaphores and of event flags
    Tokens,         \* (type, token) pairs of external waits
    Bits,           \* bits of an event flag
    NoObject,       \* the wait object of a wait that has none
    Calls,          \* kernel calls that thread code of the program makes
    HandlerCalls,   \* kernel calls that its handlers make
    Sources,        \* kinds of asynchronous activity the program sees
    DetachedCalls,  \* does guest code call the kernel after detaching itself?
    MaxSuspend, MaxWakeup, MaxSema, MaxTicks,   \* bounds on counters
    MaxPending, MaxDepth                        \* bounds on invocation queues

Main     == 1                       \* kMainThreadId
NoThread == 0                       \* m_currentThreadId when nobody runs
Threads  == {Main} \cup UserThreads \cup IdleThreads
Priorities == 0 .. PriorityCount - 1

ASSUME ConstantsAssumption ==
    /\ IsFiniteSet(UserThreads) /\ IsFiniteSet(IdleThreads)
    /\ UserThreads \subseteq Int \ {NoThread, Main}
    /\ IdleThreads \subseteq Int \ ({NoThread, Main} \cup UserThreads)
    /\ PriorityCount \in Nat \ {0}
    /\ DetachedCalls \in BOOLEAN
    /\ {MaxSuspend, MaxWakeup, MaxSema, MaxTicks, MaxPending, MaxDepth} \subseteq Nat
    /\ NoObject \notin Semas \cup Flags \cup Tokens

VARIABLES
    ee,     \* the scheduler's members
    phase,  \* where the executor is
    running \* the thread whose guest function is on the executor's stack

vars == <<ee, phase, running>>

--------------------------------------------------------------------------------
(* Data *)

Statuses == {"Absent", "Running", "Ready", "Waiting", "WaitingSuspended",
             "Suspended", "Dormant"}
BlockedStatuses == {"Waiting", "WaitingSuspended"}
WaitReasons == {"None", "Sleep", "Semaphore", "EventFlag", "VSync", "External"}
WaitModes   == {"OR", "CLEAR", "CLEAR_ALL"}

\* GuestInvocationKind; "Exit" and "ExitDelete" are the exit handler whose
\* onComplete ends the thread, the last of the ones that run on exit.
AsyncKinds == {"Interrupt", "Alarm", "GsCallback", "RpcCallback"}
CallKinds  == {"HleCall", "SyscallOverride", "Exit", "ExitDelete"}
Kinds      == AsyncKinds \cup CallKinds

\* The pc of a frame: in code, 0 (it has returned), or an address with no
\* recompiled function.
PCs == {"Code", "End", "Missing"}

Wait == [reason : WaitReasons, obj : Semas \cup Flags \cup Tokens \cup {NoObject},
         bits : SUBSET Bits, mode : SUBSET WaitModes,
         ticks : 0 .. MaxTicks, completion : BOOLEAN]

NoWait == [reason |-> "None", obj |-> NoObject, bits |-> {}, mode |-> {},
           ticks |-> 0, completion |-> FALSE]

\* An invocation on a thread, and the pc of the frame it was pushed on.
Invocation == [kind : Kinds, under : PCs]

Semaphore == [live : BOOLEAN, count : Nat, max : Nat, waiters : Seq(Threads)]
EventFlag == [live : BOOLEAN, multi : BOOLEAN, bits : SUBSET Bits,
              waiters : Seq(Threads)]

NoSema == [live |-> FALSE, count |-> 0, max |-> 0, waiters |-> <<>>]
NoFlag == [live |-> FALSE, multi |-> FALSE, bits |-> {}, waiters |-> <<>>]

Phases == {"Loop", "Select", "Dispatch", "Guest", "Post", "Idle"}

EeState ==
    [status  : [Threads -> Statuses],
     prio    : [Threads -> Priorities],
     susp    : [Threads -> Nat],          \* suspendCount
     wake    : [Threads -> Nat],          \* wakeupCount
     wait    : [Threads -> Wait],
     resume  : [Threads -> BOOLEAN],      \* is resumeCompletion set?
     inv     : [Threads -> Seq(Invocation)],
     pc      : [Threads -> PCs],          \* of the active context
     ready   : [Priorities -> Seq(Threads)],
     current : Threads \cup {NoThread},
     sema    : [Semas -> Semaphore],
     flag    : [Flags -> EventFlag],
     pending : Seq(AsyncKinds),           \* m_pendingInvocations
     resched : BOOLEAN,                   \* m_rescheduleRequested
     expired : BOOLEAN,                   \* m_timeSliceExpired
     check   : BOOLEAN,                   \* m_checkpointPending
     inIntr  : BOOLEAN]                   \* m_insideInterrupt

\* reset(): only the main thread exists, Ready at priority 0.
Init ==
    /\ phase = "Loop" /\ running = NoThread
    /\ ee = [status  |-> [t \in Threads |-> IF t = Main THEN "Ready" ELSE "Absent"],
             prio    |-> [t \in Threads |-> 0],
             susp    |-> [t \in Threads |-> 0],
             wake    |-> [t \in Threads |-> 0],
             wait    |-> [t \in Threads |-> NoWait],
             resume  |-> [t \in Threads |-> FALSE],
             inv     |-> [t \in Threads |-> <<>>],
             pc      |-> [t \in Threads |-> "Code"],
             ready   |-> [p \in Priorities |-> IF p = 0 THEN <<Main>> ELSE <<>>],
             current |-> NoThread,
             sema    |-> [s \in Semas |-> NoSema],
             flag    |-> [f \in Flags |-> NoFlag],
             pending |-> <<>>,
             resched |-> FALSE, expired |-> FALSE, check |-> FALSE, inIntr |-> FALSE]

--------------------------------------------------------------------------------
(* The helpers of the scheduler *)

\* currentThread() is null exactly when m_currentThreadId is 0.
Higher(e, t) == e.current # NoThread /\ e.prio[t] < e.prio[e.current]

requestPreemptionIfHigher(e, t, safe) ==
    IF Higher(e, t)
    THEN [e EXCEPT !.resched = TRUE, !.check = @ \/ safe \/ e.inIntr]
    ELSE e

enqueueReady(e, t) ==
    [e EXCEPT !.status[t] = "Ready", !.ready[e.prio[t]] = Append(@, t)]

enqueueReadyFront(e, t) ==
    [e EXCEPT !.status[t] = "Ready", !.ready[e.prio[t]] = Cons(t, @)]

removeReady(e, t) ==
    IF e.status[t] = "Ready"
    THEN [e EXCEPT !.ready[e.prio[t]] = RemoveFirst(@, t)]
    ELSE e

\* The thread leaves the waiters of the object it waits on; the wait, its
\* completion included, is forgotten.
removeFromWaitObject(e, t) ==
    LET w == e.wait[t] IN
    [e EXCEPT
        !.sema = IF w.reason = "Semaphore"
                 THEN [e.sema EXCEPT ![w.obj].waiters = RemoveFirst(@, t)] ELSE @,
        !.flag = IF w.reason = "EventFlag"
                 THEN [e.flag EXCEPT ![w.obj].waiters = RemoveFirst(@, t)] ELSE @,
        !.wait[t] = NoWait]

\* Mutant: the completion of the ended thread survives it.
makeDormantKeepsCompletion(e, t) ==
    [removeFromWaitObject(removeReady(e, t), t) EXCEPT
        !.status[t] = "Dormant", !.susp[t] = 0, !.wake[t] = 0, !.inv[t] = <<>>]

makeDormant(e, t) ==
    [removeFromWaitObject(removeReady(e, t), t) EXCEPT
        !.status[t] = "Dormant", !.resume[t] = FALSE,
        !.susp[t] = 0, !.wake[t] = 0, !.inv[t] = <<>>]

\* makeReady() applied to the threads of ws in order: the wait ends, its
\* completion is left to run at the next dispatch, and a thread that is also
\* suspended stays off the ready queues.
makeReady(e, ws, safe) ==
    LET ended == ToSet(ws)
        up    == {t \in ended : e.susp[t] = 0}
    IN  [e EXCEPT
            !.status = [t \in Threads |-> IF t \in up THEN "Ready"
                                          ELSE IF t \in ended THEN "Suspended"
                                          ELSE @[t]],
            !.wait   = [t \in Threads |-> IF t \in ended THEN NoWait ELSE @[t]],
            !.resume = [t \in Threads |-> IF t \in ended THEN e.wait[t].completion
                                          ELSE @[t]],
            !.ready  = [p \in Priorities |->
                            @[p] \o Filter(ws, {t \in up : e.prio[t] = p})],
            !.resched = @ \/ \E t \in up : Higher(e, t),
            !.check   = @ \/ ((safe \/ e.inIntr) /\ \E t \in up : Higher(e, t))]

\* selectReady(): the head of the first non-empty queue.
HasReady(e) == \E p \in Priorities : e.ready[p] # <<>>
FirstQueue(e, p) == e.ready[p] # <<>> /\ \A q \in 0 .. p - 1 : e.ready[q] = <<>>

\* Mutant: a thread as urgent does not count.
hasReadyAbovePriority(e, p) == \E q \in 0 .. p - 1 : e.ready[q] # <<>>

hasReadyAtOrAbovePriority(e, p) == \E q \in 0 .. p : e.ready[q] # <<>>

\* makeRunning(), with the renewTimeSlice() it ends with.
makeRunning(e, t) ==
    [e EXCEPT !.status[t] = "Running", !.current = t, !.expired = FALSE]

blockCurrent(e, w) ==
    [e EXCEPT
        !.wait[e.current] = w,
        !.status[e.current] = IF e.susp[e.current] = 0 THEN "Waiting" ELSE "WaitingSuspended",
        !.current = NoThread]

\* Mutant: a preempted thread always goes to the tail.
preemptToTail(e, atTail) ==
    [(IF e.current = NoThread THEN e ELSE enqueueReady(e, e.current)) EXCEPT
        !.current = NoThread, !.resched = FALSE, !.expired = FALSE]

\* Hand the processor back: to the tail of its queue when its slice ran out,
\* to the head otherwise.
preempt(e, atTail) ==
    [(IF e.current = NoThread THEN e
      ELSE IF atTail THEN enqueueReady(e, e.current)
      ELSE enqueueReadyFront(e, e.current)) EXCEPT
        !.current = NoThread, !.resched = FALSE, !.expired = FALSE]

applyPendingPreemption(e) == IF e.resched THEN preempt(e, e.expired) ELSE e

\* bindMainContextForSyscall(), which every kernel call starts with.  A release
\* build compiles out its assertion that main is Ready.
bindMainContextForSyscall(e) ==
    IF e.current = NoThread THEN makeRunning(removeReady(e, Main), Main) ELSE e

\* Mutant: queueing does not ask for a checkpoint.
queueInvocationQuietly(e, ks) == [e EXCEPT !.pending = @ \o ks]

queueInvocation(e, ks) == [e EXCEPT !.pending = @ \o ks, !.check = @ \/ ks # <<>>]

pushInvocation(e, t, k) ==
    [e EXCEPT !.inv[t] = Append(@, [kind |-> k, under |-> e.pc[t]]), !.pc[t] = "Code"]

popInvocation(e, t) ==
    [e EXCEPT !.inv[t] = Front(@), !.pc[t] = Last(e.inv[t]).under]

Exists(e, t) == e.status[t] # "Absent"

--------------------------------------------------------------------------------
(* How a kernel call ends *)

\* The guest function goes on.
Return(e) == ee' = e /\ UNCHANGED <<phase, running>>

\* EeDispatcherTransfer: the guest function is unwound.
Unwind(e) ==
    /\ ee' = [e EXCEPT !.inIntr = FALSE]
    /\ phase' = "Post" /\ running' = NoThread

transferIfRequested(e, safe) ==
    IF safe \/ e.inIntr \/ ~e.resched THEN Return(e) ELSE Unwind(preempt(e, FALSE))

\* Handlers are the invocations the loop starts by itself.
InHandler(e, t) ==
    e.inv[t] # <<>> /\ Last(e.inv[t]).kind \in AsyncKinds

\* Code whose thread gave the processor up inside a call that returned to it
\* is detached: it runs on, but no longer as m_currentThreadId.
Detached == ee.current # running

CanCall(c) ==
    /\ phase = "Guest"
    /\ c \in IF InHandler(ee, running) THEN HandlerCalls ELSE Calls
    /\ Detached => DetachedCalls

\* A thread id a guest program passes: one it got from createThread, its own,
\* or main's.
Targets == {Main} \cup UserThreads

--------------------------------------------------------------------------------
(* Thread calls: the scheduler's operation, then the kernel call around it. *)
(* An operation that is refused with an error code leaves the record alone. *)

createThread(e, t, p) ==
    [e EXCEPT !.status[t] = "Dormant", !.prio[t] = p, !.susp[t] = 0, !.wake[t] = 0,
              !.wait[t] = NoWait, !.resume[t] = FALSE, !.inv[t] = <<>>, !.pc[t] = "Code"]

CreateThread(t, p) ==
    /\ CanCall("CreateThread")
    /\ t \in UserThreads /\ p >= 1
    /\ LET e == bindMainContextForSyscall(ee)
       IN  ~Exists(e, t) /\ Return(createThread(e, t, p))

deleteThread(e, t) ==
    IF t > Main /\ e.status[t] = "Dormant" THEN [e EXCEPT !.status[t] = "Absent"] ELSE e

DeleteThread(t) ==
    /\ CanCall("DeleteThread")
    /\ Return(deleteThread(bindMainContextForSyscall(ee), t))

startThread(e, t, safe) ==
    IF e.status[t] = "Dormant"
    THEN requestPreemptionIfHigher(
             enqueueReady([e EXCEPT !.pc[t] = "Code", !.susp[t] = 0, !.wake[t] = 0,
                                    !.wait[t] = NoWait], t), t, safe)
    ELSE e

StartThread(t) ==
    /\ CanCall("StartThread")
    /\ transferIfRequested(startThread(bindMainContextForSyscall(ee), t, FALSE), FALSE)

\* Mutant: the thread that ended stays the current one.
exitCurrentKeepsCurrent(e, delete) ==
    LET t == e.current
        d == makeDormant(e, t)
    IN  IF delete /\ t # Main THEN [d EXCEPT !.status[t] = "Absent"] ELSE d

exitCurrent(e, delete) ==
    LET t == e.current
        d == [makeDormant(e, t) EXCEPT !.current = NoThread]
    IN  IF delete /\ t # Main THEN [d EXCEPT !.status[t] = "Absent"] ELSE d

\* ExitThread and ExitDeleteThread: at once, or behind the exit handlers the
\* thread registered, the last of which ends it.
ExitThread(delete, handlers) ==
    /\ CanCall(IF delete THEN "ExitDeleteThread" ELSE "ExitThread")
    /\ LET e == bindMainContextForSyscall(ee) IN
       IF handlers
       THEN /\ Len(e.inv[e.current]) < MaxDepth
            /\ Unwind(pushInvocation(e, e.current, IF delete THEN "ExitDelete" ELSE "Exit"))
       ELSE Unwind(exitCurrent(e, delete))

terminateThread(e, t) ==
    IF t = e.current \/ e.status[t] \in {"Absent", "Dormant"} THEN e ELSE makeDormant(e, t)

\* TerminateThread() does not call transferIfRequested().
TerminateThread(t) ==
    /\ CanCall("TerminateThread")
    /\ Return(terminateThread(bindMainContextForSyscall(ee), t))

suspendThread(e, t) ==
    LET s == [e EXCEPT !.susp[t] = @ + 1] IN
    CASE e.status[t] = "Running" -> [s EXCEPT !.status[t] = "Suspended",
                                              !.current = NoThread, !.resched = TRUE]
      [] e.status[t] = "Ready"   -> [removeReady(s, t) EXCEPT !.status[t] = "Suspended"]
      [] e.status[t] = "Waiting" -> [s EXCEPT !.status[t] = "WaitingSuspended"]
      [] e.status[t] \in {"Suspended", "WaitingSuspended"} -> s
      [] OTHER -> e

SuspendThread(t) ==
    /\ CanCall("SuspendThread")
    /\ LET e == suspendThread(bindMainContextForSyscall(ee), t) IN
       /\ e.susp[t] <= MaxSuspend
       /\ transferIfRequested(e, FALSE)

\* Mutant: the suspend count is not looked at first.
resumeThreadUnchecked(e, t, safe) ==
    IF ~Exists(e, t) THEN e
    ELSE IF e.status[t] = "Suspended" /\ e.susp[t] = 1
         THEN requestPreemptionIfHigher(
                  enqueueReady([e EXCEPT !.susp[t] = @ - 1], t), t, safe)
    ELSE [e EXCEPT !.susp[t] = @ - 1]

\* Mutant: a resumed thread does not preempt.
resumeThreadQuietly(e, t, safe) ==
    LET s == [e EXCEPT !.susp[t] = @ - 1] IN
    IF ~Exists(e, t) \/ e.susp[t] = 0 THEN e
    ELSE IF s.susp[t] # 0 THEN s
    ELSE IF e.status[t] = "WaitingSuspended" THEN [s EXCEPT !.status[t] = "Waiting"]
    ELSE IF e.status[t] = "Suspended" THEN enqueueReady(s, t)
    ELSE s

resumeThread(e, t, safe) ==
    LET s == [e EXCEPT !.susp[t] = @ - 1] IN
    IF ~Exists(e, t) \/ e.susp[t] = 0 THEN e
    ELSE IF s.susp[t] # 0 THEN s
    ELSE IF e.status[t] = "WaitingSuspended" THEN [s EXCEPT !.status[t] = "Waiting"]
    ELSE IF e.status[t] = "Suspended"
         THEN requestPreemptionIfHigher(enqueueReady(s, t), t, safe)
    ELSE s

ResumeThread(t) ==
    /\ CanCall("ResumeThread")
    /\ transferIfRequested(resumeThread(bindMainContextForSyscall(ee), t, FALSE), FALSE)

SleepThread ==
    /\ CanCall("SleepThread")
    /\ LET e == bindMainContextForSyscall(ee) IN
       IF e.wake[e.current] # 0
       THEN Return([e EXCEPT !.wake[e.current] = @ - 1])
       ELSE Unwind(blockCurrent(e, [NoWait EXCEPT !.reason = "Sleep"]))

\* Mutant: a sleeper that is also suspended is not taken for a sleeper.
wakeupThreadMissesSuspended(e, t, safe) ==
    IF t = e.current \/ e.status[t] \in {"Absent", "Dormant"} THEN e
    ELSE IF e.status[t] = "Waiting" /\ e.wait[t].reason = "Sleep"
         THEN makeReady(e, <<t>>, safe)
    ELSE [e EXCEPT !.wake[t] = @ + 1]

wakeupThread(e, t, safe) ==
    IF t = e.current \/ e.status[t] \in {"Absent", "Dormant"} THEN e
    ELSE IF e.status[t] \in BlockedStatuses /\ e.wait[t].reason = "Sleep"
         THEN makeReady(e, <<t>>, safe)
    ELSE [e EXCEPT !.wake[t] = @ + 1]

WakeupThread(t, safe) ==
    /\ CanCall(IF safe THEN "iWakeupThread" ELSE "WakeupThread")
    /\ LET e == wakeupThread(bindMainContextForSyscall(ee), t, safe) IN
       /\ e.wake[t] <= MaxWakeup
       /\ transferIfRequested(e, safe)

CancelWakeupThread(t) ==
    /\ CanCall("CancelWakeupThread")
    /\ LET e == bindMainContextForSyscall(ee)
       IN  Return(IF Exists(e, t) THEN [e EXCEPT !.wake[t] = 0] ELSE e)

\* Mutant: a ready thread keeps its place in the queue of its old priority.
changePriorityInPlace(e, t, p, safe) ==
    IF ~Exists(e, t) THEN e
    ELSE [e EXCEPT !.prio[t] = p,
                   !.resched = @ \/ (t = e.current /\ \E q \in 0 .. p - 1 : e.ready[q] # <<>>)]

changePriority(e, t, p, safe) ==
    LET c == [e EXCEPT !.prio[t] = p] IN
    CASE ~Exists(e, t) -> e
      [] e.status[t] = "Ready" ->
            requestPreemptionIfHigher(
                enqueueReady([removeReady(e, t) EXCEPT !.prio[t] = p], t), t, safe)
      [] e.status[t] = "Running" ->
            [c EXCEPT !.resched = @ \/ (\E q \in 0 .. p - 1 : e.ready[q] # <<>>)]
      [] OTHER -> c

\* id 0 is the caller.
ChangeThreadPriority(t, p, safe) ==
    /\ CanCall(IF safe THEN "iChangeThreadPriority" ELSE "ChangeThreadPriority")
    /\ p >= 1
    /\ LET e == bindMainContextForSyscall(ee)
       IN  transferIfRequested(
               changePriority(e, IF t = NoThread THEN e.current ELSE t, p, safe), safe)

rotateReadyQueue(e, p) ==
    IF e.current # NoThread /\ e.prio[e.current] = p
    THEN [enqueueReady(e, e.current) EXCEPT !.current = NoThread, !.resched = TRUE]
    ELSE IF Len(e.ready[p]) > 1
         THEN [e EXCEPT !.ready[p] = Append(Tail(@), Head(@))]
    ELSE e

\* Priority 0 stands for the caller's, which is then the running thread's.
RotateThreadReadyQueue(p, safe) ==
    /\ CanCall(IF safe THEN "iRotateThreadReadyQueue" ELSE "RotateThreadReadyQueue")
    /\ LET e == bindMainContextForSyscall(ee)
       IN  transferIfRequested(
               rotateReadyQueue(e, IF p = 0 THEN e.prio[e.current] ELSE p), safe)

releaseWait(e, t, safe) ==
    IF e.status[t] \in BlockedStatuses
    THEN makeReady(removeFromWaitObject(e, t), <<t>>, safe)
    ELSE e

ReleaseWaitThread(t, safe) ==
    /\ CanCall(IF safe THEN "iReleaseWaitThread" ELSE "ReleaseWaitThread")
    /\ transferIfRequested(releaseWait(bindMainContextForSyscall(ee), t, safe), safe)

--------------------------------------------------------------------------------
(* Semaphores *)

CreateSema(s, init, max) ==
    /\ CanCall("CreateSema")
    /\ init <= max /\ max >= 1
    /\ ~ee.sema[s].live
    /\ Return([bindMainContextForSyscall(ee) EXCEPT
                  !.sema[s] = [live |-> TRUE, count |-> init, max |-> max, waiters |-> <<>>]])

deleteSemaphore(e, s, safe) ==
    IF e.sema[s].live
    THEN makeReady([e EXCEPT !.sema[s] = NoSema], e.sema[s].waiters, safe)
    ELSE e

DeleteSema(s, safe) ==
    /\ CanCall(IF safe THEN "iDeleteSema" ELSE "DeleteSema")
    /\ transferIfRequested(deleteSemaphore(bindMainContextForSyscall(ee), s, safe), safe)

\* Mutant: the unit is handed to a waiter and counted as well.
signalSemaphoreTwice(e, s, safe) ==
    LET o == e.sema[s] IN
    IF ~o.live \/ o.count = o.max THEN e
    ELSE IF o.waiters = <<>> THEN [e EXCEPT !.sema[s].count = @ + 1]
    ELSE makeReady([e EXCEPT !.sema[s].waiters = Tail(@), !.sema[s].count = @ + 1],
                   <<Head(o.waiters)>>, safe)

\* A waiter takes the unit directly; the count only moves when nobody waits.
signalSemaphore(e, s, safe) ==
    LET o == e.sema[s] IN
    CASE ~o.live -> e
      [] o.live /\ o.waiters # <<>> ->
            makeReady([e EXCEPT !.sema[s].waiters = Tail(@)], <<Head(o.waiters)>>, safe)
      [] o.live /\ o.waiters = <<>> /\ o.count < o.max -> [e EXCEPT !.sema[s].count = @ + 1]
      [] OTHER -> e

SignalSema(s, safe) ==
    /\ CanCall(IF safe THEN "iSignalSema" ELSE "SignalSema")
    /\ transferIfRequested(signalSemaphore(bindMainContextForSyscall(ee), s, safe), safe)

pollSemaphore(e, s) ==
    IF e.sema[s].live /\ e.sema[s].count # 0 THEN [e EXCEPT !.sema[s].count = @ - 1] ELSE e

PollSema(s) ==
    /\ CanCall("PollSema")
    /\ Return(pollSemaphore(bindMainContextForSyscall(ee), s))

WaitSema(s) ==
    /\ CanCall("WaitSema")
    /\ LET e == bindMainContextForSyscall(ee) IN
       IF e.sema[s].live /\ e.sema[s].count = 0
       THEN Unwind(blockCurrent([e EXCEPT !.sema[s].waiters = Append(@, e.current)],
                                [NoWait EXCEPT !.reason = "Semaphore", !.obj = s]))
       ELSE Return(pollSemaphore(e, s))

--------------------------------------------------------------------------------
(* Event flags *)

\* eventCondition() and the clearing that the wait mode asks for.
eventCondition(bits, requested, mode) ==
    IF "OR" \in mode THEN bits \cap requested # {} ELSE requested \subseteq bits

Consume(bits, requested, mode) ==
    IF "CLEAR_ALL" \in mode THEN {} ELSE IF "CLEAR" \in mode THEN bits \ requested ELSE bits

CreateEventFlag(f, bits, multi) ==
    /\ CanCall("CreateEventFlag")
    /\ ~ee.flag[f].live
    /\ Return([bindMainContextForSyscall(ee) EXCEPT
                  !.flag[f] = [live |-> TRUE, multi |-> multi, bits |-> bits, waiters |-> <<>>]])

\* Mutant: the waiters of a deleted flag are forgotten.
deleteEventFlagQuietly(e, f, safe) == [e EXCEPT !.flag[f] = NoFlag]

deleteEventFlag(e, f, safe) ==
    IF e.flag[f].live
    THEN makeReady([e EXCEPT !.flag[f] = NoFlag], e.flag[f].waiters, safe)
    ELSE e

DeleteEventFlag(f, safe) ==
    /\ CanCall(IF safe THEN "iDeleteEventFlag" ELSE "DeleteEventFlag")
    /\ transferIfRequested(deleteEventFlag(bindMainContextForSyscall(ee), f, safe), safe)

Satisfied(e, t, bits) == eventCondition(bits, e.wait[t].bits, e.wait[t].mode)

\* Mutant: only the head of the queue is looked at.
finishEventHead(e, f, safe) ==
    LET o == e.flag[f]
        h == Head(o.waiters)
    IN  IF o.waiters # <<>> /\ Satisfied(e, h, o.bits)
        THEN makeReady([e EXCEPT !.flag[f].bits = Consume(@, e.wait[h].bits, e.wait[h].mode),
                                 !.flag[f].waiters = Tail(@)], <<h>>, safe)
        ELSE e

\* The waiters are offered the bits in queue order; one whose condition holds
\* is released and takes its bits before the next one looks.  The i-th waiter
\* finds the bits OfferedBits(e, f)[i], and the last element, which holds no bit
\* that the flag did not have, is what is left.
OfferedBits(e, f) ==
    LET ws == e.flag[f].waiters
        offered[i \in 1 .. Len(ws) + 1] ==
            IF i = 1 THEN e.flag[f].bits
            ELSE LET t == ws[i - 1] IN
                 IF Satisfied(e, t, offered[i - 1])
                 THEN Consume(offered[i - 1], e.wait[t].bits, e.wait[t].mode)
                 ELSE offered[i - 1]
    IN  offered

finishEventWaiters(e, f, safe) ==
    LET ws   == e.flag[f].waiters
        bits == OfferedBits(e, f)
        done == {ws[i] : i \in {j \in DOMAIN ws : Satisfied(e, ws[j], bits[j])}}
    IN  makeReady([e EXCEPT !.flag[f].bits = @ \cap bits[Len(ws) + 1],
                            !.flag[f].waiters = Filter(@, Threads \ done)],
                  Filter(ws, done), safe)

setEventFlag(e, f, bits, safe) ==
    IF e.flag[f].live
    THEN finishEventWaiters([e EXCEPT !.flag[f].bits = @ \cup bits], f, safe)
    ELSE e

SetEventFlag(f, bits, safe) ==
    /\ CanCall(IF safe THEN "iSetEventFlag" ELSE "SetEventFlag")
    /\ transferIfRequested(setEventFlag(bindMainContextForSyscall(ee), f, bits, safe), safe)

\* The bits of mask stay.
ClearEventFlag(f, mask) ==
    /\ CanCall("ClearEventFlag")
    /\ LET e == bindMainContextForSyscall(ee)
       IN  Return(IF e.flag[f].live THEN [e EXCEPT !.flag[f].bits = @ \cap mask] ELSE e)

\* A flag without EA_MULTI refuses to be waited for or polled while it has a
\* waiter; otherwise a poll that finds its condition true takes the bits.
Refused(o) == ~o.live \/ (~o.multi /\ o.waiters # <<>>)

pollEventFlag(e, f, bits, mode) ==
    IF ~Refused(e.flag[f]) /\ eventCondition(e.flag[f].bits, bits, mode)
    THEN [e EXCEPT !.flag[f].bits = Consume(@, bits, mode)]
    ELSE e

PollEventFlag(f, bits, mode) ==
    /\ CanCall("PollEventFlag")
    /\ bits # {}
    /\ Return(pollEventFlag(bindMainContextForSyscall(ee), f, bits, mode))

WaitEventFlag(f, bits, mode) ==
    /\ CanCall("WaitEventFlag")
    /\ bits # {}
    /\ LET e == bindMainContextForSyscall(ee) IN
       IF Refused(e.flag[f]) \/ eventCondition(e.flag[f].bits, bits, mode)
       THEN Return(pollEventFlag(e, f, bits, mode))
       ELSE Unwind(blockCurrent([e EXCEPT !.flag[f].waiters = Append(@, e.current)],
                                [NoWait EXCEPT !.reason = "EventFlag", !.obj = f,
                                               !.bits = bits, !.mode = mode]))

--------------------------------------------------------------------------------
(* Waits for a vertical blank and for an external completion.  Both block   *)
(* the current thread; the stubs (CD streaming, MPEG) hand in a completion  *)
(* that runs when the thread is next dispatched and may block it again.     *)

VSyncWait(n, completion) ==
    [NoWait EXCEPT !.reason = "VSync", !.ticks = n, !.completion = completion]
ExternalWait(k, completion) ==
    [NoWait EXCEPT !.reason = "External", !.obj = k, !.completion = completion]

WaitVSync(n, completion) ==
    /\ CanCall("WaitVSync")
    /\ ee.current # NoThread
    /\ Unwind(blockCurrent(ee, VSyncWait(n, completion)))

WaitExternal(k, completion) ==
    /\ CanCall("WaitExternal")
    /\ ee.current # NoThread
    /\ Unwind(blockCurrent(ee, ExternalWait(k, completion)))

\* completeExternalWait(): every thread waiting for k, in id order.
completeExternalWait(e, k) ==
    makeReady(e, InOrder({t \in Threads : /\ e.status[t] \in BlockedStatuses
                                          /\ e.wait[t].reason = "External"
                                          /\ e.wait[t].obj = k}), FALSE)

\* A stub of the running thread completes the wait of another (the MPEG
\* demuxer); it does not call transferIfRequested().
CompleteExternalWait(k) ==
    /\ CanCall("CompleteExternalWait")
    /\ Return(completeExternalWait(ee, k))

\* completeVSync(): one blank nearer for every waiter; the ones whose target
\* tick has passed are released in id order.
completeVSync(e) ==
    LET waiting == {t \in Threads : e.status[t] \in BlockedStatuses /\ e.wait[t].reason = "VSync"}
        passed  == {t \in waiting : e.wait[t].ticks <= 1}
    IN  makeReady([e EXCEPT !.wait = [t \in Threads |->
                       IF t \in waiting \ passed THEN [e.wait[t] EXCEPT !.ticks = @ - 1] ELSE @[t]]],
                  InOrder(passed), FALSE)

--------------------------------------------------------------------------------
(* Guest code between kernel calls *)

\* A stub calls back into guest code (invokeCurrent) on the running thread.
InvokeCurrent(k) ==
    /\ CanCall("InvokeCurrent")
    /\ ee.current # NoThread
    /\ k \in {"HleCall", "SyscallOverride"}
    /\ Len(ee.inv[ee.current]) < MaxDepth
    /\ Unwind(pushInvocation(ee, ee.current, k))

\* A DMA transfer the guest starts completes at once and queues its handler,
\* or the MPEG demuxer queues a stream callback.
QueueFromGuest(k) ==
    /\ phase = "Guest"
    /\ k \in Sources \cap {"Interrupt", "RpcCallback"}
    /\ Len(ee.pending) < MaxPending
    /\ Return(queueInvocation(ee, <<k>>))

\* checkpointDue() answers yes because a flag is up or a deadline is due.
YieldToEvents ==
    /\ phase = "Guest"
    /\ Unwind([ee EXCEPT !.check = TRUE])

\* checkpointDue() answers yes because the slice is over and a thread as
\* urgent is ready; without one the slice is renewed and nothing changes.
TimeSliceExpires ==
    /\ phase = "Guest"
    /\ ~ee.check /\ ee.current # NoThread
    /\ hasReadyAtOrAbovePriority(ee, ee.prio[ee.current])
    /\ Unwind([ee EXCEPT !.resched = TRUE, !.expired = TRUE])

\* The dispatched function returns: to the end of its frame, or to an address
\* without a function, or in the middle for the loop to dispatch the next one.
GuestReturns(c) ==
    /\ phase = "Guest"
    /\ c = "Missing" => "Missing" \in Sources
    /\ Unwind([ee EXCEPT !.pc[running] = c])

--------------------------------------------------------------------------------
(* processPendingEvents(): what came due since, then the preemption it      *)
(* asks for.  It runs at the top of the loop and again after each dispatch. *)

Delivering == phase \in {"Loop", "Post", "Idle"}

Deliver(e, ks) ==
    /\ Delivering
    /\ Len(ee.pending) + Len(ks) <= MaxPending
    /\ ee' = queueInvocation(e, ks)
    /\ phase' = IF phase = "Idle" THEN "Loop" ELSE phase
    /\ UNCHANGED running

\* VBlankStart: waiters first, then the GS callback, then INTC cause 2.
VBlankStart(callback, handler) ==
    /\ "VBlank" \in Sources
    /\ callback => "GsCallback" \in Sources
    /\ handler => "Interrupt" \in Sources
    /\ Deliver(completeVSync(ee), (IF callback THEN <<"GsCallback">> ELSE <<>>)
                                   \o (IF handler THEN <<"Interrupt">> ELSE <<>>))

\* VBlankEnd, an EE timer, an alarm: one handler is queued.
QueueHandler(k) ==
    /\ k \in Sources \cap {"Interrupt", "Alarm"}
    /\ Deliver(ee, <<k>>)

\* ExternalWake, posted by a host thread.
ExternalWake(k) ==
    /\ "ExternalWake" \in Sources
    /\ Deliver(completeExternalWait(ee, k), <<>>)

EventsDone ==
    /\ phase \in {"Loop", "Post"}
    /\ LET e == applyPendingPreemption([ee EXCEPT !.check = FALSE]) IN
       /\ ee' = e
       /\ phase' = IF phase = "Post" THEN "Loop"
                   ELSE IF e.current = NoThread THEN "Select" ELSE "Dispatch"
    /\ UNCHANGED running

--------------------------------------------------------------------------------
(* The rest of the loop *)

ToLoop(e) == ee' = e /\ phase' = "Loop" /\ UNCHANGED running
ToDispatch(e) == ee' = e /\ phase' = "Dispatch" /\ UNCHANGED running

SelectReady ==
    /\ phase = "Select"
    /\ \E p \in Priorities :
        /\ FirstQueue(ee, p)
        /\ ToDispatch(makeRunning([ee EXCEPT !.ready[p] = Tail(@)], Head(ee.ready[p])))

\* Mutant: no new dispatcher record is made.
AcquireInvocationThreadReused(t) ==
    /\ phase = "Select" /\ ~HasReady(ee) /\ ee.pending # <<>>
    /\ ee.status[t] = "Dormant" /\ ee.inv[t] = <<>>
    /\ ToDispatch(pushInvocation(makeRunning([ee EXCEPT !.pending = Tail(@), !.pc[t] = "End"], t),
                                 t, Head(ee.pending)))

\* Nothing is ready: a dispatcher record takes the first queued invocation.
AcquireInvocationThread(t) ==
    /\ phase = "Select" /\ ~HasReady(ee) /\ ee.pending # <<>>
    /\ \/ ee.status[t] = "Dormant" /\ ee.inv[t] = <<>>
       \/ /\ ~Exists(ee, t)
          /\ \A u \in IdleThreads : ~(ee.status[u] = "Dormant" /\ ee.inv[u] = <<>>)
    /\ LET e == IF Exists(ee, t) THEN [ee EXCEPT !.pc[t] = "End"]
                ELSE [createThread(ee, t, 0) EXCEPT !.pc[t] = "End"]
       IN  ToDispatch(pushInvocation(makeRunning([e EXCEPT !.pending = Tail(@)], t), t,
                                     Head(ee.pending)))

WaitForEvent ==
    /\ phase = "Select" /\ ~HasReady(ee) /\ ee.pending = <<>>
    /\ phase' = "Idle" /\ UNCHANGED <<ee, running>>

\* The completion of a wait runs before the thread it belongs to; it may
\* block that thread again.
RunCompletion(w) ==
    /\ phase = "Dispatch" /\ ee.resume[ee.current]
    /\ LET e == [ee EXCEPT !.resume[ee.current] = FALSE] IN
       IF w = NoWait THEN ToDispatch(e) ELSE ToLoop(blockCurrent(e, w))

CanDispatch(c) == phase = "Dispatch" /\ ~ee.resume[ee.current] /\ ee.pc[ee.current] = c

\* The top invocation has returned; the exit handler that ends the thread does
\* so from its onComplete.
InvocationCompletes ==
    /\ CanDispatch("End") /\ ee.inv[ee.current] # <<>>
    /\ LET k == Last(ee.inv[ee.current]).kind
           e == popInvocation(ee, ee.current)
       IN  ToLoop(IF k \in {"Exit", "ExitDelete"} THEN exitCurrent(e, k = "ExitDelete") ELSE e)

ThreadEnds ==
    /\ CanDispatch("End") /\ ee.inv[ee.current] = <<>>
    /\ ToLoop([makeDormant(ee, ee.current) EXCEPT !.current = NoThread])

\* Mutant: a queued invocation starts on top of whatever runs.
StartInvocationNested ==
    /\ phase = "Dispatch" /\ ~ee.resume[ee.current] /\ ee.pc[ee.current] # "End"
    /\ ee.pending # <<>>
    /\ ToLoop(pushInvocation([ee EXCEPT !.pending = Tail(@)], ee.current, Head(ee.pending)))

\* Handlers are not nested: a queued invocation starts on a thread that has
\* none.
StartInvocation ==
    /\ phase = "Dispatch" /\ ~ee.resume[ee.current] /\ ee.pc[ee.current] # "End"
    /\ ee.pending # <<>> /\ ee.inv[ee.current] = <<>>
    /\ ToLoop(pushInvocation([ee EXCEPT !.pending = Tail(@)], ee.current, Head(ee.pending)))

NothingToStart == ee.pending = <<>> \/ ee.inv[ee.current] # <<>>

MissingFunction ==
    /\ CanDispatch("Missing") /\ NothingToStart
    /\ ToLoop(IF ee.inv[ee.current] # <<>> THEN [ee EXCEPT !.pc[ee.current] = "End"]
              ELSE [makeDormant(ee, ee.current) EXCEPT !.current = NoThread])

\* checkpointDue() just before the dispatch: back to the loop for an event
\* that came due, or because the slice is over.
DispatchYields(expires) ==
    /\ CanDispatch("Code") /\ NothingToStart
    /\ expires => hasReadyAtOrAbovePriority(ee, ee.prio[ee.current])
    /\ ToLoop(IF expires THEN [ee EXCEPT !.resched = TRUE, !.expired = TRUE]
              ELSE [ee EXCEPT !.check = TRUE])

EnterGuest ==
    /\ CanDispatch("Code") /\ NothingToStart
    /\ ee' = [ee EXCEPT !.inIntr = /\ ee.inv[ee.current] # <<>>
                                   /\ Last(ee.inv[ee.current]).kind = "Interrupt"]
    /\ phase' = "Guest" /\ running' = ee.current

--------------------------------------------------------------------------------
(* The specification *)

KernelCall ==
    \/ \E t \in UserThreads, p \in Priorities : CreateThread(t, p)
    \/ \E t \in Targets : \/ DeleteThread(t) \/ StartThread(t) \/ TerminateThread(t)
                          \/ SuspendThread(t) \/ ResumeThread(t) \/ CancelWakeupThread(t)
    \/ \E delete, handlers \in BOOLEAN : ExitThread(delete, handlers)
    \/ SleepThread
    \/ \E t \in Targets, safe \in BOOLEAN : WakeupThread(t, safe) \/ ReleaseWaitThread(t, safe)
    \/ \E t \in Targets \cup {NoThread}, p \in Priorities, safe \in BOOLEAN :
           ChangeThreadPriority(t, p, safe)
    \/ \E p \in Priorities, safe \in BOOLEAN : RotateThreadReadyQueue(p, safe)
    \/ \E s \in Semas :
        \/ \E init \in 0 .. MaxSema, max \in 1 .. MaxSema : CreateSema(s, init, max)
        \/ \E safe \in BOOLEAN : DeleteSema(s, safe) \/ SignalSema(s, safe)
        \/ PollSema(s) \/ WaitSema(s)
    \/ \E f \in Flags, bits \in SUBSET Bits :
        \/ \E multi \in BOOLEAN : CreateEventFlag(f, bits, multi)
        \/ \E safe \in BOOLEAN : DeleteEventFlag(f, safe) \/ SetEventFlag(f, bits, safe)
        \/ ClearEventFlag(f, bits)
        \/ \E mode \in SUBSET WaitModes : PollEventFlag(f, bits, mode) \/ WaitEventFlag(f, bits, mode)
    \/ \E completion \in BOOLEAN :
        \/ \E n \in 1 .. MaxTicks : WaitVSync(n, completion)
        \/ \E k \in Tokens : WaitExternal(k, completion)
    \/ \E k \in Tokens : CompleteExternalWait(k)
    \/ \E k \in CallKinds : InvokeCurrent(k)

GuestStep ==
    \/ KernelCall
    \/ \E k \in Kinds : QueueFromGuest(k)
    \/ YieldToEvents
    \/ TimeSliceExpires
    \/ \E c \in PCs : GuestReturns(c)

Event ==
    \/ \E callback, handler \in BOOLEAN : VBlankStart(callback, handler)
    \/ \E k \in AsyncKinds : QueueHandler(k)
    \/ \E k \in Tokens : ExternalWake(k)

DispatchStep ==
    \/ EventsDone
    \/ SelectReady
    \/ \E t \in IdleThreads : AcquireInvocationThread(t)
    \/ WaitForEvent
    \/ RunCompletion(NoWait)
    \/ \E n \in 1 .. MaxTicks : RunCompletion(VSyncWait(n, TRUE))
    \/ \E k \in Tokens : RunCompletion(ExternalWait(k, TRUE))
    \/ InvocationCompletes \/ ThreadEnds \/ StartInvocation \/ MissingFunction
    \/ \E expires \in BOOLEAN : DispatchYields(expires)
    \/ EnterGuest

Next == GuestStep \/ Event \/ DispatchStep

Spec == Init /\ [][Next]_vars
--------------------------------------------------------------------------------
(* Invariants *)

\* Every member keeps its type; in particular no suspend count goes below zero
\* (resumeThread decrements one) and a guest function is on the executor's
\* stack exactly while the executor is in guest code.
TypeOK ==
    /\ ee \in EeState
    /\ phase \in Phases
    /\ running \in Threads \cup {NoThread}
    /\ running # NoThread <=> phase = "Guest"

\* The status of the threads and m_currentThreadId never disagree about who
\* runs, whatever mixture of blocking, preemption and rotation led here.
RunningIsCurrent == \A t \in Threads : ee.status[t] = "Running" <=> t = ee.current

\* A thread is in the ready queue of its current priority, once, exactly when
\* its status says Ready: nothing is lost from the queues, listed twice, or
\* left in the queue of a priority it no longer has (enqueueReady, removeReady,
\* changePriority, makeDormant).
ReadyQueuesExact ==
    \A p \in Priorities :
        /\ ToSet(ee.ready[p]) = {t \in Threads : ee.status[t] = "Ready" /\ ee.prio[t] = p}
        /\ IsInjective(ee.ready[p])

Blocked(reason, obj) ==
    {t \in Threads : /\ ee.status[t] \in BlockedStatuses
                     /\ ee.wait[t].reason = reason
                     /\ ee.wait[t].obj = obj}

\* The waiter queue of every semaphore and event flag holds exactly the
\* threads whose own wait state names that object, each once, however their
\* waits ended before: by a signal, a release, a termination or a deletion.
WaitersExact ==
    /\ \A s \in Semas : /\ ToSet(ee.sema[s].waiters) = Blocked("Semaphore", s)
                         /\ IsInjective(ee.sema[s].waiters)
    /\ \A f \in Flags : /\ ToSet(ee.flag[f].waiters) = Blocked("EventFlag", f)
                         /\ IsInjective(ee.flag[f].waiters)
    /\ \A t \in Threads : ee.wait[t].reason # "None" <=> ee.status[t] \in BlockedStatuses

\* No thread waits for a unit that is there: a semaphore with waiters counts 0
\* (signalSemaphore hands the unit over instead of counting it).
NoIdleUnits == \A s \in Semas : ee.sema[s].waiters # <<>> => ee.sema[s].count = 0

\* No thread waits on an event flag whose bits satisfy it: setEventFlag offers
\* the new bits to every waiter, not only to the first.
NoSatisfiedWaiter ==
    \A t \in Threads : ee.wait[t].reason = "EventFlag" =>
        ~eventCondition(ee.flag[ee.wait[t].obj].bits, ee.wait[t].bits, ee.wait[t].mode)

\* A sleeping thread has no stored wakeup: a wakeup that meets a sleeper ends
\* the sleep, suspended or not, and a stored one prevents it (sleepCurrent,
\* wakeupThread).
SleepersHaveNoWakeups ==
    \A t \in Threads : ee.wait[t].reason = "Sleep" => ee.wake[t] = 0

\* A thread has an open suspension exactly when its status says so: no wakeup,
\* signal or release lets a suspended thread run.
SuspendAgrees ==
    \A t \in Threads : ee.susp[t] # 0 <=> ee.status[t] \in {"Suspended", "WaitingSuspended"}

\* While guest code runs and no reschedule is requested, no more urgent thread
\* is ready: every operation that readies one, or lowers the running thread,
\* has asked for the preemption (requestPreemptionIfHigher, changePriority).
MostUrgentRuns ==
    phase = "Guest" /\ ~Detached /\ ~ee.resched =>
        \A p \in 0 .. ee.prio[running] - 1 : ee.ready[p] = <<>>

\* A queued handler is not left waiting behind thread code: whenever one is pending
\* while a thread without invocations is in guest code, the checkpoint flag is up, and
\* the thread's next checkpoint returns to the loop, which starts the handler first
\* (queueInvocation, the loop's start rule).  The thread may run up to that checkpoint.
HandlersBeforeThreads ==
    phase = "Guest" /\ ee.inv[running] = <<>> /\ ee.pending # <<>> => ee.check

\* A queued handler starts only on a thread without invocations, so it is the
\* bottom one and a thread never has two: the invocation stacks stay bounded.
OneHandlerPerThread ==
    \A t \in Threads : \A i \in DOMAIN ee.inv[t] : ee.inv[t][i].kind \in AsyncKinds => i = 1

\* The completion of a wait runs before any code of its thread and dies with
\* the thread: it never survives into guest code, a new wait or a restart.
CompletionsRunFirst ==
    \A t \in Threads : ee.resume[t] =>
        ee.status[t] \in {"Ready", "Running", "Suspended"} /\ t # running

--------------------------------------------------------------------------------
(* Action properties *)

\* The running thread loses its turn to a thread of its own priority only when
\* its slice is over; a preempted thread is the first of its queue to go on
\* (of programs that do not call RotateThreadReadyQueue).
TurnLostOnlyToSlice ==
    [][\A t \in Threads : ee.current = t /\ ee'.status[t] = "Ready" =>
           ee.expired \/ Head(ee'.ready[ee'.prio[t]]) = t]_vars

\* The assertion at EeScheduler.cpp:2436: a kernel call that finds no current
\* thread makes main the running one, and finds it Ready.
BindFindsMainReady ==
    [][phase = "Guest" /\ ee.current = NoThread /\ ee'.current = Main =>
           ee.status[Main] = "Ready"]_vars

--------------------------------------------------------------------------------
(* Fairness and liveness *)

HandlerReturns == /\ phase = "Guest" /\ ee.inv[running] # <<>>
                  /\ GuestReturns("End")

\* The loop goes on by itself; an event that is always due keeps it from the
\* guest only finitely often, because each dispatch lets cycles pass; a slice
\* that is renewed only at makeRunning() runs out however often the guest
\* function returns in between; handlers return.
FairSpec ==
    /\ Spec
    /\ WF_vars(DispatchStep)
    /\ SF_vars(EnterGuest)
    /\ SF_vars(TimeSliceExpires)
    /\ SF_vars(HandlerReturns)
    /\ WF_vars(phase = "Guest" /\ ee.check /\ YieldToEvents)

\* Threads of one priority share the processor: a thread does not stay ready
\* for ever while no more urgent one is ready or running, although the others
\* of its priority never block or give way (the time slice of checkpointDue).
ReadyThreadsRun ==
    \A t \in Threads :
        []<>(\/ ee.status[t] # "Ready"
             \/ \E u \in Threads : /\ ee.prio[u] < ee.prio[t]
                                   /\ ee.status[u] \in {"Ready", "Running"})

\* A queued handler is started, whatever thread runs when it is queued and
\* even if all of them are blocked.
QueuedHandlersStart == ee.pending # <<>> ~> ee.pending = <<>>

================================================================================

------------------------ MODULE EeSchedulerSafety_proofs ------------------------
(***************************************************************************)
(* The safety theorems of EeScheduler: every action keeps the inductive    *)
(* invariant IInv, and each checked invariant follows from it.  The        *)
(* lemmas about the operations are in EeScheduler_proofs.  The theorems    *)
(* about turns need IInv /\ Sided, which every action keeps as well.       *)
(*                                                                         *)
(* Guest code that calls the kernel after a handler gave its own thread    *)
(* away (DetachedCalls) can make a waiting main the running thread, see    *)
(* the run EeDetached; the theorems assume that it does not.               *)
(***************************************************************************)
EXTENDS EeScheduler_proofs

\* Where the executor is, and who is on its stack.
PhaseOK == /\ phase \in Phases
           /\ running \in Threads \cup {NoThread}
           /\ running # NoThread <=> phase = "Guest"
           /\ phase = "Select" => ee.current = NoThread
           /\ phase = "Dispatch" => ee.current # NoThread

IInv == Good(ee) /\ PhaseOK

--------------------------------------------------------------------------------
(* How steps end *)

\* Outside the guest, the record and the phase make up the invariant.
LEMMA LoopStep ==
    ASSUME IInv, phase # "Guest", NEW e, Good(e), ee' = e, UNCHANGED running,
           \/ phase' \in {"Loop", "Post", "Idle"}
           \/ phase' = "Select" /\ e.current = NoThread
           \/ phase' = "Dispatch" /\ e.current # NoThread
    PROVE  IInv'
<1>1. running' = NoThread BY DEF IInv, PhaseOK
<1> QED BY <1>1 DEF IInv, PhaseOK, Phases

\* A kernel call that returns to the guest with a good record keeps the invariant.
LEMMA ReturnStep ==
    ASSUME IInv, phase = "Guest", NEW e, Good(e), Return(e)
    PROVE  IInv'
BY DEF IInv, PhaseOK, Return

\* So does one that unwinds to the loop,
LEMMA UnwindStep ==
    ASSUME IInv, NEW e, Good(e), Unwind(e)
    PROVE  IInv'
<1>1. e \in EeState BY DEF Good, Core
<1> DEFINE r == [e EXCEPT !.inIntr = FALSE]
<1>2. /\ r \in EeState /\ r.current = e.current
      /\ r.status = e.status /\ r.prio = e.prio /\ r.susp = e.susp /\ r.wake = e.wake
      /\ r.wait = e.wait /\ r.ready = e.ready /\ r.sema = e.sema /\ r.flag = e.flag
    BY <1>1 DEF EeState
<1>3. ee' = r /\ phase' = "Post" /\ running' = NoThread BY DEF Unwind
<1> HIDE DEF r
<1>4. Good(r) BY <1>2, GoodSame
<1> QED BY <1>3, <1>4 DEF IInv, PhaseOK, Phases

\* and one that ends in transferIfRequested().
LEMMA TransferStep ==
    ASSUME IInv, phase = "Guest", NEW e, Good(e), NEW safe \in BOOLEAN,
           transferIfRequested(e, safe)
    PROVE  IInv'
<1>1. CASE Return(e) BY <1>1, ReturnStep
<1>2. CASE Unwind(preempt(e, FALSE))
    <2> DEFINE no == FALSE
               r  == preempt(e, no)
    <2>1. no \in BOOLEAN /\ Unwind(r) BY <1>2
    <2> HIDE DEF no
    <2>2. Good(r) BY <2>1, Preempt
    <2> HIDE DEF r
    <2> QED BY <2>1, <2>2, UnwindStep
<1> QED BY <1>1, <1>2 DEF transferIfRequested

\* A call of code that is not detached finds its own thread running.
LEMMA Caller ==
    ASSUME ~DetachedCalls, IInv, NEW c, CanCall(c)
    PROVE  /\ phase = "Guest" /\ Good(ee) /\ ee \in EeState
           /\ bindMainContextForSyscall(ee) = ee
           /\ ee.current # NoThread /\ ee.current = running /\ ee.current \in Threads
<1>1. phase = "Guest" /\ ee.current = running /\ running # NoThread
    BY DEF CanCall, Detached, IInv, PhaseOK
<1>2. bindMainContextForSyscall(ee) = ee BY <1>1 DEF bindMainContextForSyscall
<1> QED BY <1>1, <1>2 DEF IInv, PhaseOK, Good, Core

--------------------------------------------------------------------------------
(* Kernel calls on threads *)

\* The action CreateThread keeps the invariant.
LEMMA CreateThreadStep ==
    ASSUME ~DetachedCalls, IInv, NEW t \in UserThreads, NEW p \in Priorities,
           CreateThread(t, p)
    PROVE  IInv'
<1> DEFINE e == createThread(ee, t, p)
<1>1. Good(ee) /\ phase = "Guest" /\ ~Exists(ee, t) /\ Return(e)
    BY Caller DEF CreateThread
<1>2. Good(e) BY <1>1, ThreadsFacts, CreateThreadGood
<1> HIDE DEF e
<1> QED BY <1>1, <1>2, ReturnStep

\* The action DeleteThread keeps the invariant.
LEMMA DeleteThreadStep ==
    ASSUME ~DetachedCalls, IInv, NEW t \in Threads, DeleteThread(t)
    PROVE  IInv'
<1> DEFINE e == deleteThread(ee, t)
<1>1. Good(ee) /\ phase = "Guest" /\ Return(e) BY Caller DEF DeleteThread
<1>2. Good(e) BY <1>1, DeleteThreadGood
<1> HIDE DEF e
<1> QED BY <1>1, <1>2, ReturnStep

\* The action StartThread keeps the invariant.
LEMMA StartThreadStep ==
    ASSUME ~DetachedCalls, IInv, NEW t \in Threads, StartThread(t)
    PROVE  IInv'
<1> DEFINE safe == FALSE
           e    == startThread(ee, t, safe)
<1>1. /\ Good(ee) /\ phase = "Guest"
      /\ transferIfRequested(e, safe) /\ safe \in BOOLEAN
    BY Caller DEF StartThread
<1> HIDE DEF safe
<1>2. Good(e) BY <1>1, StartThreadGood
<1> HIDE DEF e
<1> QED BY <1>1, <1>2, TransferStep

\* The action ExitThread keeps the invariant.
LEMMA ExitThreadStep ==
    ASSUME ~DetachedCalls, IInv, NEW delete \in BOOLEAN, NEW handlers \in BOOLEAN,
           ExitThread(delete, handlers)
    PROVE  IInv'
<1>1. Good(ee) /\ ee.current # NoThread /\ ee.current \in Threads
      /\ bindMainContextForSyscall(ee) = ee
    BY Caller DEF ExitThread
<1>2. CASE handlers
    <2> DEFINE k == IF delete THEN "ExitDelete" ELSE "Exit"
               e == pushInvocation(ee, ee.current, k)
    <2>1. Unwind(e) BY <1>1, <1>2 DEF ExitThread
    <2>2. k \in Kinds BY DEF Kinds, CallKinds
    <2> HIDE DEF k
    <2>3. Good(e) BY <1>1, <2>2, PushInvocation
    <2> HIDE DEF e
    <2> QED BY <2>1, <2>3, UnwindStep
<1>3. CASE ~handlers
    <2> DEFINE e == exitCurrent(ee, delete)
    <2>1. Unwind(e) BY <1>1, <1>3 DEF ExitThread
    <2>2. Good(e) BY <1>1, ExitCurrentGood
    <2> HIDE DEF e
    <2> QED BY <2>1, <2>2, UnwindStep
<1> QED BY <1>2, <1>3

\* The action TerminateThread keeps the invariant.
LEMMA TerminateThreadStep ==
    ASSUME ~DetachedCalls, IInv, NEW t \in Threads, TerminateThread(t)
    PROVE  IInv'
<1> DEFINE e == terminateThread(ee, t)
<1>1. Good(ee) /\ phase = "Guest" /\ Return(e) BY Caller DEF TerminateThread
<1>2. Good(e) BY <1>1, TerminateThreadGood
<1> HIDE DEF e
<1> QED BY <1>1, <1>2, ReturnStep

\* The action SuspendThread keeps the invariant.
LEMMA SuspendThreadStep ==
    ASSUME ~DetachedCalls, IInv, NEW t \in Threads, SuspendThread(t)
    PROVE  IInv'
<1> DEFINE safe == FALSE
           e    == suspendThread(ee, t)
<1>1. /\ Good(ee) /\ phase = "Guest"
      /\ transferIfRequested(e, safe) /\ safe \in BOOLEAN
    BY Caller DEF SuspendThread
<1> HIDE DEF safe
<1>2. Good(e) BY <1>1, SuspendThreadGood
<1> HIDE DEF e
<1> QED BY <1>1, <1>2, TransferStep

\* The action ResumeThread keeps the invariant.
LEMMA ResumeThreadStep ==
    ASSUME ~DetachedCalls, IInv, NEW t \in Threads, ResumeThread(t)
    PROVE  IInv'
<1> DEFINE safe == FALSE
           e    == resumeThread(ee, t, safe)
<1>1. /\ Good(ee) /\ phase = "Guest"
      /\ transferIfRequested(e, safe) /\ safe \in BOOLEAN
    BY Caller DEF ResumeThread
<1> HIDE DEF safe
<1>2. Good(e) BY <1>1, ResumeThreadGood
<1> HIDE DEF e
<1> QED BY <1>1, <1>2, TransferStep

\* The action SleepThread keeps the invariant.
LEMMA SleepThreadStep ==
    ASSUME ~DetachedCalls, IInv, SleepThread
    PROVE  IInv'
<1> DEFINE t == ee.current
<1>1. /\ Good(ee) /\ phase = "Guest" /\ ee \in EeState /\ t # NoThread /\ t \in Threads
      /\ bindMainContextForSyscall(ee) = ee
    BY Caller DEF SleepThread
<1>2. ee.wake[t] \in Nat BY <1>1 DEF EeState
<1>3. CASE ee.wake[t] # 0
    <2> DEFINE n == ee.wake[t] - 1
               e == [ee EXCEPT !.wake[t] = n]
    <2>1. Return(e) BY <1>1, <1>3 DEF SleepThread
    <2>2. n \in Nat BY <1>2, <1>3
    <2>3. ee.wait[t].reason # "Sleep" BY <1>1, RunningLoose
    <2> HIDE DEF n
    <2>4. Good(e) BY <1>1, <2>2, <2>3, SetWake
    <2> HIDE DEF e
    <2> QED BY <1>1, <2>1, <2>4, ReturnStep
<1>4. CASE ee.wake[t] = 0
    <2> DEFINE w == [NoWait EXCEPT !.reason = "Sleep"]
               e == blockCurrent(ee, w)
    <2>1. Unwind(e) BY <1>1, <1>4 DEF SleepThread
    <2>2. w \in Wait /\ w.reason = "Sleep" BY NoWaitType DEF Wait, WaitReasons
    <2> HIDE DEF w
    <2>3. WaitFits(ee, t, w) BY <1>4, <2>2 DEF WaitFits
    <2>4. Good(e) BY <1>1, <2>2, <2>3, BlockAlone
    <2> HIDE DEF e
    <2> QED BY <2>1, <2>4, UnwindStep
<1> QED BY <1>3, <1>4

\* The action WakeupThread keeps the invariant.
LEMMA WakeupThreadStep ==
    ASSUME ~DetachedCalls, IInv, NEW t \in Threads, NEW safe \in BOOLEAN,
           WakeupThread(t, safe)
    PROVE  IInv'
<1> DEFINE e == wakeupThread(ee, t, safe)
<1>1. Good(ee) /\ phase = "Guest" /\ transferIfRequested(e, safe)
    BY Caller DEF WakeupThread
<1>2. Good(e) BY <1>1, WakeupThreadGood
<1> HIDE DEF e
<1> QED BY <1>1, <1>2, TransferStep

\* The action ReleaseWaitThread keeps the invariant.
LEMMA ReleaseWaitThreadStep ==
    ASSUME ~DetachedCalls, IInv, NEW t \in Threads, NEW safe \in BOOLEAN,
           ReleaseWaitThread(t, safe)
    PROVE  IInv'
<1> DEFINE e == releaseWait(ee, t, safe)
<1>1. Good(ee) /\ phase = "Guest" /\ transferIfRequested(e, safe)
    BY Caller DEF ReleaseWaitThread
<1>2. Good(e) BY <1>1, ReleaseWaitGood
<1> HIDE DEF e
<1> QED BY <1>1, <1>2, TransferStep

\* The action CancelWakeupThread keeps the invariant.
LEMMA CancelWakeupThreadStep ==
    ASSUME ~DetachedCalls, IInv, NEW t \in Threads, CancelWakeupThread(t)
    PROVE  IInv'
<1>1. Good(ee) /\ phase = "Guest" /\ bindMainContextForSyscall(ee) = ee
    BY Caller DEF CancelWakeupThread
<1>2. CASE Return(ee) BY <1>1, <1>2, ReturnStep
<1>3. CASE Return([ee EXCEPT !.wake[t] = 0])
    <2> DEFINE e == [ee EXCEPT !.wake[t] = 0]
    <2>1. Good(e) BY <1>1, SetWake
    <2> HIDE DEF e
    <2> QED BY <1>1, <1>3, <2>1, ReturnStep DEF e
<1> QED BY <1>1, <1>2, <1>3 DEF CancelWakeupThread

\* The action ChangeThreadPriority keeps the invariant.
LEMMA ChangeThreadPriorityStep ==
    ASSUME ~DetachedCalls, IInv, NEW t \in Threads \cup {NoThread}, NEW p \in Priorities,
           NEW safe \in BOOLEAN, ChangeThreadPriority(t, p, safe)
    PROVE  IInv'
<1> DEFINE u == IF t = NoThread THEN ee.current ELSE t
           e == changePriority(ee, u, p, safe)
<1>1. /\ Good(ee) /\ phase = "Guest" /\ transferIfRequested(e, safe)
      /\ ee.current \in Threads
    BY Caller DEF ChangeThreadPriority
<1>2. u \in Threads BY <1>1
<1> HIDE DEF u
<1>3. Good(e) BY <1>1, <1>2, ChangePriorityGood
<1> HIDE DEF e
<1> QED BY <1>1, <1>3, TransferStep

\* The action RotateThreadReadyQueue keeps the invariant.
LEMMA RotateThreadReadyQueueStep ==
    ASSUME ~DetachedCalls, IInv, NEW p \in Priorities, NEW safe \in BOOLEAN,
           RotateThreadReadyQueue(p, safe)
    PROVE  IInv'
<1> DEFINE q == IF p = 0 THEN ee.prio[ee.current] ELSE p
           e == rotateReadyQueue(ee, q)
<1>1. /\ Good(ee) /\ phase = "Guest" /\ transferIfRequested(e, safe)
      /\ ee.current \in Threads /\ ee \in EeState
    BY Caller DEF RotateThreadReadyQueue
<1>2. q \in Priorities BY <1>1 DEF EeState
<1> HIDE DEF q
<1>3. Good(e) BY <1>1, <1>2, RotateGood
<1> HIDE DEF e
<1> QED BY <1>1, <1>3, TransferStep

--------------------------------------------------------------------------------
(* Kernel calls on semaphores and event flags *)

\* The action CreateSema keeps the invariant.
LEMMA CreateSemaStep ==
    ASSUME ~DetachedCalls, IInv, NEW s \in Semas, NEW init \in Nat, NEW max \in Nat,
           CreateSema(s, init, max)
    PROVE  IInv'
<1> DEFINE none == <<>>
           o == [live |-> TRUE, count |-> init, max |-> max, waiters |-> none]
           e == [ee EXCEPT !.sema[s] = o]
<1>1. Good(ee) /\ phase = "Guest" /\ Return(e) /\ ~ee.sema[s].live
    BY Caller DEF CreateSema
<1>2. none \in Seq(Threads) /\ ee.sema[s].waiters = none
    BY <1>1, SemaFacts
<1>3. o \in Semaphore /\ o.waiters = ee.sema[s].waiters /\ o.waiters = <<>>
    BY <1>2 DEF Semaphore
<1> HIDE DEF o
<1>4. Good(e) BY <1>1, <1>3, SetSema
<1> HIDE DEF e
<1> QED BY <1>1, <1>4, ReturnStep

\* The action DeleteSema keeps the invariant.
LEMMA DeleteSemaStep ==
    ASSUME ~DetachedCalls, IInv, NEW s \in Semas, NEW safe \in BOOLEAN,
           DeleteSema(s, safe)
    PROVE  IInv'
<1> DEFINE e == deleteSemaphore(ee, s, safe)
<1>1. Good(ee) /\ phase = "Guest" /\ transferIfRequested(e, safe)
    BY Caller DEF DeleteSema
<1>2. Good(e) BY <1>1, DeleteSemaGood
<1> HIDE DEF e
<1> QED BY <1>1, <1>2, TransferStep

\* The action SignalSema keeps the invariant.
LEMMA SignalSemaStep ==
    ASSUME ~DetachedCalls, IInv, NEW s \in Semas, NEW safe \in BOOLEAN,
           SignalSema(s, safe)
    PROVE  IInv'
<1> DEFINE e == signalSemaphore(ee, s, safe)
<1>1. Good(ee) /\ phase = "Guest" /\ transferIfRequested(e, safe)
    BY Caller DEF SignalSema
<1>2. Good(e) BY <1>1, SignalSemaGood
<1> HIDE DEF e
<1> QED BY <1>1, <1>2, TransferStep

\* The action PollSema keeps the invariant.
LEMMA PollSemaStep ==
    ASSUME ~DetachedCalls, IInv, NEW s \in Semas,
           PollSema(s)
    PROVE  IInv'
<1> DEFINE e == pollSemaphore(ee, s)
<1>1. Good(ee) /\ phase = "Guest" /\ Return(e) BY Caller DEF PollSema
<1>2. Good(e) BY <1>1, PollSemaGood
<1> HIDE DEF e
<1> QED BY <1>1, <1>2, ReturnStep

\* The action WaitSema keeps the invariant.
LEMMA WaitSemaStep ==
    ASSUME ~DetachedCalls, IInv, NEW s \in Semas, WaitSema(s)
    PROVE  IInv'
<1>1. /\ Good(ee) /\ phase = "Guest" /\ ee.current # NoThread
      /\ bindMainContextForSyscall(ee) = ee
    BY Caller DEF WaitSema
<1>2. CASE ee.sema[s].live /\ ee.sema[s].count = 0
    <2> DEFINE e == blockCurrent([ee EXCEPT !.sema[s].waiters = Append(@, ee.current)],
                                 [NoWait EXCEPT !.reason = "Semaphore", !.obj = s])
    <2>1. Unwind(e) BY <1>1, <1>2 DEF WaitSema
    <2>2. Good(e) BY <1>1, <1>2, WaitSemaGood
    <2> HIDE DEF e
    <2> QED BY <2>1, <2>2, UnwindStep
<1>3. CASE ~(ee.sema[s].live /\ ee.sema[s].count = 0)
    <2> DEFINE e == pollSemaphore(ee, s)
    <2>1. Return(e) BY <1>1, <1>3 DEF WaitSema
    <2>2. Good(e) BY <1>1, PollSemaGood
    <2> HIDE DEF e
    <2> QED BY <1>1, <2>1, <2>2, ReturnStep
<1> QED BY <1>2, <1>3

\* The action CreateEventFlag keeps the invariant.
LEMMA CreateEventFlagStep ==
    ASSUME ~DetachedCalls, IInv, NEW f \in Flags, NEW bits \in SUBSET Bits,
           NEW multi \in BOOLEAN, CreateEventFlag(f, bits, multi)
    PROVE  IInv'
<1> DEFINE none == <<>>
           o == [live |-> TRUE, multi |-> multi, bits |-> bits, waiters |-> none]
           e == [ee EXCEPT !.flag[f] = o]
<1>1. Good(ee) /\ phase = "Guest" /\ Return(e) /\ ~ee.flag[f].live
    BY Caller DEF CreateEventFlag
<1>2. none \in Seq(Threads) /\ ee.flag[f].waiters = none
    BY <1>1, FlagFacts
<1>3. o \in EventFlag /\ o.waiters = ee.flag[f].waiters /\ o.waiters = <<>>
    BY <1>2 DEF EventFlag
<1> HIDE DEF o
<1>4. Good(e) BY <1>1, <1>3, SetFlag
<1> HIDE DEF e
<1> QED BY <1>1, <1>4, ReturnStep

\* The action DeleteEventFlag keeps the invariant.
LEMMA DeleteEventFlagStep ==
    ASSUME ~DetachedCalls, IInv, NEW f \in Flags, NEW safe \in BOOLEAN,
           DeleteEventFlag(f, safe)
    PROVE  IInv'
<1> DEFINE e == deleteEventFlag(ee, f, safe)
<1>1. Good(ee) /\ phase = "Guest" /\ transferIfRequested(e, safe)
    BY Caller DEF DeleteEventFlag
<1>2. Good(e) BY <1>1, DeleteFlagGood
<1> HIDE DEF e
<1> QED BY <1>1, <1>2, TransferStep

\* The action SetEventFlag keeps the invariant.
LEMMA SetEventFlagStep ==
    ASSUME ~DetachedCalls, IInv, NEW f \in Flags, NEW bits \in SUBSET Bits, NEW safe \in BOOLEAN,
           SetEventFlag(f, bits, safe)
    PROVE  IInv'
<1> DEFINE e == setEventFlag(ee, f, bits, safe)
<1>1. Good(ee) /\ phase = "Guest" /\ transferIfRequested(e, safe)
    BY Caller DEF SetEventFlag
<1>2. Good(e) BY <1>1, SetEventFlagGood
<1> HIDE DEF e
<1> QED BY <1>1, <1>2, TransferStep

\* The action PollEventFlag keeps the invariant.
LEMMA PollEventFlagStep ==
    ASSUME ~DetachedCalls, IInv, NEW f \in Flags, NEW bits, NEW mode,
           PollEventFlag(f, bits, mode)
    PROVE  IInv'
<1> DEFINE e == pollEventFlag(ee, f, bits, mode)
<1>1. Good(ee) /\ phase = "Guest" /\ Return(e) BY Caller DEF PollEventFlag
<1>2. Good(e) BY <1>1, PollFlagGood
<1> HIDE DEF e
<1> QED BY <1>1, <1>2, ReturnStep

\* The action ClearEventFlag keeps the invariant.
LEMMA ClearEventFlagStep ==
    ASSUME ~DetachedCalls, IInv, NEW f \in Flags, NEW mask, ClearEventFlag(f, mask)
    PROVE  IInv'
<1>1. /\ Good(ee) /\ phase = "Guest" /\ bindMainContextForSyscall(ee) = ee /\ ee \in EeState
    BY Caller DEF ClearEventFlag
<1>2. CASE ~ee.flag[f].live BY <1>1, <1>2, ReturnStep DEF ClearEventFlag
<1>3. CASE ee.flag[f].live
    <2> DEFINE bits == ee.flag[f].bits \cap mask
               e == [ee EXCEPT !.flag[f].bits = bits]
    <2>1. Return(e)
        <3>1. e = [ee EXCEPT !.flag[f].bits = @ \cap mask] BY <1>1 DEF EeState
        <3> HIDE DEF e
        <3> QED BY <1>1, <1>3, <3>1 DEF ClearEventFlag
    <2>2. bits \in SUBSET Bits BY <1>1, FlagFacts DEF EventFlag
    <2> HIDE DEF bits
    <2>3. Good(e) BY <1>1, <2>2, SetFlagBits
    <2> HIDE DEF e
    <2> QED BY <1>1, <2>1, <2>3, ReturnStep
<1> QED BY <1>2, <1>3

\* The action WaitEventFlag keeps the invariant.
LEMMA WaitEventFlagStep ==
    ASSUME ~DetachedCalls, IInv, NEW f \in Flags, NEW bits \in SUBSET Bits,
           NEW mode \in SUBSET WaitModes, WaitEventFlag(f, bits, mode)
    PROVE  IInv'
<1>1. /\ Good(ee) /\ phase = "Guest" /\ ee.current # NoThread
      /\ bindMainContextForSyscall(ee) = ee
    BY Caller DEF WaitEventFlag
<1> DEFINE done == Refused(ee.flag[f]) \/ eventCondition(ee.flag[f].bits, bits, mode)
<1>2. CASE done
    <2> DEFINE e == pollEventFlag(ee, f, bits, mode)
    <2>1. Return(e) BY <1>1, <1>2 DEF WaitEventFlag
    <2>2. Good(e) BY <1>1, PollFlagGood
    <2> HIDE DEF e
    <2> QED BY <1>1, <2>1, <2>2, ReturnStep
<1>3. CASE ~done
    <2> DEFINE e == blockCurrent([ee EXCEPT !.flag[f].waiters = Append(@, ee.current)],
                                 [NoWait EXCEPT !.reason = "EventFlag", !.obj = f,
                                                !.bits = bits, !.mode = mode])
    <2>1. Unwind(e) BY <1>1, <1>3 DEF WaitEventFlag
    <2>2. Good(e) BY <1>1, <1>3, WaitFlagGood
    <2> HIDE DEF e
    <2> QED BY <2>1, <2>2, UnwindStep
<1> QED BY <1>2, <1>3

--------------------------------------------------------------------------------
(* Waits, invocations and other steps of guest code *)

\* The current thread starts a wait that has no waiter queue.
LEMMA BlockStep ==
    ASSUME IInv, ee.current # NoThread, NEW w \in Wait, w.reason \in {"VSync", "External"},
           Unwind(blockCurrent(ee, w))
    PROVE  IInv'
<1>1. WaitFits(ee, ee.current, w) BY DEF WaitFits
<1>2. w.reason \notin {"Semaphore", "EventFlag"} OBVIOUS
<1> DEFINE e == blockCurrent(ee, w)
<1>3. Unwind(e) OBVIOUS
<1>4. Good(e) BY <1>1, <1>2, BlockAlone DEF IInv
<1> HIDE DEF e
<1> QED BY <1>3, <1>4, UnwindStep

\* A wait for a vertical blank is a wait.
LEMMA VSyncWaitType ==
    ASSUME NEW n \in 1 .. MaxTicks, NEW completion \in BOOLEAN
    PROVE  VSyncWait(n, completion) \in Wait /\ VSyncWait(n, completion).reason = "VSync"
<1>1. n \in 0 .. MaxTicks BY ConstantsAssumption
<1> QED BY <1>1, NoWaitType DEF VSyncWait, Wait, WaitReasons

\* A wait for a token is a wait.
LEMMA ExternalWaitType ==
    ASSUME NEW k \in Tokens, NEW completion \in BOOLEAN
    PROVE  /\ ExternalWait(k, completion) \in Wait
           /\ ExternalWait(k, completion).reason = "External"
BY NoWaitType DEF ExternalWait, Wait, WaitReasons

\* WaitVSync() keeps the invariant.
LEMMA WaitVSyncStep ==
    ASSUME ~DetachedCalls, IInv, NEW n \in 1 .. MaxTicks, NEW completion \in BOOLEAN,
           WaitVSync(n, completion)
    PROVE  IInv'
<1> DEFINE w == VSyncWait(n, completion)
<1>1. ee.current # NoThread /\ Unwind(blockCurrent(ee, w)) BY DEF WaitVSync
<1>2. w \in Wait /\ w.reason = "VSync" BY VSyncWaitType
<1> HIDE DEF w
<1> QED BY <1>1, <1>2, BlockStep

\* The action WaitExternal keeps the invariant.
LEMMA WaitExternalStep ==
    ASSUME ~DetachedCalls, IInv, NEW k \in Tokens, NEW completion \in BOOLEAN,
           WaitExternal(k, completion)
    PROVE  IInv'
<1> DEFINE w == ExternalWait(k, completion)
<1>1. ee.current # NoThread /\ Unwind(blockCurrent(ee, w)) BY DEF WaitExternal
<1>2. w \in Wait /\ w.reason = "External" BY ExternalWaitType
<1> HIDE DEF w
<1> QED BY <1>1, <1>2, BlockStep

\* The action CompleteExternalWait keeps the invariant.
LEMMA CompleteExternalWaitStep ==
    ASSUME ~DetachedCalls, IInv, NEW k \in Tokens, CompleteExternalWait(k)
    PROVE  IInv'
<1> DEFINE e == completeExternalWait(ee, k)
<1>1. Good(ee) /\ phase = "Guest" /\ Return(e) BY Caller DEF CompleteExternalWait
<1>2. Good(e) BY <1>1, CompleteExternalWaitGood
<1> HIDE DEF e
<1> QED BY <1>1, <1>2, ReturnStep

\* The action InvokeCurrent keeps the invariant.
LEMMA InvokeCurrentStep ==
    ASSUME ~DetachedCalls, IInv, NEW k \in CallKinds, InvokeCurrent(k)
    PROVE  IInv'
<1> DEFINE e == pushInvocation(ee, ee.current, k)
<1>1. Good(ee) /\ ee.current \in Threads /\ Unwind(e) BY Caller DEF InvokeCurrent
<1>2. k \in Kinds BY DEF Kinds
<1>3. Good(e) BY <1>1, <1>2, PushInvocation
<1> HIDE DEF e
<1> QED BY <1>1, <1>3, UnwindStep

\* queueInvocation() touches no queue of threads.
LEMMA QueueInvocation ==
    ASSUME NEW e, Good(e), NEW ks \in Seq(AsyncKinds), NEW r, r = queueInvocation(e, ks)
    PROVE  Good(r) /\ r.current = e.current
<1> DEFINE pending == e.pending \o ks
           check   == e.check \/ ks # <<>>
<1>1. e \in EeState BY DEF Good, Core
<1>2. pending \in Seq(AsyncKinds) /\ check \in BOOLEAN BY <1>1 DEF EeState
<1>3. r = [e EXCEPT !.pending = pending, !.check = check] BY <1>1 DEF queueInvocation, EeState
<1> HIDE DEF pending, check
<1>4. /\ r \in EeState /\ r.current = e.current
      /\ r.status = e.status /\ r.prio = e.prio /\ r.susp = e.susp /\ r.wake = e.wake
      /\ r.wait = e.wait /\ r.ready = e.ready /\ r.sema = e.sema /\ r.flag = e.flag
    BY <1>1, <1>2, <1>3 DEF EeState
<1> QED BY <1>4, GoodSame

\* The action QueueFromGuest keeps the invariant.
LEMMA QueueFromGuestStep ==
    ASSUME IInv, NEW k \in AsyncKinds, QueueFromGuest(k)
    PROVE  IInv'
<1> DEFINE ks == <<k>>
           e  == queueInvocation(ee, ks)
<1>1. Good(ee) /\ phase = "Guest" /\ Return(e) BY DEF QueueFromGuest, IInv
<1>2. ks \in Seq(AsyncKinds) OBVIOUS
<1> HIDE DEF ks
<1>3. Good(e) BY <1>1, <1>2, QueueInvocation
<1> HIDE DEF e
<1> QED BY <1>1, <1>3, ReturnStep

\* Flags that no queue depends on change.
LEMMA YieldsGood ==
    ASSUME NEW e, Good(e), NEW r,
           \/ r = [e EXCEPT !.check = TRUE]
           \/ r = [e EXCEPT !.check = FALSE]
           \/ r = [e EXCEPT !.resched = TRUE, !.expired = TRUE]
    PROVE  Good(r) /\ r.current = e.current
<1>1. e \in EeState BY DEF Good, Core
<1>2. CASE r = [e EXCEPT !.check = TRUE] BY <1>1, <1>2, GoodSame DEF EeState
<1>3. CASE r = [e EXCEPT !.check = FALSE] BY <1>1, <1>3, GoodSame DEF EeState
<1>4. CASE r = [e EXCEPT !.resched = TRUE, !.expired = TRUE] BY <1>1, <1>4, GoodSame DEF EeState
<1> QED BY <1>2, <1>3, <1>4

\* The program counter of a thread changes.
LEMMA SetPc ==
    ASSUME NEW e, Good(e), NEW t \in Threads, NEW c \in PCs, NEW r, r = [e EXCEPT !.pc[t] = c]
    PROVE  Good(r) /\ r.current = e.current
<1> DEFINE pc == [e.pc EXCEPT ![t] = c]
<1>1. e \in EeState BY DEF Good, Core
<1>2. pc \in [Threads -> PCs] /\ r = [e EXCEPT !.pc = pc] BY <1>1 DEF EeState
<1> HIDE DEF pc
<1>3. /\ r \in EeState /\ r.current = e.current
      /\ r.status = e.status /\ r.prio = e.prio /\ r.susp = e.susp /\ r.wake = e.wake
      /\ r.wait = e.wait /\ r.ready = e.ready /\ r.sema = e.sema /\ r.flag = e.flag
    BY <1>1, <1>2 DEF EeState
<1> QED BY <1>3, GoodSame

\* Leaving the guest at a checkpoint, for an event or the end of a slice, keeps the invariant.
LEMMA YieldSteps ==
    ASSUME IInv, YieldToEvents \/ TimeSliceExpires
    PROVE  IInv'
<1>1. PICK e : /\ Unwind(e)
               /\ \/ e = [ee EXCEPT !.check = TRUE]
                  \/ e = [ee EXCEPT !.resched = TRUE, !.expired = TRUE]
    BY DEF YieldToEvents, TimeSliceExpires
<1>2. Good(e) BY <1>1, YieldsGood DEF IInv
<1> QED BY <1>1, <1>2, UnwindStep

\* The action GuestReturns keeps the invariant.
LEMMA GuestReturnsStep ==
    ASSUME IInv, NEW c \in PCs, GuestReturns(c)
    PROVE  IInv'
<1> DEFINE e == [ee EXCEPT !.pc[running] = c]
<1>1. Good(ee) /\ running \in Threads /\ Unwind(e) BY DEF GuestReturns, IInv, PhaseOK
<1>2. Good(e) BY <1>1, SetPc
<1> HIDE DEF e
<1> QED BY <1>1, <1>2, UnwindStep

--------------------------------------------------------------------------------
(* Events *)

\* The action Deliver keeps the invariant.
LEMMA DeliverStep ==
    ASSUME IInv, NEW e, Good(e), NEW ks \in Seq(AsyncKinds), Deliver(e, ks)
    PROVE  IInv'
<1> DEFINE r == queueInvocation(e, ks)
<1>1. Good(r) BY QueueInvocation
<1>2. /\ ee' = r /\ UNCHANGED running /\ phase # "Guest" /\ phase' \in {"Loop", "Post"}
    BY DEF Deliver, Delivering
<1> HIDE DEF r
<1> QED BY <1>1, <1>2, LoopStep

\* The action VBlankStart keeps the invariant.
LEMMA VBlankStartStep ==
    ASSUME IInv, NEW callback \in BOOLEAN, NEW handler \in BOOLEAN,
           VBlankStart(callback, handler)
    PROVE  IInv'
<1> DEFINE e  == completeVSync(ee)
           gs == IF callback THEN <<"GsCallback">> ELSE <<>>
           hs == IF handler THEN <<"Interrupt">> ELSE <<>>
           ks == gs \o hs
<1>1. Deliver(e, ks) BY DEF VBlankStart
<1>2. ks \in Seq(AsyncKinds)
    <2>1. gs \in Seq(AsyncKinds)
        <3>1. "GsCallback" \in AsyncKinds BY DEF AsyncKinds
        <3> QED BY <3>1
    <2>2. hs \in Seq(AsyncKinds)
        <3>1. "Interrupt" \in AsyncKinds BY DEF AsyncKinds
        <3> QED BY <3>1
    <2> HIDE DEF gs, hs
    <2> QED BY <2>1, <2>2
<1>3. Good(e) BY CompleteVSyncGood DEF IInv
<1> HIDE DEF e, ks
<1> QED BY <1>1, <1>2, <1>3, DeliverStep

\* The action QueueHandler keeps the invariant.
LEMMA QueueHandlerStep ==
    ASSUME IInv, NEW k \in AsyncKinds, QueueHandler(k)
    PROVE  IInv'
<1> DEFINE ks == <<k>>
<1>1. Deliver(ee, ks) /\ ks \in Seq(AsyncKinds) BY DEF QueueHandler
<1> HIDE DEF ks
<1> QED BY <1>1, DeliverStep DEF IInv

\* The action ExternalWake keeps the invariant.
LEMMA ExternalWakeStep ==
    ASSUME IInv, NEW k \in Tokens, ExternalWake(k)
    PROVE  IInv'
<1> DEFINE e  == completeExternalWait(ee, k)
           ks == <<>>
<1>1. Deliver(e, ks) BY DEF ExternalWake
<1>2. ks \in Seq(AsyncKinds) OBVIOUS
<1>3. Good(e) BY CompleteExternalWaitGood DEF IInv
<1> HIDE DEF e, ks
<1> QED BY <1>1, <1>2, <1>3, DeliverStep

\* The action EventsDone keeps the invariant.
LEMMA EventsDoneStep ==
    ASSUME IInv, EventsDone
    PROVE  IInv'
<1> DEFINE m == [ee EXCEPT !.check = FALSE]
           r == applyPendingPreemption(m)
<1>1. Good(m) BY YieldsGood DEF IInv
<1>2. phase # "Guest" /\ ee' = r /\ UNCHANGED running
      /\ (\/ phase' = "Loop"
          \/ phase' = "Select" /\ r.current = NoThread
          \/ phase' = "Dispatch" /\ r.current # NoThread)
    BY DEF EventsDone
<1> HIDE DEF m
<1>3. Good(r)
    <2> DEFINE atTail == m.expired
    <2>1. m \in EeState BY <1>1 DEF Good, Core
    <2>2. atTail \in BOOLEAN BY <2>1 DEF EeState
    <2>3. r = m \/ r = preempt(m, atTail) BY DEF applyPendingPreemption
    <2> HIDE DEF atTail, r
    <2> QED BY <1>1, <2>2, <2>3, Preempt
<1> HIDE DEF r
<1> QED BY <1>2, <1>3, LoopStep

--------------------------------------------------------------------------------
(* The dispatch loop *)

\* A thread that was lifted out of every queue becomes the running one.
LEMMA MakeRunning ==
    ASSUME NEW e, Good(e), e.current = NoThread, NEW t \in Threads,
           NEW m, Core(m, {t}), m.status = e.status, m.wait[t].reason = "None",
           m.susp[t] = 0, NEW r, r = makeRunning(m, t)
    PROVE  Good(r) /\ r.current = t
<1>1. m \in EeState BY DEF Core
<1> DEFINE status == [m.status EXCEPT ![t] = "Running"]
<1>2. /\ status \in [Threads -> Statuses]
      /\ \A u \in Threads : status[u] = IF u = t THEN "Running" ELSE e.status[u]
    BY <1>1 DEF EeState, Statuses
<1>3. r = [m EXCEPT !.status = status, !.current = t, !.expired = FALSE]
    BY DEF makeRunning
<1> HIDE DEF status
<1>4. /\ r \in EeState /\ r.current = t /\ r.status = status
      /\ r.prio = m.prio /\ r.susp = m.susp /\ r.wake = m.wake
      /\ r.wait = m.wait /\ r.ready = m.ready /\ r.sema = m.sema /\ r.flag = m.flag
    BY <1>1, <1>2, <1>3 DEF EeState
<1>5. AgreeOutside(m, r, {t}) BY <1>2, <1>4 DEF AgreeOutside
<1>6. Core(r, {t}) BY <1>4, <1>5, CoreOwn
<1>7. ThreadOK(r, t) /\ Loose(r, t) BY <1>2, <1>4 DEF ThreadOK, Loose, BlockedStatuses
<1>8. Core(r, {}) BY <1>6, <1>7, CoreDrop
<1>9. RunOK(r)
    <2>1. \A u \in Threads : e.status[u] # "Running" BY ThreadsFacts DEF Good, RunOK
    <2> QED BY <1>2, <1>4, <2>1 DEF RunOK
<1> QED BY <1>4, <1>8, <1>9 DEF Good

\* r is e with t, the head of the queue of p, taken off.
Shortened(e, r, p, t) ==
    /\ r \in EeState /\ e.ready[p] # <<>> /\ t = Head(e.ready[p])
    /\ \A o \in Priorities : r.ready[o] = IF o = p THEN Tail(e.ready[p]) ELSE e.ready[o]
    /\ r.status = e.status /\ r.prio = e.prio /\ r.susp = e.susp /\ r.wake = e.wake
    /\ r.wait = e.wait /\ r.sema = e.sema /\ r.flag = e.flag

\* The head of a ready queue is taken off it.
LEMMA TakeHead ==
    ASSUME NEW e, Good(e), NEW p \in Priorities, NEW t, NEW r, Shortened(e, r, p, t)
    PROVE  /\ t \in Threads /\ Core(r, {t}) /\ r.status = e.status
           /\ r.wait[t].reason = "None" /\ r.susp[t] = 0
<1>1. e \in EeState /\ e.ready[p] \in Seq(Threads) BY DEF Good, Core, EeState
<1>2. \A o \in Priorities : /\ ToSet(e.ready[o]) = ReadyAt(e, Threads \ {}, o)
                            /\ IsInjective(e.ready[o])
    BY DEF Good, Core, QueuesOK
<1> DEFINE q == Tail(e.ready[p])
<1>3. /\ t \in Threads /\ t \in ToSet(e.ready[p])
      /\ q \in Seq(Threads) /\ ToSet(q) = ToSet(e.ready[p]) \ {t} /\ IsInjective(q)
    BY <1>1, <1>2, TailOf DEF Shortened
<1>4. \A o \in Priorities : r.ready[o] = IF o = p THEN q ELSE e.ready[o] BY DEF Shortened
<1> HIDE DEF q
<1>6. /\ r \in EeState
      /\ r.status = e.status /\ r.prio = e.prio /\ r.susp = e.susp /\ r.wake = e.wake
      /\ r.wait = e.wait /\ r.sema = e.sema /\ r.flag = e.flag
    BY DEF Shortened
<1>7. e.status[t] = "Ready" /\ e.prio[t] = p BY <1>2, <1>3 DEF ReadyAt
<1>8. ThreadOK(e, t) BY <1>3 DEF Good, Core
<1>9. ReadyLose(e, r, {t})
    <2> SUFFICES ASSUME NEW o \in Priorities
                 PROVE  /\ ToSet(r.ready[o]) = ToSet(e.ready[o]) \ {t}
                        /\ IsInjective(r.ready[o])
        BY DEF ReadyLose
    <2>1. o # p => t \notin ToSet(e.ready[o]) BY <1>2, <1>7 DEF ReadyAt
    <2> QED BY <1>2, <1>3, <1>4, <2>1
<1>10. SemasLose(e, r, {t})
    BY <1>6, <1>7 DEF Good, Core, WaitsOK, BlockedOn, Blocks, BlockedStatuses, SemasLose
<1>11. FlagsLose(e, r, {t})
    BY <1>6, <1>7 DEF Good, Core, WaitsOK, BlockedOn, Blocks, BlockedStatuses, FlagsLose
<1>12. AgreeOutside(e, r, {t}) /\ UnitsOK(r) BY <1>6 DEF AgreeOutside, Good, Core, UnitsOK
<1>13. Core(r, {t}) BY <1>6, <1>9, <1>10, <1>11, <1>12, CoreTake DEF Good
<1> QED BY <1>3, <1>6, <1>7, <1>8, <1>13 DEF ThreadOK, BlockedStatuses

\* The action SelectReady keeps the invariant.
LEMMA SelectReadyStep ==
    ASSUME IInv, SelectReady
    PROVE  IInv'
<1>1. PICK p \in Priorities :
          /\ FirstQueue(ee, p)
          /\ ToDispatch(makeRunning([ee EXCEPT !.ready[p] = Tail(@)], Head(ee.ready[p])))
    BY DEF SelectReady
<1>2. phase # "Guest" /\ ee.current = NoThread /\ Good(ee) BY DEF SelectReady, IInv, PhaseOK
<1> DEFINE q == Tail(ee.ready[p])
           queues == [ee.ready EXCEPT ![p] = q]
           m == [ee EXCEPT !.ready = queues]
           t == Head(ee.ready[p])
           r == makeRunning(m, t)
<1>3. ee' = r /\ phase' = "Dispatch" /\ UNCHANGED running BY <1>1 DEF ToDispatch
<1>4. ee \in EeState /\ ee.ready[p] # <<>> BY <1>1, <1>2 DEF FirstQueue, Good, Core
<1>5. q \in Seq(Threads) BY <1>4 DEF EeState
<1> HIDE DEF q
<1>6. /\ queues \in [Priorities -> Seq(Threads)]
      /\ \A o \in Priorities : queues[o] = IF o = p THEN q ELSE ee.ready[o]
    BY <1>4, <1>5 DEF EeState
<1> HIDE DEF queues
<1>7. /\ m \in EeState /\ m.ready = queues
      /\ m.status = ee.status /\ m.prio = ee.prio /\ m.susp = ee.susp /\ m.wake = ee.wake
      /\ m.wait = ee.wait /\ m.sema = ee.sema /\ m.flag = ee.flag
    BY <1>4, <1>6 DEF EeState
<1>8. Shortened(ee, m, p, t) BY <1>4, <1>6, <1>7 DEF Shortened, q
<1> HIDE DEF m, t
<1>9. /\ t \in Threads /\ Core(m, {t}) /\ m.status = ee.status
      /\ m.wait[t].reason = "None" /\ m.susp[t] = 0
    BY <1>2, <1>8, TakeHead
<1>10. Good(r) /\ r.current = t BY <1>2, <1>9, MakeRunning
<1>11. r.current # NoThread BY <1>9, <1>10, ThreadsFacts
<1> HIDE DEF r
<1> QED BY <1>2, <1>3, <1>10, <1>11, LoopStep

\* A step back to the top of the loop with a good record keeps the invariant.
LEMMA ToLoopStep ==
    ASSUME IInv, phase # "Guest", NEW e, Good(e), ToLoop(e)
    PROVE  IInv'
BY LoopStep DEF ToLoop

\* A step on to the dispatch, with a thread that runs, keeps the invariant.
LEMMA ToDispatchStep ==
    ASSUME IInv, phase # "Guest", NEW e, Good(e), e.current # NoThread, ToDispatch(e)
    PROVE  IInv'
BY LoopStep DEF ToDispatch

\* The action WaitForEvent keeps the invariant.
LEMMA WaitForEventStep ==
    ASSUME IInv, WaitForEvent
    PROVE  IInv'
BY DEF WaitForEvent, IInv, PhaseOK, Phases

\* A dormant thread becomes the running one without passing a ready queue.
LEMMA RunDormant ==
    ASSUME NEW e, Good(e), e.current = NoThread, NEW t \in Threads, e.status[t] = "Dormant",
           NEW m \in EeState, m.status = e.status, m.prio = e.prio, m.susp = e.susp,
           m.wake = e.wake, m.wait = e.wait, m.ready = e.ready, m.sema = e.sema,
           m.flag = e.flag, NEW r, r = makeRunning(m, t)
    PROVE  Good(r) /\ r.current = t
<1>1. ThreadOK(e, t) BY DEF Good, Core
<1>2. Loose(e, t) /\ e.wait[t].reason = "None" /\ e.susp[t] = 0
    BY <1>1 DEF ThreadOK, Loose, BlockedStatuses
<1>3. Core(e, {t}) BY <1>2, CoreLift DEF Good
<1>4. Core(m, {t}) BY <1>3, CoreSame
<1> QED BY <1>2, <1>4, MakeRunning

\* The action AcquireInvocationThread keeps the invariant.
LEMMA AcquireInvocationThreadStep ==
    ASSUME IInv, NEW t \in IdleThreads, AcquireInvocationThread(t)
    PROVE  IInv'
<1> DEFINE d == IF Exists(ee, t) THEN ee ELSE createThread(ee, t, 0)
           e == [d EXCEPT !.pc[t] = "End"]
           k == Head(ee.pending)
           m == [e EXCEPT !.pending = Tail(@)]
           n == makeRunning(m, t)
           r == pushInvocation(n, t, k)
<1>1. /\ Good(ee) /\ ee.current = NoThread /\ phase # "Guest" /\ t \in Threads
      /\ ee \in EeState /\ ee.pending # <<>>
    BY ThreadsFacts DEF AcquireInvocationThread, IInv, PhaseOK, Good, Core
<1>2. ToDispatch(r) BY DEF AcquireInvocationThread
<1>3. k \in Kinds
    <2>1. ee.pending \in Seq(AsyncKinds) BY <1>1 DEF EeState
    <2>2. k \in AsyncKinds BY <1>1, <2>1
    <2> QED BY <2>2 DEF Kinds
<1>4. /\ Good(d) /\ d.current = NoThread /\ d.status[t] = "Dormant"
      /\ d.pending = ee.pending
    <2>1. CASE Exists(ee, t) BY <1>1, <2>1 DEF AcquireInvocationThread, Exists
    <2>2. CASE ~Exists(ee, t)
        <3> DEFINE zero == 0
        <3>1. zero \in Priorities BY ConstantsAssumption DEF Priorities
        <3>2. d = createThread(ee, t, zero) BY <2>2
        <3> HIDE DEF d, zero
        <3> QED BY <1>1, <2>2, <3>1, <3>2, CreateThreadGood
    <2> QED BY <2>1, <2>2
<1> HIDE DEF d, k
<1>5. "End" \in PCs BY DEF PCs
<1>6. Good(e) /\ e.current = NoThread BY <1>1, <1>4, <1>5, SetPc
<1>7. e.status = d.status /\ e.pending = ee.pending
    <2>1. d \in EeState BY <1>4 DEF Good, Core
    <2> QED BY <1>4, <2>1 DEF EeState
<1>8. e \in EeState BY <1>6 DEF Good, Core
<1> HIDE DEF e
<1>9. /\ m \in EeState /\ m.status = e.status /\ m.prio = e.prio /\ m.susp = e.susp
      /\ m.wake = e.wake /\ m.wait = e.wait /\ m.ready = e.ready /\ m.sema = e.sema
      /\ m.flag = e.flag
    <2> DEFINE rest == Tail(e.pending)
    <2>1. e.pending \in Seq(AsyncKinds) BY <1>8 DEF EeState
    <2>2. rest \in Seq(AsyncKinds) BY <1>1, <1>7, <2>1
    <2>3. m = [e EXCEPT !.pending = rest] OBVIOUS
    <2> HIDE DEF m, rest
    <2> QED BY <1>8, <2>2, <2>3 DEF EeState
<1> HIDE DEF m
<1>10. Good(n) /\ n.current = t BY <1>1, <1>4, <1>6, <1>7, <1>9, RunDormant
<1> HIDE DEF n
<1>11. Good(r) /\ r.current = t BY <1>1, <1>3, <1>10, PushInvocation
<1>12. r.current # NoThread BY <1>1, <1>11, ThreadsFacts
<1> HIDE DEF r
<1> QED BY <1>1, <1>2, <1>11, <1>12, ToDispatchStep

\* What every step of the dispatch phase finds.
LEMMA Dispatching ==
    ASSUME IInv, phase = "Dispatch"
    PROVE  /\ Good(ee) /\ ee \in EeState /\ ee.current # NoThread /\ ee.current \in Threads
           /\ phase # "Guest"
BY DEF IInv, PhaseOK, Good, Core, EeState

\* The completion of a wait is taken.
LEMMA ClearResume ==
    ASSUME NEW e, Good(e), NEW t \in Threads, NEW r, r = [e EXCEPT !.resume[t] = FALSE]
    PROVE  Good(r) /\ r.current = e.current
<1> DEFINE resume == [e.resume EXCEPT ![t] = FALSE]
<1>1. e \in EeState BY DEF Good, Core
<1>2. resume \in [Threads -> BOOLEAN] /\ r = [e EXCEPT !.resume = resume]
    BY <1>1 DEF EeState
<1> HIDE DEF resume
<1>3. /\ r \in EeState /\ r.current = e.current
      /\ r.status = e.status /\ r.prio = e.prio /\ r.susp = e.susp /\ r.wake = e.wake
      /\ r.wait = e.wait /\ r.ready = e.ready /\ r.sema = e.sema /\ r.flag = e.flag
    BY <1>1, <1>2 DEF EeState
<1> QED BY <1>3, GoodSame

\* The action RunCompletion keeps the invariant.
LEMMA RunCompletionStep ==
    ASSUME IInv, NEW w, w # NoWait => w \in Wait /\ w.reason \in {"VSync", "External"},
           RunCompletion(w)
    PROVE  IInv'
<1> DEFINE e == [ee EXCEPT !.resume[ee.current] = FALSE]
<1>1. /\ Good(ee) /\ ee.current # NoThread /\ ee.current \in Threads /\ phase # "Guest"
      /\ IF w = NoWait THEN ToDispatch(e) ELSE ToLoop(blockCurrent(e, w))
    BY Dispatching DEF RunCompletion
<1>2. Good(e) /\ e.current = ee.current BY <1>1, ClearResume
<1> HIDE DEF e
<1>3. CASE w = NoWait
    <2>1. ToDispatch(e) BY <1>1, <1>3
    <2> QED BY <1>1, <1>2, <2>1, ToDispatchStep
<1>4. CASE w # NoWait
    <2> DEFINE r == blockCurrent(e, w)
    <2>1. ToLoop(r) BY <1>1, <1>4
    <2>2. WaitFits(e, e.current, w) BY <1>4 DEF WaitFits
    <2>3. Good(r) BY <1>1, <1>2, <1>4, <2>2, BlockAlone
    <2> HIDE DEF r
    <2> QED BY <1>1, <2>1, <2>3, ToLoopStep
<1> QED BY <1>3, <1>4

\* The action InvocationCompletes keeps the invariant.
LEMMA InvocationCompletesStep ==
    ASSUME IInv, InvocationCompletes
    PROVE  IInv'
<1> DEFINE k == Last(ee.inv[ee.current]).kind
           e == popInvocation(ee, ee.current)
           delete == k = "ExitDelete"
<1>1. /\ Good(ee) /\ ee.current # NoThread /\ ee.current \in Threads /\ phase # "Guest"
      /\ ee.inv[ee.current] # <<>>
    BY Dispatching DEF InvocationCompletes, CanDispatch
<1>2. Good(e) /\ e.current = ee.current BY <1>1, PopInvocation
<1>3. ToLoop(e) \/ ToLoop(exitCurrent(e, delete))
    BY DEF InvocationCompletes
<1>4. delete \in BOOLEAN OBVIOUS
<1> HIDE DEF e, delete
<1>5. CASE ToLoop(e) BY <1>1, <1>2, <1>5, ToLoopStep
<1>6. CASE ToLoop(exitCurrent(e, delete))
    <2> DEFINE r == exitCurrent(e, delete)
    <2>1. Good(r) BY <1>1, <1>2, <1>4, ExitCurrentGood
    <2>2. ToLoop(r) BY <1>6
    <2> HIDE DEF r
    <2> QED BY <1>1, <2>1, <2>2, ToLoopStep
<1> QED BY <1>3, <1>5, <1>6

\* The current thread becomes dormant and nobody runs.
LEMMA EndCurrent ==
    ASSUME NEW e, Good(e), e.current # NoThread,
           NEW r, r = [makeDormant(e, e.current) EXCEPT !.current = NoThread]
    PROVE  Good(r)
<1> DEFINE delete == FALSE
<1>1. r = exitCurrent(e, delete) /\ delete \in BOOLEAN BY DEF exitCurrent
<1> HIDE DEF delete
<1> QED BY <1>1, ExitCurrentGood

\* The action ThreadEnds keeps the invariant.
LEMMA ThreadEndsStep ==
    ASSUME IInv, ThreadEnds
    PROVE  IInv'
<1> DEFINE r == [makeDormant(ee, ee.current) EXCEPT !.current = NoThread]
<1>1. /\ Good(ee) /\ ee.current # NoThread /\ phase # "Guest" /\ ToLoop(r)
    BY Dispatching DEF ThreadEnds, CanDispatch
<1>2. Good(r) BY <1>1, EndCurrent
<1> HIDE DEF r
<1> QED BY <1>1, <1>2, ToLoopStep

\* The action StartInvocation keeps the invariant.
LEMMA StartInvocationStep ==
    ASSUME IInv, StartInvocation
    PROVE  IInv'
<1> DEFINE rest == Tail(ee.pending)
           k == Head(ee.pending)
           m == [ee EXCEPT !.pending = rest]
           r == pushInvocation(m, ee.current, k)
<1>1. /\ Good(ee) /\ ee \in EeState /\ ee.current # NoThread /\ ee.current \in Threads
      /\ phase # "Guest" /\ ee.pending # <<>> /\ ToLoop(r)
    BY Dispatching DEF StartInvocation
<1>2. ee.pending \in Seq(AsyncKinds) BY <1>1 DEF EeState
<1>3. rest \in Seq(AsyncKinds) /\ k \in AsyncKinds BY <1>1, <1>2
<1> HIDE DEF rest, k
<1>4. k \in Kinds BY <1>3 DEF Kinds
<1>5. /\ m \in EeState /\ m.current = ee.current
      /\ m.status = ee.status /\ m.prio = ee.prio /\ m.susp = ee.susp /\ m.wake = ee.wake
      /\ m.wait = ee.wait /\ m.ready = ee.ready /\ m.sema = ee.sema /\ m.flag = ee.flag
    BY <1>1, <1>3 DEF EeState
<1> HIDE DEF m
<1>6. Good(m) BY <1>1, <1>5, GoodSame
<1>7. Good(r) BY <1>1, <1>4, <1>6, PushInvocation
<1> HIDE DEF r
<1> QED BY <1>1, <1>7, ToLoopStep

\* The action MissingFunction keeps the invariant.
LEMMA MissingFunctionStep ==
    ASSUME IInv, MissingFunction
    PROVE  IInv'
<1>1. /\ Good(ee) /\ ee.current # NoThread /\ ee.current \in Threads /\ phase # "Guest"
    BY Dispatching DEF MissingFunction, CanDispatch
<1> DEFINE e == [ee EXCEPT !.pc[ee.current] = "End"]
           r == [makeDormant(ee, ee.current) EXCEPT !.current = NoThread]
<1>2. ToLoop(e) \/ ToLoop(r) BY DEF MissingFunction
<1>3. "End" \in PCs BY DEF PCs
<1>4. Good(e) BY <1>1, <1>3, SetPc
<1>5. Good(r) BY <1>1, EndCurrent
<1> HIDE DEF e, r
<1> QED BY <1>1, <1>2, <1>4, <1>5, ToLoopStep

\* The action DispatchYields keeps the invariant.
LEMMA DispatchYieldsStep ==
    ASSUME IInv, NEW expires \in BOOLEAN, DispatchYields(expires)
    PROVE  IInv'
<1>1. Good(ee) /\ phase # "Guest" BY Dispatching DEF DispatchYields, CanDispatch
<1>2. PICK e : /\ ToLoop(e)
               /\ \/ e = [ee EXCEPT !.check = TRUE]
                  \/ e = [ee EXCEPT !.resched = TRUE, !.expired = TRUE]
    BY DEF DispatchYields
<1>3. Good(e) BY <1>1, <1>2, YieldsGood
<1> QED BY <1>1, <1>2, <1>3, ToLoopStep

\* The action EnterGuest keeps the invariant.
LEMMA EnterGuestStep ==
    ASSUME IInv, EnterGuest
    PROVE  IInv'
<1>1. /\ Good(ee) /\ ee \in EeState /\ ee.current # NoThread /\ ee.current \in Threads
    BY Dispatching DEF EnterGuest, CanDispatch
<1> DEFINE inIntr == /\ ee.inv[ee.current] # <<>>
                     /\ Last(ee.inv[ee.current]).kind = "Interrupt"
           r == [ee EXCEPT !.inIntr = inIntr]
<1>2. inIntr \in BOOLEAN OBVIOUS
<1>3. ee' = r /\ phase' = "Guest" /\ running' = ee.current BY DEF EnterGuest
<1> HIDE DEF inIntr
<1>4. /\ r \in EeState /\ r.current = ee.current
      /\ r.status = ee.status /\ r.prio = ee.prio /\ r.susp = ee.susp /\ r.wake = ee.wake
      /\ r.wait = ee.wait /\ r.ready = ee.ready /\ r.sema = ee.sema /\ r.flag = ee.flag
    BY <1>1, <1>2 DEF EeState
<1>5. Good(r) BY <1>1, <1>4, GoodSame
<1> HIDE DEF r
<1> QED BY <1>1, <1>3, <1>5 DEF IInv, PhaseOK, Phases

--------------------------------------------------------------------------------
(* The theorems *)

\* reset() establishes the invariant.
LEMMA InitIInv ==
    ASSUME Init
    PROVE  IInv
<1>1. /\ phase = "Loop" /\ running = NoThread /\ ee.current = NoThread
      /\ ee.status = [t \in Threads |-> IF t = Main THEN "Ready" ELSE "Absent"]
      /\ ee.prio = [t \in Threads |-> 0] /\ ee.susp = [t \in Threads |-> 0]
      /\ ee.wake = [t \in Threads |-> 0] /\ ee.wait = [t \in Threads |-> NoWait]
      /\ ee.ready = [p \in Priorities |-> IF p = 0 THEN <<Main>> ELSE <<>>]
      /\ ee.sema = [s \in Semas |-> NoSema] /\ ee.flag = [f \in Flags |-> NoFlag]
    BY DEF Init
<1>2. ee \in EeState
    <2> DEFINE status == [t \in Threads |-> IF t = Main THEN "Ready" ELSE "Absent"]
               zero   == [t \in Threads |-> 0]
               wait   == [t \in Threads |-> NoWait]
               resume == [t \in Threads |-> FALSE]
               inv    == [t \in Threads |-> <<>>]
               pc     == [t \in Threads |-> "Code"]
               ready  == [p \in Priorities |-> IF p = 0 THEN <<Main>> ELSE <<>>]
               sema   == [s \in Semas |-> NoSema]
               flag   == [f \in Flags |-> NoFlag]
               none   == <<>>
    <2>1. status \in [Threads -> Statuses] BY DEF Statuses
    <2>2. zero \in [Threads -> Priorities] BY ConstantsAssumption DEF Priorities
    <2>3. zero \in [Threads -> Nat] OBVIOUS
    <2>4. wait \in [Threads -> Wait] BY NoWaitType
    <2>5. resume \in [Threads -> BOOLEAN] OBVIOUS
    <2>6. inv \in [Threads -> Seq(Invocation)] OBVIOUS
    <2>7. pc \in [Threads -> PCs] BY DEF PCs
    <2>8. ready \in [Priorities -> Seq(Threads)] BY ThreadsFacts
    <2>9. sema \in [Semas -> Semaphore] BY DEF NoSema, Semaphore
    <2>10. flag \in [Flags -> EventFlag] BY DEF NoFlag, EventFlag
    <2>11. none \in Seq(AsyncKinds) OBVIOUS
    <2>12. ee = [status |-> status, prio |-> zero, susp |-> zero, wake |-> zero,
                 wait |-> wait, resume |-> resume, inv |-> inv, pc |-> pc,
                 ready |-> ready, current |-> NoThread, sema |-> sema, flag |-> flag,
                 pending |-> none, resched |-> FALSE, expired |-> FALSE,
                 check |-> FALSE, inIntr |-> FALSE]
        BY DEF Init
    <2> HIDE DEF status, zero, wait, resume, inv, pc, ready, sema, flag, none
    <2> QED BY <2>1, <2>2, <2>3, <2>4, <2>5, <2>6, <2>7, <2>8, <2>9, <2>10, <2>11, <2>12
        DEF EeState
<1>3. QueuesOK(ee, {})
    <2> SUFFICES ASSUME NEW p \in Priorities
                 PROVE  /\ ToSet(ee.ready[p]) = ReadyAt(ee, Threads \ {}, p)
                        /\ IsInjective(ee.ready[p])
        BY DEF QueuesOK
    <2>1. CASE p = 0
        <3>1. ee.ready[p] = <<Main>> BY <1>1, <2>1
        <3>2. ReadyAt(ee, Threads \ {}, p) = {Main} BY <1>1, <2>1, ThreadsFacts DEF ReadyAt
        <3> QED BY <3>1, <3>2 DEF ToSet, IsInjective
    <2>2. CASE p # 0
        <3>1. ee.ready[p] = <<>> BY <1>1, <2>2
        <3>2. ReadyAt(ee, Threads \ {}, p) = {} BY <1>1, <2>2 DEF ReadyAt
        <3> QED BY <3>1, <3>2 DEF ToSet, IsInjective
    <2> QED BY <2>1, <2>2
<1>4. /\ \A s \in Semas : ee.sema[s].waiters = <<>>
      /\ \A f \in Flags : ee.flag[f].waiters = <<>>
    BY <1>1 DEF NoSema, NoFlag
<1>5. \A t \in Threads : ee.status[t] \notin BlockedStatuses BY <1>1 DEF BlockedStatuses
<1>6. WaitsOK(ee, {}) /\ UnitsOK(ee)
    <2>1. \A reason, obj : BlockedOn(ee, Threads \ {}, reason, obj) = {}
        BY <1>5 DEF BlockedOn, Blocks
    <2> QED BY <1>4, <2>1 DEF WaitsOK, UnitsOK, ToSet, IsInjective
<1>7. \A t \in Threads : ThreadOK(ee, t)
    BY <1>1, <1>5 DEF ThreadOK, NoWait
<1>8. RunOK(ee) BY <1>1, ThreadsFacts DEF RunOK
<1> QED BY <1>1, <1>2, <1>3, <1>6, <1>7, <1>8 DEF IInv, PhaseOK, Phases, Good, Core

\* Every kernel call keeps the invariant.
LEMMA KernelCallStep ==
    ASSUME ~DetachedCalls, IInv, KernelCall
    PROVE  IInv'
<1>1. Targets \subseteq Threads BY DEF Targets, Threads
<1>2. CASE \E t \in UserThreads, p \in Priorities : CreateThread(t, p)
    BY <1>2, CreateThreadStep
<1>3. CASE \E t \in Targets : \/ DeleteThread(t) \/ StartThread(t) \/ TerminateThread(t)
                              \/ SuspendThread(t) \/ ResumeThread(t) \/ CancelWakeupThread(t)
    <2> PICK t \in Threads : \/ DeleteThread(t) \/ StartThread(t) \/ TerminateThread(t)
                             \/ SuspendThread(t) \/ ResumeThread(t) \/ CancelWakeupThread(t)
        BY <1>1, <1>3
    <2>1. CASE DeleteThread(t) BY <2>1, DeleteThreadStep
    <2>2. CASE StartThread(t) BY <2>2, StartThreadStep
    <2>3. CASE TerminateThread(t) BY <2>3, TerminateThreadStep
    <2>4. CASE SuspendThread(t) BY <2>4, SuspendThreadStep
    <2>5. CASE ResumeThread(t) BY <2>5, ResumeThreadStep
    <2>6. CASE CancelWakeupThread(t) BY <2>6, CancelWakeupThreadStep
    <2> QED BY <2>1, <2>2, <2>3, <2>4, <2>5, <2>6
<1>4. CASE \E delete, handlers \in BOOLEAN : ExitThread(delete, handlers)
    BY <1>4, ExitThreadStep
<1>5. CASE SleepThread BY <1>5, SleepThreadStep
<1>6. CASE \E t \in Targets, safe \in BOOLEAN : WakeupThread(t, safe) \/ ReleaseWaitThread(t, safe)
    BY <1>1, <1>6, WakeupThreadStep, ReleaseWaitThreadStep
<1>7. CASE \E t \in Targets \cup {NoThread}, p \in Priorities, safe \in BOOLEAN :
               ChangeThreadPriority(t, p, safe)
    BY <1>1, <1>7, ChangeThreadPriorityStep
<1>8. CASE \E p \in Priorities, safe \in BOOLEAN : RotateThreadReadyQueue(p, safe)
    BY <1>8, RotateThreadReadyQueueStep
<1>9. CASE \E s \in Semas :
               \/ \E init \in 0 .. MaxSema, max \in 1 .. MaxSema : CreateSema(s, init, max)
               \/ \E safe \in BOOLEAN : DeleteSema(s, safe) \/ SignalSema(s, safe)
               \/ PollSema(s) \/ WaitSema(s)
    <2> PICK s \in Semas :
               \/ \E init \in 0 .. MaxSema, max \in 1 .. MaxSema : CreateSema(s, init, max)
               \/ \E safe \in BOOLEAN : DeleteSema(s, safe) \/ SignalSema(s, safe)
               \/ PollSema(s) \/ WaitSema(s)
        BY <1>9
    <2>1. CASE \E init \in 0 .. MaxSema, max \in 1 .. MaxSema : CreateSema(s, init, max)
        <3>1. 0 .. MaxSema \subseteq Nat /\ 1 .. MaxSema \subseteq Nat OBVIOUS
        <3> QED BY <2>1, <3>1, CreateSemaStep
    <2>2. CASE \E safe \in BOOLEAN : DeleteSema(s, safe) \/ SignalSema(s, safe)
        BY <2>2, DeleteSemaStep, SignalSemaStep
    <2>3. CASE PollSema(s) BY <2>3, PollSemaStep
    <2>4. CASE WaitSema(s) BY <2>4, WaitSemaStep
    <2> QED BY <2>1, <2>2, <2>3, <2>4
<1>10. CASE \E f \in Flags, bits \in SUBSET Bits :
               \/ \E multi \in BOOLEAN : CreateEventFlag(f, bits, multi)
               \/ \E safe \in BOOLEAN : DeleteEventFlag(f, safe) \/ SetEventFlag(f, bits, safe)
               \/ ClearEventFlag(f, bits)
               \/ \E mode \in SUBSET WaitModes :
                      PollEventFlag(f, bits, mode) \/ WaitEventFlag(f, bits, mode)
    <2> PICK f \in Flags, bits \in SUBSET Bits :
               \/ \E multi \in BOOLEAN : CreateEventFlag(f, bits, multi)
               \/ \E safe \in BOOLEAN : DeleteEventFlag(f, safe) \/ SetEventFlag(f, bits, safe)
               \/ ClearEventFlag(f, bits)
               \/ \E mode \in SUBSET WaitModes :
                      PollEventFlag(f, bits, mode) \/ WaitEventFlag(f, bits, mode)
        BY <1>10
    <2>1. CASE \E multi \in BOOLEAN : CreateEventFlag(f, bits, multi)
        BY <2>1, CreateEventFlagStep
    <2>2. CASE \E safe \in BOOLEAN : DeleteEventFlag(f, safe) \/ SetEventFlag(f, bits, safe)
        BY <2>2, DeleteEventFlagStep, SetEventFlagStep
    <2>3. CASE ClearEventFlag(f, bits) BY <2>3, ClearEventFlagStep
    <2>4. CASE \E mode \in SUBSET WaitModes :
                   PollEventFlag(f, bits, mode) \/ WaitEventFlag(f, bits, mode)
        BY <2>4, PollEventFlagStep, WaitEventFlagStep
    <2> QED BY <2>1, <2>2, <2>3, <2>4
<1>11. CASE \E completion \in BOOLEAN :
               \/ \E n \in 1 .. MaxTicks : WaitVSync(n, completion)
               \/ \E k \in Tokens : WaitExternal(k, completion)
    BY <1>11, WaitVSyncStep, WaitExternalStep
<1>12. CASE \E k \in Tokens : CompleteExternalWait(k) BY <1>12, CompleteExternalWaitStep
<1>13. CASE \E k \in CallKinds : InvokeCurrent(k) BY <1>13, InvokeCurrentStep
<1> QED BY <1>2, <1>3, <1>4, <1>5, <1>6, <1>7, <1>8, <1>9, <1>10, <1>11, <1>12, <1>13
    DEF KernelCall

\* Every step of guest code keeps the invariant.
LEMMA GuestStepStep ==
    ASSUME ~DetachedCalls, IInv, GuestStep
    PROVE  IInv'
<1>1. \A k : QueueFromGuest(k) => k \in AsyncKinds BY DEF QueueFromGuest, AsyncKinds
<1> QED BY <1>1, KernelCallStep, QueueFromGuestStep, YieldSteps, GuestReturnsStep DEF GuestStep

\* Every event keeps the invariant.
LEMMA EventStep ==
    ASSUME IInv, Event
    PROVE  IInv'
BY VBlankStartStep, QueueHandlerStep, ExternalWakeStep DEF Event

\* Every step of the loop keeps the invariant.
LEMMA DispatchStepStep ==
    ASSUME IInv, DispatchStep
    PROVE  IInv'
<1>1. CASE EventsDone BY <1>1, EventsDoneStep
<1>2. CASE SelectReady BY <1>2, SelectReadyStep
<1>3. CASE \E t \in IdleThreads : AcquireInvocationThread(t)
    BY <1>3, AcquireInvocationThreadStep
<1>4. CASE WaitForEvent BY <1>4, WaitForEventStep
<1>5. CASE RunCompletion(NoWait) BY <1>5, RunCompletionStep
<1>6. CASE \E n \in 1 .. MaxTicks : RunCompletion(VSyncWait(n, TRUE))
    <2>1. PICK n \in 1 .. MaxTicks : RunCompletion(VSyncWait(n, TRUE)) BY <1>6
    <2> DEFINE yes == TRUE
               w == VSyncWait(n, yes)
    <2>2. RunCompletion(w) /\ yes \in BOOLEAN BY <2>1
    <2> HIDE DEF yes
    <2>3. w \in Wait /\ w.reason = "VSync" BY <2>2, VSyncWaitType
    <2> HIDE DEF w
    <2> QED BY <2>2, <2>3, RunCompletionStep
<1>7. CASE \E k \in Tokens : RunCompletion(ExternalWait(k, TRUE))
    <2>1. PICK k \in Tokens : RunCompletion(ExternalWait(k, TRUE)) BY <1>7
    <2> DEFINE yes == TRUE
               w == ExternalWait(k, yes)
    <2>2. RunCompletion(w) /\ yes \in BOOLEAN BY <2>1
    <2> HIDE DEF yes
    <2>3. w \in Wait /\ w.reason = "External" BY <2>2, ExternalWaitType
    <2> HIDE DEF w
    <2> QED BY <2>2, <2>3, RunCompletionStep
<1>8. CASE InvocationCompletes BY <1>8, InvocationCompletesStep
<1>9. CASE ThreadEnds BY <1>9, ThreadEndsStep
<1>10. CASE StartInvocation BY <1>10, StartInvocationStep
<1>11. CASE MissingFunction BY <1>11, MissingFunctionStep
<1>12. CASE \E expires \in BOOLEAN : DispatchYields(expires) BY <1>12, DispatchYieldsStep
<1>13. CASE EnterGuest BY <1>13, EnterGuestStep
<1> QED BY <1>1, <1>2, <1>3, <1>4, <1>5, <1>6, <1>7, <1>8, <1>9, <1>10, <1>11, <1>12, <1>13
    DEF DispatchStep

\* Every step of the specification keeps the invariant.
LEMMA NextIInv ==
    ASSUME ~DetachedCalls, IInv, [Next]_vars
    PROVE  IInv'
<1>1. CASE Next BY <1>1, GuestStepStep, EventStep, DispatchStepStep DEF Next
<1>2. CASE UNCHANGED vars BY <1>2 DEF vars, IInv, PhaseOK
<1> QED BY <1>1, <1>2

\* The inductive invariant holds in every state of every program whose guest
\* code does not call the kernel once it is detached.
THEOREM Inductive == ASSUME ~DetachedCalls PROVE Spec => []IInv
<1>1. Init => IInv BY InitIInv
<1>2. IInv /\ [Next]_vars => IInv' BY NextIInv
<1> QED BY <1>1, <1>2, PTL DEF Spec

\* Every member keeps its type, and a guest function is on the executor's stack
\* exactly while the executor is in guest code.
THEOREM TypeCorrect == ASSUME ~DetachedCalls PROVE Spec => []TypeOK
<1>1. IInv => TypeOK BY DEF IInv, PhaseOK, TypeOK, Good, Core
<1> QED BY <1>1, Inductive, PTL

\* Exactly the thread m_currentThreadId names has status Running, whatever
\* mixture of blocking, preemption, rotation and nested invocations led here.
THEOREM RunningIsCurrentHolds == ASSUME ~DetachedCalls PROVE Spec => []RunningIsCurrent
<1>1. IInv => RunningIsCurrent BY DEF IInv, RunningIsCurrent, Good, RunOK
<1> QED BY <1>1, Inductive, PTL

\* The ready queues list the Ready threads, each once and under its current
\* priority (enqueueReady, removeReady, changePriority, makeDormant).
THEOREM ReadyQueuesExactHolds == ASSUME ~DetachedCalls PROVE Spec => []ReadyQueuesExact
<1>1. IInv => ReadyQueuesExact
    BY DEF IInv, ReadyQueuesExact, Good, Core, QueuesOK, ReadyAt
<1> QED BY <1>1, Inductive, PTL

\* The waiter queues of semaphores and event flags list the threads whose wait
\* names them, each once, however earlier waits ended (removeFromWaitObject).
THEOREM WaitersExactHolds == ASSUME ~DetachedCalls PROVE Spec => []WaitersExact
<1>1. IInv => WaitersExact
    BY DEF IInv, WaitersExact, Blocked, Good, Core, WaitsOK, BlockedOn, Blocks, ThreadOK
<1> QED BY <1>1, Inductive, PTL

\* A semaphore with waiters counts 0: signalSemaphore hands the unit over.
THEOREM NoIdleUnitsHolds == ASSUME ~DetachedCalls PROVE Spec => []NoIdleUnits
<1>1. IInv => NoIdleUnits BY DEF IInv, NoIdleUnits, Good, Core, UnitsOK
<1> QED BY <1>1, Inductive, PTL

\* A thread has an open suspension exactly when its status says so: no wakeup,
\* signal, release or deletion lets a suspended thread run.
THEOREM SuspendAgreesHolds == ASSUME ~DetachedCalls PROVE Spec => []SuspendAgrees
<1>1. IInv => SuspendAgrees BY DEF IInv, SuspendAgrees, Good, Core, ThreadOK
<1> QED BY <1>1, Inductive, PTL

\* A sleeping thread has no stored wakeup (sleepCurrent, wakeupThread).
THEOREM SleepersHaveNoWakeupsHolds ==
    ASSUME ~DetachedCalls PROVE Spec => []SleepersHaveNoWakeups
<1>1. IInv => SleepersHaveNoWakeups
    BY DEF IInv, SleepersHaveNoWakeups, Good, Core, ThreadOK
<1> QED BY <1>1, Inductive, PTL

--------------------------------------------------------------------------------
(* Turns, completions and handlers *)

\* The guest code that runs belongs to a thread whose completion has run, and no
\* handler waits for it unnoticed.
GuestSide ==
    phase = "Guest" =>
        /\ ~ee.resume[running]
        /\ ee.inv[running] = <<>> /\ ee.pending # <<>> => ee.check

Sided == Side(ee) /\ GuestSide

\* The step of TurnLostOnlyToSlice.
TurnKept ==
    \A t \in Threads : ee.current = t /\ ee'.status[t] = "Ready" =>
        ee.expired \/ Head(ee'.ready[ee'.prio[t]]) = t

Orderly == Sided' /\ TurnKept

\* A thread that is still the current one, or did not become ready, has not lost
\* its turn.
LEMMA KeepsTurn ==
    ASSUME NEW e, Good(e), Keeps(ee, e), NEW r, r = ee', r.status = e.status
    PROVE  TurnKept
<1> SUFFICES ASSUME NEW t \in Threads, ee.current = t, e.status[t] = "Ready"
             PROVE  FALSE
    BY DEF TurnKept
<1>1. e.current = t BY DEF Keeps
<1> QED BY <1>1 DEF Good, RunOK

\* A call that returns to the guest keeps the turns in order,
LEMMA ReturnSide ==
    ASSUME IInv, Sided, phase = "Guest", ee.current = running, NEW e, Good(e), Side(e),
           Mild(ee, e), Return(e)
    PROVE  Sided' /\ (Keeps(ee, e) => TurnKept)
<1>1. ee' = e /\ phase' = phase /\ running' = running BY DEF Return
<1>2. running \in Threads /\ ee.status[running] = "Running"
    BY DEF IInv, PhaseOK, Good, RunOK
<1>3. Moved(ee, e, running) /\ e.pending = ee.pending /\ (ee.check => e.check)
    BY <1>2 DEF Mild
<1>4. ~e.resume[running] /\ e.inv[running] = ee.inv[running]
    BY <1>2, <1>3 DEF Moved, Sided, GuestSide, BlockedStatuses
<1>5. Sided' BY <1>1, <1>3, <1>4 DEF Sided, GuestSide
<1>6. Keeps(ee, e) => TurnKept BY <1>1, KeepsTurn
<1> QED BY <1>5, <1>6

\* so does one that unwinds to the loop,
LEMMA UnwindSide ==
    ASSUME NEW e, Good(e), Side(e), Unwind(e)
    PROVE  /\ Sided' /\ (Keeps(ee, e) => TurnKept)
           /\ ee'.status = e.status /\ ee'.ready = e.ready /\ ee'.prio = e.prio
<1> DEFINE r == [e EXCEPT !.inIntr = FALSE]
<1>1. e \in EeState BY DEF Good, Core
<1>2. ee' = r /\ phase' = "Post" BY DEF Unwind
<1>3. /\ r.status = e.status /\ r.current = e.current /\ r.ready = e.ready
      /\ r.resume = e.resume /\ r.inv = e.inv /\ r.wait = e.wait /\ r.flag = e.flag
      /\ r.prio = e.prio /\ r.resched = e.resched
    BY <1>1 DEF EeState
<1> HIDE DEF r
<1>4. Settled(e, r) /\ Urgent(r) BY <1>3 DEF Settled, Urgent, Side
<1>5. Side(r) BY <1>4, SettledSide
<1>6. Keeps(ee, e) => TurnKept BY <1>2, <1>3, KeepsTurn
<1> QED BY <1>2, <1>3, <1>5, <1>6 DEF Sided, GuestSide

\* and so does one that ends in transferIfRequested(): the caller goes to the head
\* of its queue.
LEMMA TransferSide ==
    ASSUME IInv, Sided, phase = "Guest", ee.current = running, NEW e, Good(e), Side(e),
           Mild(ee, e), NEW safe \in BOOLEAN, transferIfRequested(e, safe)
    PROVE  Sided' /\ (Keeps(ee, e) => TurnKept)
<1>1. CASE Return(e) BY <1>1, ReturnSide
<1>2. CASE Unwind(preempt(e, FALSE))
    <2> DEFINE no == FALSE
               r  == preempt(e, no)
    <2>1. no \in BOOLEAN /\ Unwind(r) BY <1>2
    <2>2. Good(r) BY Preempt
    <2>3. /\ Side(r) /\ (e.current = NoThread => r.status = e.status)
          /\ e.current # NoThread => Head(r.ready[r.prio[e.current]]) = e.current
        BY PreemptSide
    <2> HIDE DEF no, r
    <2>4. Sided' /\ ee'.status = r.status /\ ee'.ready = r.ready /\ ee'.prio = r.prio
        BY <2>1, <2>2, <2>3, UnwindSide
    <2>5. ASSUME Keeps(ee, e), NEW t \in Threads, ee.current = t, ee'.status[t] = "Ready"
          PROVE  Head(ee'.ready[ee'.prio[t]]) = t
        <3>1. CASE e.current = t
            <4>1. t # NoThread BY ThreadsFacts
            <4> QED BY <2>3, <2>4, <3>1, <4>1
        <3>2. CASE e.current # t
            <4>1. e.status[t] # "Ready" BY <2>5, <3>2 DEF Keeps
            <4>2. e.current # NoThread BY <2>3, <2>4, <2>5, <4>1
            <4>3. e.current \in Threads /\ e.status[t] # "Running" BY <3>2, <4>2, RunningLoose DEF Good, RunOK
            <4>4. r.status = [e.status EXCEPT ![e.current] = "Ready"]
                BY <4>2 DEF r, preempt, no, enqueueReadyFront, Good, Core, EeState
            <4>5. r.status[t] = e.status[t] BY <3>2, <4>3, <4>4 DEF Good, Core, EeState
            <4> QED BY <2>4, <2>5, <4>1, <4>5
        <3> QED BY <3>1, <3>2
    <2> QED BY <2>4, <2>5 DEF TurnKept
<1> QED BY <1>1, <1>2 DEF transferIfRequested

\* A kernel call that leaves the current thread its turn, or gives it up in order.
LEMMA CallSide ==
    ASSUME IInv, Sided, phase = "Guest", ee.current = running, NEW e, Good(e),
           Turn(ee, e), Keeps(ee, e), NEW safe \in BOOLEAN,
           Return(e) \/ transferIfRequested(e, safe)
    PROVE  Orderly
<1>1. Side(e) /\ Mild(ee, e) BY TurnMild DEF Sided
<1>2. CASE Return(e) BY <1>1, <1>2, ReturnSide DEF Orderly
<1>3. CASE transferIfRequested(e, safe) BY <1>1, <1>3, TransferSide DEF Orderly
<1> QED BY <1>2, <1>3

\* A kernel call that ends in the loop with nobody ready out of turn.
LEMMA UnwoundSide ==
    ASSUME NEW e, Good(e), Side(e), Keeps(ee, e), Unwind(e)
    PROVE  Orderly
BY UnwindSide DEF Orderly

--------------------------------------------------------------------------------
(* Kernel calls keep the turns in order *)

\* The action DeleteThread keeps the turns in order.
LEMMA DeleteThreadSide ==
    ASSUME ~DetachedCalls, IInv, Sided, NEW t \in Threads, DeleteThread(t)
    PROVE  Orderly
<1> DEFINE safe == FALSE
           e    == deleteThread(ee, t)
<1>1. /\ Good(ee) /\ phase = "Guest" /\ ee.current = running
      /\ Return(e) /\ safe \in BOOLEAN
    BY Caller DEF DeleteThread
<1> HIDE DEF safe
<1>2. Good(e) BY <1>1, DeleteThreadGood
<1>3. Turn(ee, e) /\ Keeps(ee, e) BY <1>1, DeleteThreadTurn DEF Sided
<1> HIDE DEF e
<1> QED BY <1>1, <1>2, <1>3, CallSide

\* The action StartThread keeps the turns in order.
LEMMA StartThreadSide ==
    ASSUME ~DetachedCalls, IInv, Sided, NEW t \in Threads, StartThread(t)
    PROVE  Orderly
<1> DEFINE safe == FALSE
           e    == startThread(ee, t, safe)
<1>1. /\ Good(ee) /\ phase = "Guest" /\ ee.current = running
      /\ transferIfRequested(e, safe) /\ safe \in BOOLEAN
    BY Caller DEF StartThread
<1> HIDE DEF safe
<1>2. Good(e) BY <1>1, StartThreadGood
<1>3. Turn(ee, e) /\ Keeps(ee, e) BY <1>1, StartThreadTurn DEF Sided
<1> HIDE DEF e
<1> QED BY <1>1, <1>2, <1>3, CallSide

\* The action TerminateThread keeps the turns in order.
LEMMA TerminateThreadSide ==
    ASSUME ~DetachedCalls, IInv, Sided, NEW t \in Threads, TerminateThread(t)
    PROVE  Orderly
<1> DEFINE safe == FALSE
           e    == terminateThread(ee, t)
<1>1. /\ Good(ee) /\ phase = "Guest" /\ ee.current = running
      /\ Return(e) /\ safe \in BOOLEAN
    BY Caller DEF TerminateThread
<1> HIDE DEF safe
<1>2. Good(e) BY <1>1, TerminateThreadGood
<1>3. Turn(ee, e) /\ Keeps(ee, e) BY <1>1, TerminateThreadTurn DEF Sided
<1> HIDE DEF e
<1> QED BY <1>1, <1>2, <1>3, CallSide

\* The action SuspendThread keeps the turns in order.
LEMMA SuspendThreadSide ==
    ASSUME ~DetachedCalls, IInv, Sided, NEW t \in Threads, SuspendThread(t)
    PROVE  Orderly
<1> DEFINE safe == FALSE
           e    == suspendThread(ee, t)
<1>1. /\ Good(ee) /\ phase = "Guest" /\ ee.current = running
      /\ transferIfRequested(e, safe) /\ safe \in BOOLEAN
    BY Caller DEF SuspendThread
<1> HIDE DEF safe
<1>2. Good(e) BY <1>1, SuspendThreadGood
<1>3. Turn(ee, e) /\ Keeps(ee, e) BY <1>1, SuspendThreadTurn DEF Sided
<1> HIDE DEF e
<1> QED BY <1>1, <1>2, <1>3, CallSide

\* The action ResumeThread keeps the turns in order.
LEMMA ResumeThreadSide ==
    ASSUME ~DetachedCalls, IInv, Sided, NEW t \in Threads, ResumeThread(t)
    PROVE  Orderly
<1> DEFINE safe == FALSE
           e    == resumeThread(ee, t, safe)
<1>1. /\ Good(ee) /\ phase = "Guest" /\ ee.current = running
      /\ transferIfRequested(e, safe) /\ safe \in BOOLEAN
    BY Caller DEF ResumeThread
<1> HIDE DEF safe
<1>2. Good(e) BY <1>1, ResumeThreadGood
<1>3. Turn(ee, e) /\ Keeps(ee, e) BY <1>1, ResumeThreadTurn DEF Sided
<1> HIDE DEF e
<1> QED BY <1>1, <1>2, <1>3, CallSide

\* The action WakeupThread keeps the turns in order.
LEMMA WakeupThreadSide ==
    ASSUME ~DetachedCalls, IInv, Sided, NEW t \in Threads, NEW safe \in BOOLEAN, WakeupThread(t, safe)
    PROVE  Orderly
<1> DEFINE e == wakeupThread(ee, t, safe)
<1>1. /\ Good(ee) /\ phase = "Guest" /\ ee.current = running
      /\ transferIfRequested(e, safe)
    BY Caller DEF WakeupThread
<1>2. Good(e) BY <1>1, WakeupThreadGood
<1>3. Turn(ee, e) /\ Keeps(ee, e) BY <1>1, WakeupThreadTurn DEF Sided
<1> HIDE DEF e
<1> QED BY <1>1, <1>2, <1>3, CallSide

\* The action ReleaseWaitThread keeps the turns in order.
LEMMA ReleaseWaitThreadSide ==
    ASSUME ~DetachedCalls, IInv, Sided, NEW t \in Threads, NEW safe \in BOOLEAN, ReleaseWaitThread(t, safe)
    PROVE  Orderly
<1> DEFINE e == releaseWait(ee, t, safe)
<1>1. /\ Good(ee) /\ phase = "Guest" /\ ee.current = running
      /\ transferIfRequested(e, safe)
    BY Caller DEF ReleaseWaitThread
<1>2. Good(e) BY <1>1, ReleaseWaitGood
<1>3. Turn(ee, e) /\ Keeps(ee, e) BY <1>1, ReleaseWaitTurn DEF Sided
<1> HIDE DEF e
<1> QED BY <1>1, <1>2, <1>3, CallSide

\* The action DeleteSema keeps the turns in order.
LEMMA DeleteSemaSide ==
    ASSUME ~DetachedCalls, IInv, Sided, NEW s \in Semas, NEW safe \in BOOLEAN, DeleteSema(s, safe)
    PROVE  Orderly
<1> DEFINE e == deleteSemaphore(ee, s, safe)
<1>1. /\ Good(ee) /\ phase = "Guest" /\ ee.current = running
      /\ transferIfRequested(e, safe)
    BY Caller DEF DeleteSema
<1>2. Good(e) BY <1>1, DeleteSemaGood
<1>3. Turn(ee, e) /\ Keeps(ee, e) BY <1>1, DeleteSemaTurn DEF Sided
<1> HIDE DEF e
<1> QED BY <1>1, <1>2, <1>3, CallSide

\* The action SignalSema keeps the turns in order.
LEMMA SignalSemaSide ==
    ASSUME ~DetachedCalls, IInv, Sided, NEW s \in Semas, NEW safe \in BOOLEAN, SignalSema(s, safe)
    PROVE  Orderly
<1> DEFINE e == signalSemaphore(ee, s, safe)
<1>1. /\ Good(ee) /\ phase = "Guest" /\ ee.current = running
      /\ transferIfRequested(e, safe)
    BY Caller DEF SignalSema
<1>2. Good(e) BY <1>1, SignalSemaGood
<1>3. Turn(ee, e) /\ Keeps(ee, e) BY <1>1, SignalSemaTurn DEF Sided
<1> HIDE DEF e
<1> QED BY <1>1, <1>2, <1>3, CallSide

\* The action PollSema keeps the turns in order.
LEMMA PollSemaSide ==
    ASSUME ~DetachedCalls, IInv, Sided, NEW s \in Semas, PollSema(s)
    PROVE  Orderly
<1> DEFINE safe == FALSE
           e    == pollSemaphore(ee, s)
<1>1. /\ Good(ee) /\ phase = "Guest" /\ ee.current = running
      /\ Return(e) /\ safe \in BOOLEAN
    BY Caller DEF PollSema
<1> HIDE DEF safe
<1>2. Good(e) BY <1>1, PollSemaGood
<1>3. Turn(ee, e) /\ Keeps(ee, e) BY <1>1, PollSemaTurn DEF Sided
<1> HIDE DEF e
<1> QED BY <1>1, <1>2, <1>3, CallSide

\* The action DeleteEventFlag keeps the turns in order.
LEMMA DeleteEventFlagSide ==
    ASSUME ~DetachedCalls, IInv, Sided, NEW f \in Flags, NEW safe \in BOOLEAN, DeleteEventFlag(f, safe)
    PROVE  Orderly
<1> DEFINE e == deleteEventFlag(ee, f, safe)
<1>1. /\ Good(ee) /\ phase = "Guest" /\ ee.current = running
      /\ transferIfRequested(e, safe)
    BY Caller DEF DeleteEventFlag
<1>2. Good(e) BY <1>1, DeleteFlagGood
<1>3. Turn(ee, e) /\ Keeps(ee, e) BY <1>1, DeleteFlagTurn DEF Sided
<1> HIDE DEF e
<1> QED BY <1>1, <1>2, <1>3, CallSide

\* The action PollEventFlag keeps the turns in order.
LEMMA PollEventFlagSide ==
    ASSUME ~DetachedCalls, IInv, Sided, NEW f \in Flags, NEW bits, NEW mode, PollEventFlag(f, bits, mode)
    PROVE  Orderly
<1> DEFINE safe == FALSE
           e    == pollEventFlag(ee, f, bits, mode)
<1>1. /\ Good(ee) /\ phase = "Guest" /\ ee.current = running
      /\ Return(e) /\ safe \in BOOLEAN
    BY Caller DEF PollEventFlag
<1> HIDE DEF safe
<1>2. Good(e) BY <1>1, PollFlagGood
<1>3. Turn(ee, e) /\ Keeps(ee, e) BY <1>1, PollFlagTurn DEF Sided
<1> HIDE DEF e
<1> QED BY <1>1, <1>2, <1>3, CallSide

\* The action CreateThread keeps the turns in order.
LEMMA CreateThreadSide ==
    ASSUME ~DetachedCalls, IInv, Sided, NEW t \in UserThreads, NEW p \in Priorities,
           CreateThread(t, p)
    PROVE  Orderly
<1> DEFINE safe == FALSE
           e    == createThread(ee, t, p)
<1>1. /\ Good(ee) /\ phase = "Guest" /\ ee.current = running
      /\ ~Exists(ee, t) /\ Return(e) /\ safe \in BOOLEAN /\ t \in Threads
    BY Caller, ThreadsFacts DEF CreateThread
<1> HIDE DEF safe
<1>2. Good(e) BY <1>1, CreateThreadGood
<1>3. Turn(ee, e) /\ Keeps(ee, e) BY <1>1, CreateThreadTurn DEF Sided
<1> HIDE DEF e
<1> QED BY <1>1, <1>2, <1>3, CallSide

\* The action CancelWakeupThread keeps the turns in order.
LEMMA CancelWakeupThreadSide ==
    ASSUME ~DetachedCalls, IInv, Sided, NEW t \in Threads, CancelWakeupThread(t)
    PROVE  Orderly
<1> DEFINE safe == FALSE
           zero == 0
           e    == [ee EXCEPT !.wake[t] = zero]
<1>1. /\ Good(ee) /\ phase = "Guest" /\ ee.current = running /\ ee \in EeState
      /\ safe \in BOOLEAN /\ (Return(ee) \/ Return(e))
    BY Caller DEF CancelWakeupThread
<1> HIDE DEF safe
<1>2. Turn(ee, ee) /\ Keeps(ee, ee) BY AlikeTurn DEF Alike, Sided
<1>3. Good(e) BY <1>1, SetWake
<1> HIDE DEF zero
<1>4. Turn(ee, e) /\ Keeps(ee, e) BY <1>1, WakeTurn DEF Sided
<1> HIDE DEF e
<1> QED BY <1>1, <1>2, <1>3, <1>4, CallSide DEF safe

\* The action ChangeThreadPriority keeps the turns in order.
LEMMA ChangeThreadPrioritySide ==
    ASSUME ~DetachedCalls, IInv, Sided, NEW t \in Threads \cup {NoThread}, NEW p \in Priorities,
           NEW safe \in BOOLEAN, ChangeThreadPriority(t, p, safe)
    PROVE  Orderly
<1> DEFINE u == IF t = NoThread THEN ee.current ELSE t
           e == changePriority(ee, u, p, safe)
<1>1. /\ Good(ee) /\ phase = "Guest" /\ ee.current = running
      /\ transferIfRequested(e, safe) /\ ee.current \in Threads
    BY Caller DEF ChangeThreadPriority
<1>2. u \in Threads BY <1>1
<1> HIDE DEF u
<1>3. Good(e) BY <1>1, <1>2, ChangePriorityGood
<1>4. Turn(ee, e) /\ Keeps(ee, e) BY <1>1, <1>2, ChangePriorityTurn DEF Sided
<1> HIDE DEF e
<1> QED BY <1>1, <1>3, <1>4, CallSide

\* The action RotateThreadReadyQueue keeps the invariant, though it may take the
\* turn of its caller.
LEMMA RotateThreadReadyQueueSide ==
    ASSUME ~DetachedCalls, IInv, Sided, NEW p \in Priorities, NEW safe \in BOOLEAN,
           RotateThreadReadyQueue(p, safe)
    PROVE  Sided'
<1> DEFINE q == IF p = 0 THEN ee.prio[ee.current] ELSE p
           e == rotateReadyQueue(ee, q)
<1>1. /\ Good(ee) /\ phase = "Guest" /\ ee.current = running
      /\ transferIfRequested(e, safe) /\ ee.current \in Threads /\ ee \in EeState
    BY Caller DEF RotateThreadReadyQueue
<1>2. q \in Priorities BY <1>1 DEF EeState
<1> HIDE DEF q
<1>3. Good(e) BY <1>1, <1>2, RotateGood
<1>4. Turn(ee, e) BY <1>1, RotateTurn DEF Sided
<1> HIDE DEF e
<1>5. Side(e) /\ Mild(ee, e) BY <1>3, <1>4, TurnMild DEF Sided
<1> QED BY <1>1, <1>3, <1>5, TransferSide

\* The action ExitThread keeps the turns in order.
LEMMA ExitThreadSide ==
    ASSUME ~DetachedCalls, IInv, Sided, NEW delete \in BOOLEAN, NEW handlers \in BOOLEAN,
           ExitThread(delete, handlers)
    PROVE  Orderly
<1>1. /\ Good(ee) /\ ee.current # NoThread /\ ee.current \in Threads
      /\ bindMainContextForSyscall(ee) = ee
    BY Caller DEF ExitThread
<1>2. CASE handlers
    <2> DEFINE k == IF delete THEN "ExitDelete" ELSE "Exit"
               e == pushInvocation(ee, ee.current, k)
    <2>1. Unwind(e) BY <1>1, <1>2 DEF ExitThread
    <2>2. k \in Kinds /\ k \notin AsyncKinds BY DEF Kinds, CallKinds, AsyncKinds
    <2> HIDE DEF k
    <2>3. Good(e) BY <1>1, <2>2, PushInvocation
    <2>4. Side(e) /\ Keeps(ee, e) BY <1>1, <2>2, PushSide DEF Sided
    <2> HIDE DEF e
    <2> QED BY <2>1, <2>3, <2>4, UnwoundSide
<1>3. CASE ~handlers
    <2> DEFINE e == exitCurrent(ee, delete)
    <2>1. Unwind(e) BY <1>1, <1>3 DEF ExitThread
    <2>2. Good(e) BY <1>1, ExitCurrentGood
    <2>3. Side(e) /\ Keeps(ee, e) BY <1>1, ExitCurrentTurn DEF Sided
    <2> HIDE DEF e
    <2> QED BY <2>1, <2>2, <2>3, UnwoundSide
<1> QED BY <1>2, <1>3

\* A wait that has no waiter queue keeps the turns in order.
LEMMA BlockedSide ==
    ASSUME IInv, Sided, phase = "Guest", ee.current = running, NEW w,
           WaitFits(ee, ee.current, w), w.reason \notin {"Semaphore", "EventFlag"},
           NEW e, e = blockCurrent(ee, w), Unwind(e)
    PROVE  Orderly
<1>1. Good(ee) /\ ee \in EeState /\ ee.current # NoThread /\ ~ee.resume[ee.current]
    BY DEF IInv, PhaseOK, Good, Core, Sided, GuestSide
<1>2. Kept(ee, ee) BY DEF Kept
<1>3. Good(e) BY <1>1, BlockAlone
<1>4. Side(e) /\ Keeps(ee, e) BY <1>1, <1>2, BlockSide DEF Sided
<1> QED BY <1>3, <1>4, UnwoundSide

\* The action SleepThread keeps the turns in order.
LEMMA SleepThreadSide ==
    ASSUME ~DetachedCalls, IInv, Sided, SleepThread
    PROVE  Orderly
<1> DEFINE t == ee.current
<1>1. /\ Good(ee) /\ phase = "Guest" /\ ee \in EeState /\ t # NoThread /\ t \in Threads
      /\ bindMainContextForSyscall(ee) = ee /\ ee.current = running
    BY Caller DEF SleepThread
<1>2. ee.wake[t] \in Nat BY <1>1 DEF EeState
<1>3. CASE ee.wake[t] # 0
    <2> DEFINE n == ee.wake[t] - 1
               e == [ee EXCEPT !.wake[t] = n]
               safe == FALSE
    <2>1. Return(e) /\ safe \in BOOLEAN BY <1>1, <1>3 DEF SleepThread
    <2>2. n \in Nat BY <1>2, <1>3
    <2>3. ee.wait[t].reason # "Sleep" BY <1>1, RunningLoose
    <2> HIDE DEF n, safe
    <2>4. Good(e) BY <1>1, <2>2, <2>3, SetWake
    <2>5. Turn(ee, e) /\ Keeps(ee, e) BY <1>1, WakeTurn DEF Sided
    <2> HIDE DEF e
    <2> QED BY <1>1, <2>1, <2>4, <2>5, CallSide
<1>4. CASE ee.wake[t] = 0
    <2> DEFINE w == [NoWait EXCEPT !.reason = "Sleep"]
               e == blockCurrent(ee, w)
    <2>1. Unwind(e) BY <1>1, <1>4 DEF SleepThread
    <2>2. w \in Wait /\ w.reason = "Sleep" BY NoWaitType DEF Wait, WaitReasons
    <2> HIDE DEF w
    <2>3. WaitFits(ee, t, w) BY <1>4, <2>2 DEF WaitFits
    <2> QED BY <1>1, <2>1, <2>2, <2>3, BlockedSide
<1> QED BY <1>3, <1>4

\* The action CreateSema keeps the turns in order.
LEMMA CreateSemaSide ==
    ASSUME ~DetachedCalls, IInv, Sided, NEW s \in Semas, NEW init \in Nat, NEW max \in Nat,
           CreateSema(s, init, max)
    PROVE  Orderly
<1> DEFINE none == <<>>
           o == [live |-> TRUE, count |-> init, max |-> max, waiters |-> none]
           e == [ee EXCEPT !.sema[s] = o]
           safe == FALSE
<1>1. /\ Good(ee) /\ phase = "Guest" /\ ee.current = running /\ Return(e)
      /\ ~ee.sema[s].live /\ safe \in BOOLEAN
    BY Caller DEF CreateSema
<1>2. none \in Seq(Threads) /\ ee.sema[s].waiters = none
    BY <1>1, SemaFacts
<1>3. o \in Semaphore /\ o.waiters = ee.sema[s].waiters /\ o.waiters = <<>>
    BY <1>2 DEF Semaphore
<1> HIDE DEF o, safe
<1>4. Good(e) BY <1>1, <1>3, SetSema
<1>5. Turn(ee, e) /\ Keeps(ee, e) BY <1>1, SemaTurn DEF Sided
<1> HIDE DEF e
<1> QED BY <1>1, <1>4, <1>5, CallSide

\* The action WaitSema keeps the turns in order.
LEMMA WaitSemaSide ==
    ASSUME ~DetachedCalls, IInv, Sided, NEW s \in Semas, WaitSema(s)
    PROVE  Orderly
<1>1. /\ Good(ee) /\ phase = "Guest" /\ ee.current # NoThread /\ ee.current = running
      /\ bindMainContextForSyscall(ee) = ee /\ ee \in EeState
    BY Caller DEF WaitSema
<1>2. CASE ee.sema[s].live /\ ee.sema[s].count = 0
    <2> DEFINE w == [NoWait EXCEPT !.reason = "Semaphore", !.obj = s]
               q == Append(ee.sema[s].waiters, ee.current)
               o == [ee.sema[s] EXCEPT !.waiters = q]
               sema == [ee.sema EXCEPT ![s] = o]
               m == [ee EXCEPT !.sema = sema]
               e == blockCurrent(m, w)
    <2>1. m = [ee EXCEPT !.sema[s].waiters = Append(@, ee.current)]
        BY SemaFacts, <1>1 DEF EeState
    <2>2. e = blockCurrent([ee EXCEPT !.sema[s].waiters = Append(@, ee.current)],
                           [NoWait EXCEPT !.reason = "Semaphore", !.obj = s])
        BY <2>1
    <2>3. Unwind(e) BY <1>1, <1>2, <2>2 DEF WaitSema
    <2>4. Good(e) BY <1>1, <1>2, <2>2, WaitSemaGood
    <2>5. w.reason = "Semaphore" BY DEF NoWait
    <2> HIDE DEF w
    <2>6. q \in Seq(Threads)
        <3>1. ee.current \in Threads BY <1>1, RunningLoose
        <3>2. ee.sema[s].waiters \in Seq(Threads) BY <1>1, SemaFacts DEF Semaphore
        <3> QED BY <3>1, <3>2
    <2> HIDE DEF q
    <2>7. o \in Semaphore BY <1>1, <2>6, SemaFacts DEF Semaphore
    <2> HIDE DEF o
    <2>8. sema \in [Semas -> Semaphore] BY <1>1, <2>7 DEF EeState
    <2> HIDE DEF sema
    <2>9. m \in EeState BY <1>1, <2>8 DEF EeState
    <2>10. /\ Kept(ee, m) /\ m.wait = ee.wait /\ m.resume = ee.resume /\ m.inv = ee.inv
           /\ m.flag = ee.flag
        BY <1>1 DEF Kept, EeState
    <2> HIDE DEF m
    <2>11. ~ee.resume[ee.current] BY <1>1 DEF Sided, GuestSide
    <2>12. Side(e) /\ Keeps(ee, e) BY <1>1, <2>5, <2>9, <2>10, <2>11, BlockSide DEF Sided
    <2> HIDE DEF e
    <2> QED BY <2>3, <2>4, <2>12, UnwoundSide
<1>3. CASE ~(ee.sema[s].live /\ ee.sema[s].count = 0)
    <2> DEFINE e == pollSemaphore(ee, s)
               safe == FALSE
    <2>1. Return(e) /\ safe \in BOOLEAN BY <1>1, <1>3 DEF WaitSema
    <2> HIDE DEF safe
    <2>2. Good(e) BY <1>1, PollSemaGood
    <2>3. Turn(ee, e) /\ Keeps(ee, e) BY <1>1, PollSemaTurn DEF Sided
    <2> HIDE DEF e
    <2> QED BY <1>1, <2>1, <2>2, <2>3, CallSide
<1> QED BY <1>2, <1>3

\* The action CreateEventFlag keeps the turns in order.
LEMMA CreateEventFlagSide ==
    ASSUME ~DetachedCalls, IInv, Sided, NEW f \in Flags, NEW bits \in SUBSET Bits,
           NEW multi \in BOOLEAN, CreateEventFlag(f, bits, multi)
    PROVE  Orderly
<1> DEFINE none == <<>>
           o == [live |-> TRUE, multi |-> multi, bits |-> bits, waiters |-> none]
           e == [ee EXCEPT !.flag[f] = o]
<1>1. /\ Good(ee) /\ phase = "Guest" /\ Return(e) /\ ~ee.flag[f].live
      /\ ee.current = running
    BY Caller DEF CreateEventFlag
<1>2. none \in Seq(Threads) /\ ee.flag[f].waiters = none
    BY <1>1, FlagFacts
<1>3. o \in EventFlag /\ o.waiters = ee.flag[f].waiters /\ o.waiters = <<>>
    BY <1>2 DEF EventFlag
<1> HIDE DEF o
<1>4. Good(e) BY <1>1, <1>3, SetFlag
<1>5. Side(e) /\ Mild(ee, e) /\ Keeps(ee, e) BY <1>1, CreateFlagTurn DEF Sided
<1> HIDE DEF e
<1> QED BY <1>1, <1>4, <1>5, ReturnSide DEF Orderly

\* The action SetEventFlag keeps the turns in order.
LEMMA SetEventFlagSide ==
    ASSUME ~DetachedCalls, IInv, Sided, NEW f \in Flags, NEW bits \in SUBSET Bits,
           NEW safe \in BOOLEAN, SetEventFlag(f, bits, safe)
    PROVE  Orderly
<1> DEFINE e == setEventFlag(ee, f, bits, safe)
<1>1. /\ Good(ee) /\ phase = "Guest" /\ transferIfRequested(e, safe)
      /\ ee.current = running
    BY Caller DEF SetEventFlag
<1>2. Good(e) BY <1>1, SetEventFlagGood
<1>3. Side(e) /\ Mild(ee, e) /\ Keeps(ee, e) BY <1>1, SetEventFlagTurn DEF Sided
<1> HIDE DEF e
<1> QED BY <1>1, <1>2, <1>3, TransferSide DEF Orderly

\* The action ClearEventFlag keeps the turns in order.
LEMMA ClearEventFlagSide ==
    ASSUME ~DetachedCalls, IInv, Sided, NEW f \in Flags, NEW mask, ClearEventFlag(f, mask)
    PROVE  Orderly
<1> DEFINE safe == FALSE
           bits == ee.flag[f].bits \cap mask
           e == [ee EXCEPT !.flag[f].bits = bits]
<1>1. /\ Good(ee) /\ phase = "Guest" /\ bindMainContextForSyscall(ee) = ee /\ ee \in EeState
      /\ ee.current = running /\ safe \in BOOLEAN
    BY Caller DEF ClearEventFlag
<1> HIDE DEF safe
<1>2. Return(ee) \/ Return(e)
    <2>1. e = [ee EXCEPT !.flag[f].bits = @ \cap mask] BY <1>1 DEF EeState
    <2> HIDE DEF e
    <2> QED BY <1>1, <2>1 DEF ClearEventFlag
<1>3. Turn(ee, ee) /\ Keeps(ee, ee) BY AlikeTurn DEF Alike, Sided
<1>4. bits \in SUBSET Bits /\ bits \subseteq ee.flag[f].bits BY <1>1, FlagFacts DEF EventFlag
<1> HIDE DEF bits
<1>5. Good(e) BY <1>1, <1>4, SetFlagBits
<1>6. Turn(ee, e) /\ Keeps(ee, e) BY <1>1, <1>4, FlagBitsTurn DEF Sided
<1> HIDE DEF e
<1> QED BY <1>1, <1>2, <1>3, <1>5, <1>6, CallSide

\* The action WaitEventFlag keeps the turns in order; the bits do not satisfy
\* the wait it starts.
LEMMA WaitEventFlagSide ==
    ASSUME ~DetachedCalls, IInv, Sided, NEW f \in Flags, NEW bits \in SUBSET Bits,
           NEW mode \in SUBSET WaitModes, WaitEventFlag(f, bits, mode)
    PROVE  Orderly
<1>1. /\ Good(ee) /\ phase = "Guest" /\ ee.current # NoThread /\ ee.current = running
      /\ bindMainContextForSyscall(ee) = ee /\ ee \in EeState
    BY Caller DEF WaitEventFlag
<1> DEFINE done == Refused(ee.flag[f]) \/ eventCondition(ee.flag[f].bits, bits, mode)
<1>2. CASE done
    <2> DEFINE e == pollEventFlag(ee, f, bits, mode)
               safe == FALSE
    <2>1. Return(e) /\ safe \in BOOLEAN BY <1>1, <1>2 DEF WaitEventFlag
    <2> HIDE DEF safe
    <2>2. Good(e) BY <1>1, PollFlagGood
    <2>3. Turn(ee, e) /\ Keeps(ee, e) BY <1>1, PollFlagTurn DEF Sided
    <2> HIDE DEF e
    <2> QED BY <1>1, <2>1, <2>2, <2>3, CallSide
<1>3. CASE ~done
    <2> DEFINE w == [NoWait EXCEPT !.reason = "EventFlag", !.obj = f,
                                   !.bits = bits, !.mode = mode]
               q == Append(ee.flag[f].waiters, ee.current)
               o == [ee.flag[f] EXCEPT !.waiters = q]
               flag == [ee.flag EXCEPT ![f] = o]
               m == [ee EXCEPT !.flag = flag]
               e == blockCurrent(m, w)
    <2>1. m = [ee EXCEPT !.flag[f].waiters = Append(@, ee.current)]
        BY FlagFacts, <1>1 DEF EeState
    <2>2. e = blockCurrent([ee EXCEPT !.flag[f].waiters = Append(@, ee.current)],
                           [NoWait EXCEPT !.reason = "EventFlag", !.obj = f,
                                          !.bits = bits, !.mode = mode])
        BY <2>1
    <2>3. Unwind(e) BY <1>1, <1>3, <2>2 DEF WaitEventFlag
    <2>4. Good(e) BY <1>1, <1>3, <2>2, WaitFlagGood
    <2>5. w.obj = f /\ w.bits = bits /\ w.mode = mode BY DEF NoWait
    <2> HIDE DEF w
    <2>6. q \in Seq(Threads)
        <3>1. ee.current \in Threads BY <1>1, RunningLoose
        <3>2. ee.flag[f].waiters \in Seq(Threads) BY <1>1, FlagFacts DEF EventFlag
        <3> QED BY <3>1, <3>2
    <2> HIDE DEF q
    <2>7. o \in EventFlag /\ o.bits = ee.flag[f].bits BY <1>1, <2>6, FlagFacts DEF EventFlag
    <2> HIDE DEF o
    <2>8. /\ flag \in [Flags -> EventFlag]
          /\ \A g \in Flags : flag[g].bits = ee.flag[g].bits
        BY <1>1, <2>7 DEF EeState
    <2> HIDE DEF flag
    <2>9. m \in EeState BY <1>1, <2>8 DEF EeState
    <2>10. /\ Kept(ee, m) /\ m.wait = ee.wait /\ m.resume = ee.resume /\ m.inv = ee.inv
           /\ m.flag = flag
        BY <1>1 DEF Kept, EeState
    <2> HIDE DEF m
    <2>11. ~ee.resume[ee.current] BY <1>1 DEF Sided, GuestSide
    <2>12. Side(e) /\ Keeps(ee, e)
        BY <1>1, <1>3, <2>5, <2>8, <2>9, <2>10, <2>11, BlockSide DEF Sided
    <2> HIDE DEF e
    <2> QED BY <2>3, <2>4, <2>12, UnwoundSide
<1> QED BY <1>2, <1>3

\* The action WaitVSync keeps the turns in order.
LEMMA WaitVSyncSide ==
    ASSUME ~DetachedCalls, IInv, Sided, NEW n \in 1 .. MaxTicks, NEW completion \in BOOLEAN,
           WaitVSync(n, completion)
    PROVE  Orderly
<1> DEFINE w == VSyncWait(n, completion)
           e == blockCurrent(ee, w)
<1>1. Unwind(e) /\ phase = "Guest" /\ ee.current = running BY Caller DEF WaitVSync
<1>2. w \in Wait /\ w.reason = "VSync" BY VSyncWaitType
<1> HIDE DEF w
<1>3. WaitFits(ee, ee.current, w) BY <1>2 DEF WaitFits
<1> QED BY <1>1, <1>2, <1>3, BlockedSide

\* The action WaitExternal keeps the turns in order.
LEMMA WaitExternalSide ==
    ASSUME ~DetachedCalls, IInv, Sided, NEW k \in Tokens, NEW completion \in BOOLEAN,
           WaitExternal(k, completion)
    PROVE  Orderly
<1> DEFINE w == ExternalWait(k, completion)
           e == blockCurrent(ee, w)
<1>1. Unwind(e) /\ phase = "Guest" /\ ee.current = running BY Caller DEF WaitExternal
<1>2. w \in Wait /\ w.reason = "External" BY ExternalWaitType
<1> HIDE DEF w
<1>3. WaitFits(ee, ee.current, w) BY <1>2 DEF WaitFits
<1> QED BY <1>1, <1>2, <1>3, BlockedSide

\* The action CompleteExternalWait keeps the turns in order.
LEMMA CompleteExternalWaitSide ==
    ASSUME ~DetachedCalls, IInv, Sided, NEW k \in Tokens, CompleteExternalWait(k)
    PROVE  Orderly
<1> DEFINE e == completeExternalWait(ee, k)
           safe == FALSE
<1>1. /\ Good(ee) /\ phase = "Guest" /\ ee.current = running /\ Return(e)
      /\ safe \in BOOLEAN
    BY Caller DEF CompleteExternalWait
<1> HIDE DEF safe
<1>2. Good(e) BY <1>1, CompleteExternalWaitGood
<1>3. Turn(ee, e) /\ Keeps(ee, e) BY <1>1, CompleteExternalWaitTurn DEF Sided
<1> HIDE DEF e
<1> QED BY <1>1, <1>2, <1>3, CallSide

\* The action InvokeCurrent keeps the turns in order.
LEMMA InvokeCurrentSide ==
    ASSUME ~DetachedCalls, IInv, Sided, NEW k \in CallKinds, InvokeCurrent(k)
    PROVE  Orderly
<1> DEFINE e == pushInvocation(ee, ee.current, k)
<1>1. /\ Good(ee) /\ ee.current \in Threads /\ Unwind(e) /\ k \in {"HleCall", "SyscallOverride"}
    BY Caller DEF InvokeCurrent
<1>2. k \in Kinds /\ k \notin AsyncKinds BY <1>1 DEF Kinds, AsyncKinds
<1>3. Good(e) BY <1>1, <1>2, PushInvocation
<1>4. Side(e) /\ Keeps(ee, e) BY <1>1, <1>2, PushSide DEF Sided
<1> HIDE DEF e
<1> QED BY <1>1, <1>3, <1>4, UnwoundSide

\* The action QueueFromGuest keeps the turns in order.
LEMMA QueueFromGuestSide ==
    ASSUME IInv, Sided, NEW k \in AsyncKinds, QueueFromGuest(k)
    PROVE  Orderly
<1> DEFINE ks == <<k>>
           e  == queueInvocation(ee, ks)
<1>1. Good(ee) /\ phase = "Guest" /\ Return(e) BY DEF QueueFromGuest, IInv
<1>2. ks \in Seq(AsyncKinds) /\ ks # <<>> OBVIOUS
<1> HIDE DEF ks
<1>3. Good(e) BY <1>1, <1>2, QueueInvocation
<1>4. /\ Side(e) /\ Keeps(ee, e) /\ e.resume = ee.resume /\ e.inv = ee.inv
      /\ e.check
    BY <1>1, <1>2, QueueInvocationSide DEF Sided
<1> HIDE DEF e
<1>5. ee' = e /\ phase' = phase /\ running' = running BY <1>1 DEF Return
<1>6. Sided' BY <1>4, <1>5 DEF Sided, GuestSide
<1>7. TurnKept BY <1>3, <1>4, <1>5, KeepsTurn
<1> QED BY <1>6, <1>7 DEF Orderly

\* Leaving the guest at a checkpoint keeps the turns in order.
LEMMA YieldStepsSide ==
    ASSUME IInv, Sided, YieldToEvents \/ TimeSliceExpires
    PROVE  Orderly
<1>1. PICK e : /\ Unwind(e)
               /\ \/ e = [ee EXCEPT !.check = TRUE]
                  \/ e = [ee EXCEPT !.resched = TRUE, !.expired = TRUE]
    BY DEF YieldToEvents, TimeSliceExpires
<1>2. Good(e) BY <1>1, YieldsGood DEF IInv
<1>3. Side(e) /\ Keeps(ee, e) BY <1>1, YieldsSide DEF IInv, Sided
<1> QED BY <1>1, <1>2, <1>3, UnwoundSide

\* The action GuestReturns keeps the turns in order.
LEMMA GuestReturnsSide ==
    ASSUME IInv, Sided, NEW c \in PCs, GuestReturns(c)
    PROVE  Orderly
<1> DEFINE e == [ee EXCEPT !.pc[running] = c]
<1>1. Good(ee) /\ running \in Threads /\ Unwind(e) BY DEF GuestReturns, IInv, PhaseOK
<1>2. Good(e) BY <1>1, SetPc
<1>3. Side(e) /\ Keeps(ee, e) BY <1>1, YieldsSide DEF Sided
<1> HIDE DEF e
<1> QED BY <1>1, <1>2, <1>3, UnwoundSide

--------------------------------------------------------------------------------
(* Events and the loop keep the turns in order *)

\* Outside the guest, the record is all there is to keep in order.
LEMMA LoopSide ==
    ASSUME NEW e, Good(e), Side(e), ee' = e, phase' # "Guest"
    PROVE  /\ Sided' /\ (Keeps(ee, e) => TurnKept)
<1>1. Keeps(ee, e) => TurnKept BY KeepsTurn
<1> QED BY <1>1 DEF Sided, GuestSide

\* The action Deliver keeps the turns in order.
LEMMA DeliverSide ==
    ASSUME NEW e, Good(e), Side(e), Keeps(ee, e), NEW ks \in Seq(AsyncKinds), Deliver(e, ks)
    PROVE  Orderly
<1> DEFINE r == queueInvocation(e, ks)
<1>1. Good(r) BY QueueInvocation
<1>2. ee' = r /\ phase' # "Guest" BY DEF Deliver, Delivering
<1>3. Side(r) /\ Keeps(e, r) BY QueueInvocationSide
<1>4. e \in EeState BY DEF Good, Core
<1>5. r.status = e.status /\ r.current = e.current
    <2> DEFINE pending == e.pending \o ks
               check   == e.check \/ ks # <<>>
    <2>1. r = [e EXCEPT !.pending = pending, !.check = check]
        BY <1>4 DEF queueInvocation, EeState
    <2> HIDE DEF pending, check, r
    <2> QED BY <1>4, <2>1 DEF EeState
<1> HIDE DEF r
<1>6. Keeps(ee, r) BY <1>5 DEF Keeps
<1> QED BY <1>1, <1>2, <1>3, <1>6, LoopSide DEF Orderly

\* The action VBlankStart keeps the turns in order.
LEMMA VBlankStartSide ==
    ASSUME IInv, Sided, NEW callback \in BOOLEAN, NEW handler \in BOOLEAN,
           VBlankStart(callback, handler)
    PROVE  Orderly
<1> DEFINE e  == completeVSync(ee)
           gs == IF callback THEN <<"GsCallback">> ELSE <<>>
           hs == IF handler THEN <<"Interrupt">> ELSE <<>>
           ks == gs \o hs
<1>1. Deliver(e, ks) BY DEF VBlankStart
<1>2. ks \in Seq(AsyncKinds)
    <2>1. gs \in Seq(AsyncKinds)
        <3>1. "GsCallback" \in AsyncKinds BY DEF AsyncKinds
        <3> QED BY <3>1
    <2>2. hs \in Seq(AsyncKinds)
        <3>1. "Interrupt" \in AsyncKinds BY DEF AsyncKinds
        <3> QED BY <3>1
    <2> HIDE DEF gs, hs
    <2> QED BY <2>1, <2>2
<1>3. Good(e) BY CompleteVSyncGood DEF IInv
<1>4. Turn(ee, e) /\ Keeps(ee, e) BY CompleteVSyncTurn DEF IInv, Sided
<1> HIDE DEF e, ks
<1>5. Side(e) BY <1>3, <1>4, TurnSide DEF Sided
<1> QED BY <1>1, <1>2, <1>3, <1>4, <1>5, DeliverSide

\* The action QueueHandler keeps the turns in order.
LEMMA QueueHandlerSide ==
    ASSUME IInv, Sided, NEW k \in AsyncKinds, QueueHandler(k)
    PROVE  Orderly
<1> DEFINE ks == <<k>>
<1>1. Deliver(ee, ks) /\ ks \in Seq(AsyncKinds) BY DEF QueueHandler
<1> HIDE DEF ks
<1> QED BY <1>1, DeliverSide DEF IInv, Sided, Keeps

\* The action ExternalWake keeps the turns in order.
LEMMA ExternalWakeSide ==
    ASSUME IInv, Sided, NEW k \in Tokens, ExternalWake(k)
    PROVE  Orderly
<1> DEFINE e  == completeExternalWait(ee, k)
           ks == <<>>
<1>1. Deliver(e, ks) BY DEF ExternalWake
<1>2. ks \in Seq(AsyncKinds) OBVIOUS
<1>3. Good(e) BY CompleteExternalWaitGood DEF IInv
<1>4. Turn(ee, e) /\ Keeps(ee, e) BY CompleteExternalWaitTurn DEF IInv, Sided
<1> HIDE DEF e, ks
<1>5. Side(e) BY <1>3, <1>4, TurnSide DEF Sided
<1> QED BY <1>1, <1>2, <1>3, <1>4, <1>5, DeliverSide

\* The action EventsDone keeps the turns in order: a thread whose slice is not
\* over goes back to the head of its queue.
LEMMA EventsDoneSide ==
    ASSUME IInv, Sided, EventsDone
    PROVE  Orderly
<1> DEFINE m == [ee EXCEPT !.check = FALSE]
           r == applyPendingPreemption(m)
<1>1. Good(m) /\ Good(ee) BY YieldsGood DEF IInv
<1>2. Side(m) /\ Keeps(ee, m) BY <1>1, YieldsSide DEF Sided
<1>3. ee' = r /\ phase' # "Guest" BY DEF EventsDone
<1>4. m.status = ee.status /\ m.current = ee.current /\ m.expired = ee.expired
    BY <1>1 DEF Good, Core, EeState
<1> HIDE DEF m
<1> DEFINE atTail == m.expired
<1>5. atTail \in BOOLEAN BY <1>1 DEF Good, Core, EeState
<1>6. CASE r = m BY <1>1, <1>2, <1>3, <1>6, LoopSide DEF Orderly
<1>7. CASE r = preempt(m, atTail)
    <2> HIDE DEF r, atTail
    <2>1. Good(r) BY <1>1, <1>5, <1>7, Preempt
    <2>2. /\ Side(r)
          /\ ~atTail /\ m.current # NoThread => Head(r.ready[r.prio[m.current]]) = m.current
        BY <1>1, <1>2, <1>5, <1>7, PreemptSide
    <2>3. Sided' BY <1>3, <2>1, <2>2, LoopSide
    <2>4. TurnKept BY <1>3, <1>4, <2>2, ThreadsFacts DEF TurnKept, atTail
    <2> QED BY <2>3, <2>4 DEF Orderly
<1> QED BY <1>6, <1>7 DEF applyPendingPreemption

\* While nobody runs, nobody can lose a turn.
LEMMA NobodysTurn ==
    ASSUME ee.current = NoThread
    PROVE  TurnKept
BY ThreadsFacts DEF TurnKept

\* The action SelectReady keeps the turns in order: the most urgent thread runs.
LEMMA SelectReadySide ==
    ASSUME IInv, Sided, SelectReady
    PROVE  Orderly
<1>1. PICK p \in Priorities :
          /\ FirstQueue(ee, p)
          /\ ToDispatch(makeRunning([ee EXCEPT !.ready[p] = Tail(@)], Head(ee.ready[p])))
    BY DEF SelectReady
<1>2. ee.current = NoThread /\ Good(ee) BY DEF SelectReady, IInv, PhaseOK
<1> DEFINE q == Tail(ee.ready[p])
           m == [ee EXCEPT !.ready[p] = q]
           t == Head(ee.ready[p])
           r == makeRunning(m, t)
<1>3. ee' = r /\ phase' # "Guest" BY <1>1 DEF ToDispatch
<1>4. ee \in EeState /\ ee.ready[p] # <<>> BY <1>1, <1>2 DEF FirstQueue, Good, Core
<1>5. q \in Seq(Threads) BY <1>4 DEF EeState
<1>6. t \in Threads /\ \A u \in Threads : ee.status[u] = "Ready" => ee.prio[t] <= ee.prio[u]
    BY <1>1, <1>2, FirstIsUrgent
<1> HIDE DEF q, t
<1>7. /\ m \in EeState /\ m.status = ee.status /\ m.prio = ee.prio /\ m.resume = ee.resume
      /\ m.wait = ee.wait /\ m.inv = ee.inv /\ m.flag = ee.flag /\ m.current = ee.current
      /\ m.resched = ee.resched
    BY <1>4, <1>5 DEF EeState
<1> HIDE DEF m
<1>8. Settled(ee, m) /\ Urgent(m) BY <1>7 DEF Settled, Urgent, Sided, Side
<1>9. Side(m) BY <1>8, SettledSide DEF Sided
<1>10. Side(r) BY <1>6, <1>7, <1>9, RunSide
<1> HIDE DEF r
<1>11. Sided' BY <1>3, <1>10 DEF Sided, GuestSide
<1> QED BY <1>2, <1>11, NobodysTurn DEF Orderly

\* The action AcquireInvocationThread keeps the turns in order: it is for when
\* nobody is ready, and its record has no invocation.
LEMMA AcquireInvocationThreadSide ==
    ASSUME IInv, Sided, NEW t \in IdleThreads, AcquireInvocationThread(t)
    PROVE  Orderly
<1> DEFINE d == IF Exists(ee, t) THEN ee ELSE createThread(ee, t, 0)
           e == [d EXCEPT !.pc[t] = "End"]
           k == Head(ee.pending)
           m == [e EXCEPT !.pending = Tail(@)]
           n == makeRunning(m, t)
           r == pushInvocation(n, t, k)
<1>1. /\ Good(ee) /\ ee.current = NoThread /\ t \in Threads
      /\ ee \in EeState /\ ee.pending # <<>> /\ ~HasReady(ee)
    BY ThreadsFacts DEF AcquireInvocationThread, IInv, PhaseOK, Good, Core
<1>2. ToDispatch(r) BY DEF AcquireInvocationThread
<1>3. \A u \in Threads : ee.status[u] # "Ready"
    <2> SUFFICES ASSUME NEW u \in Threads, ee.status[u] = "Ready" PROVE FALSE
        OBVIOUS
    <2>1. ee.prio[u] \in Priorities BY <1>1 DEF EeState
    <2> QED BY <1>1, <2>1, EmptyQueue DEF HasReady
<1>4. /\ Good(d) /\ Side(d) /\ d.current = NoThread /\ d.status[t] = "Dormant"
      /\ d.inv[t] = <<>> /\ d.pending = ee.pending /\ \A u \in Threads : d.status[u] # "Ready"
    <2>1. CASE Exists(ee, t)
        BY <1>1, <1>3, <2>1 DEF AcquireInvocationThread, Exists, Sided
    <2>2. CASE ~Exists(ee, t)
        <3> DEFINE zero == 0
        <3>1. zero \in Priorities BY ConstantsAssumption DEF Priorities
        <3>2. d = createThread(ee, t, zero) BY <2>2
        <3>3. d.inv = [ee.inv EXCEPT ![t] = <<>>] BY <1>1, <3>2 DEF createThread, EeState
        <3>4. d.inv[t] = <<>> BY <1>1, <3>3 DEF EeState
        <3> HIDE DEF d, zero
        <3>5. /\ Good(d) /\ d.current = ee.current /\ d.status[t] = "Dormant"
              /\ d.pending = ee.pending
              /\ \A u \in Threads : u # t => d.status[u] = ee.status[u]
            BY <1>1, <2>2, <3>1, <3>2, CreateThreadGood
        <3>6. Side(d) BY <1>1, <2>2, <3>1, <3>2, <3>5, CreateThreadTurn, TurnSide DEF Sided
        <3> QED BY <1>1, <1>3, <3>4, <3>5, <3>6
    <2> QED BY <2>1, <2>2
<1> HIDE DEF d
<1>5. "End" \in PCs BY DEF PCs
<1>6. Good(e) /\ Side(e) BY <1>1, <1>4, <1>5, SetPc, YieldsSide
<1>7. e.status = d.status /\ e.pending = ee.pending /\ e.inv = d.inv /\ e.current = NoThread
    <2>1. d \in EeState BY <1>4 DEF Good, Core
    <2> QED BY <1>4, <2>1 DEF EeState
<1>8. e \in EeState BY <1>6 DEF Good, Core
<1> HIDE DEF e
<1>9. /\ m \in EeState /\ m.status = e.status /\ m.prio = e.prio /\ m.susp = e.susp
      /\ m.wake = e.wake /\ m.wait = e.wait /\ m.ready = e.ready /\ m.sema = e.sema
      /\ m.flag = e.flag /\ m.resume = e.resume /\ m.inv = e.inv /\ m.resched = e.resched
      /\ m.current = e.current
    <2> DEFINE rest == Tail(e.pending)
    <2>1. e.pending \in Seq(AsyncKinds) BY <1>8 DEF EeState
    <2>2. rest \in Seq(AsyncKinds) BY <1>1, <1>7, <2>1
    <2>3. m = [e EXCEPT !.pending = rest] OBVIOUS
    <2> HIDE DEF m, rest
    <2> QED BY <1>8, <2>2, <2>3 DEF EeState
<1> HIDE DEF m
<1>10. Settled(e, m) /\ Urgent(m) BY <1>6, <1>9 DEF Settled, Urgent, Side
<1>11. Side(m) BY <1>6, <1>10, SettledSide
<1>12. Good(n) /\ n.current = t BY <1>1, <1>4, <1>6, <1>7, <1>9, RunDormant
<1>13. Side(n)
    <2>1. \A u \in Threads : m.status[u] = "Ready" => m.prio[t] <= m.prio[u]
        BY <1>4, <1>7, <1>9
    <2> QED BY <1>1, <1>9, <1>11, <2>1, RunSide
<1>14. n.inv = m.inv BY <1>9 DEF makeRunning, EeState
<1> HIDE DEF n, k
<1>15. n.inv[t] = <<>> BY <1>4, <1>7, <1>9, <1>14
<1>16. Side(r) BY <1>1, <1>12, <1>13, <1>15, PushSide
<1> HIDE DEF r
<1>17. Sided' BY <1>2, <1>16 DEF ToDispatch, Sided, GuestSide
<1> QED BY <1>1, <1>17, NobodysTurn DEF Orderly

\* The action RunCompletion keeps the turns in order: the completion is taken
\* before the thread goes on.
LEMMA RunCompletionSide ==
    ASSUME IInv, Sided, NEW w, w # NoWait => w \in Wait /\ w.reason \in {"VSync", "External"},
           RunCompletion(w)
    PROVE  Orderly
<1> DEFINE e == [ee EXCEPT !.resume[ee.current] = FALSE]
<1>1. /\ Good(ee) /\ ee.current # NoThread /\ ee.current \in Threads /\ ee \in EeState
      /\ IF w = NoWait THEN ToDispatch(e) ELSE ToLoop(blockCurrent(e, w))
    BY Dispatching DEF RunCompletion
<1>2. Good(e) /\ e.current = ee.current BY <1>1, ClearResume
<1>3. /\ e.status = ee.status /\ e.prio = ee.prio /\ e.wait = ee.wait /\ e.inv = ee.inv
      /\ e.flag = ee.flag /\ e.resched = ee.resched /\ ~e.resume[ee.current]
      /\ \A t \in Threads : e.resume[t] => ee.resume[t]
    BY <1>1 DEF EeState
<1> HIDE DEF e
<1>4. Side(e) BY <1>2, <1>3 DEF Sided, Side, Urgent, Unsatisfied, Satisfied
<1>5. Keeps(ee, e) BY <1>2 DEF Keeps
<1>6. CASE w = NoWait
    <2>1. ee' = e /\ phase' # "Guest" BY <1>1, <1>6 DEF ToDispatch
    <2> QED BY <1>2, <1>4, <1>5, <2>1, LoopSide DEF Orderly
<1>7. CASE w # NoWait
    <2> DEFINE r == blockCurrent(e, w)
    <2>1. ee' = r /\ phase' # "Guest" BY <1>1, <1>7 DEF ToLoop
    <2>2. WaitFits(e, e.current, w) BY <1>7 DEF WaitFits
    <2>3. Good(r) BY <1>1, <1>2, <1>7, <2>2, BlockAlone
    <2>4. e \in EeState /\ Kept(e, e) BY <1>2 DEF Kept, Good, Core
    <2>5. Side(r) /\ Keeps(e, r) BY <1>1, <1>2, <1>3, <1>4, <1>7, <2>4, BlockSide
    <2> HIDE DEF r
    <2>6. Keeps(ee, r) BY <1>2, <2>5 DEF Keeps
    <2> QED BY <2>1, <2>3, <2>5, <2>6, LoopSide DEF Orderly
<1> QED BY <1>6, <1>7

\* The action InvocationCompletes keeps the turns in order.
LEMMA InvocationCompletesSide ==
    ASSUME IInv, Sided, InvocationCompletes
    PROVE  Orderly
<1> DEFINE k == Last(ee.inv[ee.current]).kind
           e == popInvocation(ee, ee.current)
           delete == k = "ExitDelete"
<1>1. /\ Good(ee) /\ ee.current # NoThread /\ ee.current \in Threads /\ ee.inv[ee.current] # <<>>
    BY Dispatching DEF InvocationCompletes, CanDispatch
<1>2. Good(e) /\ e.current = ee.current BY <1>1, PopInvocation
<1>3. ToLoop(e) \/ ToLoop(exitCurrent(e, delete))
    BY DEF InvocationCompletes
<1>4. delete \in BOOLEAN OBVIOUS
<1>5. Side(e) /\ Keeps(ee, e) BY <1>1, PopSide DEF Sided
<1> HIDE DEF e, delete
<1>6. CASE ToLoop(e) BY <1>2, <1>5, <1>6, LoopSide DEF Orderly, ToLoop
<1>7. CASE ToLoop(exitCurrent(e, delete))
    <2> DEFINE r == exitCurrent(e, delete)
    <2>1. Good(r) BY <1>1, <1>2, <1>4, ExitCurrentGood
    <2>2. ToLoop(r) BY <1>7
    <2>3. Side(r) /\ Keeps(e, r) BY <1>1, <1>2, <1>4, <1>5, ExitCurrentTurn
    <2> HIDE DEF r
    <2>4. Keeps(ee, r) BY <1>2, <2>3 DEF Keeps
    <2> QED BY <2>1, <2>2, <2>3, <2>4, LoopSide DEF Orderly, ToLoop
<1> QED BY <1>3, <1>6, <1>7

\* The current thread ends.
LEMMA EndCurrentSide ==
    ASSUME IInv, Sided, ee.current # NoThread,
           NEW r, r = [makeDormant(ee, ee.current) EXCEPT !.current = NoThread], ToLoop(r)
    PROVE  Orderly
<1> DEFINE delete == FALSE
<1>1. r = exitCurrent(ee, delete) /\ delete \in BOOLEAN BY DEF exitCurrent
<1> HIDE DEF delete
<1>2. Good(r) BY <1>1, ExitCurrentGood DEF IInv
<1>3. Side(r) /\ Keeps(ee, r) BY <1>1, ExitCurrentTurn DEF IInv, Sided
<1> QED BY <1>2, <1>3, LoopSide DEF Orderly, ToLoop

\* The action ThreadEnds keeps the turns in order.
LEMMA ThreadEndsSide ==
    ASSUME IInv, Sided, ThreadEnds
    PROVE  Orderly
<1> DEFINE r == [makeDormant(ee, ee.current) EXCEPT !.current = NoThread]
<1>1. ee.current # NoThread /\ ToLoop(r)
    BY Dispatching DEF ThreadEnds, CanDispatch
<1> HIDE DEF r
<1>2. r = [makeDormant(ee, ee.current) EXCEPT !.current = NoThread] BY DEF r
<1> QED BY <1>1, <1>2, EndCurrentSide

\* The action MissingFunction keeps the turns in order.
LEMMA MissingFunctionSide ==
    ASSUME IInv, Sided, MissingFunction
    PROVE  Orderly
<1>1. Good(ee) /\ ee.current # NoThread /\ ee.current \in Threads
    BY Dispatching DEF MissingFunction, CanDispatch
<1> DEFINE e == [ee EXCEPT !.pc[ee.current] = "End"]
           r == [makeDormant(ee, ee.current) EXCEPT !.current = NoThread]
<1>2. ToLoop(e) \/ ToLoop(r) BY DEF MissingFunction
<1>3. CASE ToLoop(e)
    <2>1. "End" \in PCs BY DEF PCs
    <2>2. Good(e) BY <1>1, <2>1, SetPc
    <2>3. Side(e) /\ Keeps(ee, e) BY <1>1, YieldsSide DEF Sided
    <2> HIDE DEF e
    <2> QED BY <1>3, <2>2, <2>3, LoopSide DEF Orderly, ToLoop
<1>4. CASE ToLoop(r)
    <2> HIDE DEF r
    <2>1. r = [makeDormant(ee, ee.current) EXCEPT !.current = NoThread] BY DEF r
    <2> QED BY <1>1, <1>4, <2>1, EndCurrentSide
<1> QED BY <1>2, <1>3, <1>4

\* The action StartInvocation keeps the turns in order: the handler is the
\* bottom invocation of its thread.
LEMMA StartInvocationSide ==
    ASSUME IInv, Sided, StartInvocation
    PROVE  Orderly
<1> DEFINE rest == Tail(ee.pending)
           k == Head(ee.pending)
           m == [ee EXCEPT !.pending = rest]
           r == pushInvocation(m, ee.current, k)
<1>1. /\ Good(ee) /\ ee \in EeState /\ ee.current # NoThread /\ ee.current \in Threads
      /\ ee.pending # <<>> /\ ee.inv[ee.current] = <<>> /\ ToLoop(r)
    BY Dispatching DEF StartInvocation
<1>2. ee.pending \in Seq(AsyncKinds) BY <1>1 DEF EeState
<1>3. rest \in Seq(AsyncKinds) /\ k \in AsyncKinds BY <1>1, <1>2
<1> HIDE DEF rest, k
<1>4. k \in Kinds BY <1>3 DEF Kinds
<1>5. /\ m \in EeState /\ m.current = ee.current
      /\ m.status = ee.status /\ m.prio = ee.prio /\ m.susp = ee.susp /\ m.wake = ee.wake
      /\ m.wait = ee.wait /\ m.ready = ee.ready /\ m.sema = ee.sema /\ m.flag = ee.flag
      /\ m.resume = ee.resume /\ m.inv = ee.inv /\ m.resched = ee.resched
    BY <1>1, <1>3 DEF EeState
<1> HIDE DEF m
<1>6. Good(m) BY <1>1, <1>5, GoodSame
<1>7. Settled(ee, m) /\ Urgent(m) BY <1>5 DEF Settled, Urgent, Sided, Side
<1>8. Side(m) BY <1>7, SettledSide DEF Sided
<1>9. Good(r) BY <1>1, <1>4, <1>6, PushInvocation
<1>10. Side(r) /\ Keeps(m, r) BY <1>1, <1>5, <1>6, <1>8, PushSide
<1> HIDE DEF r
<1>11. Keeps(ee, r) BY <1>5, <1>10 DEF Keeps
<1> QED BY <1>1, <1>9, <1>10, <1>11, LoopSide DEF Orderly, ToLoop

\* The action DispatchYields keeps the turns in order.
LEMMA DispatchYieldsSide ==
    ASSUME IInv, Sided, NEW expires \in BOOLEAN, DispatchYields(expires)
    PROVE  Orderly
<1>1. Good(ee) BY Dispatching DEF DispatchYields, CanDispatch
<1>2. PICK e : /\ ToLoop(e)
               /\ \/ e = [ee EXCEPT !.check = TRUE]
                  \/ e = [ee EXCEPT !.resched = TRUE, !.expired = TRUE]
    BY DEF DispatchYields
<1>3. Good(e) BY <1>1, <1>2, YieldsGood
<1>4. Side(e) /\ Keeps(ee, e) BY <1>1, <1>2, YieldsSide DEF Sided
<1> QED BY <1>2, <1>3, <1>4, LoopSide DEF Orderly, ToLoop

\* The action WaitForEvent keeps the turns in order.
LEMMA WaitForEventSide ==
    ASSUME IInv, Sided, WaitForEvent
    PROVE  Orderly
<1>1. Good(ee) /\ ee' = ee /\ phase' # "Guest" BY DEF WaitForEvent, IInv
<1> QED BY <1>1, LoopSide DEF Orderly, Sided, Keeps

\* The action EnterGuest keeps the turns in order: no completion and no handler
\* is left to run first.
LEMMA EnterGuestSide ==
    ASSUME IInv, Sided, EnterGuest
    PROVE  Orderly
<1>1. /\ Good(ee) /\ ee \in EeState /\ ee.current # NoThread /\ ee.current \in Threads
      /\ ~ee.resume[ee.current] /\ (ee.pending = <<>> \/ ee.inv[ee.current] # <<>>)
    BY Dispatching DEF EnterGuest, CanDispatch, NothingToStart
<1> DEFINE inIntr == /\ ee.inv[ee.current] # <<>>
                     /\ Last(ee.inv[ee.current]).kind = "Interrupt"
           r == [ee EXCEPT !.inIntr = inIntr]
<1>2. ee' = r /\ running' = ee.current BY DEF EnterGuest
<1> HIDE DEF inIntr
<1>3. /\ r.status = ee.status /\ r.prio = ee.prio /\ r.resume = ee.resume
      /\ r.wait = ee.wait /\ r.inv = ee.inv /\ r.flag = ee.flag /\ r.current = ee.current
      /\ r.resched = ee.resched /\ r.pending = ee.pending
    BY <1>1 DEF EeState
<1> HIDE DEF r
<1>4. Settled(ee, r) /\ Urgent(r) BY <1>3 DEF Settled, Urgent, Sided, Side
<1>5. Side(r) BY <1>4, SettledSide DEF Sided
<1>6. Sided' BY <1>1, <1>2, <1>3, <1>5 DEF Sided, GuestSide
<1>7. TurnKept BY <1>1, <1>2, <1>3, KeepsTurn DEF Keeps
<1> QED BY <1>6, <1>7 DEF Orderly

\* reset() leaves nothing out of order.
LEMMA InitSide ==
    ASSUME Init
    PROVE  Sided
<1>1. /\ phase = "Loop" /\ ee.current = NoThread
      /\ ee.resume = [t \in Threads |-> FALSE] /\ ee.inv = [t \in Threads |-> <<>>]
      /\ ee.wait = [t \in Threads |-> NoWait]
    BY DEF Init
<1> QED BY <1>1 DEF Sided, GuestSide, Side, Urgent, Unsatisfied, NoWait

\* Rotating a ready queue gives the turn away.
Rotates == \E p \in Priorities, safe \in BOOLEAN : RotateThreadReadyQueue(p, safe)

\* Every kernel call but a rotation keeps the turns in order.
LEMMA KernelCallSide ==
    ASSUME ~DetachedCalls, IInv, Sided, KernelCall
    PROVE  Sided' /\ (Rotates \/ TurnKept)
<1>1. Targets \subseteq Threads BY DEF Targets, Threads
<1>2. CASE \E t \in UserThreads, p \in Priorities : CreateThread(t, p)
    BY <1>2, CreateThreadSide DEF Orderly
<1>3. CASE \E t \in Targets : \/ DeleteThread(t) \/ StartThread(t) \/ TerminateThread(t)
                              \/ SuspendThread(t) \/ ResumeThread(t) \/ CancelWakeupThread(t)
    <2> PICK t \in Threads : \/ DeleteThread(t) \/ StartThread(t) \/ TerminateThread(t)
                             \/ SuspendThread(t) \/ ResumeThread(t) \/ CancelWakeupThread(t)
        BY <1>1, <1>3
    <2>1. CASE DeleteThread(t) BY <2>1, DeleteThreadSide DEF Orderly
    <2>2. CASE StartThread(t) BY <2>2, StartThreadSide DEF Orderly
    <2>3. CASE TerminateThread(t) BY <2>3, TerminateThreadSide DEF Orderly
    <2>4. CASE SuspendThread(t) BY <2>4, SuspendThreadSide DEF Orderly
    <2>5. CASE ResumeThread(t) BY <2>5, ResumeThreadSide DEF Orderly
    <2>6. CASE CancelWakeupThread(t) BY <2>6, CancelWakeupThreadSide DEF Orderly
    <2> QED BY <2>1, <2>2, <2>3, <2>4, <2>5, <2>6
<1>4. CASE \E delete, handlers \in BOOLEAN : ExitThread(delete, handlers)
    BY <1>4, ExitThreadSide DEF Orderly
<1>5. CASE SleepThread BY <1>5, SleepThreadSide DEF Orderly
<1>6. CASE \E t \in Targets, safe \in BOOLEAN : WakeupThread(t, safe) \/ ReleaseWaitThread(t, safe)
    BY <1>1, <1>6, WakeupThreadSide, ReleaseWaitThreadSide DEF Orderly
<1>7. CASE \E t \in Targets \cup {NoThread}, p \in Priorities, safe \in BOOLEAN :
               ChangeThreadPriority(t, p, safe)
    BY <1>1, <1>7, ChangeThreadPrioritySide DEF Orderly
<1>8. CASE Rotates BY <1>8, RotateThreadReadyQueueSide DEF Rotates
<1>9. CASE \E s \in Semas :
               \/ \E init \in 0 .. MaxSema, max \in 1 .. MaxSema : CreateSema(s, init, max)
               \/ \E safe \in BOOLEAN : DeleteSema(s, safe) \/ SignalSema(s, safe)
               \/ PollSema(s) \/ WaitSema(s)
    <2> PICK s \in Semas :
               \/ \E init \in 0 .. MaxSema, max \in 1 .. MaxSema : CreateSema(s, init, max)
               \/ \E safe \in BOOLEAN : DeleteSema(s, safe) \/ SignalSema(s, safe)
               \/ PollSema(s) \/ WaitSema(s)
        BY <1>9
    <2>1. CASE \E init \in 0 .. MaxSema, max \in 1 .. MaxSema : CreateSema(s, init, max)
        <3>1. 0 .. MaxSema \subseteq Nat /\ 1 .. MaxSema \subseteq Nat OBVIOUS
        <3> QED BY <2>1, <3>1, CreateSemaSide DEF Orderly
    <2>2. CASE \E safe \in BOOLEAN : DeleteSema(s, safe) \/ SignalSema(s, safe)
        BY <2>2, DeleteSemaSide, SignalSemaSide DEF Orderly
    <2>3. CASE PollSema(s) BY <2>3, PollSemaSide DEF Orderly
    <2>4. CASE WaitSema(s) BY <2>4, WaitSemaSide DEF Orderly
    <2> QED BY <2>1, <2>2, <2>3, <2>4
<1>10. CASE \E f \in Flags, bits \in SUBSET Bits :
               \/ \E multi \in BOOLEAN : CreateEventFlag(f, bits, multi)
               \/ \E safe \in BOOLEAN : DeleteEventFlag(f, safe) \/ SetEventFlag(f, bits, safe)
               \/ ClearEventFlag(f, bits)
               \/ \E mode \in SUBSET WaitModes :
                      PollEventFlag(f, bits, mode) \/ WaitEventFlag(f, bits, mode)
    <2> PICK f \in Flags, bits \in SUBSET Bits :
               \/ \E multi \in BOOLEAN : CreateEventFlag(f, bits, multi)
               \/ \E safe \in BOOLEAN : DeleteEventFlag(f, safe) \/ SetEventFlag(f, bits, safe)
               \/ ClearEventFlag(f, bits)
               \/ \E mode \in SUBSET WaitModes :
                      PollEventFlag(f, bits, mode) \/ WaitEventFlag(f, bits, mode)
        BY <1>10
    <2>1. CASE \E multi \in BOOLEAN : CreateEventFlag(f, bits, multi)
        BY <2>1, CreateEventFlagSide DEF Orderly
    <2>2. CASE \E safe \in BOOLEAN : DeleteEventFlag(f, safe) \/ SetEventFlag(f, bits, safe)
        BY <2>2, DeleteEventFlagSide, SetEventFlagSide DEF Orderly
    <2>3. CASE ClearEventFlag(f, bits) BY <2>3, ClearEventFlagSide DEF Orderly
    <2>4. CASE \E mode \in SUBSET WaitModes :
                   PollEventFlag(f, bits, mode) \/ WaitEventFlag(f, bits, mode)
        BY <2>4, PollEventFlagSide, WaitEventFlagSide DEF Orderly
    <2> QED BY <2>1, <2>2, <2>3, <2>4
<1>11. CASE \E completion \in BOOLEAN :
               \/ \E n \in 1 .. MaxTicks : WaitVSync(n, completion)
               \/ \E k \in Tokens : WaitExternal(k, completion)
    BY <1>11, WaitVSyncSide, WaitExternalSide DEF Orderly
<1>12. CASE \E k \in Tokens : CompleteExternalWait(k)
    BY <1>12, CompleteExternalWaitSide DEF Orderly
<1>13. CASE \E k \in CallKinds : InvokeCurrent(k) BY <1>13, InvokeCurrentSide DEF Orderly
<1> QED BY <1>2, <1>3, <1>4, <1>5, <1>6, <1>7, <1>8, <1>9, <1>10, <1>11, <1>12, <1>13
    DEF KernelCall, Rotates

\* Every step of the loop keeps the turns in order.
LEMMA DispatchStepSide ==
    ASSUME IInv, Sided, DispatchStep
    PROVE  Orderly
<1>1. CASE EventsDone BY <1>1, EventsDoneSide
<1>2. CASE SelectReady BY <1>2, SelectReadySide
<1>3. CASE \E t \in IdleThreads : AcquireInvocationThread(t)
    BY <1>3, AcquireInvocationThreadSide
<1>4. CASE WaitForEvent BY <1>4, WaitForEventSide
<1>5. CASE RunCompletion(NoWait) BY <1>5, RunCompletionSide
<1>6. CASE \E n \in 1 .. MaxTicks : RunCompletion(VSyncWait(n, TRUE))
    <2>1. PICK n \in 1 .. MaxTicks : RunCompletion(VSyncWait(n, TRUE)) BY <1>6
    <2> DEFINE yes == TRUE
               w == VSyncWait(n, yes)
    <2>2. RunCompletion(w) /\ yes \in BOOLEAN BY <2>1
    <2> HIDE DEF yes
    <2>3. w \in Wait /\ w.reason = "VSync" BY <2>2, VSyncWaitType
    <2> HIDE DEF w
    <2> QED BY <2>2, <2>3, RunCompletionSide
<1>7. CASE \E k \in Tokens : RunCompletion(ExternalWait(k, TRUE))
    <2>1. PICK k \in Tokens : RunCompletion(ExternalWait(k, TRUE)) BY <1>7
    <2> DEFINE yes == TRUE
               w == ExternalWait(k, yes)
    <2>2. RunCompletion(w) /\ yes \in BOOLEAN BY <2>1
    <2> HIDE DEF yes
    <2>3. w \in Wait /\ w.reason = "External" BY <2>2, ExternalWaitType
    <2> HIDE DEF w
    <2> QED BY <2>2, <2>3, RunCompletionSide
<1>8. CASE InvocationCompletes BY <1>8, InvocationCompletesSide
<1>9. CASE ThreadEnds BY <1>9, ThreadEndsSide
<1>10. CASE StartInvocation BY <1>10, StartInvocationSide
<1>11. CASE MissingFunction BY <1>11, MissingFunctionSide
<1>12. CASE \E expires \in BOOLEAN : DispatchYields(expires) BY <1>12, DispatchYieldsSide
<1>13. CASE EnterGuest BY <1>13, EnterGuestSide
<1> QED BY <1>1, <1>2, <1>3, <1>4, <1>5, <1>6, <1>7, <1>8, <1>9, <1>10, <1>11, <1>12, <1>13
    DEF DispatchStep

\* Every step of the specification keeps the turns in order.
LEMMA NextSided ==
    ASSUME ~DetachedCalls, IInv, Sided, [Next]_vars
    PROVE  Sided' /\ (Rotates \/ TurnKept \/ UNCHANGED vars)
<1>1. CASE GuestStep
    <2>1. \A k : QueueFromGuest(k) => k \in AsyncKinds BY DEF QueueFromGuest, AsyncKinds
    <2> QED BY <1>1, <2>1, KernelCallSide, QueueFromGuestSide, YieldStepsSide, GuestReturnsSide
        DEF GuestStep, Orderly
<1>2. CASE Event
    BY <1>2, VBlankStartSide, QueueHandlerSide, ExternalWakeSide DEF Event, Orderly
<1>3. CASE DispatchStep BY <1>3, DispatchStepSide DEF Orderly
<1>4. CASE UNCHANGED vars BY <1>4 DEF vars, Sided, GuestSide
<1> QED BY <1>1, <1>2, <1>3, <1>4 DEF Next

--------------------------------------------------------------------------------
(* The theorems about turns *)

\* The turns are in order in every state.
THEOREM TurnsInOrder == ASSUME ~DetachedCalls PROVE Spec => [](IInv /\ Sided)
<1>1. Init => IInv /\ Sided BY InitIInv, InitSide
<1>2. IInv /\ Sided /\ [Next]_vars => (IInv /\ Sided)' BY NextIInv, NextSided
<1> QED BY <1>1, <1>2, PTL DEF Spec

\* While guest code runs and no reschedule is requested, no more urgent thread is
\* ready: every operation that readies one, or lowers the running one, has asked
\* for the preemption (requestPreemptionIfHigher, changePriority).
THEOREM MostUrgentRunsHolds == ASSUME ~DetachedCalls PROVE Spec => []MostUrgentRuns
<1>1. IInv /\ Sided => MostUrgentRuns
    <2> SUFFICES ASSUME IInv, Sided, phase = "Guest", ee.current = running, ~ee.resched,
                        NEW p \in 0 .. ee.prio[running] - 1
                 PROVE  ee.ready[p] = <<>>
        BY DEF MostUrgentRuns, Detached
    <2>1. /\ Good(ee) /\ ee \in EeState /\ running # NoThread /\ running \in Threads
        BY DEF IInv, PhaseOK, Good, Core
    <2>2. ee.prio[running] \in 0 .. PriorityCount - 1 /\ PriorityCount \in Nat
        BY <2>1, ConstantsAssumption DEF EeState, Priorities
    <2>3. p \in Priorities /\ p < ee.prio[running] BY <2>2 DEF Priorities
    <2>4. ASSUME NEW t \in Threads, ee.status[t] = "Ready", ee.prio[t] = p PROVE FALSE
        <3>1. ee.prio[running] <= p BY <2>1, <2>4 DEF Sided, Side, Urgent
        <3> QED BY <2>2, <2>3, <3>1 DEF Priorities
    <2> QED BY <2>1, <2>3, <2>4, EmptyQueue
<1> QED BY <1>1, TurnsInOrder, PTL

\* No thread waits on an event flag whose bits satisfy it (finishEventWaiters).
THEOREM NoSatisfiedWaiterHolds == ASSUME ~DetachedCalls PROVE Spec => []NoSatisfiedWaiter
<1>1. Sided => NoSatisfiedWaiter
    BY DEF Sided, Side, Unsatisfied, Satisfied, NoSatisfiedWaiter
<1> QED BY <1>1, TurnsInOrder, PTL

\* Whenever a handler is pending while a thread without invocations is in guest code,
\* the checkpoint flag is up, so the thread runs no further than its next checkpoint
\* before the loop can start the handler (queueInvocation, checkpointDue).
THEOREM HandlersBeforeThreadsHolds ==
    ASSUME ~DetachedCalls PROVE Spec => []HandlersBeforeThreads
<1>1. Sided => HandlersBeforeThreads BY DEF Sided, GuestSide, HandlersBeforeThreads
<1> QED BY <1>1, TurnsInOrder, PTL

\* A queued handler is the bottom invocation of its thread, so there is one of
\* them at most (StartInvocation, acquireInvocationThread).
THEOREM OneHandlerPerThreadHolds ==
    ASSUME ~DetachedCalls PROVE Spec => []OneHandlerPerThread
<1>1. Sided => OneHandlerPerThread BY DEF Sided, Side, OneHandlerPerThread
<1> QED BY <1>1, TurnsInOrder, PTL

\* The completion of a wait runs before any code of its thread, and dies with it.
THEOREM CompletionsRunFirstHolds ==
    ASSUME ~DetachedCalls PROVE Spec => []CompletionsRunFirst
<1>1. IInv /\ Sided => CompletionsRunFirst
    <2> SUFFICES ASSUME IInv, Sided, NEW t \in Threads, ee.resume[t]
                 PROVE  ee.status[t] \in {"Ready", "Running", "Suspended"} /\ t # running
        BY DEF CompletionsRunFirst
    <2>1. ee.status[t] \in Fits BY DEF Sided, Side
    <2>2. t # running BY ThreadsFacts DEF IInv, PhaseOK, Sided, GuestSide
    <2> QED BY <2>1, <2>2 DEF Fits
<1> QED BY <1>1, TurnsInOrder, PTL

\* The running thread loses its turn to a thread of its own priority only when
\* its slice is over, in programs that do not rotate the ready queues.
THEOREM TurnLostOnlyToSliceHolds ==
    ASSUME ~DetachedCalls,
           {"RotateThreadReadyQueue", "iRotateThreadReadyQueue"}
               \cap (Calls \cup HandlerCalls) = {}
    PROVE  Spec => TurnLostOnlyToSlice
<1>1. ~Rotates BY DEF Rotates, RotateThreadReadyQueue, CanCall
<1>2. IInv /\ Sided /\ [Next]_vars =>
          [\A t \in Threads : ee.current = t /\ ee'.status[t] = "Ready" =>
               ee.expired \/ Head(ee'.ready[ee'.prio[t]]) = t]_vars
    BY <1>1, NextSided DEF TurnKept
<1> QED BY <1>2, TurnsInOrder, PTL DEF Spec, TurnLostOnlyToSlice
================================================================================

-------------------------- MODULE EeScheduler_proofs ---------------------------
(***************************************************************************)
(* Proofs of the safety invariants of EeScheduler.                         *)
(*                                                                         *)
(* A kernel call is a composition of helpers, and between two helpers the  *)
(* invariant is broken for the threads the call is moving: out of a wait   *)
(* and not yet in a ready queue, say.  Core(e, X) is the invariant of the  *)
(* record e with the threads of X lifted out of every queue.  One lemma    *)
(* per helper says how it moves threads in and out of X; an operation      *)
(* starts from Core(e, {}) and ends in it.                                 *)
(*                                                                         *)
(* The second part is about who is to run: Side(e) says that nobody more   *)
(* urgent than the current thread is ready unless a reschedule is          *)
(* requested, that no flag satisfies a waiter, and what completions and    *)
(* handlers a thread may have.  Turn(e, r) is what an operation may do to  *)
(* it, one lemma per operation; Keeps(e, r), that the current thread did   *)
(* not become ready.                                                       *)
(***************************************************************************)
EXTENDS EeScheduler, QueueOps_proofs, TLAPS

Blocks(e, t, reason, obj) == /\ e.status[t] \in BlockedStatuses
                             /\ e.wait[t].reason = reason
                             /\ e.wait[t].obj = obj

\* The members of X that belong to the ready queue of p, and to the waiters of obj.
ReadyAt(e, X, p) == {t \in X : e.status[t] = "Ready" /\ e.prio[t] = p}
BlockedOn(e, X, reason, obj) == {t \in X : Blocks(e, t, reason, obj)}

\* The conjuncts of the invariant, for the threads outside X.
QueuesOK(e, X) ==
    \A p \in Priorities :
        /\ ToSet(e.ready[p]) = ReadyAt(e, Threads \ X, p)
        /\ IsInjective(e.ready[p])

WaitsOK(e, X) ==
    /\ \A s \in Semas :
        /\ ToSet(e.sema[s].waiters) = BlockedOn(e, Threads \ X, "Semaphore", s)
        /\ IsInjective(e.sema[s].waiters)
    /\ \A f \in Flags :
        /\ ToSet(e.flag[f].waiters) = BlockedOn(e, Threads \ X, "EventFlag", f)
        /\ IsInjective(e.flag[f].waiters)

UnitsOK(e) ==
    /\ \A s \in Semas : e.sema[s].waiters # <<>> => e.sema[s].live /\ e.sema[s].count = 0
    /\ \A f \in Flags : e.flag[f].waiters # <<>> => e.flag[f].live

ThreadOK(e, t) ==
    /\ e.wait[t].reason # "None" <=> e.status[t] \in BlockedStatuses
    /\ e.wait[t].reason = "Semaphore" => e.wait[t].obj \in Semas
    /\ e.wait[t].reason = "EventFlag" => e.wait[t].obj \in Flags
    /\ e.susp[t] # 0 <=> e.status[t] \in {"Suspended", "WaitingSuspended"}
    /\ e.wait[t].reason = "Sleep" => e.wake[t] = 0

Core(e, X) ==
    /\ e \in EeState
    /\ QueuesOK(e, X)
    /\ WaitsOK(e, X)
    /\ UnitsOK(e)
    /\ \A t \in Threads \ X : ThreadOK(e, t)

RunOK(e) == \A t \in Threads : e.status[t] = "Running" <=> t = e.current

\* The thread ids are finitely many integers other than 0.
LEMMA ThreadsFacts ==
    /\ NoThread \notin Threads /\ Main \in Threads
    /\ Threads \subseteq Int /\ IsFiniteSet(Threads)
    /\ UserThreads \subseteq Threads /\ IdleThreads \subseteq Threads
<1>1. IsFiniteSet({Main}) BY FS_Singleton
<1>2. IsFiniteSet({Main} \cup UserThreads) BY <1>1, FS_Union, ConstantsAssumption
<1>3. IsFiniteSet(Threads) BY <1>2, FS_Union, ConstantsAssumption DEF Threads
<1> QED BY <1>3, ConstantsAssumption DEF Threads, NoThread, Main

--------------------------------------------------------------------------------
(* Moving threads in and out *)

\* Members the invariant does not read may change.
LEMMA CoreSame ==
    ASSUME NEW e, NEW X, Core(e, X), NEW r \in EeState,
           r.status = e.status, r.prio = e.prio, r.susp = e.susp, r.wake = e.wake,
           r.wait = e.wait, r.ready = e.ready, r.sema = e.sema, r.flag = e.flag
    PROVE  Core(r, X)
BY DEF Core, QueuesOK, WaitsOK, UnitsOK, ThreadOK, Blocks, ReadyAt, BlockedOn

\* r is e with the threads of X changed, and nothing but X taken from the queues.
AgreeOutside(e, r, X) ==
    \A u \in Threads \ X :
        /\ r.status[u] = e.status[u] /\ r.prio[u] = e.prio[u] /\ r.susp[u] = e.susp[u]
        /\ r.wake[u] = e.wake[u] /\ r.wait[u] = e.wait[u]

ReadyLose(e, r, X) ==
    \A p \in Priorities : /\ ToSet(r.ready[p]) = ToSet(e.ready[p]) \ X
                          /\ IsInjective(r.ready[p])
SemasLose(e, r, X) ==
    \A s \in Semas : /\ ToSet(r.sema[s].waiters) = ToSet(e.sema[s].waiters) \ X
                     /\ IsInjective(r.sema[s].waiters)
FlagsLose(e, r, X) ==
    \A f \in Flags : /\ ToSet(r.flag[f].waiters) = ToSet(e.flag[f].waiters) \ X
                     /\ IsInjective(r.flag[f].waiters)

\* The threads of X leave the queues of e: what is left is r with X lifted out.
LEMMA CoreTake ==
    ASSUME NEW e, NEW X, Core(e, {}), NEW r \in EeState,
           AgreeOutside(e, r, X), UnitsOK(r),
           ReadyLose(e, r, X), SemasLose(e, r, X), FlagsLose(e, r, X)
    PROVE  Core(r, X)
<1> USE DEF ReadyLose, SemasLose, FlagsLose
<1>1. QueuesOK(r, X)
    <2> SUFFICES ASSUME NEW p \in Priorities
                 PROVE  ToSet(r.ready[p]) = ReadyAt(r, Threads \ X, p)
        BY DEF QueuesOK
    <2>1. ToSet(e.ready[p]) = ReadyAt(e, Threads \ {}, p)
        BY DEF Core, QueuesOK
    <2> QED BY <2>1 DEF AgreeOutside, ReadyAt
<1>2. WaitsOK(r, X)
    <2>1. \A t \in Threads \ X : \A reason, obj : Blocks(r, t, reason, obj) <=> Blocks(e, t, reason, obj)
        BY DEF Blocks, AgreeOutside
    <2>2. ASSUME NEW s \in Semas
          PROVE  ToSet(r.sema[s].waiters) = BlockedOn(r, Threads \ X, "Semaphore", s)
        <3>1. ToSet(e.sema[s].waiters) = BlockedOn(e, Threads \ {}, "Semaphore", s)
            BY DEF Core, WaitsOK
        <3> QED BY <2>1, <3>1 DEF BlockedOn
    <2>3. ASSUME NEW f \in Flags
          PROVE  ToSet(r.flag[f].waiters) = BlockedOn(r, Threads \ X, "EventFlag", f)
        <3>1. ToSet(e.flag[f].waiters) = BlockedOn(e, Threads \ {}, "EventFlag", f)
            BY DEF Core, WaitsOK
        <3> QED BY <2>1, <3>1 DEF BlockedOn
    <2> QED BY <2>2, <2>3 DEF WaitsOK
<1>3. \A t \in Threads \ X : ThreadOK(r, t) BY DEF Core, ThreadOK, AgreeOutside
<1> QED BY <1>1, <1>2, <1>3 DEF Core

\* The threads of X are put back, each into the queue its new state belongs to.
ReadyGain(e, r, X) ==
    \A p \in Priorities : /\ ToSet(r.ready[p]) = ToSet(e.ready[p]) \cup ReadyAt(r, X, p)
                          /\ IsInjective(r.ready[p])
SemasGain(e, r, X) ==
    \A s \in Semas :
        /\ ToSet(r.sema[s].waiters) = ToSet(e.sema[s].waiters)
                                      \cup BlockedOn(r, X, "Semaphore", s)
        /\ IsInjective(r.sema[s].waiters)
FlagsGain(e, r, X) ==
    \A f \in Flags :
        /\ ToSet(r.flag[f].waiters) = ToSet(e.flag[f].waiters)
                                      \cup BlockedOn(r, X, "EventFlag", f)
        /\ IsInjective(r.flag[f].waiters)

\* The threads of X are put back into the queues their new state belongs to.
LEMMA CorePut ==
    ASSUME NEW e, NEW X, Core(e, X), X \subseteq Threads, NEW r \in EeState,
           AgreeOutside(e, r, X), UnitsOK(r), \A t \in X : ThreadOK(r, t),
           ReadyGain(e, r, X), SemasGain(e, r, X), FlagsGain(e, r, X)
    PROVE  Core(r, {})
<1> USE DEF ReadyGain, SemasGain, FlagsGain
<1>1. QueuesOK(r, {})
    <2> SUFFICES ASSUME NEW p \in Priorities
                 PROVE  ToSet(r.ready[p]) = ReadyAt(r, Threads \ {}, p)
        BY DEF QueuesOK
    <2>1. ToSet(e.ready[p]) = ReadyAt(e, Threads \ X, p)
        BY DEF Core, QueuesOK
    <2> QED BY <2>1 DEF AgreeOutside, ReadyAt
<1>2. WaitsOK(r, {})
    <2>1. \A t \in Threads \ X : \A reason, obj : Blocks(r, t, reason, obj) <=> Blocks(e, t, reason, obj)
        BY DEF Blocks, AgreeOutside
    <2>2. ASSUME NEW s \in Semas
          PROVE  ToSet(r.sema[s].waiters) = BlockedOn(r, Threads \ {}, "Semaphore", s)
        <3>1. ToSet(e.sema[s].waiters) = BlockedOn(e, Threads \ X, "Semaphore", s)
            BY DEF Core, WaitsOK
        <3> QED BY <2>1, <3>1 DEF BlockedOn
    <2>3. ASSUME NEW f \in Flags
          PROVE  ToSet(r.flag[f].waiters) = BlockedOn(r, Threads \ {}, "EventFlag", f)
        <3>1. ToSet(e.flag[f].waiters) = BlockedOn(e, Threads \ X, "EventFlag", f)
            BY DEF Core, WaitsOK
        <3> QED BY <2>1, <3>1 DEF BlockedOn
    <2> QED BY <2>2, <2>3 DEF WaitsOK
<1>3. \A t \in Threads : ThreadOK(r, t) BY DEF Core, ThreadOK, AgreeOutside
<1> QED BY <1>1, <1>2, <1>3 DEF Core

Unblocked(r, X) == \A t \in X : ThreadOK(r, t) /\ r.status[t] \notin BlockedStatuses

\* The same when none of them waits and the waiter queues stay as they are.
LEMMA CorePutUnblocked ==
    ASSUME NEW e, NEW X, Core(e, X), X \subseteq Threads, NEW r \in EeState,
           AgreeOutside(e, r, X), r.sema = e.sema, r.flag = e.flag,
           Unblocked(r, X), ReadyGain(e, r, X)
    PROVE  Core(r, {})
<1>1. UnitsOK(r) BY DEF Core, UnitsOK
<1>2. \A t \in X : \A reason, obj : ~Blocks(r, t, reason, obj) BY DEF Blocks, Unblocked
<1>3. SemasGain(e, r, X) BY <1>2 DEF Core, WaitsOK, BlockedOn, SemasGain
<1>4. FlagsGain(e, r, X) BY <1>2 DEF Core, WaitsOK, BlockedOn, FlagsGain
<1>5. \A t \in X : ThreadOK(r, t) BY DEF Unblocked
<1> QED BY <1>1, <1>3, <1>4, <1>5, CorePut

\* A thread that is in no queue is lifted out, changes its own members, and is
\* put down in a state that is in no queue either.
Loose(e, t) == /\ e.status[t] # "Ready"
               /\ e.wait[t].reason \notin {"Semaphore", "EventFlag"}

\* A thread that is in no queue can be lifted out.
LEMMA CoreLift ==
    ASSUME NEW e, Core(e, {}), NEW t \in Threads, Loose(e, t)
    PROVE  Core(e, {t})
BY DEF Core, QueuesOK, WaitsOK, ThreadOK, Blocks, ReadyAt, BlockedOn, Loose

\* A lifted thread may change its own members.
LEMMA CoreOwn ==
    ASSUME NEW e, NEW t \in Threads, Core(e, {t}), NEW r \in EeState,
           r.ready = e.ready, r.sema = e.sema, r.flag = e.flag, AgreeOutside(e, r, {t})
    PROVE  Core(r, {t})
BY DEF Core, QueuesOK, WaitsOK, UnitsOK, ThreadOK, Blocks, ReadyAt, BlockedOn, AgreeOutside

\* A lifted thread that belongs to no queue can be put down.
LEMMA CoreDrop ==
    ASSUME NEW e, NEW t \in Threads, Core(e, {t}), ThreadOK(e, t), Loose(e, t)
    PROVE  Core(e, {})
BY DEF Core, QueuesOK, WaitsOK, ThreadOK, Blocks, ReadyAt, BlockedOn, Loose

--------------------------------------------------------------------------------
(* The helpers *)

\* The wait of a thread that waits for nothing is a wait.
LEMMA NoWaitType == NoWait \in Wait
<1>1. MaxTicks \in Nat /\ NoObject \in Semas \cup Flags \cup Tokens \cup {NoObject}
    BY ConstantsAssumption
<1> QED BY <1>1 DEF NoWait, Wait, WaitReasons

\* The thread at the tail (front = FALSE) or at the head of its queue.
LEMMA Enqueue ==
    ASSUME NEW e, NEW t \in Threads, Core(e, {t}),
           e.wait[t].reason = "None", e.susp[t] = 0,
           NEW r, r \in {enqueueReady(e, t), enqueueReadyFront(e, t)}
    PROVE  /\ Core(r, {})
           /\ r.status = [e.status EXCEPT ![t] = "Ready"]
           /\ r.current = e.current
<1> DEFINE p == e.prio[t]
           q == r.ready[p]
<1>1. e \in EeState /\ p \in Priorities BY DEF Core, EeState
<1>2. e.ready[p] \in Seq(Threads) BY <1>1 DEF EeState
<1>3. IsInjective(e.ready[p]) /\ t \notin ToSet(e.ready[p]) BY <1>1 DEF Core, QueuesOK, ReadyAt
<1> DEFINE one == <<t>>
<1>4. /\ one \in Seq(Threads) /\ ToSet(one) = {t} /\ IsInjective(one)
      /\ ToSet(one) \cap ToSet(e.ready[p]) = {}
    BY <1>3 DEF ToSet, IsInjective
<1> HIDE DEF one
<1>5. \A w \in {Append(e.ready[p], t), one \o e.ready[p]} :
          w \in Seq(Threads) /\ ToSet(w) = ToSet(e.ready[p]) \cup {t} /\ IsInjective(w)
    <2>1. /\ Append(e.ready[p], t) \in Seq(Threads)
          /\ ToSet(Append(e.ready[p], t)) = ToSet(e.ready[p]) \cup {t}
          /\ IsInjective(Append(e.ready[p], t))
        BY <1>2, <1>3, AppendNew
    <2>2. /\ one \o e.ready[p] \in Seq(Threads)
          /\ ToSet(one \o e.ready[p]) = ToSet(one) \cup ToSet(e.ready[p])
          /\ IsInjective(one \o e.ready[p])
        BY <1>2, <1>3, <1>4, ConcatDisjoint
    <2> QED BY <2>1, <2>2, <1>4
<1>6. PICK w \in {Append(e.ready[p], t), one \o e.ready[p]} :
          r = [e EXCEPT !.status[t] = "Ready", !.ready[p] = w]
    BY <1>1 DEF enqueueReady, enqueueReadyFront, Cons, EeState, one
<1>7. r \in EeState BY <1>1, <1>5, <1>6 DEF EeState, Statuses
<1>8. /\ r.status = [e.status EXCEPT ![t] = "Ready"] /\ r.current = e.current
      /\ r.ready = [e.ready EXCEPT ![p] = w]
      /\ r.prio = e.prio /\ r.susp = e.susp /\ r.wake = e.wake /\ r.wait = e.wait
      /\ r.sema = e.sema /\ r.flag = e.flag
    BY <1>1, <1>6 DEF EeState
<1>9. \A u \in Threads : r.status[u] = IF u = t THEN "Ready" ELSE e.status[u]
    BY <1>1, <1>8 DEF EeState
<1>10. AgreeOutside(e, r, {t}) BY <1>8, <1>9 DEF AgreeOutside
<1>11. ReadyGain(e, r, {t})
    <2> SUFFICES ASSUME NEW o \in Priorities
                 PROVE  /\ ToSet(r.ready[o]) = ToSet(e.ready[o]) \cup ReadyAt(r, {t}, o)
                        /\ IsInjective(r.ready[o])
        BY DEF ReadyGain
    <2>1. r.ready[o] = IF o = p THEN w ELSE e.ready[o] BY <1>1, <1>8 DEF EeState
    <2>2. IsInjective(e.ready[o]) BY DEF Core, QueuesOK
    <2>3. ReadyAt(r, {t}, o) = IF o = p THEN {t} ELSE {}
        BY <1>8, <1>9 DEF ReadyAt
    <2>4. ToSet(w) = ToSet(e.ready[p]) \cup {t} /\ IsInjective(w) BY <1>5
    <2> QED BY <2>1, <2>2, <2>3, <2>4
<1>12. Unblocked(r, {t})
    BY <1>8, <1>9 DEF Unblocked, ThreadOK, BlockedStatuses
<1>13. {t} \subseteq Threads OBVIOUS
<1>14. Core(r, {}) BY <1>13, <1>7, <1>8, <1>10, <1>11, <1>12, CorePutUnblocked
<1> QED BY <1>8, <1>14

\* A thread that is in no queue changes its own members and stays in none.
LEMMA CoreAlone ==
    ASSUME NEW e, NEW t \in Threads, Core(e, {}), Loose(e, t), NEW r \in EeState,
           r.ready = e.ready, r.sema = e.sema, r.flag = e.flag, AgreeOutside(e, r, {t}),
           Loose(r, t), ThreadOK(r, t)
    PROVE  Core(r, {})
BY CoreLift, CoreOwn, CoreDrop

\* A ready thread is taken off its queue.
LEMMA Dequeue ==
    ASSUME NEW e, NEW t \in Threads, Core(e, {}), e.status[t] = "Ready",
           NEW r, r = removeReady(e, t)
    PROVE  /\ Core(r, {t}) /\ r = [e EXCEPT !.ready = r.ready]
           /\ r.ready \in [Priorities -> Seq(Threads)]
<1> DEFINE p == e.prio[t]
           q == RemoveFirst(e.ready[p], t)
<1>1. e \in EeState /\ p \in Priorities /\ e.ready[p] \in Seq(Threads) BY DEF Core, EeState
<1>2. \A o \in Priorities : /\ ToSet(e.ready[o]) = ReadyAt(e, Threads \ {}, o)
                            /\ IsInjective(e.ready[o])
    BY DEF Core, QueuesOK
<1>3. q \in Seq(Threads) /\ ToSet(q) = ToSet(e.ready[p]) \ {t} /\ IsInjective(q)
    BY <1>1, <1>2, RemoveFirstOf
<1>4. r = [e EXCEPT !.ready[p] = q] BY <1>1 DEF removeReady, EeState
<1> HIDE DEF q
<1> DEFINE queues == [e.ready EXCEPT ![p] = q]
<1>41. queues \in [Priorities -> Seq(Threads)] BY <1>1, <1>3 DEF EeState
<1>42. r = [e EXCEPT !.ready = queues] BY <1>4
<1> HIDE DEF queues
<1>5. /\ r \in EeState /\ r.ready = queues
      /\ r.status = e.status /\ r.prio = e.prio /\ r.susp = e.susp /\ r.wake = e.wake
      /\ r.wait = e.wait /\ r.sema = e.sema /\ r.flag = e.flag
    BY <1>1, <1>41, <1>42 DEF EeState
<1>6. ReadyLose(e, r, {t})
    <2> SUFFICES ASSUME NEW o \in Priorities
                 PROVE  /\ ToSet(r.ready[o]) = ToSet(e.ready[o]) \ {t}
                        /\ IsInjective(r.ready[o])
        BY DEF ReadyLose
    <2>1. r.ready[o] = IF o = p THEN q ELSE e.ready[o] BY <1>1, <1>5 DEF EeState, queues
    <2>2. o # p => t \notin ToSet(e.ready[o]) BY <1>2 DEF ReadyAt
    <2> QED BY <1>2, <1>3, <2>1, <2>2
<1>7. SemasLose(e, r, {t})
    BY <1>5 DEF Core, WaitsOK, BlockedOn, Blocks, BlockedStatuses, SemasLose
<1>8. FlagsLose(e, r, {t})
    BY <1>5 DEF Core, WaitsOK, BlockedOn, Blocks, BlockedStatuses, FlagsLose
<1>9. AgreeOutside(e, r, {t}) /\ UnitsOK(r) BY <1>5 DEF AgreeOutside, Core, UnitsOK
<1>10. Core(r, {t}) BY <1>5, <1>6, <1>7, <1>8, <1>9, CoreTake
<1>11. r = [e EXCEPT !.ready = r.ready] BY <1>42, <1>5
<1> QED BY <1>5, <1>10, <1>11, <1>41

\* Waiters of a semaphore are taken off it.
LEMMA TakeSemaWaiters ==
    ASSUME NEW e, Core(e, {}), NEW s \in Semas, NEW X, NEW o \in Semaphore,
           X \subseteq ToSet(e.sema[s].waiters),
           ToSet(o.waiters) = ToSet(e.sema[s].waiters) \ X, IsInjective(o.waiters),
           o.waiters # <<>> => o.live /\ o.count = 0,
           NEW r, r = [e EXCEPT !.sema[s] = o]
    PROVE  Core(r, X)
<1>1. e \in EeState BY DEF Core
<1>2. /\ r \in EeState /\ r.sema = [e.sema EXCEPT ![s] = o] /\ r.ready = e.ready
      /\ r.status = e.status /\ r.prio = e.prio /\ r.susp = e.susp /\ r.wake = e.wake
      /\ r.wait = e.wait /\ r.flag = e.flag
    BY <1>1 DEF EeState
<1>3. \A t \in X : Blocks(e, t, "Semaphore", s)
    BY DEF Core, WaitsOK, BlockedOn
<1>4. ReadyLose(e, r, X)
    BY <1>2, <1>3 DEF Core, QueuesOK, ReadyAt, Blocks, BlockedStatuses, ReadyLose
<1>5. SemasLose(e, r, X)
    <2> SUFFICES ASSUME NEW z \in Semas
                 PROVE  /\ ToSet(r.sema[z].waiters) = ToSet(e.sema[z].waiters) \ X
                        /\ IsInjective(r.sema[z].waiters)
        BY DEF SemasLose
    <2>1. r.sema[z] = IF z = s THEN o ELSE e.sema[z] BY <1>1, <1>2 DEF EeState
    <2>2. z # s => \A t \in X : t \notin ToSet(e.sema[z].waiters)
        BY <1>3 DEF Core, WaitsOK, BlockedOn, Blocks
    <2>3. IsInjective(e.sema[z].waiters) BY DEF Core, WaitsOK
    <2> QED BY <2>1, <2>2, <2>3
<1>6. FlagsLose(e, r, X)
    BY <1>2, <1>3 DEF Core, WaitsOK, BlockedOn, Blocks, FlagsLose
<1>7. UnitsOK(r)
    <2> SUFFICES ASSUME NEW z \in Semas, r.sema[z].waiters # <<>>
                 PROVE  r.sema[z].live /\ r.sema[z].count = 0
        BY <1>2 DEF UnitsOK, Core
    <2>1. r.sema[z] = IF z = s THEN o ELSE e.sema[z] BY <1>1, <1>2 DEF EeState
    <2> QED BY <2>1 DEF Core, UnitsOK
<1>8. AgreeOutside(e, r, X) BY <1>2 DEF AgreeOutside
<1> QED BY <1>2, <1>4, <1>5, <1>6, <1>7, <1>8, CoreTake

\* Waiters of an event flag are taken off it.
LEMMA TakeFlagWaiters ==
    ASSUME NEW e, Core(e, {}), NEW f \in Flags, NEW X, NEW o \in EventFlag,
           X \subseteq ToSet(e.flag[f].waiters),
           ToSet(o.waiters) = ToSet(e.flag[f].waiters) \ X, IsInjective(o.waiters),
           o.waiters # <<>> => o.live,
           NEW r, r = [e EXCEPT !.flag[f] = o]
    PROVE  Core(r, X)
<1>1. e \in EeState BY DEF Core
<1>2. /\ r \in EeState /\ r.flag = [e.flag EXCEPT ![f] = o] /\ r.ready = e.ready
      /\ r.status = e.status /\ r.prio = e.prio /\ r.susp = e.susp /\ r.wake = e.wake
      /\ r.wait = e.wait /\ r.sema = e.sema
    BY <1>1 DEF EeState
<1>3. \A t \in X : Blocks(e, t, "EventFlag", f)
    BY DEF Core, WaitsOK, BlockedOn
<1>4. ReadyLose(e, r, X)
    BY <1>2, <1>3 DEF Core, QueuesOK, ReadyAt, Blocks, BlockedStatuses, ReadyLose
<1>5. FlagsLose(e, r, X)
    <2> SUFFICES ASSUME NEW z \in Flags
                 PROVE  /\ ToSet(r.flag[z].waiters) = ToSet(e.flag[z].waiters) \ X
                        /\ IsInjective(r.flag[z].waiters)
        BY DEF FlagsLose
    <2>1. r.flag[z] = IF z = f THEN o ELSE e.flag[z] BY <1>1, <1>2 DEF EeState
    <2>2. z # f => \A t \in X : t \notin ToSet(e.flag[z].waiters)
        BY <1>3 DEF Core, WaitsOK, BlockedOn, Blocks
    <2>3. IsInjective(e.flag[z].waiters) BY DEF Core, WaitsOK
    <2> QED BY <2>1, <2>2, <2>3
<1>6. SemasLose(e, r, X)
    BY <1>2, <1>3 DEF Core, WaitsOK, BlockedOn, Blocks, SemasLose
<1>7. UnitsOK(r)
    <2> SUFFICES ASSUME NEW z \in Flags, r.flag[z].waiters # <<>> PROVE r.flag[z].live
        BY <1>2 DEF UnitsOK, Core
    <2>1. r.flag[z] = IF z = f THEN o ELSE e.flag[z] BY <1>1, <1>2 DEF EeState
    <2> QED BY <2>1 DEF Core, UnitsOK
<1>8. AgreeOutside(e, r, X) BY <1>2 DEF AgreeOutside
<1> QED BY <1>2, <1>4, <1>5, <1>6, <1>7, <1>8, CoreTake

\* What a thread keeps while it is taken out of a queue.
Kept(e, r) == /\ r.status = e.status /\ r.prio = e.prio /\ r.susp = e.susp
              /\ r.wake = e.wake /\ r.current = e.current

\* A thread that waits is taken off the waiters of its object.
LEMMA LeaveWait ==
    ASSUME NEW e, NEW t \in Threads, Core(e, {}), e.status[t] \in BlockedStatuses,
           NEW r, r = removeFromWaitObject(e, t)
    PROVE  Core(r, {t}) /\ Kept(e, r) /\ r.wait[t] = NoWait
<1> DEFINE w == e.wait[t]
           semas == IF w.reason = "Semaphore"
                    THEN [e.sema EXCEPT ![w.obj].waiters = RemoveFirst(@, t)] ELSE e.sema
           flags == IF w.reason = "EventFlag"
                    THEN [e.flag EXCEPT ![w.obj].waiters = RemoveFirst(@, t)] ELSE e.flag
           waits == [e.wait EXCEPT ![t] = NoWait]
<1>1. e \in EeState /\ ThreadOK(e, t) BY DEF Core
<1>2. waits \in [Threads -> Wait] BY <1>1, NoWaitType DEF EeState
<1>3. r = [e EXCEPT !.sema = semas, !.flag = flags, !.wait = waits]
    BY DEF removeFromWaitObject
<1>4. \A u \in Threads : waits[u] = IF u = t THEN NoWait ELSE e.wait[u] BY <1>1 DEF EeState
<1> HIDE DEF waits
<1>5. ASSUME NEW m, Core(m, {t}), Kept(e, m), m.ready = e.ready, m.wait = e.wait,
             m.sema = semas, m.flag = flags
      PROVE  Core(r, {t}) /\ Kept(e, r) /\ r.wait[t] = NoWait
    <2> HIDE DEF semas, flags
    <2>1. semas \in [Semas -> Semaphore] /\ flags \in [Flags -> EventFlag]
        BY <1>5 DEF Core, EeState
    <2>2. /\ r \in EeState /\ Kept(e, r) /\ r.wait = waits
          /\ r.ready = e.ready /\ r.sema = semas /\ r.flag = flags
        BY <1>1, <1>2, <1>3, <2>1 DEF EeState, Kept
    <2>3. AgreeOutside(m, r, {t}) BY <1>4, <1>5, <2>2 DEF AgreeOutside, Kept
    <2>4. Core(r, {t}) BY <1>5, <2>2, <2>3, CoreOwn
    <2> QED BY <1>4, <2>2, <2>4
<1>6. CASE w.reason = "Semaphore"
    <2> DEFINE s == w.obj
               q == RemoveFirst(e.sema[s].waiters, t)
               o == [e.sema[s] EXCEPT !.waiters = q]
               m == [e EXCEPT !.sema[s] = o]
    <2>1. s \in Semas /\ e.sema[s] \in Semaphore BY <1>1, <1>6 DEF ThreadOK, EeState
    <2>2. e.sema[s].waiters \in Seq(Threads) /\ IsInjective(e.sema[s].waiters)
        BY <2>1 DEF Core, WaitsOK, Semaphore
    <2>3. q \in Seq(Threads) /\ ToSet(q) = ToSet(e.sema[s].waiters) \ {t} /\ IsInjective(q)
        BY <2>2, RemoveFirstOf
    <2>4. t \in ToSet(e.sema[s].waiters)
        BY <1>6, <2>1 DEF Core, WaitsOK, BlockedOn, Blocks
    <2>5. e.sema[s].waiters # <<>> BY <2>4 DEF ToSet
    <2>6. e.sema[s].live /\ e.sema[s].count = 0 BY <2>1, <2>5 DEF Core, UnitsOK
    <2>7. semas = [e.sema EXCEPT ![s] = o] /\ flags = e.flag BY <1>6
    <2> HIDE DEF q, semas, flags
    <2>8. o \in Semaphore /\ o.waiters = q /\ o.count = 0 /\ o.live
        BY <2>1, <2>3, <2>6 DEF Semaphore
    <2>9. {t} \subseteq ToSet(e.sema[s].waiters) BY <2>4
    <2> HIDE DEF o
    <2>10. Core(m, {t}) BY <2>1, <2>3, <2>8, <2>9, TakeSemaWaiters
    <2>11. /\ Kept(e, m) /\ m.ready = e.ready /\ m.wait = e.wait
           /\ m.sema = semas /\ m.flag = flags
        BY <1>1, <2>7 DEF EeState, Kept
    <2> HIDE DEF m
    <2> QED BY <2>10, <2>11, <1>5
<1>7. CASE w.reason = "EventFlag"
    <2> DEFINE f == w.obj
               q == RemoveFirst(e.flag[f].waiters, t)
               o == [e.flag[f] EXCEPT !.waiters = q]
               m == [e EXCEPT !.flag[f] = o]
    <2>1. f \in Flags /\ e.flag[f] \in EventFlag BY <1>1, <1>7 DEF ThreadOK, EeState
    <2>2. e.flag[f].waiters \in Seq(Threads) /\ IsInjective(e.flag[f].waiters)
        BY <2>1 DEF Core, WaitsOK, EventFlag
    <2>3. q \in Seq(Threads) /\ ToSet(q) = ToSet(e.flag[f].waiters) \ {t} /\ IsInjective(q)
        BY <2>2, RemoveFirstOf
    <2>4. t \in ToSet(e.flag[f].waiters)
        BY <1>7, <2>1 DEF Core, WaitsOK, BlockedOn, Blocks
    <2>5. flags = [e.flag EXCEPT ![f] = o] /\ semas = e.sema BY <1>7
    <2>10. e.flag[f].waiters # <<>> BY <2>4 DEF ToSet
    <2>11. e.flag[f].live BY <2>1, <2>10 DEF Core, UnitsOK
    <2> HIDE DEF q, semas, flags
    <2>6. o \in EventFlag /\ o.waiters = q /\ o.live BY <2>1, <2>3, <2>11 DEF EventFlag
    <2>7. {t} \subseteq ToSet(e.flag[f].waiters) BY <2>4
    <2> HIDE DEF o
    <2>8. Core(m, {t}) BY <2>1, <2>3, <2>6, <2>7, TakeFlagWaiters
    <2>9. /\ Kept(e, m) /\ m.ready = e.ready /\ m.wait = e.wait
          /\ m.sema = semas /\ m.flag = flags
        BY <1>1, <2>5 DEF EeState, Kept
    <2> HIDE DEF m
    <2> QED BY <2>8, <2>9, <1>5
<1>8. CASE w.reason \notin {"Semaphore", "EventFlag"}
    <2>1. Core(e, {t}) BY <1>8, CoreLift DEF Loose, BlockedStatuses
    <2>2. semas = e.sema /\ flags = e.flag /\ Kept(e, e) BY <1>8 DEF Kept
    <2> HIDE DEF semas, flags
    <2> QED BY <2>1, <2>2, <1>5
<1> QED BY <1>6, <1>7, <1>8

\* removeReady() and removeFromWaitObject() one after the other take a thread
\* out of whatever queue it is in.
LEMMA TakeOut ==
    ASSUME NEW e, NEW t \in Threads, Core(e, {}),
           NEW r, r = removeFromWaitObject(removeReady(e, t), t)
    PROVE  Core(r, {t}) /\ Kept(e, r) /\ r.wait[t] = NoWait
<1>1. e \in EeState /\ ThreadOK(e, t) BY DEF Core
<1>2. ASSUME NEW m, Core(m, {t}), Kept(e, m), m.wait = e.wait,
             e.wait[t].reason = "None", r = removeFromWaitObject(m, t)
      PROVE  Core(r, {t}) /\ Kept(e, r) /\ r.wait[t] = NoWait
    <2> DEFINE waits == [m.wait EXCEPT ![t] = NoWait]
    <2>1. m \in EeState BY <1>2 DEF Core
    <2>2. /\ waits \in [Threads -> Wait]
          /\ \A u \in Threads : waits[u] = IF u = t THEN NoWait ELSE m.wait[u]
        BY <2>1, NoWaitType DEF EeState
    <2>3. r = [m EXCEPT !.sema = m.sema, !.flag = m.flag, !.wait = waits]
        BY <1>2 DEF removeFromWaitObject
    <2> HIDE DEF waits
    <2>4. /\ r \in EeState /\ r.wait = waits /\ Kept(m, r)
          /\ r.ready = m.ready /\ r.sema = m.sema /\ r.flag = m.flag
        BY <2>1, <2>2, <2>3 DEF EeState, Kept
    <2>5. AgreeOutside(m, r, {t}) BY <2>2, <2>4 DEF AgreeOutside, Kept
    <2>6. Core(r, {t}) BY <1>2, <2>4, <2>5, CoreOwn
    <2> QED BY <1>2, <2>2, <2>4, <2>6 DEF Kept
<1>3. CASE e.status[t] = "Ready"
    <2> DEFINE m == removeReady(e, t)
    <2>1. Core(m, {t}) /\ m = [e EXCEPT !.ready = m.ready] BY <1>3, Dequeue
    <2> HIDE DEF m
    <2>2. Kept(e, m) /\ m.wait = e.wait BY <1>1, <2>1 DEF EeState, Kept
    <2>3. e.wait[t].reason = "None" BY <1>1, <1>3 DEF ThreadOK, BlockedStatuses
    <2> QED BY <1>2, <2>1, <2>2, <2>3 DEF m
<1>4. CASE e.status[t] \in BlockedStatuses
    <2>1. removeReady(e, t) = e BY <1>4 DEF removeReady, BlockedStatuses
    <2> QED BY <1>4, <2>1, LeaveWait
<1>5. CASE e.status[t] # "Ready" /\ e.status[t] \notin BlockedStatuses
    <2>1. e.wait[t].reason = "None" BY <1>1, <1>5 DEF ThreadOK
    <2>2. removeReady(e, t) = e BY <1>5 DEF removeReady
    <2>3. Core(e, {t}) BY <1>5, <2>1, CoreLift DEF Loose
    <2> QED BY <1>2, <2>1, <2>2, <2>3 DEF Kept
<1> QED BY <1>3, <1>4, <1>5

\* makeDormant() leaves every queue in order, whatever the thread was doing.
LEMMA MakeDormant ==
    ASSUME NEW e, NEW t \in Threads, Core(e, {}), NEW r, r = makeDormant(e, t)
    PROVE  /\ Core(r, {})
           /\ r.status = [e.status EXCEPT ![t] = "Dormant"] /\ r.current = e.current
<1> DEFINE m == removeFromWaitObject(removeReady(e, t), t)
<1>1. Core(m, {t}) /\ Kept(e, m) /\ m.wait[t] = NoWait BY TakeOut
<1>2. r = [m EXCEPT !.status[t] = "Dormant", !.resume[t] = FALSE,
                    !.susp[t] = 0, !.wake[t] = 0, !.inv[t] = <<>>]
    BY DEF makeDormant
<1> HIDE DEF m
<1>3. m \in EeState BY <1>1 DEF Core
<1> DEFINE status == [m.status EXCEPT ![t] = "Dormant"]
           resume == [m.resume EXCEPT ![t] = FALSE]
           susp   == [m.susp EXCEPT ![t] = 0]
           wake   == [m.wake EXCEPT ![t] = 0]
           inv    == [m.inv EXCEPT ![t] = <<>>]
<1>4. /\ status \in [Threads -> Statuses] /\ resume \in [Threads -> BOOLEAN]
      /\ susp \in [Threads -> Nat] /\ wake \in [Threads -> Nat]
      /\ inv \in [Threads -> Seq(Invocation)]
    BY <1>3 DEF EeState, Statuses
<1>5. r = [m EXCEPT !.status = status, !.resume = resume, !.susp = susp,
                    !.wake = wake, !.inv = inv]
    BY <1>2
<1> HIDE DEF status, resume, susp, wake, inv
<1>6. /\ r \in EeState /\ r.status = status /\ r.susp = susp /\ r.wake = wake
      /\ r.wait = m.wait /\ r.prio = m.prio
      /\ r.ready = m.ready /\ r.sema = m.sema /\ r.flag = m.flag /\ r.current = m.current
    BY <1>3, <1>4, <1>5 DEF EeState
<1> USE DEF status, susp, wake
<1>7. AgreeOutside(m, r, {t}) BY <1>3, <1>6 DEF AgreeOutside, EeState
<1>8. Core(r, {t}) BY <1>1, <1>6, <1>7, CoreOwn
<1>9. ThreadOK(r, t) /\ Loose(r, t)
    BY <1>1, <1>3, <1>6 DEF ThreadOK, Loose, EeState, NoWait, BlockedStatuses
<1>10. Core(r, {}) BY <1>8, <1>9, CoreDrop
<1> QED BY <1>1, <1>6, <1>10 DEF Kept

\* The waits of the threads of ws end.
LEMMA MakeReady ==
    ASSUME NEW e, NEW ws \in Seq(Threads), IsInjective(ws), NEW X, X = ToSet(ws),
           Core(e, X), NEW safe \in BOOLEAN, NEW r, r = makeReady(e, ws, safe)
    PROVE  /\ Core(r, {}) /\ r.current = e.current
           /\ \A t \in Threads \ X : r.status[t] = e.status[t]
           /\ \A t \in X : r.status[t] \in {"Ready", "Suspended"}
<1> DEFINE up == {t \in X : e.susp[t] = 0}
           at(p) == {t \in up : e.prio[t] = p}
           status == [t \in Threads |-> IF t \in up THEN "Ready"
                                        ELSE IF t \in X THEN "Suspended" ELSE e.status[t]]
           wait   == [t \in Threads |-> IF t \in X THEN NoWait ELSE e.wait[t]]
           resume == [t \in Threads |-> IF t \in X THEN e.wait[t].completion ELSE e.resume[t]]
           ready  == [p \in Priorities |-> e.ready[p] \o Filter(ws, at(p))]
           above  == \E t \in up : Higher(e, t)
<1>1. e \in EeState /\ X \subseteq Threads BY DEF Core, ToSet
<1>2. /\ status \in [Threads -> Statuses] /\ wait \in [Threads -> Wait]
      /\ resume \in [Threads -> BOOLEAN]
    <2>1. \A t \in Threads : e.wait[t] \in Wait /\ e.wait[t].completion \in BOOLEAN
        BY <1>1 DEF EeState, Wait
    <2> QED BY <1>1, <2>1, NoWaitType DEF EeState, Statuses
<1>3. \A p \in Priorities :
          /\ ready[p] \in Seq(Threads) /\ IsInjective(ready[p])
          /\ ToSet(ready[p]) = ToSet(e.ready[p]) \cup at(p)
    <2> SUFFICES ASSUME NEW p \in Priorities
                 PROVE  /\ ready[p] \in Seq(Threads) /\ IsInjective(ready[p])
                        /\ ToSet(ready[p]) = ToSet(e.ready[p]) \cup at(p)
        OBVIOUS
    <2> DEFINE new == Filter(ws, at(p))
    <2>1. ready[p] = e.ready[p] \o new OBVIOUS
    <2>2. at(p) \subseteq X OBVIOUS
    <2> HIDE DEF at, ready
    <2>3. /\ new \in Seq(Threads) /\ IsInjective(new) /\ ToSet(new) = at(p)
        <3>1. ToSet(new) = ToSet(ws) \cap at(p) BY FilterOf
        <3>2. new \in Seq(Threads) /\ (IsInjective(ws) => IsInjective(new)) BY FilterOf
        <3> QED BY <2>2, <3>1, <3>2
    <2> HIDE DEF new
    <2>4. /\ e.ready[p] \in Seq(Threads) /\ IsInjective(e.ready[p])
          /\ ToSet(e.ready[p]) \cap ToSet(new) = {}
        BY <1>1, <2>2, <2>3 DEF Core, QueuesOK, EeState, ReadyAt
    <2> QED BY <2>1, <2>3, <2>4, ConcatDisjoint
<1>4. ready \in [Priorities -> Seq(Threads)] BY <1>3
<1> DEFINE resched == e.resched \/ above
           check   == e.check \/ ((safe \/ e.inIntr) /\ above)
<1>5. resched \in BOOLEAN /\ check \in BOOLEAN BY <1>1 DEF EeState
<1>6. r = [e EXCEPT !.status = status, !.wait = wait, !.resume = resume, !.ready = ready,
                    !.resched = resched, !.check = check]
    BY DEF makeReady
<1> HIDE DEF status, wait, resume, ready, resched, check
<1>7. /\ r \in EeState /\ r.status = status /\ r.wait = wait /\ r.ready = ready
      /\ r.prio = e.prio /\ r.susp = e.susp /\ r.wake = e.wake
      /\ r.sema = e.sema /\ r.flag = e.flag /\ r.current = e.current
    BY <1>1, <1>2, <1>4, <1>5, <1>6 DEF EeState
<1>8. AgreeOutside(e, r, X) BY <1>7 DEF AgreeOutside, status, wait
<1>9. Unblocked(r, X)
    BY <1>1, <1>7 DEF Unblocked, ThreadOK, NoWait, BlockedStatuses, status, wait
<1>10. ReadyGain(e, r, X)
    BY <1>1, <1>3, <1>7 DEF ReadyGain, ReadyAt, status
<1>11. Core(r, {}) BY <1>1, <1>7, <1>8, <1>9, <1>10, CorePutUnblocked
<1> QED BY <1>1, <1>7, <1>11 DEF status

--------------------------------------------------------------------------------
(* The operations: each starts and ends in a good state *)

Good(e) == Core(e, {}) /\ RunOK(e)

\* The same threads run.
SameRunning(e, r) == /\ r.current = e.current
                     /\ \A t \in Threads : r.status[t] = "Running" <=> e.status[t] = "Running"

\* Members the invariant does not read may change.
LEMMA GoodSame ==
    ASSUME NEW e, Good(e), NEW r \in EeState, r.current = e.current,
           r.status = e.status, r.prio = e.prio, r.susp = e.susp, r.wake = e.wake,
           r.wait = e.wait, r.ready = e.ready, r.sema = e.sema, r.flag = e.flag
    PROVE  Good(r)
<1>1. Core(r, {}) BY CoreSame DEF Good
<1> QED BY <1>1 DEF Good, RunOK

\* The core invariant with the same thread running is all of it.
LEMMA GoodRun ==
    ASSUME NEW e, Good(e), NEW r, Core(r, {}), SameRunning(e, r)
    PROVE  Good(r)
BY DEF Good, RunOK, SameRunning

\* requestPreemptionIfHigher() only raises flags.
LEMMA RequestPreemption ==
    ASSUME NEW e, Good(e), NEW t \in Threads, NEW safe \in BOOLEAN,
           NEW r, r = requestPreemptionIfHigher(e, t, safe)
    PROVE  Good(r) /\ r.current = e.current
<1>1. e \in EeState BY DEF Good, Core
<1> DEFINE resched == IF Higher(e, t) THEN TRUE ELSE e.resched
           check   == IF Higher(e, t) THEN e.check \/ safe \/ e.inIntr ELSE e.check
<1>2. resched \in BOOLEAN /\ check \in BOOLEAN BY <1>1 DEF EeState
<1>3. r = [e EXCEPT !.resched = resched, !.check = check]
    BY <1>1 DEF requestPreemptionIfHigher, EeState
<1> HIDE DEF resched, check
<1>4. /\ r \in EeState /\ r.current = e.current
      /\ r.status = e.status /\ r.prio = e.prio /\ r.susp = e.susp /\ r.wake = e.wake
      /\ r.wait = e.wait /\ r.ready = e.ready /\ r.sema = e.sema /\ r.flag = e.flag
    BY <1>1, <1>2, <1>3 DEF EeState
<1> QED BY <1>4, GoodSame

\* The thread that runs is in no queue.
LEMMA RunningLoose ==
    ASSUME NEW e, Good(e), e.current # NoThread
    PROVE  /\ e.current \in Threads /\ e.status[e.current] = "Running"
           /\ Loose(e, e.current) /\ ThreadOK(e, e.current) /\ Core(e, {e.current})
           /\ e.wait[e.current].reason = "None" /\ e.susp[e.current] = 0
<1> DEFINE t == e.current
<1>1. e \in EeState /\ t \in Threads BY DEF Good, Core, EeState
<1>2. e.status[t] = "Running" /\ ThreadOK(e, t) BY <1>1 DEF Good, RunOK, Core
<1>3. /\ e.wait[t].reason = "None" /\ Loose(e, t) /\ e.susp[t] = 0
    BY <1>1, <1>2 DEF ThreadOK, Loose, BlockedStatuses
<1>4. Core(e, {t}) BY <1>1, <1>3, CoreLift DEF Good
<1> QED BY <1>1, <1>2, <1>3, <1>4

\* Handing the processor back puts the running thread in its ready queue.
LEMMA Preempt ==
    ASSUME NEW e, Good(e), NEW atTail \in BOOLEAN, NEW r, r = preempt(e, atTail)
    PROVE  Good(r) /\ r.current = NoThread
<1>1. e \in EeState BY DEF Good, Core
<1>2. PICK m : /\ Core(m, {})
               /\ \A t \in Threads : m.status[t] # "Running"
               /\ r = [m EXCEPT !.current = NoThread, !.resched = FALSE, !.expired = FALSE]
    <2>1. CASE e.current = NoThread
        <3>1. \A t \in Threads : e.status[t] # "Running"
            BY <2>1, ThreadsFacts DEF Good, RunOK
        <3>2. r = [e EXCEPT !.current = NoThread, !.resched = FALSE, !.expired = FALSE]
            BY <2>1 DEF preempt
        <3> QED BY <3>1, <3>2 DEF Good
    <2>2. CASE e.current # NoThread
        <3> DEFINE t == e.current
                   m == IF atTail THEN enqueueReady(e, t) ELSE enqueueReadyFront(e, t)
        <3>1. /\ t \in Threads /\ Core(e, {t})
              /\ e.wait[t].reason = "None" /\ e.susp[t] = 0
            BY <2>2, RunningLoose
        <3>2. m \in {enqueueReady(e, t), enqueueReadyFront(e, t)} OBVIOUS
        <3>3. r = [m EXCEPT !.current = NoThread, !.resched = FALSE, !.expired = FALSE]
            BY <2>2 DEF preempt
        <3> HIDE DEF m
        <3>4. Core(m, {}) /\ m.status = [e.status EXCEPT ![t] = "Ready"]
            BY <3>1, <3>2, Enqueue
        <3>5. \A u \in Threads : m.status[u] # "Running"
            BY <1>1, <3>4 DEF Good, RunOK, EeState
        <3> QED BY <3>3, <3>4, <3>5
    <2> QED BY <2>1, <2>2
<1>3. m \in EeState BY <1>2 DEF Core
<1>4. /\ r \in EeState /\ r.current = NoThread
      /\ r.status = m.status /\ r.prio = m.prio /\ r.susp = m.susp /\ r.wake = m.wake
      /\ r.wait = m.wait /\ r.ready = m.ready /\ r.sema = m.sema /\ r.flag = m.flag
    BY <1>2, <1>3 DEF EeState
<1>5. Core(r, {}) BY <1>2, <1>4, CoreSame
<1> QED BY <1>2, <1>4, <1>5, ThreadsFacts DEF Good, RunOK

\* createThread() makes a dormant thread.
LEMMA CreateThreadGood ==
    ASSUME NEW e, Good(e), NEW t \in Threads, ~Exists(e, t), NEW p \in Priorities,
           NEW r, r = createThread(e, t, p)
    PROVE  /\ Good(r) /\ r.current = e.current /\ r.status[t] = "Dormant"
           /\ r.pending = e.pending
           /\ \A u \in Threads : u # t => r.status[u] = e.status[u]
<1>1. e \in EeState /\ ThreadOK(e, t) /\ e.status[t] = "Absent" BY DEF Good, Core, Exists
<1> DEFINE status == [e.status EXCEPT ![t] = "Dormant"]
           prio   == [e.prio EXCEPT ![t] = p]
           susp   == [e.susp EXCEPT ![t] = 0]
           wake   == [e.wake EXCEPT ![t] = 0]
           wait   == [e.wait EXCEPT ![t] = NoWait]
           resume == [e.resume EXCEPT ![t] = FALSE]
           inv    == [e.inv EXCEPT ![t] = <<>>]
           pc     == [e.pc EXCEPT ![t] = "Code"]
<1>2. /\ status \in [Threads -> Statuses] /\ prio \in [Threads -> Priorities]
      /\ susp \in [Threads -> Nat] /\ wake \in [Threads -> Nat]
      /\ wait \in [Threads -> Wait] /\ resume \in [Threads -> BOOLEAN]
      /\ inv \in [Threads -> Seq(Invocation)] /\ pc \in [Threads -> PCs]
    BY <1>1, NoWaitType DEF EeState, Statuses, PCs
<1>3. r = [e EXCEPT !.status = status, !.prio = prio, !.susp = susp, !.wake = wake,
                    !.wait = wait, !.resume = resume, !.inv = inv, !.pc = pc]
    BY DEF createThread
<1> HIDE DEF status, prio, susp, wake, wait, resume, inv, pc
<1>4. /\ r \in EeState /\ r.status = status /\ r.prio = prio /\ r.susp = susp
      /\ r.wake = wake /\ r.wait = wait /\ r.ready = e.ready /\ r.sema = e.sema
      /\ r.flag = e.flag /\ r.current = e.current /\ r.pending = e.pending
    <2> DEFINE m == [e EXCEPT !.status = status, !.prio = prio, !.susp = susp, !.wake = wake]
    <2>0. m \in EeState BY <1>1, <1>2 DEF EeState
    <2>3. r = [m EXCEPT !.wait = wait, !.resume = resume, !.inv = inv, !.pc = pc] BY <1>3
    <2> HIDE DEF m
    <2>1. r \in EeState BY <2>0, <2>3, <1>2 DEF EeState
    <2>2. /\ r.status = status /\ r.prio = prio /\ r.susp = susp
          /\ r.wake = wake /\ r.wait = wait /\ r.ready = e.ready /\ r.sema = e.sema
          /\ r.flag = e.flag /\ r.current = e.current /\ r.pending = e.pending
        BY <1>1, <1>3 DEF EeState
    <2> QED BY <2>1, <2>2
<1> USE DEF status, prio, susp, wake, wait
<1>5. AgreeOutside(e, r, {t}) BY <1>1, <1>4 DEF AgreeOutside, EeState
<1>6. Loose(e, t) BY <1>1 DEF Loose, ThreadOK, BlockedStatuses
<1>7. Loose(r, t) /\ ThreadOK(r, t)
    BY <1>1, <1>4 DEF Loose, ThreadOK, NoWait, BlockedStatuses, EeState
<1>8. Core(r, {}) BY <1>4, <1>5, <1>6, <1>7, CoreAlone DEF Good
<1>9. /\ r.status[t] = "Dormant"
      /\ \A u \in Threads : u # t => r.status[u] = e.status[u]
    BY <1>1, <1>4 DEF EeState
<1>10. SameRunning(e, r) BY <1>1, <1>4, <1>9 DEF SameRunning
<1> QED BY <1>4, <1>8, <1>9, <1>10, GoodRun

\* A dormant thread is gone.
LEMMA Forget ==
    ASSUME NEW e, Good(e), NEW t \in Threads, e.status[t] = "Dormant",
           NEW r, r = [e EXCEPT !.status[t] = "Absent"]
    PROVE  Good(r) /\ r.current = e.current
<1> DEFINE status == [e.status EXCEPT ![t] = "Absent"]
<1>1. e \in EeState /\ ThreadOK(e, t) BY DEF Good, Core
<1>2. /\ status \in [Threads -> Statuses]
      /\ \A u \in Threads : status[u] = IF u = t THEN "Absent" ELSE e.status[u]
    BY <1>1 DEF EeState, Statuses
<1>3. r = [e EXCEPT !.status = status] OBVIOUS
<1> HIDE DEF status
<1>4. /\ r \in EeState /\ r.status = status
      /\ r.prio = e.prio /\ r.susp = e.susp /\ r.wake = e.wake /\ r.wait = e.wait
      /\ r.ready = e.ready /\ r.sema = e.sema /\ r.flag = e.flag /\ r.current = e.current
    BY <1>1, <1>2, <1>3 DEF EeState
<1>5. AgreeOutside(e, r, {t}) BY <1>2, <1>4 DEF AgreeOutside
<1>6. Loose(e, t) BY <1>1 DEF Loose, ThreadOK, BlockedStatuses
<1>7. Loose(r, t) /\ ThreadOK(r, t)
    BY <1>1, <1>2, <1>4, <1>6 DEF Loose, ThreadOK, BlockedStatuses
<1>8. Core(r, {}) BY <1>4, <1>5, <1>6, <1>7, CoreAlone DEF Good
<1>9. SameRunning(e, r) BY <1>2, <1>4 DEF SameRunning
<1> QED BY <1>4, <1>8, <1>9, GoodRun

\* deleteThread() forgets a dormant thread or refuses.
LEMMA DeleteThreadGood ==
    ASSUME NEW e, Good(e), NEW t \in Threads, NEW r, r = deleteThread(e, t)
    PROVE  Good(r) /\ r.current = e.current
BY Forget DEF deleteThread

\* A thread that is in no queue and has no open suspension becomes ready.
LEMMA EnqueueGood ==
    ASSUME NEW e, Core(e, {}), NEW t \in Threads, Core(e, {t}), RunOK(e), t # e.current,
           e.wait[t].reason = "None", e.susp[t] = 0, NEW r, r = enqueueReady(e, t)
    PROVE  Good(r) /\ r.current = e.current
<1>1. /\ Core(r, {}) /\ r.status = [e.status EXCEPT ![t] = "Ready"]
      /\ r.current = e.current
    BY Enqueue
<1>2. e.status \in [Threads -> Statuses] BY DEF Core, EeState
<1> QED BY <1>1, <1>2 DEF Good, RunOK

\* startThread() readies a dormant thread or refuses.
LEMMA StartThreadGood ==
    ASSUME NEW e, Good(e), NEW t \in Threads, NEW safe \in BOOLEAN,
           NEW r, r = startThread(e, t, safe)
    PROVE  Good(r) /\ r.current = e.current
<1>1. e \in EeState /\ ThreadOK(e, t) BY DEF Good, Core
<1>2. CASE e.status[t] # "Dormant" BY <1>2 DEF startThread
<1>3. CASE e.status[t] = "Dormant"
    <2> DEFINE pc   == [e.pc EXCEPT ![t] = "Code"]
               susp == [e.susp EXCEPT ![t] = 0]
               wake == [e.wake EXCEPT ![t] = 0]
               wait == [e.wait EXCEPT ![t] = NoWait]
               m    == [e EXCEPT !.pc = pc, !.susp = susp, !.wake = wake, !.wait = wait]
               q    == enqueueReady(m, t)
    <2>1. /\ pc \in [Threads -> PCs] /\ susp \in [Threads -> Nat]
          /\ wake \in [Threads -> Nat] /\ wait \in [Threads -> Wait]
        BY <1>1, NoWaitType DEF EeState, PCs
    <2>2. r = requestPreemptionIfHigher(q, t, safe) BY <1>3 DEF startThread
    <2> HIDE DEF pc, susp, wake, wait, q
    <2>3. /\ m \in EeState /\ m.susp = susp /\ m.wake = wake /\ m.wait = wait
          /\ m.status = e.status /\ m.prio = e.prio /\ m.ready = e.ready
          /\ m.sema = e.sema /\ m.flag = e.flag /\ m.current = e.current
        BY <1>1, <2>1 DEF EeState
    <2> HIDE DEF m
    <2> USE DEF susp, wake, wait
    <2>4. AgreeOutside(e, m, {t}) BY <1>1, <2>3 DEF AgreeOutside, EeState
    <2>5. Loose(e, t) BY <1>1, <1>3 DEF Loose, ThreadOK, BlockedStatuses
    <2>6. Loose(m, t) /\ ThreadOK(m, t) /\ m.wait[t].reason = "None" /\ m.susp[t] = 0
        BY <1>1, <1>3, <2>3 DEF Loose, ThreadOK, NoWait, BlockedStatuses, EeState
    <2>7. Core(m, {}) BY <2>3, <2>4, <2>5, <2>6, CoreAlone DEF Good
    <2>8. Core(m, {t}) BY <2>6, <2>7, CoreLift
    <2>9. RunOK(m) /\ t # m.current BY <1>3, <2>3 DEF Good, RunOK
    <2>10. Good(q) /\ q.current = e.current
        <3> HIDE DEF susp, wake, wait
        <3>1. q = enqueueReady(m, t) BY DEF q
        <3> QED BY <3>1, <2>3, <2>6, <2>7, <2>8, <2>9, EnqueueGood
    <2> QED BY <2>2, <2>10, RequestPreemption
<1> QED BY <1>2, <1>3

\* exitCurrent() leaves nobody running.
LEMMA ExitCurrentGood ==
    ASSUME NEW e, Good(e), e.current # NoThread, NEW delete \in BOOLEAN,
           NEW r, r = exitCurrent(e, delete)
    PROVE  Good(r) /\ r.current = NoThread
<1> DEFINE t == e.current
           m == makeDormant(e, t)
           d == [m EXCEPT !.current = NoThread]
<1>1. t \in Threads /\ e \in EeState BY RunningLoose DEF Good, Core
<1>2. /\ Core(m, {}) /\ m.status = [e.status EXCEPT ![t] = "Dormant"]
    BY <1>1, MakeDormant DEF Good
<1> HIDE DEF m
<1>4. m \in EeState BY <1>2 DEF Core
<1>5. /\ d \in EeState /\ d.current = NoThread
      /\ d.status = m.status /\ d.prio = m.prio /\ d.susp = m.susp /\ d.wake = m.wake
      /\ d.wait = m.wait /\ d.ready = m.ready /\ d.sema = m.sema /\ d.flag = m.flag
    BY <1>4 DEF EeState
<1> HIDE DEF d
<1>6. Core(d, {}) BY <1>2, <1>5, CoreSame
<1>7. \A u \in Threads : d.status[u] = IF u = t THEN "Dormant" ELSE e.status[u]
    <2>1. e.status \in [Threads -> Statuses] BY <1>1 DEF EeState
    <2> QED BY <1>1, <1>2, <1>5, <2>1
<1>8. \A u \in Threads : d.status[u] # "Running" BY <1>7 DEF Good, RunOK
<1>9. Good(d) BY <1>5, <1>6, <1>8, ThreadsFacts DEF Good, RunOK
<1>10. CASE r = [d EXCEPT !.status[t] = "Absent"] BY <1>1, <1>5, <1>7, <1>9, <1>10, Forget
<1>11. CASE r = d BY <1>5, <1>9, <1>11
<1> QED BY <1>10, <1>11 DEF exitCurrent, d, m

\* terminateThread() takes its target out of every queue.
LEMMA TerminateThreadGood ==
    ASSUME NEW e, Good(e), NEW t \in Threads, NEW r, r = terminateThread(e, t)
    PROVE  Good(r) /\ r.current = e.current
<1>1. e \in EeState BY DEF Good, Core
<1>2. CASE r = e BY <1>2
<1>3. CASE t # e.current /\ r = makeDormant(e, t)
    <2>1. /\ Core(r, {}) /\ r.status = [e.status EXCEPT ![t] = "Dormant"]
          /\ r.current = e.current
        BY <1>3, MakeDormant DEF Good
    <2>2. RunOK(r) BY <1>1, <1>3, <2>1 DEF Good, RunOK, EeState
    <2> QED BY <2>1, <2>2 DEF Good
<1> QED BY <1>2, <1>3 DEF terminateThread

\* The threads change counters and statuses, but none enters or leaves a queue.
LEMMA CoreRelabel ==
    ASSUME NEW e, Core(e, {}), NEW r \in EeState,
           r.wait = e.wait, r.ready = e.ready, r.sema = e.sema, r.flag = e.flag,
           NEW t \in Threads, AgreeOutside(e, r, {t}), ThreadOK(r, t),
           r.status[t] = "Ready" => r.prio[t] = e.prio[t],
           r.status[t] = "Ready" <=> e.status[t] = "Ready",
           r.status[t] \in BlockedStatuses <=> e.status[t] \in BlockedStatuses
    PROVE  Core(r, {})
<1>1. \A u \in Threads : /\ r.status[u] = "Ready" <=> e.status[u] = "Ready"
                         /\ r.status[u] \in BlockedStatuses <=> e.status[u] \in BlockedStatuses
    BY DEF AgreeOutside
<1>2. \A u \in Threads : ThreadOK(r, u) BY DEF Core, ThreadOK, AgreeOutside
<1>3. QueuesOK(r, {})
    <2>1. \A u \in Threads : r.status[u] = "Ready" => r.prio[u] = e.prio[u] BY DEF AgreeOutside
    <2> QED BY <1>1, <2>1 DEF Core, QueuesOK, ReadyAt
<1>4. WaitsOK(r, {}) BY <1>1 DEF Core, WaitsOK, BlockedOn, Blocks
<1>5. UnitsOK(r) BY DEF Core, UnitsOK
<1> QED BY <1>2, <1>3, <1>4, <1>5 DEF Core

\* A thread gets a new suspend count and the status that goes with it.
Recountable(e, t, n, st) == /\ n # 0 <=> st \in {"Suspended", "WaitingSuspended"}
                            /\ st = "Ready" <=> e.status[t] = "Ready"
                            /\ st \in BlockedStatuses <=> e.status[t] \in BlockedStatuses
                            /\ st = "Running" <=> e.status[t] = "Running"

\* A thread takes a new suspend count and a status that fits it.
LEMMA Recount ==
    ASSUME NEW e, Good(e), NEW t \in Threads, NEW n \in Nat, NEW st \in Statuses,
           NEW r, r = [e EXCEPT !.susp[t] = n, !.status[t] = st], Recountable(e, t, n, st)
    PROVE  Good(r) /\ r.current = e.current
<1> USE DEF Recountable
<1> DEFINE susp   == [e.susp EXCEPT ![t] = n]
           status == [e.status EXCEPT ![t] = st]
<1>1. e \in EeState /\ ThreadOK(e, t) BY DEF Good, Core
<1>2. /\ susp \in [Threads -> Nat] /\ status \in [Threads -> Statuses]
      /\ \A u \in Threads : /\ susp[u] = IF u = t THEN n ELSE e.susp[u]
                            /\ status[u] = IF u = t THEN st ELSE e.status[u]
    BY <1>1 DEF EeState
<1>3. r = [e EXCEPT !.susp = susp, !.status = status] OBVIOUS
<1> HIDE DEF susp, status
<1>4. /\ r \in EeState /\ r.status = status /\ r.susp = susp
      /\ r.prio = e.prio /\ r.wake = e.wake /\ r.wait = e.wait
      /\ r.ready = e.ready /\ r.sema = e.sema /\ r.flag = e.flag /\ r.current = e.current
    BY <1>1, <1>2, <1>3 DEF EeState
<1>5. AgreeOutside(e, r, {t}) BY <1>2, <1>4 DEF AgreeOutside
<1>6. /\ r.status[t] = st /\ r.susp[t] = n /\ ThreadOK(r, t)
    BY <1>1, <1>2, <1>4 DEF ThreadOK
<1>7. Core(r, {}) BY <1>4, <1>5, <1>6, CoreRelabel DEF Good
<1>8. SameRunning(e, r) BY <1>2, <1>4 DEF SameRunning
<1> QED BY <1>4, <1>7, <1>8, GoodRun

\* suspendThread() keeps count and status together in every state of its target.
LEMMA SuspendThreadGood ==
    ASSUME NEW e, Good(e), NEW t \in Threads, NEW r, r = suspendThread(e, t)
    PROVE  Good(r)
<1> DEFINE n == e.susp[t] + 1
           s == [e EXCEPT !.susp[t] = n]
<1>1. e \in EeState /\ ThreadOK(e, t) /\ e.susp[t] \in Nat /\ n \in Nat /\ n # 0
    BY DEF Good, Core, EeState
<1>2. CASE e.status[t] = "Running"
    <2> DEFINE susp   == [e.susp EXCEPT ![t] = n]
               status == [e.status EXCEPT ![t] = "Suspended"]
    <2>1. /\ susp \in [Threads -> Nat] /\ status \in [Threads -> Statuses]
          /\ \A u \in Threads : /\ susp[u] = IF u = t THEN n ELSE e.susp[u]
                                /\ status[u] = IF u = t THEN "Suspended" ELSE e.status[u]
        BY <1>1 DEF EeState, Statuses
    <2>2. r = [e EXCEPT !.susp = susp, !.status = status, !.current = NoThread, !.resched = TRUE]
        BY <1>2 DEF suspendThread
    <2> HIDE DEF susp, status
    <2>3. /\ r \in EeState /\ r.status = status /\ r.susp = susp
          /\ r.prio = e.prio /\ r.wake = e.wake /\ r.wait = e.wait /\ r.ready = e.ready
          /\ r.sema = e.sema /\ r.flag = e.flag /\ r.current = NoThread
        BY <1>1, <2>1, <2>2 DEF EeState
    <2>4. AgreeOutside(e, r, {t}) BY <2>1, <2>3 DEF AgreeOutside
    <2>5. Loose(e, t) BY <1>1, <1>2 DEF Loose, ThreadOK, BlockedStatuses
    <2>6. Loose(r, t) /\ ThreadOK(r, t)
        BY <1>1, <1>2, <2>1, <2>3 DEF Loose, ThreadOK, BlockedStatuses
    <2>7. Core(r, {}) BY <2>3, <2>4, <2>5, <2>6, CoreAlone DEF Good
    <2>8. \A u \in Threads : r.status[u] # "Running" BY <1>2, <2>1, <2>3 DEF Good, RunOK
    <2> QED BY <2>3, <2>7, <2>8, ThreadsFacts DEF Good, RunOK
<1>3. CASE e.status[t] = "Ready"
    <2> DEFINE m      == removeReady(e, t)
               susp   == [e.susp EXCEPT ![t] = n]
               status == [e.status EXCEPT ![t] = "Suspended"]
    <2>1. /\ susp \in [Threads -> Nat] /\ status \in [Threads -> Statuses]
          /\ \A u \in Threads : /\ susp[u] = IF u = t THEN n ELSE e.susp[u]
                                /\ status[u] = IF u = t THEN "Suspended" ELSE e.status[u]
        BY <1>1 DEF EeState, Statuses
    <2>2. Core(m, {t}) /\ m = [e EXCEPT !.ready = m.ready] BY <1>3, Dequeue DEF Good
    <2>3. m.ready = [e.ready EXCEPT ![e.prio[t]] = RemoveFirst(e.ready[e.prio[t]], t)]
        BY <1>1, <1>3 DEF removeReady, EeState
    <2>4. r = [e EXCEPT !.susp = susp, !.status = status, !.ready = m.ready]
        <3>1. removeReady(s, t) = [e EXCEPT !.susp = susp, !.ready = m.ready]
            BY <1>1, <1>3, <2>3 DEF removeReady, EeState
        <3>2. r = [removeReady(s, t) EXCEPT !.status[t] = "Suspended"]
            BY <1>3 DEF suspendThread
        <3> HIDE DEF m, susp
        <3> QED BY <1>1, <3>1, <3>2 DEF EeState
    <2> HIDE DEF m, susp, status
    <2>11. m.ready \in [Priorities -> Seq(Threads)] BY <2>2 DEF Core, EeState
    <2>5. /\ r \in EeState /\ r.status = status /\ r.susp = susp
          /\ r.prio = m.prio /\ r.wake = m.wake /\ r.wait = m.wait /\ r.ready = m.ready
          /\ r.sema = m.sema /\ r.flag = m.flag /\ r.current = e.current
          /\ m.status = e.status /\ m.susp = e.susp /\ m.wait = e.wait
        <3>1. /\ m.status = e.status /\ m.susp = e.susp /\ m.wait = e.wait /\ m.prio = e.prio
              /\ m.wake = e.wake /\ m.sema = e.sema /\ m.flag = e.flag
            BY <1>1, <2>2 DEF EeState
        <3>2. /\ r \in EeState /\ r.status = status /\ r.susp = susp
              /\ r.prio = e.prio /\ r.wake = e.wake /\ r.wait = e.wait /\ r.ready = m.ready
              /\ r.sema = e.sema /\ r.flag = e.flag /\ r.current = e.current
            BY <1>1, <2>1, <2>4, <2>11 DEF EeState
        <3> QED BY <3>1, <3>2
    <2>6. AgreeOutside(m, r, {t}) BY <2>1, <2>5 DEF AgreeOutside
    <2>7. Core(r, {t}) BY <2>2, <2>5, <2>6, CoreOwn
    <2>8. Loose(r, t) /\ ThreadOK(r, t)
        BY <1>1, <1>3, <2>1, <2>5 DEF Loose, ThreadOK, BlockedStatuses
    <2>9. Core(r, {}) BY <2>7, <2>8, CoreDrop
    <2>10. SameRunning(e, r) BY <1>3, <2>1, <2>5 DEF SameRunning
    <2> QED BY <2>9, <2>10, GoodRun
<1>4. CASE e.status[t] = "Waiting"
    <2>1. r = [e EXCEPT !.susp[t] = n, !.status[t] = "WaitingSuspended"]
        BY <1>1, <1>4 DEF suspendThread, EeState
    <2>2. Recountable(e, t, n, "WaitingSuspended")
        BY <1>1, <1>4 DEF Recountable, BlockedStatuses
    <2> HIDE DEF n
    <2> QED BY <1>1, <2>1, <2>2, Recount DEF Statuses
<1>5. CASE e.status[t] \in {"Suspended", "WaitingSuspended"}
    <2>1. r = [e EXCEPT !.susp[t] = n, !.status[t] = e.status[t]]
        BY <1>1, <1>5 DEF suspendThread, EeState
    <2>2. Recountable(e, t, n, e.status[t]) /\ e.status[t] \in Statuses
        BY <1>1, <1>5 DEF Recountable, BlockedStatuses, Statuses
    <2> HIDE DEF n
    <2> QED BY <1>1, <2>1, <2>2, Recount
<1>6. CASE e.status[t] \in {"Absent", "Dormant"} BY <1>6 DEF suspendThread
<1> QED BY <1>1, <1>2, <1>3, <1>4, <1>5, <1>6 DEF EeState, Statuses

\* resumeThread() keeps count and status together in every state of its target.
LEMMA ResumeThreadGood ==
    ASSUME NEW e, Good(e), NEW t \in Threads, NEW safe \in BOOLEAN,
           NEW r, r = resumeThread(e, t, safe)
    PROVE  Good(r)
<1> DEFINE n == e.susp[t] - 1
           s == [e EXCEPT !.susp[t] = n]
<1>1. e \in EeState /\ ThreadOK(e, t) /\ e.susp[t] \in Nat
    BY DEF Good, Core, EeState
<1>2. CASE ~Exists(e, t) \/ e.susp[t] = 0 BY <1>2 DEF resumeThread
<1>3. CASE Exists(e, t) /\ e.susp[t] # 0
    <2>1. /\ e.status[t] \in {"Suspended", "WaitingSuspended"} /\ n \in Nat /\ s.susp[t] = n
        BY <1>1, <1>3 DEF ThreadOK, EeState
    <2>2. CASE n # 0
        <3>1. r = [e EXCEPT !.susp[t] = n, !.status[t] = e.status[t]]
            BY <1>1, <1>3, <2>1, <2>2 DEF resumeThread, EeState
        <3>2. Recountable(e, t, n, e.status[t]) /\ e.status[t] \in Statuses
            BY <2>1, <2>2 DEF Recountable, BlockedStatuses, Statuses
        <3> HIDE DEF n
        <3> QED BY <2>1, <3>1, <3>2, Recount
    <2>3. CASE n = 0 /\ e.status[t] = "WaitingSuspended"
        <3>1. r = [e EXCEPT !.susp[t] = n, !.status[t] = "Waiting"]
            BY <1>1, <1>3, <2>1, <2>3 DEF resumeThread, EeState
        <3>2. Recountable(e, t, n, "Waiting")
            BY <2>1, <2>3 DEF Recountable, BlockedStatuses
        <3> HIDE DEF n
        <3> QED BY <2>1, <3>1, <3>2, Recount DEF Statuses
    <2>4. CASE n = 0 /\ e.status[t] = "Suspended"
        <3> DEFINE q == enqueueReady(s, t)
                   susp == [e.susp EXCEPT ![t] = n]
        <3>1. r = requestPreemptionIfHigher(q, t, safe)
            BY <1>3, <2>1, <2>4 DEF resumeThread
        <3>2. susp \in [Threads -> Nat] BY <1>1, <2>1 DEF EeState
        <3>3. s = [e EXCEPT !.susp = susp] OBVIOUS
        <3>4. \A u \in Threads : susp[u] = IF u = t THEN n ELSE e.susp[u] BY <1>1 DEF EeState
        <3> HIDE DEF susp, s, q
        <3>5. /\ s \in EeState /\ s.status = e.status /\ s.susp = susp
              /\ s.prio = e.prio /\ s.wake = e.wake /\ s.wait = e.wait
              /\ s.ready = e.ready /\ s.sema = e.sema /\ s.flag = e.flag
              /\ s.current = e.current
            BY <1>1, <3>2, <3>3 DEF EeState
        <3>6. AgreeOutside(e, s, {t}) BY <3>4, <3>5 DEF AgreeOutside
        <3>7. /\ e.wait[t].reason = "None" /\ Loose(e, t)
            BY <1>1, <2>4 DEF Loose, ThreadOK, BlockedStatuses
        <3>8. Core(s, {t}) BY <3>5, <3>6, <3>7, CoreLift, CoreOwn DEF Good
        <3>9. /\ s.wait[t].reason = "None" /\ s.susp[t] = 0 BY <2>4, <3>4, <3>5, <3>7
        <3>10. /\ Core(q, {}) /\ q.status = [s.status EXCEPT ![t] = "Ready"]
               /\ q.current = s.current
            BY <3>8, <3>9, Enqueue DEF q
        <3>11. SameRunning(e, q) BY <1>1, <2>4, <3>5, <3>10 DEF SameRunning, EeState
        <3> QED BY <3>1, <3>10, <3>11, GoodRun, RequestPreemption
    <2> QED BY <2>1, <2>2, <2>3, <2>4
<1> QED BY <1>2, <1>3

\* A stored wakeup is added, used up or cancelled; a sleeper gets none.
LEMMA SetWake ==
    ASSUME NEW e, Good(e), NEW t \in Threads, NEW n \in Nat,
           e.wait[t].reason = "Sleep" => n = 0, NEW r, r = [e EXCEPT !.wake[t] = n]
    PROVE  Good(r) /\ r.current = e.current
<1> DEFINE wake == [e.wake EXCEPT ![t] = n]
<1>1. e \in EeState /\ ThreadOK(e, t) BY DEF Good, Core
<1>2. /\ wake \in [Threads -> Nat]
      /\ \A u \in Threads : wake[u] = IF u = t THEN n ELSE e.wake[u]
    BY <1>1 DEF EeState
<1>3. r = [e EXCEPT !.wake = wake] OBVIOUS
<1> HIDE DEF wake
<1>4. /\ r \in EeState /\ r.status = e.status /\ r.susp = e.susp
      /\ r.prio = e.prio /\ r.wake = wake /\ r.wait = e.wait
      /\ r.ready = e.ready /\ r.sema = e.sema /\ r.flag = e.flag /\ r.current = e.current
    BY <1>1, <1>2, <1>3 DEF EeState
<1>5. AgreeOutside(e, r, {t}) BY <1>2, <1>4 DEF AgreeOutside
<1>6. ThreadOK(r, t) BY <1>1, <1>2, <1>4 DEF ThreadOK
<1>7. Core(r, {}) BY <1>4, <1>5, <1>6, CoreRelabel DEF Good
<1>8. SameRunning(e, r) BY <1>4 DEF SameRunning
<1> QED BY <1>4, <1>7, <1>8, GoodRun

\* The current thread joins the waiters its wait w names, and nobody else moves.
SemasJoin(e, m, t, w) ==
    \A s \in Semas :
        /\ ToSet(m.sema[s].waiters)
             = ToSet(e.sema[s].waiters)
               \cup (IF w.reason = "Semaphore" /\ w.obj = s THEN {t} ELSE {})
        /\ IsInjective(m.sema[s].waiters)
FlagsJoin(e, m, t, w) ==
    \A f \in Flags :
        /\ ToSet(m.flag[f].waiters)
             = ToSet(e.flag[f].waiters)
               \cup (IF w.reason = "EventFlag" /\ w.obj = f THEN {t} ELSE {})
        /\ IsInjective(m.flag[f].waiters)
WaitFits(e, t, w) ==
    /\ w \in Wait /\ w.reason # "None"
    /\ w.reason = "Semaphore" => w.obj \in Semas
    /\ w.reason = "EventFlag" => w.obj \in Flags
    /\ w.reason = "Sleep" => e.wake[t] = 0

\* The running thread joins the waiters of the object it is going to wait for.
LEMMA Block ==
    ASSUME NEW e, Good(e), NEW t, t = e.current, t # NoThread, NEW w, WaitFits(e, t, w),
           NEW m \in EeState, Kept(e, m), m.ready = e.ready, m.wait = e.wait, UnitsOK(m),
           SemasJoin(e, m, t, w), FlagsJoin(e, m, t, w),
           NEW r, r = blockCurrent(m, w)
    PROVE  Good(r) /\ r.current = NoThread
<1> DEFINE wait   == [m.wait EXCEPT ![t] = w]
           status == [m.status EXCEPT ![t] = "Waiting"]
<1>1. /\ t \in Threads /\ e.status[t] = "Running" /\ Core(e, {t})
      /\ e.susp[t] = 0 /\ e.wait[t].reason = "None"
    BY RunningLoose
<1>2. m.current = t /\ m.susp[t] = 0 /\ e \in EeState BY <1>1 DEF Kept, Good, Core
<1>3. /\ wait \in [Threads -> Wait] /\ status \in [Threads -> Statuses]
      /\ \A u \in Threads : /\ wait[u] = IF u = t THEN w ELSE e.wait[u]
                            /\ status[u] = IF u = t THEN "Waiting" ELSE e.status[u]
    BY <1>1, <1>2 DEF EeState, Statuses, WaitFits, Kept
<1>4. r = [m EXCEPT !.wait = wait, !.status = status, !.current = NoThread]
    BY <1>2 DEF blockCurrent
<1> HIDE DEF wait, status
<1>5. /\ r \in EeState /\ r.status = status /\ r.wait = wait /\ r.current = NoThread
      /\ r.susp = e.susp /\ r.prio = e.prio /\ r.wake = e.wake
      /\ r.ready = e.ready /\ r.sema = m.sema /\ r.flag = m.flag
    <2>1. /\ r \in EeState /\ r.status = status /\ r.wait = wait /\ r.current = NoThread
          /\ r.susp = m.susp /\ r.prio = m.prio /\ r.wake = m.wake
          /\ r.ready = m.ready /\ r.sema = m.sema /\ r.flag = m.flag
        BY <1>3, <1>4 DEF EeState
    <2> QED BY <2>1 DEF Kept
<1>6. AgreeOutside(e, r, {t}) BY <1>3, <1>5 DEF AgreeOutside
<1>7. /\ ThreadOK(r, t) /\ {t} \subseteq Threads
    BY <1>1, <1>3, <1>5 DEF ThreadOK, WaitFits, BlockedStatuses
<1>8. UnitsOK(r) BY <1>5 DEF UnitsOK
<1>9. /\ \A p \in Priorities : ReadyAt(r, {t}, p) = {}
      /\ \A s \in Semas : BlockedOn(r, {t}, "Semaphore", s)
                            = IF w.reason = "Semaphore" /\ w.obj = s THEN {t} ELSE {}
      /\ \A f \in Flags : BlockedOn(r, {t}, "EventFlag", f)
                            = IF w.reason = "EventFlag" /\ w.obj = f THEN {t} ELSE {}
    BY <1>1, <1>3, <1>5 DEF ReadyAt, BlockedOn, Blocks, BlockedStatuses
<1>10. ReadyGain(e, r, {t}) BY <1>5, <1>9 DEF ReadyGain, Good, Core, QueuesOK
<1>11. SemasGain(e, r, {t}) BY <1>5, <1>9 DEF SemasGain, SemasJoin
<1>12. FlagsGain(e, r, {t}) BY <1>5, <1>9 DEF FlagsGain, FlagsJoin
<1>13. \A u \in {t} : ThreadOK(r, u) BY <1>7
<1>14. Core(r, {}) BY <1>1, <1>5, <1>6, <1>7, <1>8, <1>10, <1>11, <1>12, <1>13, CorePut
<1>15. \A u \in Threads : r.status[u] # "Running" BY <1>3, <1>5 DEF Good, RunOK
<1> QED BY <1>5, <1>14, <1>15, ThreadsFacts DEF Good, RunOK

\* The same for a wait that has no queue of its own.
LEMMA BlockAlone ==
    ASSUME NEW e, Good(e), e.current # NoThread, NEW w, WaitFits(e, e.current, w),
           w.reason \notin {"Semaphore", "EventFlag"}, NEW r, r = blockCurrent(e, w)
    PROVE  Good(r) /\ r.current = NoThread
<1>1. e \in EeState /\ Kept(e, e) /\ UnitsOK(e) BY DEF Good, Core, Kept
<1>2. /\ SemasJoin(e, e, e.current, w) /\ FlagsJoin(e, e, e.current, w)
    BY DEF SemasJoin, FlagsJoin, Good, Core, WaitsOK
<1> QED BY <1>1, <1>2, Block

\* The waits of threads that were taken out of their queues end.
LEMMA EndWaits ==
    ASSUME NEW e, Good(e), NEW X, NEW m, Core(m, X), m.status = e.status,
           m.current = e.current, NEW ws \in Seq(Threads), IsInjective(ws), X = ToSet(ws),
           X \subseteq {t \in Threads : e.status[t] \in BlockedStatuses},
           NEW safe \in BOOLEAN, NEW r, r = makeReady(m, ws, safe)
    PROVE  Good(r) /\ r.current = e.current
<1>1. /\ Core(r, {}) /\ r.current = m.current
      /\ \A t \in Threads \ X : r.status[t] = m.status[t]
      /\ \A t \in X : r.status[t] \in {"Ready", "Suspended"}
    BY MakeReady
<1>2. SameRunning(e, r) BY <1>1 DEF SameRunning, BlockedStatuses
<1> QED BY <1>1, <1>2, GoodRun

\* A sequence of one thread.
LEMMA OneThread ==
    ASSUME NEW t \in Threads
    PROVE  <<t>> \in Seq(Threads) /\ IsInjective(<<t>>) /\ ToSet(<<t>>) = {t}
BY DEF ToSet, IsInjective

\* wakeupThread() ends a sleep or stores a wakeup, never both.
LEMMA WakeupThreadGood ==
    ASSUME NEW e, Good(e), NEW t \in Threads, NEW safe \in BOOLEAN,
           NEW r, r = wakeupThread(e, t, safe)
    PROVE  Good(r) /\ r.current = e.current
<1>1. e \in EeState /\ ThreadOK(e, t) /\ e.wake[t] \in Nat BY DEF Good, Core, EeState
<1>2. CASE t = e.current \/ e.status[t] \in {"Absent", "Dormant"} BY <1>2 DEF wakeupThread
<1>3. CASE /\ e.status[t] \in BlockedStatuses /\ e.wait[t].reason = "Sleep"
           /\ r = makeReady(e, <<t>>, safe)
    <2> DEFINE ws == <<t>>
    <2>1. ws \in Seq(Threads) /\ IsInjective(ws) /\ {t} = ToSet(ws) BY OneThread
    <2>2. r = makeReady(e, ws, safe) BY <1>3
    <2> HIDE DEF ws
    <2>3. Core(e, {t}) BY <1>3, CoreLift DEF Good, Loose, BlockedStatuses
    <2>4. {t} \subseteq {u \in Threads : e.status[u] \in BlockedStatuses} BY <1>3
    <2> DEFINE X == {t}
    <2> HIDE DEF X
    <2>5. Core(e, X) /\ X = ToSet(ws) BY <2>1, <2>3 DEF X
    <2>6. X \subseteq {u \in Threads : e.status[u] \in BlockedStatuses} BY <2>4 DEF X
    <2> QED BY <2>1, <2>2, <2>5, <2>6, EndWaits
<1>4. CASE ~(e.status[t] \in BlockedStatuses /\ e.wait[t].reason = "Sleep")
           /\ r = [e EXCEPT !.wake[t] = e.wake[t] + 1]
    <2> DEFINE n == e.wake[t] + 1
    <2>1. n \in Nat /\ (e.wait[t].reason = "Sleep" => n = 0) BY <1>1, <1>4 DEF ThreadOK
    <2>2. r = [e EXCEPT !.wake[t] = n] BY <1>4
    <2> HIDE DEF n
    <2> QED BY <2>1, <2>2, SetWake
<1> QED BY <1>2, <1>3, <1>4 DEF wakeupThread

\* releaseWait() takes its target off the object it waited for.
LEMMA ReleaseWaitGood ==
    ASSUME NEW e, Good(e), NEW t \in Threads, NEW safe \in BOOLEAN,
           NEW r, r = releaseWait(e, t, safe)
    PROVE  Good(r) /\ r.current = e.current
<1>1. CASE e.status[t] \notin BlockedStatuses BY <1>1 DEF releaseWait
<1>2. CASE e.status[t] \in BlockedStatuses
    <2> DEFINE ws == <<t>>
               m == removeFromWaitObject(e, t)
    <2>1. ws \in Seq(Threads) /\ IsInjective(ws) /\ {t} = ToSet(ws) BY OneThread
    <2>2. r = makeReady(m, ws, safe) BY <1>2 DEF releaseWait
    <2>3. Core(m, {t}) /\ m.status = e.status /\ m.current = e.current
        BY <1>2, LeaveWait DEF Good, Kept
    <2>4. {t} \subseteq {u \in Threads : e.status[u] \in BlockedStatuses} BY <1>2
    <2> HIDE DEF ws, m
    <2> QED BY <2>1, <2>2, <2>3, <2>4, EndWaits
<1> QED BY <1>1, <1>2

\* changePriority() moves a ready thread to the queue of its new priority.
LEMMA ChangePriorityGood ==
    ASSUME NEW e, Good(e), NEW t \in Threads, NEW p \in Priorities, NEW safe \in BOOLEAN,
           NEW r, r = changePriority(e, t, p, safe)
    PROVE  Good(r) /\ r.current = e.current
<1> DEFINE prio == [e.prio EXCEPT ![t] = p]
<1>1. e \in EeState /\ ThreadOK(e, t) BY DEF Good, Core
<1>2. /\ prio \in [Threads -> Priorities]
      /\ \A u \in Threads : prio[u] = IF u = t THEN p ELSE e.prio[u]
    BY <1>1 DEF EeState
<1>3. CASE ~Exists(e, t) BY <1>3 DEF changePriority, Exists
<1>4. CASE e.status[t] = "Ready"
    <2> DEFINE m == removeReady(e, t)
               d == [m EXCEPT !.prio[t] = p]
               q == enqueueReady(d, t)
    <2>1. Core(m, {t}) /\ m = [e EXCEPT !.ready = m.ready] BY <1>4, Dequeue DEF Good
    <2>2. r = requestPreemptionIfHigher(q, t, safe) BY <1>4 DEF changePriority, Exists
    <2> HIDE DEF m, q
    <2>3. /\ m \in EeState /\ m.status = e.status /\ m.prio = e.prio /\ m.wait = e.wait
          /\ m.susp = e.susp /\ m.current = e.current
        BY <1>1, <2>1 DEF Core, EeState
    <2>4. d = [m EXCEPT !.prio = prio] BY <2>3
    <2> HIDE DEF prio, d
    <2>5. /\ d \in EeState /\ d.prio = prio /\ d.status = m.status /\ d.susp = m.susp
          /\ d.wake = m.wake /\ d.wait = m.wait /\ d.ready = m.ready
          /\ d.sema = m.sema /\ d.flag = m.flag /\ d.current = m.current
        BY <1>2, <2>3, <2>4 DEF EeState
    <2>6. AgreeOutside(m, d, {t}) BY <1>2, <2>3, <2>5 DEF AgreeOutside
    <2>7. Core(d, {t}) BY <2>1, <2>5, <2>6, CoreOwn
    <2>8. d.wait[t].reason = "None" /\ d.susp[t] = 0
        BY <1>1, <1>4, <2>3, <2>5 DEF ThreadOK, BlockedStatuses
    <2>9. /\ Core(q, {}) /\ q.status = [d.status EXCEPT ![t] = "Ready"]
          /\ q.current = d.current
        BY <2>7, <2>8, Enqueue DEF q
    <2>10. SameRunning(e, q) BY <1>1, <1>4, <2>3, <2>5, <2>9 DEF SameRunning, EeState
    <2> QED BY <2>2, <2>3, <2>5, <2>9, <2>10, GoodRun, RequestPreemption
<1>5. CASE Exists(e, t) /\ e.status[t] # "Ready"
    <2> DEFINE c == [e EXCEPT !.prio[t] = p]
               up == \E q \in 0 .. p - 1 : e.ready[q] # <<>>
               resched == IF e.status[t] = "Running" THEN e.resched \/ up ELSE e.resched
    <2>1. resched \in BOOLEAN BY <1>1 DEF EeState
    <2>2. r = [e EXCEPT !.prio = prio, !.resched = resched]
        <3>1. CASE e.status[t] = "Running" BY <1>5, <3>1 DEF changePriority
        <3>2. CASE e.status[t] # "Running"
            <4>1. r = c BY <1>5, <3>2 DEF changePriority
            <4> QED BY <1>1, <3>2, <4>1 DEF EeState
        <3> QED BY <3>1, <3>2
    <2> HIDE DEF prio, resched
    <2>3. /\ r \in EeState /\ r.prio = prio /\ r.status = e.status /\ r.susp = e.susp
          /\ r.wake = e.wake /\ r.wait = e.wait /\ r.ready = e.ready
          /\ r.sema = e.sema /\ r.flag = e.flag /\ r.current = e.current
        BY <1>1, <1>2, <2>1, <2>2 DEF EeState
    <2>4. AgreeOutside(e, r, {t}) BY <1>2, <2>3 DEF AgreeOutside
    <2>5. ThreadOK(r, t) BY <1>1, <2>3 DEF ThreadOK
    <2>6. Core(r, {}) BY <1>5, <2>3, <2>4, <2>5, CoreRelabel DEF Good
    <2>7. SameRunning(e, r) BY <2>3 DEF SameRunning
    <2> QED BY <2>3, <2>6, <2>7, GoodRun
<1> QED BY <1>3, <1>4, <1>5 DEF Exists

\* rotateReadyQueue() loses no thread of the queue it rotates.
LEMMA RotateGood ==
    ASSUME NEW e, Good(e), NEW p \in Priorities, NEW r, r = rotateReadyQueue(e, p)
    PROVE  Good(r)
<1>1. e \in EeState /\ e.ready[p] \in Seq(Threads) BY DEF Good, Core, EeState
<1>2. CASE e.current # NoThread /\ e.prio[e.current] = p
    <2> DEFINE m == enqueueReady(e, e.current)
    <2>1. /\ e.current \in Threads /\ Core(e, {e.current})
          /\ e.wait[e.current].reason = "None" /\ e.susp[e.current] = 0
        BY <1>2, RunningLoose
    <2>2. Core(m, {}) /\ m.status = [e.status EXCEPT ![e.current] = "Ready"]
        BY <2>1, Enqueue
    <2>3. r = [m EXCEPT !.current = NoThread, !.resched = TRUE] BY <1>2 DEF rotateReadyQueue
    <2> HIDE DEF m
    <2>4. m \in EeState BY <2>2 DEF Core
    <2>5. /\ r \in EeState /\ r.current = NoThread
          /\ r.status = m.status /\ r.prio = m.prio /\ r.susp = m.susp /\ r.wake = m.wake
          /\ r.wait = m.wait /\ r.ready = m.ready /\ r.sema = m.sema /\ r.flag = m.flag
        BY <2>3, <2>4 DEF EeState
    <2>6. Core(r, {}) BY <2>2, <2>5, CoreSame
    <2>7. e.status \in [Threads -> Statuses] BY <1>1 DEF EeState
    <2>8. \A u \in Threads : r.status[u] # "Running"
        BY <2>1, <2>2, <2>5, <2>7 DEF Good, RunOK
    <2> QED BY <2>5, <2>6, <2>8, ThreadsFacts DEF Good, RunOK
<1>3. CASE r = e BY <1>3
<1>4. CASE /\ Len(e.ready[p]) > 1
           /\ r = [e EXCEPT !.ready[p] = Append(Tail(e.ready[p]), Head(e.ready[p]))]
    <2> DEFINE s == e.ready[p]
               hd == Head(s)
               tl == Tail(s)
               q == Append(tl, hd)
               ready == [e.ready EXCEPT ![p] = q]
    <2>1. s # <<>> /\ IsInjective(s) BY <1>1, <1>4 DEF Good, Core, QueuesOK
    <2>2. /\ hd \in Threads /\ tl \in Seq(Threads)
          /\ ToSet(s) = ToSet(tl) \cup {hd}
          /\ IsInjective(tl) /\ hd \notin ToSet(tl)
        BY <1>1, <2>1, TailOf
    <2> HIDE DEF hd, tl
    <2>3. q \in Seq(Threads) /\ ToSet(q) = ToSet(s) /\ IsInjective(q)
        BY <2>2, AppendNew
    <2>4. r = [e EXCEPT !.ready = ready] BY <1>4 DEF hd, tl
    <2> HIDE DEF q
    <2>5. /\ ready \in [Priorities -> Seq(Threads)]
          /\ \A o \in Priorities : ready[o] = IF o = p THEN q ELSE e.ready[o]
        BY <1>1, <2>3 DEF EeState
    <2> HIDE DEF ready
    <2>6. /\ r \in EeState /\ r.ready = ready
          /\ r.prio = e.prio /\ r.status = e.status /\ r.susp = e.susp
          /\ r.wake = e.wake /\ r.wait = e.wait
          /\ r.sema = e.sema /\ r.flag = e.flag /\ r.current = e.current
        BY <1>1, <2>4, <2>5 DEF EeState
    <2>7. QueuesOK(r, {})
        BY <2>3, <2>5, <2>6 DEF Good, Core, QueuesOK, ReadyAt
    <2>8. Core(r, {})
        BY <2>6, <2>7 DEF Good, Core, WaitsOK, BlockedOn, Blocks, UnitsOK, ThreadOK
    <2>9. SameRunning(e, r) BY <2>6 DEF SameRunning
    <2> QED BY <2>8, <2>9, GoodRun
<1> QED BY <1>2, <1>3, <1>4 DEF rotateReadyQueue

\* Taking nobody off: the other members of a semaphore or flag change.
LEMMA SetSema ==
    ASSUME NEW e, Good(e), NEW s \in Semas, NEW o \in Semaphore,
           o.waiters = e.sema[s].waiters, o.waiters # <<>> => o.live /\ o.count = 0,
           NEW r, r = [e EXCEPT !.sema[s] = o]
    PROVE  Good(r) /\ r.current = e.current
<1> DEFINE none == {}
<1>1. none \subseteq ToSet(e.sema[s].waiters) /\ ToSet(o.waiters) = ToSet(e.sema[s].waiters) \ none
    OBVIOUS
<1>2. IsInjective(o.waiters) BY DEF Good, Core, WaitsOK
<1>3. Core(r, none) BY <1>1, <1>2, TakeSemaWaiters DEF Good
<1>4. SameRunning(e, r) BY DEF SameRunning, Good, Core, EeState
<1> QED BY <1>3, <1>4, GoodRun DEF SameRunning

\* An event flag changes and keeps its waiters.
LEMMA SetFlag ==
    ASSUME NEW e, Good(e), NEW f \in Flags, NEW o \in EventFlag,
           o.waiters = e.flag[f].waiters, o.waiters # <<>> => o.live,
           NEW r, r = [e EXCEPT !.flag[f] = o]
    PROVE  Good(r) /\ r.current = e.current
<1> DEFINE none == {}
<1>1. none \subseteq ToSet(e.flag[f].waiters) /\ ToSet(o.waiters) = ToSet(e.flag[f].waiters) \ none
    OBVIOUS
<1>2. IsInjective(o.waiters) BY DEF Good, Core, WaitsOK
<1>3. Core(r, none) BY <1>1, <1>2, TakeFlagWaiters DEF Good
<1>4. SameRunning(e, r) BY DEF SameRunning, Good, Core, EeState
<1> QED BY <1>3, <1>4, GoodRun DEF SameRunning

\* What the invariant says of one semaphore.
LEMMA SemaFacts ==
    ASSUME NEW e, Good(e), NEW s \in Semas
    PROVE  /\ e \in EeState /\ e.sema[s] \in Semaphore
           /\ e.sema[s].waiters \in Seq(Threads) /\ IsInjective(e.sema[s].waiters)
           /\ ToSet(e.sema[s].waiters) \subseteq {t \in Threads : e.status[t] \in BlockedStatuses}
           /\ e.sema[s].waiters # <<>> => e.sema[s].live /\ e.sema[s].count = 0
<1>1. e \in EeState /\ e.sema[s] \in Semaphore BY DEF Good, Core, EeState
<1>2. e.sema[s].waiters \in Seq(Threads) BY <1>1 DEF Semaphore
<1>3. /\ IsInjective(e.sema[s].waiters)
      /\ ToSet(e.sema[s].waiters) \subseteq {t \in Threads : e.status[t] \in BlockedStatuses}
    BY DEF Good, Core, WaitsOK, BlockedOn, Blocks
<1> QED BY <1>1, <1>2, <1>3 DEF Good, Core, UnitsOK

\* What the invariant says of one event flag.
LEMMA FlagFacts ==
    ASSUME NEW e, Good(e), NEW f \in Flags
    PROVE  /\ e \in EeState /\ e.flag[f] \in EventFlag
           /\ e.flag[f].waiters \in Seq(Threads) /\ IsInjective(e.flag[f].waiters)
           /\ ToSet(e.flag[f].waiters) \subseteq {t \in Threads : e.status[t] \in BlockedStatuses}
           /\ e.flag[f].waiters # <<>> => e.flag[f].live
<1>1. e \in EeState /\ e.flag[f] \in EventFlag BY DEF Good, Core, EeState
<1>2. e.flag[f].waiters \in Seq(Threads) BY <1>1 DEF EventFlag
<1>3. /\ IsInjective(e.flag[f].waiters)
      /\ ToSet(e.flag[f].waiters) \subseteq {t \in Threads : e.status[t] \in BlockedStatuses}
    BY DEF Good, Core, WaitsOK, BlockedOn, Blocks
<1> QED BY <1>1, <1>2, <1>3 DEF Good, Core, UnitsOK

\* deleteSemaphore() ends the wait of every waiter.
LEMMA DeleteSemaGood ==
    ASSUME NEW e, Good(e), NEW s \in Semas, NEW safe \in BOOLEAN,
           NEW r, r = deleteSemaphore(e, s, safe)
    PROVE  Good(r)
<1>1. CASE ~e.sema[s].live BY <1>1 DEF deleteSemaphore
<1>2. CASE e.sema[s].live
    <2> DEFINE ws == e.sema[s].waiters
               X  == ToSet(ws)
               m  == [e EXCEPT !.sema[s] = NoSema]
    <2>1. r = makeReady(m, ws, safe) BY <1>2 DEF deleteSemaphore
    <2>2. NoSema \in Semaphore /\ NoSema.waiters = <<>> BY DEF NoSema, Semaphore
    <2>3. ToSet(NoSema.waiters) = ToSet(ws) \ X /\ IsInjective(NoSema.waiters)
        BY <2>2 DEF ToSet, IsInjective
    <2>4. X \subseteq ToSet(e.sema[s].waiters) OBVIOUS
    <2>5. Core(m, X) BY <2>2, <2>3, <2>4, TakeSemaWaiters DEF Good
    <2>6. m.status = e.status /\ m.current = e.current BY SemaFacts DEF EeState
    <2>7. /\ ws \in Seq(Threads) /\ IsInjective(ws)
          /\ X \subseteq {t \in Threads : e.status[t] \in BlockedStatuses}
        BY SemaFacts
    <2>8. X = ToSet(ws) OBVIOUS
    <2> HIDE DEF ws, X, m
    <2> QED BY <2>1, <2>5, <2>6, <2>7, <2>8, EndWaits
<1> QED BY <1>1, <1>2

\* deleteEventFlag() ends the wait of every waiter.
LEMMA DeleteFlagGood ==
    ASSUME NEW e, Good(e), NEW f \in Flags, NEW safe \in BOOLEAN,
           NEW r, r = deleteEventFlag(e, f, safe)
    PROVE  Good(r)
<1>1. CASE ~e.flag[f].live BY <1>1 DEF deleteEventFlag
<1>2. CASE e.flag[f].live
    <2> DEFINE ws == e.flag[f].waiters
               X  == ToSet(ws)
               m  == [e EXCEPT !.flag[f] = NoFlag]
    <2>1. r = makeReady(m, ws, safe) BY <1>2 DEF deleteEventFlag
    <2>2. NoFlag \in EventFlag /\ NoFlag.waiters = <<>> BY DEF NoFlag, EventFlag
    <2>3. ToSet(NoFlag.waiters) = ToSet(ws) \ X /\ IsInjective(NoFlag.waiters)
        BY <2>2 DEF ToSet, IsInjective
    <2>4. X \subseteq ToSet(e.flag[f].waiters) OBVIOUS
    <2>5. Core(m, X) BY <2>2, <2>3, <2>4, TakeFlagWaiters DEF Good
    <2>6. m.status = e.status /\ m.current = e.current BY FlagFacts DEF EeState
    <2>7. /\ ws \in Seq(Threads) /\ IsInjective(ws)
          /\ X \subseteq {t \in Threads : e.status[t] \in BlockedStatuses}
        BY FlagFacts
    <2>8. X = ToSet(ws) OBVIOUS
    <2> HIDE DEF ws, X, m
    <2> QED BY <2>1, <2>5, <2>6, <2>7, <2>8, EndWaits
<1> QED BY <1>1, <1>2

\* pollSemaphore() takes a unit only where nobody waits.
LEMMA PollSemaGood ==
    ASSUME NEW e, Good(e), NEW s \in Semas, NEW r, r = pollSemaphore(e, s)
    PROVE  Good(r)
<1>1. CASE r = e BY <1>1
<1>2. CASE e.sema[s].live /\ e.sema[s].count # 0 /\ r = [e EXCEPT !.sema[s].count = @ - 1]
    <2> DEFINE o == [e.sema[s] EXCEPT !.count = e.sema[s].count - 1]
    <2>1. o \in Semaphore /\ o.waiters = e.sema[s].waiters BY <1>2, SemaFacts DEF Semaphore
    <2>2. o.waiters = <<>> BY <1>2, <2>1, SemaFacts
    <2>3. r = [e EXCEPT !.sema[s] = o] BY <1>2, SemaFacts DEF EeState
    <2> HIDE DEF o
    <2> QED BY <2>1, <2>2, <2>3, SetSema
<1> QED BY <1>1, <1>2 DEF pollSemaphore

\* signalSemaphore() counts the unit or hands it to the first waiter.
LEMMA SignalSemaGood ==
    ASSUME NEW e, Good(e), NEW s \in Semas, NEW safe \in BOOLEAN,
           NEW r, r = signalSemaphore(e, s, safe)
    PROVE  Good(r)
<1> DEFINE old == e.sema[s]
<1>1. CASE r = e BY <1>1
<1>2. CASE /\ old.waiters = <<>> /\ r = [e EXCEPT !.sema[s].count = old.count + 1]
    <2> DEFINE o == [old EXCEPT !.count = old.count + 1]
    <2>1. o \in Semaphore /\ o.waiters = old.waiters BY SemaFacts DEF Semaphore
    <2>2. r = [e EXCEPT !.sema[s] = o] BY <1>2, SemaFacts DEF EeState
    <2> HIDE DEF o
    <2> QED BY <1>2, <2>1, <2>2, SetSema
<1>3. CASE /\ old.live /\ old.waiters # <<>>
           /\ r = makeReady([e EXCEPT !.sema[s].waiters = Tail(old.waiters)],
                            <<Head(old.waiters)>>, safe)
    <2> DEFINE hd == Head(old.waiters)
               tl == Tail(old.waiters)
               ws == <<hd>>
               X  == {hd}
               o  == [old EXCEPT !.waiters = tl]
               m  == [e EXCEPT !.sema[s] = o]
    <2>1. /\ hd \in Threads /\ tl \in Seq(Threads) /\ hd \in ToSet(old.waiters)
          /\ ToSet(old.waiters) = ToSet(tl) \cup {hd}
          /\ IsInjective(tl) /\ hd \notin ToSet(tl)
        BY <1>3, SemaFacts, TailOf
    <2>2. m = [e EXCEPT !.sema[s].waiters = tl] BY SemaFacts DEF EeState
    <2>3. r = makeReady(m, ws, safe) BY <1>3, <2>2
    <2> HIDE DEF hd, tl
    <2>4. o \in Semaphore /\ o.waiters = tl /\ o.live /\ o.count = 0
        BY <1>3, <2>1, SemaFacts DEF Semaphore
    <2>5. X \subseteq ToSet(old.waiters) /\ ToSet(o.waiters) = ToSet(old.waiters) \ X
        BY <2>1, <2>4
    <2> HIDE DEF o
    <2>6. Core(m, X) BY <2>1, <2>4, <2>5, TakeSemaWaiters DEF Good
    <2>7. m.status = e.status /\ m.current = e.current BY SemaFacts DEF EeState
    <2>8. ws \in Seq(Threads) /\ IsInjective(ws) /\ X = ToSet(ws) BY <2>1, OneThread
    <2>9. X \subseteq {t \in Threads : e.status[t] \in BlockedStatuses} BY <2>5, SemaFacts
    <2> HIDE DEF ws, X, m
    <2> QED BY <2>3, <2>6, <2>7, <2>8, <2>9, EndWaits
<1> QED BY <1>1, <1>2, <1>3 DEF signalSemaphore

\* waitSemaphore() blocks the caller behind the other waiters.
LEMMA WaitSemaGood ==
    ASSUME NEW e, Good(e), NEW s \in Semas, e.current # NoThread,
           e.sema[s].live, e.sema[s].count = 0,
           NEW r, r = blockCurrent([e EXCEPT !.sema[s].waiters = Append(@, e.current)],
                                   [NoWait EXCEPT !.reason = "Semaphore", !.obj = s])
    PROVE  Good(r) /\ r.current = NoThread
<1> DEFINE t   == e.current
           old == e.sema[s]
           q   == Append(old.waiters, t)
           o   == [old EXCEPT !.waiters = q]
           m   == [e EXCEPT !.sema[s] = o]
           w   == [NoWait EXCEPT !.reason = "Semaphore", !.obj = s]
<1>1. /\ t \in Threads /\ Core(e, {t}) /\ e.status[t] = "Running" BY RunningLoose
<1>2. t \notin ToSet(old.waiters)
    BY <1>1 DEF Good, Core, WaitsOK, BlockedOn, Blocks, BlockedStatuses
<1>3. q \in Seq(Threads) /\ ToSet(q) = ToSet(old.waiters) \cup {t} /\ IsInjective(q)
    BY <1>1, <1>2, SemaFacts, AppendNew
<1>4. m = [e EXCEPT !.sema[s].waiters = Append(@, e.current)] BY SemaFacts DEF EeState
<1>5. r = blockCurrent(m, w) BY <1>4
<1>6. WaitFits(e, t, w) /\ w.reason = "Semaphore" /\ w.obj = s
    <2>1. w \in Wait /\ w.reason = "Semaphore" /\ w.obj = s
        BY NoWaitType DEF Wait, WaitReasons
    <2> QED BY <2>1 DEF WaitFits
<1> HIDE DEF q, w
<1>7. o \in Semaphore /\ o.waiters = q /\ o.live /\ o.count = 0
    BY <1>3, SemaFacts DEF Semaphore
<1> HIDE DEF o
<1>8. /\ m \in EeState /\ Kept(e, m) /\ m.ready = e.ready /\ m.wait = e.wait
      /\ m.flag = e.flag /\ m.sema = [e.sema EXCEPT ![s] = o]
    <2>1. e \in EeState BY SemaFacts
    <2> DEFINE sema == [e.sema EXCEPT ![s] = o]
    <2>2. sema \in [Semas -> Semaphore] BY <1>7, <2>1 DEF EeState
    <2>3. m = [e EXCEPT !.sema = sema] OBVIOUS
    <2> HIDE DEF sema, m
    <2>4. m \in EeState /\ m.sema = sema BY <2>1, <2>2, <2>3 DEF EeState
    <2>5. /\ Kept(e, m) /\ m.ready = e.ready /\ m.wait = e.wait /\ m.flag = e.flag
        BY <2>1, <2>3 DEF EeState, Kept
    <2> QED BY <2>4, <2>5 DEF sema
<1> HIDE DEF m
<1>9. \A z \in Semas : m.sema[z] = IF z = s THEN o ELSE e.sema[z]
    <2>1. e.sema \in [Semas -> Semaphore] BY SemaFacts DEF EeState
    <2> QED BY <1>8, <2>1
<1>10. UnitsOK(m) BY <1>7, <1>8, <1>9 DEF UnitsOK, Good, Core
<1>11. SemasJoin(e, m, t, w)
    BY <1>3, <1>6, <1>7, <1>9 DEF SemasJoin, Good, Core, WaitsOK
<1>12. FlagsJoin(e, m, t, w) BY <1>6, <1>8 DEF FlagsJoin, Good, Core, WaitsOK
<1> QED BY <1>5, <1>6, <1>8, <1>10, <1>11, <1>12, Block

\* Taking bits leaves a set of bits.
LEMMA ConsumeBits ==
    ASSUME NEW bits \in SUBSET Bits, NEW requested, NEW mode
    PROVE  Consume(bits, requested, mode) \in SUBSET Bits
BY DEF Consume

\* The bits of a flag change.
LEMMA SetFlagBits ==
    ASSUME NEW e, Good(e), NEW f \in Flags, NEW bits \in SUBSET Bits,
           NEW r, r = [e EXCEPT !.flag[f].bits = bits]
    PROVE  Good(r) /\ r.current = e.current
<1> DEFINE o == [e.flag[f] EXCEPT !.bits = bits]
<1>1. o \in EventFlag /\ o.waiters = e.flag[f].waiters /\ o.live = e.flag[f].live
    BY FlagFacts DEF EventFlag
<1>2. o.waiters # <<>> => o.live BY <1>1, FlagFacts
<1>3. r = [e EXCEPT !.flag[f] = o] BY FlagFacts DEF EeState
<1> HIDE DEF o
<1> QED BY <1>1, <1>2, <1>3, SetFlag

\* pollEventFlag() changes nothing but bits.
LEMMA PollFlagGood ==
    ASSUME NEW e, Good(e), NEW f \in Flags, NEW bits, NEW mode,
           NEW r, r = pollEventFlag(e, f, bits, mode)
    PROVE  Good(r)
<1> DEFINE left == Consume(e.flag[f].bits, bits, mode)
<1>1. left \in SUBSET Bits BY FlagFacts, ConsumeBits DEF EventFlag
<1>2. r = e \/ r = [e EXCEPT !.flag[f].bits = left] BY DEF pollEventFlag
<1> HIDE DEF left
<1> QED BY <1>1, <1>2, SetFlagBits

\* finishEventWaiters() releases the waiters it takes off the flag, and no other.
LEMMA FinishGood ==
    ASSUME NEW e, Good(e), NEW f \in Flags, e.flag[f].live, NEW safe \in BOOLEAN,
           NEW r, r = finishEventWaiters(e, f, safe)
    PROVE  Good(r)
<1> DEFINE old  == e.flag[f]
           ws   == old.waiters
           bits == OfferedBits(e, f)
           done == {ws[i] : i \in {j \in DOMAIN ws : Satisfied(e, ws[j], bits[j])}}
           stay == Filter(ws, Threads \ done)
           go   == Filter(ws, done)
           left == old.bits \cap bits[Len(ws) + 1]
           o    == [old EXCEPT !.bits = left, !.waiters = stay]
           m    == [e EXCEPT !.flag[f] = o]
<1>1. /\ ws \in Seq(Threads) /\ IsInjective(ws) /\ old \in EventFlag /\ e \in EeState
      /\ ToSet(ws) \subseteq {t \in Threads : e.status[t] \in BlockedStatuses}
    BY FlagFacts
<1>2. r = makeReady([e EXCEPT !.flag[f].bits = left, !.flag[f].waiters = stay], go, safe)
    BY DEF finishEventWaiters
<1>3. m = [e EXCEPT !.flag[f].bits = left, !.flag[f].waiters = stay]
    BY <1>1 DEF EeState
<1>4. done \subseteq ToSet(ws) BY DEF ToSet
<1>5. left \in SUBSET Bits BY <1>1 DEF EventFlag
<1> HIDE DEF done, left
<1>6. /\ stay \in Seq(Threads) /\ IsInjective(stay)
      /\ ToSet(stay) = ToSet(ws) \cap (Threads \ done)
    <2> DEFINE S == Threads \ done
    <2> HIDE DEF S
    <2>1. /\ Filter(ws, S) \in Seq(Threads) /\ IsInjective(Filter(ws, S))
          /\ ToSet(Filter(ws, S)) = ToSet(ws) \cap S
        <3> HIDE DEF ws
        <3> QED BY <1>1, FilterOf
    <2> QED BY <2>1 DEF S
<1>7. /\ go \in Seq(Threads) /\ IsInjective(go) /\ ToSet(go) = ToSet(ws) \cap done
    <2> HIDE DEF ws
    <2> QED BY <1>1, FilterOf
<1> HIDE DEF stay, go
<1>8. o \in EventFlag /\ o.waiters = stay /\ o.live
    BY <1>1, <1>5, <1>6 DEF EventFlag
<1> HIDE DEF o
<1>9. ToSet(o.waiters) = ToSet(ws) \ done BY <1>1, <1>6, <1>8
<1>10. Core(m, done) BY <1>4, <1>6, <1>8, <1>9, TakeFlagWaiters DEF Good
<1>11. m.status = e.status /\ m.current = e.current BY <1>1 DEF EeState
<1>12. done = ToSet(go) /\ done \subseteq {t \in Threads : e.status[t] \in BlockedStatuses}
    BY <1>1, <1>4, <1>7
<1>13. r = makeReady(m, go, safe) BY <1>2, <1>3
<1> HIDE DEF m
<1>14. go \in Seq(Threads) /\ IsInjective(go) BY <1>7
<1> QED BY <1>10, <1>11, <1>12, <1>13, <1>14, EndWaits

\* setEventFlag() sets the bits and releases waiters.
LEMMA SetEventFlagGood ==
    ASSUME NEW e, Good(e), NEW f \in Flags, NEW bits \in SUBSET Bits, NEW safe \in BOOLEAN,
           NEW r, r = setEventFlag(e, f, bits, safe)
    PROVE  Good(r)
<1>1. CASE ~e.flag[f].live BY <1>1 DEF setEventFlag
<1>2. CASE e.flag[f].live
    <2> DEFINE new == e.flag[f].bits \cup bits
               m   == [e EXCEPT !.flag[f].bits = new]
    <2>1. new \in SUBSET Bits BY FlagFacts DEF EventFlag
    <2>2. r = finishEventWaiters(m, f, safe) BY <1>2 DEF setEventFlag
    <2>3. m.flag[f].live BY <1>2, FlagFacts DEF EeState, EventFlag
    <2> HIDE DEF new
    <2>4. Good(m) BY <2>1, SetFlagBits
    <2> HIDE DEF m
    <2> QED BY <2>2, <2>3, <2>4, FinishGood
<1> QED BY <1>1, <1>2

\* waitEventFlag() blocks the caller behind the other waiters.
LEMMA WaitFlagGood ==
    ASSUME NEW e, Good(e), NEW f \in Flags, e.current # NoThread, ~Refused(e.flag[f]),
           NEW bits \in SUBSET Bits, NEW mode \in SUBSET WaitModes,
           NEW r, r = blockCurrent([e EXCEPT !.flag[f].waiters = Append(@, e.current)],
                                   [NoWait EXCEPT !.reason = "EventFlag", !.obj = f,
                                                  !.bits = bits, !.mode = mode])
    PROVE  Good(r) /\ r.current = NoThread
<1> DEFINE t   == e.current
           old == e.flag[f]
           q   == Append(old.waiters, t)
           o   == [old EXCEPT !.waiters = q]
           m   == [e EXCEPT !.flag[f] = o]
           w   == [NoWait EXCEPT !.reason = "EventFlag", !.obj = f, !.bits = bits, !.mode = mode]
<1>1. /\ t \in Threads /\ Core(e, {t}) /\ e.status[t] = "Running" BY RunningLoose
<1>2. t \notin ToSet(old.waiters)
    BY <1>1 DEF Good, Core, WaitsOK, BlockedOn, Blocks, BlockedStatuses
<1>3. q \in Seq(Threads) /\ ToSet(q) = ToSet(old.waiters) \cup {t} /\ IsInjective(q)
    BY <1>1, <1>2, FlagFacts, AppendNew
<1>4. m = [e EXCEPT !.flag[f].waiters = Append(@, e.current)] BY FlagFacts DEF EeState
<1>5. r = blockCurrent(m, w) BY <1>4
<1>6. WaitFits(e, t, w) /\ w.reason = "EventFlag" /\ w.obj = f
    <2>1. w \in Wait /\ w.reason = "EventFlag" /\ w.obj = f
        BY NoWaitType DEF Wait, WaitReasons
    <2> QED BY <2>1 DEF WaitFits
<1> HIDE DEF q, w
<1>7. o \in EventFlag /\ o.waiters = q /\ o.live
    BY <1>3, FlagFacts DEF EventFlag, Refused
<1> HIDE DEF o
<1>8. /\ m \in EeState /\ Kept(e, m) /\ m.ready = e.ready /\ m.wait = e.wait
      /\ m.sema = e.sema /\ m.flag = [e.flag EXCEPT ![f] = o]
    <2>1. e \in EeState BY FlagFacts
    <2> DEFINE flag == [e.flag EXCEPT ![f] = o]
    <2>2. flag \in [Flags -> EventFlag] BY <1>7, <2>1 DEF EeState
    <2>3. m = [e EXCEPT !.flag = flag] OBVIOUS
    <2> HIDE DEF flag, m
    <2>4. m \in EeState /\ m.flag = flag BY <2>1, <2>2, <2>3 DEF EeState
    <2>5. /\ Kept(e, m) /\ m.ready = e.ready /\ m.wait = e.wait /\ m.sema = e.sema
        BY <2>1, <2>3 DEF EeState, Kept
    <2> QED BY <2>4, <2>5 DEF flag
<1> HIDE DEF m
<1>9. \A z \in Flags : m.flag[z] = IF z = f THEN o ELSE e.flag[z]
    <2>1. e.flag \in [Flags -> EventFlag] BY FlagFacts DEF EeState
    <2> QED BY <1>8, <2>1
<1>10. UnitsOK(m) BY <1>7, <1>8, <1>9 DEF UnitsOK, Good, Core
<1>11. FlagsJoin(e, m, t, w)
    BY <1>3, <1>6, <1>7, <1>9 DEF FlagsJoin, Good, Core, WaitsOK
<1>12. SemasJoin(e, m, t, w) BY <1>6, <1>8 DEF SemasJoin, Good, Core, WaitsOK
<1> QED BY <1>5, <1>6, <1>8, <1>10, <1>11, <1>12, Block

\* Several threads that are in no queue are lifted out at once.
LEMMA CoreLiftAll ==
    ASSUME NEW e, Core(e, {}), NEW X, X \subseteq Threads, \A t \in X : Loose(e, t)
    PROVE  Core(e, X)
<1>1. QueuesOK(e, X)
    <2>1. \A p \in Priorities : ReadyAt(e, Threads \ X, p) = ReadyAt(e, Threads \ {}, p)
        BY DEF ReadyAt, Loose
    <2> QED BY <2>1 DEF Core, QueuesOK
<1>2. WaitsOK(e, X)
    <2>1. \A obj : BlockedOn(e, Threads \ X, "Semaphore", obj)
                     = BlockedOn(e, Threads \ {}, "Semaphore", obj)
        BY DEF BlockedOn, Blocks, Loose
    <2>2. \A obj : BlockedOn(e, Threads \ X, "EventFlag", obj)
                     = BlockedOn(e, Threads \ {}, "EventFlag", obj)
        BY DEF BlockedOn, Blocks, Loose
    <2> QED BY <2>1, <2>2 DEF Core, WaitsOK
<1> QED BY <1>1, <1>2 DEF Core

\* The threads that wait but are in no waiter queue.
Unqueued(e) == {t \in Threads : /\ e.status[t] \in BlockedStatuses
                                /\ e.wait[t].reason \notin {"Semaphore", "EventFlag"}}

\* The waits of a set of threads that are in no waiter queue end, in id order.
LEMMA EndWaitsInOrder ==
    ASSUME NEW e, Good(e), NEW X, X \subseteq Unqueued(e), NEW safe \in BOOLEAN,
           NEW r, r = makeReady(e, InOrder(X), safe)
    PROVE  Good(r) /\ r.current = e.current
<1>1. X \in SUBSET Int /\ IsFiniteSet(X) BY ThreadsFacts, FS_Subset DEF Unqueued
<1> DEFINE ws == InOrder(X)
<1>2. ws \in Seq(X) /\ X = ToSet(ws) /\ IsInjective(ws) BY <1>1, InOrderOf
<1>3. ws \in Seq(Threads) BY <1>2 DEF Unqueued
<1>4. r = makeReady(e, ws, safe) OBVIOUS
<1>5. Core(e, X) BY CoreLiftAll DEF Good, Loose, BlockedStatuses, Unqueued
<1>6. X \subseteq {t \in Threads : e.status[t] \in BlockedStatuses} BY DEF Unqueued
<1> HIDE DEF ws
<1> QED BY <1>2, <1>3, <1>4, <1>5, <1>6, EndWaits

\* completeExternalWait() ends the waits for one token.
LEMMA CompleteExternalWaitGood ==
    ASSUME NEW e, Good(e), NEW k, NEW r, r = completeExternalWait(e, k)
    PROVE  Good(r) /\ r.current = e.current
<1> DEFINE X == {t \in Threads : /\ e.status[t] \in BlockedStatuses
                                 /\ e.wait[t].reason = "External"
                                 /\ e.wait[t].obj = k}
           safe == FALSE
<1>1. X \subseteq Unqueued(e) BY DEF Unqueued
<1>2. r = makeReady(e, InOrder(X), safe) /\ safe \in BOOLEAN BY DEF completeExternalWait
<1> HIDE DEF X, safe
<1> QED BY <1>1, <1>2, EndWaitsInOrder

\* completeVSync() ends the waits whose tick has come and counts the others down.
LEMMA CompleteVSyncGood ==
    ASSUME NEW e, Good(e), NEW r, r = completeVSync(e)
    PROVE  Good(r) /\ r.current = e.current
<1> DEFINE waiting == {t \in Threads : /\ e.status[t] \in BlockedStatuses
                                       /\ e.wait[t].reason = "VSync"}
           passed  == {t \in waiting : e.wait[t].ticks <= 1}
           later(t) == [e.wait[t] EXCEPT !.ticks = @ - 1]
           wait    == [t \in Threads |-> IF t \in waiting \ passed THEN later(t) ELSE e.wait[t]]
           m       == [e EXCEPT !.wait = wait]
           safe    == FALSE
<1>1. e \in EeState /\ \A t \in Threads : e.wait[t] \in Wait BY DEF Good, Core, EeState
<1>2. r = makeReady(m, InOrder(passed), safe) /\ safe \in BOOLEAN BY DEF completeVSync
<1> HIDE DEF safe
<1>3. \A t \in waiting \ passed :
          /\ later(t) \in Wait /\ later(t).reason = e.wait[t].reason
          /\ later(t).obj = e.wait[t].obj
    <2> SUFFICES ASSUME NEW t \in waiting \ passed
                 PROVE  /\ later(t) \in Wait /\ later(t).reason = e.wait[t].reason
                        /\ later(t).obj = e.wait[t].obj
        OBVIOUS
    <2>1. /\ e.wait[t] \in Wait /\ e.wait[t].ticks \in 0 .. MaxTicks
          /\ ~(e.wait[t].ticks <= 1) /\ MaxTicks \in Nat
        BY <1>1, ConstantsAssumption DEF Wait
    <2>2. e.wait[t].ticks - 1 \in 0 .. MaxTicks BY <2>1
    <2> QED BY <2>1, <2>2 DEF Wait
<1> HIDE DEF later
<1>4. /\ wait \in [Threads -> Wait]
      /\ \A t \in Threads : wait[t].reason = e.wait[t].reason /\ wait[t].obj = e.wait[t].obj
    BY <1>1, <1>3
<1>5. passed \subseteq Unqueued(e) BY DEF Unqueued
<1> HIDE DEF passed, wait
<1>6. /\ m \in EeState /\ m.wait = wait /\ m.status = e.status /\ m.prio = e.prio
      /\ m.susp = e.susp /\ m.wake = e.wake /\ m.ready = e.ready
      /\ m.sema = e.sema /\ m.flag = e.flag /\ m.current = e.current
    BY <1>1, <1>4 DEF EeState
<1> HIDE DEF m
<1>7. QueuesOK(m, {}) BY <1>6 DEF Good, Core, QueuesOK, ReadyAt
<1>8. WaitsOK(m, {})
    <2>1. \A reason, obj : BlockedOn(m, Threads \ {}, reason, obj)
                             = BlockedOn(e, Threads \ {}, reason, obj)
        BY <1>4, <1>6 DEF BlockedOn, Blocks
    <2> QED BY <1>6, <2>1 DEF Good, Core, WaitsOK
<1>9. /\ UnitsOK(m) /\ \A t \in Threads \ {} : ThreadOK(m, t)
    BY <1>4, <1>6 DEF Good, Core, UnitsOK, ThreadOK
<1>10. Core(m, {}) BY <1>6, <1>7, <1>8, <1>9 DEF Core
<1>11. SameRunning(e, m) BY <1>6 DEF SameRunning
<1>12. Good(m) BY <1>10, <1>11, GoodRun
<1>13. passed \subseteq Unqueued(m) BY <1>4, <1>5, <1>6 DEF Unqueued
<1>14. Good(r) /\ r.current = m.current BY <1>2, <1>12, <1>13, EndWaitsInOrder
<1> QED BY <1>6, <1>14

--------------------------------------------------------------------------------
(* Invocations, and the members of the record no queue depends on *)

\* An invocation is pushed on a thread.
LEMMA PushInvocation ==
    ASSUME NEW e, Good(e), NEW t \in Threads, NEW k \in Kinds,
           NEW r, r = pushInvocation(e, t, k)
    PROVE  Good(r) /\ r.current = e.current
<1> DEFINE new == [kind |-> k, under |-> e.pc[t]]
           inv == [e.inv EXCEPT ![t] = Append(@, new)]
           pc  == [e.pc EXCEPT ![t] = "Code"]
<1>1. e \in EeState BY DEF Good, Core
<1>2. new \in Invocation BY <1>1 DEF EeState, Invocation
<1>3. /\ inv \in [Threads -> Seq(Invocation)] /\ pc \in [Threads -> PCs]
    <2> HIDE DEF new
    <2> QED BY <1>1, <1>2 DEF EeState, PCs
<1>4. r = [e EXCEPT !.inv = inv, !.pc = pc] BY DEF pushInvocation
<1> HIDE DEF inv, pc
<1>5. /\ r \in EeState /\ r.current = e.current
      /\ r.status = e.status /\ r.prio = e.prio /\ r.susp = e.susp /\ r.wake = e.wake
      /\ r.wait = e.wait /\ r.ready = e.ready /\ r.sema = e.sema /\ r.flag = e.flag
    BY <1>1, <1>3, <1>4 DEF EeState
<1> QED BY <1>5, GoodSame

\* The top invocation is popped.
LEMMA PopInvocation ==
    ASSUME NEW e, Good(e), NEW t \in Threads, e.inv[t] # <<>>,
           NEW r, r = popInvocation(e, t)
    PROVE  Good(r) /\ r.current = e.current
<1> DEFINE s   == e.inv[t]
           inv == [e.inv EXCEPT ![t] = Front(s)]
           pc  == [e.pc EXCEPT ![t] = Last(s).under]
<1>1. e \in EeState /\ s \in Seq(Invocation) BY DEF Good, Core, EeState
<1>2. Front(s) \in Seq(Invocation) /\ Last(s) \in Invocation
    BY <1>1 DEF Front, Last
<1>3. /\ inv \in [Threads -> Seq(Invocation)] /\ pc \in [Threads -> PCs]
    BY <1>1, <1>2 DEF EeState, Invocation
<1>4. r = [e EXCEPT !.inv = inv, !.pc = pc] BY DEF popInvocation
<1> HIDE DEF inv, pc
<1>5. /\ r \in EeState /\ r.current = e.current
      /\ r.status = e.status /\ r.prio = e.prio /\ r.susp = e.susp /\ r.wake = e.wake
      /\ r.wait = e.wait /\ r.ready = e.ready /\ r.sema = e.sema /\ r.flag = e.flag
    BY <1>1, <1>3, <1>4 DEF EeState
<1> QED BY <1>5, GoodSame

--------------------------------------------------------------------------------
(* Turns, completions and handlers *)

\* The statuses of a thread whose wait has ended and that has not run since.
Fits == {"Ready", "Running", "Suspended"}

\* Nobody more urgent than the current thread is ready, unless a reschedule is
\* requested.
Urgent(e) ==
    e.current # NoThread /\ ~e.resched =>
        \A t \in Threads : e.status[t] = "Ready" => e.prio[e.current] <= e.prio[t]

Unsatisfied(e, t) ==
    e.wait[t].reason = "EventFlag" => ~Satisfied(e, t, e.flag[e.wait[t].obj].bits)

Side(e) ==
    /\ \A t \in Threads :
        /\ \A i \in DOMAIN e.inv[t] : e.inv[t][i].kind \in AsyncKinds => i = 1
        /\ e.resume[t] => e.status[t] \in Fits
        /\ Unsatisfied(e, t)
    /\ Urgent(e)

\* What a call of the current thread may do to the thread t.
Moved(e, r, t) ==
    /\ r.inv[t] = e.inv[t] \/ (r.inv[t] = <<>> /\ t # e.current)
    /\ r.resume[t] => r.status[t] \in Fits /\ (e.resume[t] \/ e.status[t] \in BlockedStatuses)
    /\ r.status[t] \in BlockedStatuses => e.status[t] \in BlockedStatuses
    /\ r.wait[t].reason = "EventFlag" => r.wait[t] = e.wait[t]

Moves(e, r) ==
    /\ r.pending = e.pending
    /\ e.check => r.check
    /\ \A t \in Threads : Moved(e, r, t)
    /\ \A f \in Flags : r.flag[f].bits \subseteq e.flag[f].bits

Turn(e, r) == Moves(e, r) /\ Urgent(r)

\* The current thread has not become ready again.
Keeps(e, r) == r.current = e.current \/ r.status[e.current] # "Ready"

\* A condition that bits do not meet is not met by fewer bits either.
LEMMA FewerBits ==
    ASSUME NEW bits, NEW fewer, fewer \subseteq bits, NEW requested, NEW mode,
           eventCondition(fewer, requested, mode)
    PROVE  eventCondition(bits, requested, mode)
BY DEF eventCondition

\* A turn keeps the invariant of completions, handlers, flags and turns.
LEMMA TurnSide ==
    ASSUME NEW e, NEW r, Good(r), Side(e), Turn(e, r)
    PROVE  Side(r)
<1> SUFFICES ASSUME NEW t \in Threads
             PROVE  /\ \A i \in DOMAIN r.inv[t] : r.inv[t][i].kind \in AsyncKinds => i = 1
                    /\ r.resume[t] => r.status[t] \in Fits
                    /\ Unsatisfied(r, t)
    BY DEF Side, Turn
<1>1. /\ \A i \in DOMAIN e.inv[t] : e.inv[t][i].kind \in AsyncKinds => i = 1
      /\ Unsatisfied(e, t)
    BY DEF Side
<1>2. Moved(e, r, t) BY DEF Turn, Moves
<1>3. \A i \in DOMAIN r.inv[t] : r.inv[t][i].kind \in AsyncKinds => i = 1
    <2>1. CASE r.inv[t] = e.inv[t] BY <1>1, <2>1
    <2>2. CASE r.inv[t] = <<>> BY <2>2
    <2> QED BY <1>2, <2>1, <2>2 DEF Moved
<1>4. Unsatisfied(r, t)
    <2> SUFFICES ASSUME r.wait[t].reason = "EventFlag",
                        Satisfied(r, t, r.flag[r.wait[t].obj].bits)
                 PROVE  FALSE
        BY DEF Unsatisfied
    <2>1. r.wait[t] = e.wait[t] /\ r.wait[t].obj \in Flags
        BY <1>2 DEF Moved, Good, Core, ThreadOK
    <2>2. r.flag[e.wait[t].obj].bits \subseteq e.flag[e.wait[t].obj].bits BY <2>1 DEF Turn, Moves
    <2>3. Satisfied(e, t, e.flag[e.wait[t].obj].bits) BY <2>1, <2>2, FewerBits DEF Satisfied
    <2> QED BY <1>1, <2>1, <2>3 DEF Unsatisfied
<1> QED BY <1>2, <1>3, <1>4 DEF Moved

\* What a thread has in its queue, seen from the threads.
LEMMA EmptyQueue ==
    ASSUME NEW e, Good(e), NEW p \in Priorities
    PROVE  e.ready[p] = <<>> <=> \A t \in Threads : ~(e.status[t] = "Ready" /\ e.prio[t] = p)
<1>1. e.ready[p] \in Seq(Threads) BY DEF Good, Core, EeState
<1>2. ToSet(e.ready[p]) = ReadyAt(e, Threads \ {}, p) BY DEF Good, Core, QueuesOK
<1>3. e.ready[p] = <<>> <=> ToSet(e.ready[p]) = {}
    <2>1. e.ready[p] = <<>> => ToSet(e.ready[p]) = {} BY DEF ToSet
    <2>2. e.ready[p] # <<>> => Head(e.ready[p]) \in ToSet(e.ready[p]) BY <1>1, TailOf
    <2> QED BY <2>1, <2>2
<1> QED BY <1>2, <1>3 DEF ReadyAt

\* Nothing the turn depends on has changed but what ready and wait say.
Alike(e, r) ==
    /\ r.status = e.status /\ r.prio = e.prio /\ r.resume = e.resume /\ r.inv = e.inv
    /\ r.pending = e.pending /\ r.current = e.current /\ r.resched = e.resched
    /\ e.check => r.check
    /\ \A t \in Threads : r.wait[t].reason = "EventFlag" => r.wait[t] = e.wait[t]
    /\ \A f \in Flags : r.flag[f].bits \subseteq e.flag[f].bits

\* A change of nothing the turn depends on is a turn,
LEMMA AlikeTurn ==
    ASSUME NEW e, Side(e), NEW r, Alike(e, r)
    PROVE  Turn(e, r) /\ Keeps(e, r) /\ Urgent(r)
<1>1. Urgent(r) BY DEF Alike, Urgent, Side
<1> QED BY <1>1 DEF Alike, Turn, Moves, Moved, Side, Keeps

\* and so is one that a turn follows.
LEMMA AlikeFirst ==
    ASSUME NEW e, NEW m, Alike(e, m), NEW r, Turn(m, r)
    PROVE  Turn(e, r)
<1>1. \A t \in Threads : Moved(e, r, t) BY DEF Alike, Turn, Moves, Moved
<1>2. \A f \in Flags : r.flag[f].bits \subseteq e.flag[f].bits BY DEF Alike, Turn, Moves
<1> QED BY <1>1, <1>2 DEF Alike, Turn, Moves

\* Threads whose wait ends do not outrun the current thread unnoticed.
LEMMA MakeReadyTurn ==
    ASSUME NEW e \in EeState, Urgent(e), \A t \in Threads : e.resume[t] => e.status[t] \in Fits,
           e.current = NoThread \/ e.current \in Threads,
           NEW ws, NEW X, X = ToSet(ws),
           X \subseteq {t \in Threads : e.status[t] \in BlockedStatuses},
           NEW safe \in BOOLEAN, NEW r, r = makeReady(e, ws, safe)
    PROVE  /\ Turn(e, r) /\ r.current = e.current
           /\ \A t \in X : r.status[t] \notin BlockedStatuses
<1> DEFINE up == {t \in X : e.susp[t] = 0}
           at(p) == {t \in up : e.prio[t] = p}
           status == [t \in Threads |-> IF t \in up THEN "Ready"
                                        ELSE IF t \in X THEN "Suspended" ELSE e.status[t]]
           wait   == [t \in Threads |-> IF t \in X THEN NoWait ELSE e.wait[t]]
           resume == [t \in Threads |-> IF t \in X THEN e.wait[t].completion ELSE e.resume[t]]
           ready  == [p \in Priorities |-> e.ready[p] \o Filter(ws, at(p))]
           above  == \E t \in up : Higher(e, t)
           resched == e.resched \/ above
           check   == e.check \/ ((safe \/ e.inIntr) /\ above)
<1>1. r = [e EXCEPT !.status = status, !.wait = wait, !.resume = resume, !.ready = ready,
                    !.resched = resched, !.check = check]
    BY DEF makeReady
<1> HIDE DEF status, wait, resume, ready, resched, check
<1>2. /\ r.status = status /\ r.wait = wait /\ r.resume = resume /\ r.resched = resched
      /\ r.check = check /\ r.prio = e.prio /\ r.inv = e.inv /\ r.flag = e.flag
      /\ r.current = e.current /\ r.pending = e.pending
    BY <1>1 DEF EeState
<1>3. ASSUME NEW t \in Threads PROVE Moved(e, r, t)
    <2>1. CASE t \in X
        BY <1>2, <2>1 DEF Moved, status, wait, resume, NoWait, Fits, BlockedStatuses
    <2>2. CASE t \notin X
        BY <1>2, <2>2 DEF Moved, status, wait, resume
    <2> QED BY <2>1, <2>2
<1>4. Urgent(r)
    <2> SUFFICES ASSUME e.current # NoThread, ~resched, NEW t \in Threads, status[t] = "Ready"
                 PROVE  e.prio[e.current] <= e.prio[t]
        BY <1>2 DEF Urgent
    <2>1. e.prio[t] \in Int /\ e.prio[e.current] \in Int
        BY DEF EeState, Priorities
    <2>2. CASE t \in up BY <2>1, <2>2 DEF resched, Higher
    <2>3. CASE t \notin up BY <2>3 DEF status, resched, Urgent
    <2> QED BY <2>2, <2>3
<1>5. \A t \in X : r.status[t] \notin BlockedStatuses
    BY <1>2 DEF status, BlockedStatuses
<1> QED BY <1>2, <1>3, <1>4, <1>5 DEF Turn, Moves, check

\* requestPreemptionIfHigher() only raises flags.
Requested(m, r, t) ==
    /\ r.status = m.status /\ r.prio = m.prio /\ r.wait = m.wait /\ r.resume = m.resume
    /\ r.inv = m.inv /\ r.flag = m.flag /\ r.current = m.current
    /\ r.pending = m.pending /\ (m.check => r.check)
    /\ Higher(m, t) => r.resched
    /\ ~Higher(m, t) => r.resched = m.resched

\* What requestPreemptionIfHigher() does to a record the call is making.
LEMMA RequestFields ==
    ASSUME NEW e \in EeState, NEW m, DOMAIN m = DOMAIN e, NEW t, NEW safe \in BOOLEAN,
           NEW r, r = requestPreemptionIfHigher(m, t, safe)
    PROVE  Requested(m, r, t)
<1> DEFINE check == m.check \/ safe \/ m.inIntr
<1>1. DOMAIN m = {"status", "prio", "susp", "wake", "wait", "resume", "inv", "pc", "ready",
                  "current", "sema", "flag", "pending", "resched", "expired", "check", "inIntr"}
    BY DEF EeState
<1>2. CASE Higher(m, t)
    <2>1. r = [m EXCEPT !.resched = TRUE, !.check = check]
        BY <1>2 DEF requestPreemptionIfHigher
    <2>2. m.check => check OBVIOUS
    <2> HIDE DEF check
    <2> QED BY <1>1, <1>2, <2>1, <2>2 DEF Requested
<1>3. CASE ~Higher(m, t) BY <1>3 DEF requestPreemptionIfHigher, Requested
<1> QED BY <1>2, <1>3

\* What m says of the threads other than t is what e says.
Others(e, m, t) ==
    /\ m.current = e.current /\ m.resched = e.resched
    /\ m.prio \in [Threads -> Priorities]
    /\ \A u \in Threads : u # t => /\ m.prio[u] = e.prio[u]
                                   /\ m.status[u] = "Ready" => e.status[u] = "Ready"

\* A thread that becomes ready, or more urgent, asks for the preemption.
LEMMA RequestTurn ==
    ASSUME NEW e, Good(e), Urgent(e), NEW t \in Threads, t # e.current,
           NEW m, Others(e, m, t), NEW r, Requested(m, r, t)
    PROVE  Urgent(r) /\ Keeps(e, r)
<1> SUFFICES ASSUME r.current # NoThread, ~r.resched, NEW u \in Threads, r.status[u] = "Ready"
             PROVE  r.prio[r.current] <= r.prio[u]
    BY DEF Urgent, Keeps, Requested, Others
<1>1. /\ e.current \in Threads /\ ~Higher(m, t) /\ ~e.resched /\ m.current = e.current
      /\ m.prio[e.current] = e.prio[e.current] /\ r.prio = m.prio /\ r.status = m.status
      /\ r.current = e.current
    BY DEF Requested, Others, Good, Core, EeState
<1>2. CASE u = t
    <2>1. m.prio[t] \in Int /\ m.prio[m.current] \in Int BY <1>1 DEF Priorities, Others
    <2> QED BY <1>1, <1>2, <2>1 DEF Higher
<1>3. CASE u # t
    <2>1. m.prio[u] = e.prio[u] /\ e.status[u] = "Ready" BY <1>1, <1>3 DEF Others
    <2> QED BY <1>1, <2>1 DEF Urgent
<1> QED BY <1>2, <1>3

\* A new thread is dormant and disturbs nobody's turn;
LEMMA CreateThreadTurn ==
    ASSUME NEW e, Good(e), Side(e), NEW t \in Threads, ~Exists(e, t), NEW p \in Priorities,
           NEW r, r = createThread(e, t, p)
    PROVE  Turn(e, r) /\ Keeps(e, r)
<1>1. e \in EeState /\ e.status[t] = "Absent" /\ t # e.current
    BY DEF Good, Core, Exists, RunOK
<1>2. /\ r.status = [e.status EXCEPT ![t] = "Dormant"] /\ r.prio = [e.prio EXCEPT ![t] = p]
      /\ r.wait = [e.wait EXCEPT ![t] = NoWait] /\ r.resume = [e.resume EXCEPT ![t] = FALSE]
      /\ r.inv = [e.inv EXCEPT ![t] = <<>>] /\ r.flag = e.flag /\ r.current = e.current
      /\ r.pending = e.pending /\ r.resched = e.resched /\ r.check = e.check
    BY <1>1 DEF createThread, EeState
<1>3. ASSUME NEW u \in Threads PROVE Moved(e, r, u)
    BY <1>1, <1>2 DEF Moved, Side, EeState, NoWait, BlockedStatuses
<1>4. Urgent(r) BY <1>1, <1>2 DEF Urgent, Side, EeState
<1> QED BY <1>2, <1>3, <1>4 DEF Turn, Moves, Keeps

\* nor does a dormant thread that is forgotten.
LEMMA DeleteThreadTurn ==
    ASSUME NEW e, Good(e), Side(e), NEW t \in Threads, NEW r, r = deleteThread(e, t)
    PROVE  Turn(e, r) /\ Keeps(e, r)
<1>1. e \in EeState BY DEF Good, Core
<1>2. CASE r = e BY <1>2, AlikeTurn DEF Alike
<1>3. CASE e.status[t] = "Dormant" /\ r = [e EXCEPT !.status[t] = "Absent"]
    <2>1. /\ r.status = [e.status EXCEPT ![t] = "Absent"] /\ r.prio = e.prio
          /\ r.wait = e.wait /\ r.resume = e.resume /\ r.inv = e.inv /\ r.flag = e.flag
          /\ r.current = e.current /\ r.pending = e.pending /\ r.resched = e.resched
          /\ r.check = e.check
        BY <1>1, <1>3 DEF EeState
    <2>2. ASSUME NEW u \in Threads PROVE Moved(e, r, u)
        BY <1>1, <1>3, <2>1 DEF Moved, Side, EeState, BlockedStatuses, Fits
    <2>3. Urgent(r) BY <1>1, <2>1 DEF Urgent, Side, EeState
    <2> QED BY <2>1, <2>2, <2>3 DEF Turn, Moves, Keeps
<1> QED BY <1>2, <1>3 DEF deleteThread

\* A started thread asks for the preemption.
LEMMA StartThreadTurn ==
    ASSUME NEW e, Good(e), Side(e), NEW t \in Threads, NEW safe \in BOOLEAN,
           NEW r, r = startThread(e, t, safe)
    PROVE  Turn(e, r) /\ Keeps(e, r)
<1>1. e \in EeState BY DEF Good, Core
<1>2. CASE r = e BY <1>2, AlikeTurn DEF Alike
<1>3. CASE e.status[t] = "Dormant"
    <2> DEFINE m == enqueueReady([e EXCEPT !.pc[t] = "Code", !.susp[t] = 0, !.wake[t] = 0,
                                           !.wait[t] = NoWait], t)
    <2>1. r = requestPreemptionIfHigher(m, t, safe) BY <1>3 DEF startThread
    <2>2. /\ DOMAIN m = DOMAIN e
          /\ m.status = [e.status EXCEPT ![t] = "Ready"] /\ m.prio = e.prio
          /\ m.wait = [e.wait EXCEPT ![t] = NoWait] /\ m.resume = e.resume /\ m.inv = e.inv
          /\ m.flag = e.flag /\ m.current = e.current /\ m.pending = e.pending
          /\ m.resched = e.resched /\ m.check = e.check
        BY <1>1 DEF enqueueReady, EeState
    <2> HIDE DEF m
    <2>3. Requested(m, r, t) BY <1>1, <2>1, <2>2, RequestFields
    <2>4. ASSUME NEW u \in Threads PROVE Moved(e, r, u)
        BY <1>1, <1>3, <2>2, <2>3
           DEF Requested, Moved, Side, EeState, BlockedStatuses, Fits, NoWait
    <2>5. t # e.current BY <1>1, <1>3 DEF Good, RunOK
    <2>6. Others(e, m, t) BY <1>1, <2>2 DEF Others, EeState
    <2>7. Urgent(r) /\ Keeps(e, r) BY <2>3, <2>5, <2>6, RequestTurn DEF Side
    <2> QED BY <2>2, <2>3, <2>4, <2>7 DEF Turn, Moves, Requested
<1> QED BY <1>2, <1>3 DEF startThread

\* Leaving the ready queue, and the waiters of an object.
LEMMA LeaveFields ==
    ASSUME NEW e \in EeState, NEW t \in Threads,
           NEW m, m = e \/ m = removeReady(e, t), NEW r, r = removeFromWaitObject(m, t)
    PROVE  /\ DOMAIN r = DOMAIN e /\ r.status = e.status /\ r.prio = e.prio /\ r.susp = e.susp
           /\ r.resume = e.resume /\ r.inv = e.inv /\ r.current = e.current
           /\ r.pending = e.pending /\ r.resched = e.resched /\ r.check = e.check
           /\ r.inIntr = e.inIntr /\ r.wait = [e.wait EXCEPT ![t] = NoWait]
           /\ \A f \in Flags : r.flag[f].bits = e.flag[f].bits
<1>1. /\ DOMAIN m = DOMAIN e /\ m.status = e.status /\ m.prio = e.prio /\ m.susp = e.susp
      /\ m.resume = e.resume /\ m.inv = e.inv /\ m.current = e.current
      /\ m.pending = e.pending /\ m.resched = e.resched /\ m.check = e.check
      /\ m.inIntr = e.inIntr /\ m.wait = e.wait /\ m.flag = e.flag
    BY DEF removeReady, EeState
<1> DEFINE w == m.wait[t]
           semas == IF w.reason = "Semaphore"
                    THEN [m.sema EXCEPT ![w.obj].waiters = RemoveFirst(@, t)] ELSE m.sema
           flags == IF w.reason = "EventFlag"
                    THEN [m.flag EXCEPT ![w.obj].waiters = RemoveFirst(@, t)] ELSE m.flag
           waits == [m.wait EXCEPT ![t] = NoWait]
<1>2. r = [m EXCEPT !.sema = semas, !.flag = flags, !.wait = waits]
    BY DEF removeFromWaitObject
<1>3. \A f \in Flags : flags[f].bits = e.flag[f].bits
    <2>1. e.flag \in [Flags -> EventFlag] BY DEF EeState
    <2> QED BY <1>1, <2>1 DEF EventFlag
<1> HIDE DEF semas, flags, waits
<1>4. DOMAIN m = {"status", "prio", "susp", "wake", "wait", "resume", "inv", "pc", "ready",
                  "current", "sema", "flag", "pending", "resched", "expired", "check", "inIntr"}
    BY <1>1 DEF EeState
<1>5. /\ DOMAIN r = DOMAIN m /\ r.status = m.status /\ r.prio = m.prio /\ r.susp = m.susp
      /\ r.resume = m.resume /\ r.inv = m.inv /\ r.current = m.current
      /\ r.pending = m.pending /\ r.resched = m.resched /\ r.check = m.check
      /\ r.inIntr = m.inIntr /\ r.wait = waits /\ r.flag = flags
    BY <1>2, <1>4
<1> QED BY <1>1, <1>3, <1>5 DEF waits

\* A thread ends; it may be the current one.
Dormant(e, r, t) ==
    /\ DOMAIN r = DOMAIN e /\ r.status = [e.status EXCEPT ![t] = "Dormant"]
    /\ r.prio = e.prio /\ r.wait = [e.wait EXCEPT ![t] = NoWait]
    /\ r.resume = [e.resume EXCEPT ![t] = FALSE] /\ r.inv = [e.inv EXCEPT ![t] = <<>>]
    /\ r.current = e.current /\ r.pending = e.pending /\ r.resched = e.resched
    /\ r.check = e.check /\ \A f \in Flags : r.flag[f].bits = e.flag[f].bits

\* What makeDormant() does to the members that a turn depends on.
LEMMA DormantFields ==
    ASSUME NEW e \in EeState, NEW t \in Threads, NEW r, r = makeDormant(e, t)
    PROVE  Dormant(e, r, t)
<1> DEFINE m == removeFromWaitObject(removeReady(e, t), t)
<1>1. /\ DOMAIN m = DOMAIN e /\ m.status = e.status /\ m.prio = e.prio /\ m.susp = e.susp
      /\ m.resume = e.resume /\ m.inv = e.inv /\ m.current = e.current
      /\ m.pending = e.pending /\ m.resched = e.resched /\ m.check = e.check
      /\ m.wait = [e.wait EXCEPT ![t] = NoWait]
      /\ \A f \in Flags : m.flag[f].bits = e.flag[f].bits
    BY LeaveFields
<1>2. r = [m EXCEPT !.status[t] = "Dormant", !.resume[t] = FALSE,
                    !.susp[t] = 0, !.wake[t] = 0, !.inv[t] = <<>>]
    BY DEF makeDormant
<1> HIDE DEF m
<1>3. DOMAIN m = {"status", "prio", "susp", "wake", "wait", "resume", "inv", "pc", "ready",
                  "current", "sema", "flag", "pending", "resched", "expired", "check", "inIntr"}
    BY <1>1 DEF EeState
<1>4. /\ DOMAIN r = DOMAIN m /\ r.status = [m.status EXCEPT ![t] = "Dormant"] /\ r.prio = m.prio
      /\ r.wait = m.wait /\ r.resume = [m.resume EXCEPT ![t] = FALSE]
      /\ r.inv = [m.inv EXCEPT ![t] = <<>>]
      /\ r.current = m.current /\ r.pending = m.pending /\ r.resched = m.resched
      /\ r.check = m.check /\ r.flag = m.flag
    BY <1>2, <1>3
<1> QED BY <1>1, <1>4 DEF Dormant

\* What the end of the thread t does to the others.
Ends(e, r, t) ==
    /\ \A u \in Threads : u # t => Moved(e, r, u)
    /\ r.inv[t] = <<>> /\ ~r.resume[t] /\ r.wait[t] = NoWait
    /\ r.status[t] \in {"Dormant", "Absent"}
    /\ \A u \in Threads : r.status[u] = "Ready" => e.status[u] = "Ready"
    /\ r.prio = e.prio /\ r.pending = e.pending /\ r.resched = e.resched /\ r.check = e.check
    /\ \A f \in Flags : r.flag[f].bits = e.flag[f].bits

\* The thread that became dormant is out of its wait.
LEMMA DormantEnds ==
    ASSUME NEW e \in EeState, Side(e), NEW t \in Threads, NEW r, r = makeDormant(e, t)
    PROVE  Ends(e, r, t) /\ r.current = e.current /\ DOMAIN r = DOMAIN e
<1>1. Dormant(e, r, t) BY DormantFields
<1>2. ASSUME NEW u \in Threads, u # t PROVE Moved(e, r, u)
    BY <1>1, <1>2 DEF Dormant, Moved, Side, EeState
<1> QED BY <1>1, <1>2 DEF Dormant, Ends, EeState

\* A terminated thread takes its completion and its invocations with it,
LEMMA TerminateThreadTurn ==
    ASSUME NEW e, Good(e), Side(e), NEW t \in Threads, NEW r, r = terminateThread(e, t)
    PROVE  Turn(e, r) /\ Keeps(e, r)
<1>1. e \in EeState BY DEF Good, Core
<1>2. CASE r = e BY <1>2, AlikeTurn DEF Alike
<1>3. CASE t # e.current /\ r = makeDormant(e, t)
    <2>1. Ends(e, r, t) /\ r.current = e.current BY <1>1, <1>3, DormantEnds
    <2>2. Moved(e, r, t) BY <1>3, <2>1 DEF Ends, Moved, NoWait, BlockedStatuses
    <2>3. Urgent(r) BY <2>1 DEF Ends, Urgent, Side
    <2> QED BY <2>1, <2>2, <2>3 DEF Turn, Moves, Keeps, Ends
<1> QED BY <1>2, <1>3 DEF terminateThread

\* The invariant after the end of a thread, when nobody runs.
LEMMA EndsSide ==
    ASSUME NEW e, Side(e), NEW t \in Threads, NEW r, Good(r), Ends(e, r, t),
           r.current = NoThread
    PROVE  Side(r)
<1>1. Urgent(r) BY DEF Urgent
<1>2. ASSUME NEW u \in Threads
      PROVE  /\ \A i \in DOMAIN r.inv[u] : r.inv[u][i].kind \in AsyncKinds => i = 1
             /\ r.resume[u] => r.status[u] \in Fits
             /\ Unsatisfied(r, u)
    <2>1. CASE u = t BY <2>1 DEF Ends, Unsatisfied, NoWait
    <2>2. CASE u # t
        <3>1. Moved(e, r, u) BY <2>2 DEF Ends
        <3>2. \A i \in DOMAIN e.inv[u] : e.inv[u][i].kind \in AsyncKinds => i = 1 BY DEF Side
        <3>3. \A i \in DOMAIN r.inv[u] : r.inv[u][i].kind \in AsyncKinds => i = 1
            <4>1. CASE r.inv[u] = e.inv[u] BY <3>2, <4>1
            <4>2. CASE r.inv[u] = <<>> BY <4>2
            <4> QED BY <3>1, <4>1, <4>2 DEF Moved
        <3>4. Unsatisfied(r, u)
            <4>1. r.wait[u].reason = "EventFlag" => r.wait[u] = e.wait[u] BY <3>1 DEF Moved
            <4>2. r.wait[u].reason = "EventFlag" => r.wait[u].obj \in Flags
                BY DEF Good, Core, ThreadOK
            <4>3. Unsatisfied(e, u) BY DEF Side
            <4> QED BY <4>1, <4>2, <4>3 DEF Unsatisfied, Satisfied, Ends
        <3> QED BY <3>1, <3>3, <3>4 DEF Moved
    <2> QED BY <2>1, <2>2
<1> QED BY <1>1, <1>2 DEF Side

\* and so does one that exits; nobody runs then.
LEMMA ExitCurrentTurn ==
    ASSUME NEW e, Good(e), Side(e), e.current # NoThread, NEW delete \in BOOLEAN,
           NEW r, r = exitCurrent(e, delete)
    PROVE  Side(r) /\ Keeps(e, r)
<1> DEFINE t == e.current
           m == makeDormant(e, t)
           d == [m EXCEPT !.current = NoThread]
<1>1. t \in Threads /\ e \in EeState BY RunningLoose DEF Good, Core
<1>2. Ends(e, m, t) /\ DOMAIN m = DOMAIN e BY <1>1, DormantEnds
<1>3. m.status = [e.status EXCEPT ![t] = "Dormant"]
    <2>1. Dormant(e, m, t) BY <1>1, DormantFields
    <2> QED BY <2>1 DEF Dormant
<1>4. DOMAIN e = {"status", "prio", "susp", "wake", "wait", "resume", "inv", "pc", "ready",
                  "current", "sema", "flag", "pending", "resched", "expired", "check", "inIntr"}
    BY <1>1 DEF EeState
<1>5. r = d \/ r = [d EXCEPT !.status[t] = "Absent"] BY DEF exitCurrent
<1> HIDE DEF m
<1>6. /\ DOMAIN d = DOMAIN e /\ d.current = NoThread /\ d.status = m.status /\ d.prio = m.prio
      /\ d.wait = m.wait /\ d.resume = m.resume /\ d.inv = m.inv /\ d.flag = m.flag
      /\ d.pending = m.pending /\ d.resched = m.resched /\ d.check = m.check
    BY <1>2, <1>4
<1> HIDE DEF d
<1>7. /\ r.current = NoThread /\ r.prio = m.prio
      /\ r.wait = m.wait /\ r.resume = m.resume /\ r.inv = m.inv /\ r.flag = m.flag
      /\ r.pending = m.pending /\ r.resched = m.resched /\ r.check = m.check
      /\ (r.status = m.status \/ r.status = [m.status EXCEPT ![t] = "Absent"])
    BY <1>4, <1>5, <1>6
<1>8. \A u \in Threads : /\ u # t => r.status[u] = m.status[u]
                         /\ r.status[t] \in {"Dormant", "Absent"}
    BY <1>1, <1>3, <1>7 DEF EeState
<1>9. Ends(e, r, t)
    <2>1. \A u \in Threads : u # t => Moved(e, r, u) BY <1>2, <1>7, <1>8 DEF Ends, Moved
    <2> QED BY <1>1, <1>2, <1>7, <1>8, <2>1 DEF Ends
<1>10. Good(r) BY ExitCurrentGood
<1> QED BY <1>1, <1>7, <1>8, <1>9, <1>10, EndsSide DEF Keeps

\* The status and the count of a thread change; it does not become ready.
Relabelled(e, r, t) ==
    /\ \A u \in Threads : u # t => r.status[u] = e.status[u]
    /\ r.status[t] # "Ready"
    /\ r.status[t] \in BlockedStatuses => e.status[t] \in BlockedStatuses
    /\ e.status[t] \in Fits => r.status[t] \in Fits
    /\ r.prio = e.prio /\ r.resume = e.resume /\ r.inv = e.inv /\ r.wait = e.wait
    /\ r.flag = e.flag /\ r.pending = e.pending /\ (e.check => r.check)
    /\ \/ r.current = e.current /\ r.resched = e.resched
       \/ r.current = NoThread /\ t = e.current

\* A change of one status, away from Ready, is a turn.
LEMMA StatusTurn ==
    ASSUME NEW e, Good(e), Side(e), NEW t \in Threads, NEW r, Relabelled(e, r, t)
    PROVE  Turn(e, r) /\ Keeps(e, r)
<1>1. ASSUME NEW u \in Threads PROVE Moved(e, r, u)
    BY DEF Relabelled, Moved, Side
<1>2. Urgent(r) BY DEF Relabelled, Urgent, Side
<1> QED BY <1>1, <1>2 DEF Relabelled, Turn, Moves, Keeps

\* A suspended thread leaves its turn;
LEMMA SuspendThreadTurn ==
    ASSUME NEW e, Good(e), Side(e), NEW t \in Threads, NEW r, r = suspendThread(e, t)
    PROVE  Turn(e, r) /\ Keeps(e, r)
<1> DEFINE s == [e EXCEPT !.susp[t] = @ + 1]
<1>1. e \in EeState BY DEF Good, Core
<1>2. CASE e.status[t] = "Running"
    <2>1. r = [s EXCEPT !.status[t] = "Suspended", !.current = NoThread, !.resched = TRUE]
        BY <1>2 DEF suspendThread
    <2>2. /\ r.status = [e.status EXCEPT ![t] = "Suspended"] /\ r.current = NoThread
          /\ r.prio = e.prio /\ r.resume = e.resume /\ r.inv = e.inv /\ r.wait = e.wait
          /\ r.flag = e.flag /\ r.pending = e.pending /\ r.check = e.check
        BY <1>1, <2>1 DEF EeState
    <2>3. t = e.current BY <1>2 DEF Good, RunOK
    <2>4. /\ \A u \in Threads : u # t => r.status[u] = e.status[u]
          /\ r.status[t] = "Suspended"
        BY <1>1, <2>2 DEF EeState
    <2>5. Relabelled(e, r, t) BY <1>2, <2>2, <2>3, <2>4 DEF Relabelled, Fits, BlockedStatuses
    <2> QED BY <2>5, StatusTurn
<1>3. CASE e.status[t] \in {"Ready", "Waiting", "Suspended", "WaitingSuspended"}
    <2> DEFINE st == IF e.status[t] \in {"Ready", "Suspended"} THEN "Suspended"
                     ELSE "WaitingSuspended"
    <2>1. /\ r.status = [e.status EXCEPT ![t] = st] /\ r.current = e.current
          /\ r.prio = e.prio /\ r.resume = e.resume /\ r.inv = e.inv /\ r.wait = e.wait
          /\ r.flag = e.flag /\ r.pending = e.pending /\ r.check = e.check
          /\ r.resched = e.resched
        <3>1. CASE e.status[t] = "Ready"
            BY <1>1, <3>1 DEF EeState, suspendThread, removeReady
        <3>2. CASE e.status[t] = "Waiting"
            BY <1>1, <3>2 DEF EeState, suspendThread
        <3>3. CASE e.status[t] \in {"Suspended", "WaitingSuspended"}
            BY <1>1, <3>3 DEF EeState, suspendThread
        <3> QED BY <1>3, <3>1, <3>2, <3>3
    <2>2. /\ \A u \in Threads : u # t => r.status[u] = e.status[u]
          /\ r.status[t] = st
        BY <1>1, <2>1 DEF EeState
    <2>3. Relabelled(e, r, t) BY <1>3, <2>1, <2>2 DEF Relabelled, Fits, BlockedStatuses
    <2> QED BY <2>3, StatusTurn
<1>4. CASE e.status[t] \in {"Absent", "Dormant"}
    <2>1. r = e BY <1>4 DEF suspendThread
    <2> QED BY <2>1, AlikeTurn DEF Alike
<1> QED BY <1>1, <1>2, <1>3, <1>4 DEF EeState, Statuses

\* a resumed one asks for the preemption.
LEMMA ResumeThreadTurn ==
    ASSUME NEW e, Good(e), Side(e), NEW t \in Threads, NEW safe \in BOOLEAN,
           NEW r, r = resumeThread(e, t, safe)
    PROVE  Turn(e, r) /\ Keeps(e, r)
<1> DEFINE s == [e EXCEPT !.susp[t] = @ - 1]
           m == enqueueReady(s, t)
<1>1. e \in EeState BY DEF Good, Core
<1>2. CASE r = e BY <1>2, AlikeTurn DEF Alike
<1>3. CASE r = s
    <2>1. /\ r.status = e.status /\ r.current = e.current
          /\ r.prio = e.prio /\ r.resume = e.resume /\ r.inv = e.inv /\ r.wait = e.wait
          /\ r.flag = e.flag /\ r.pending = e.pending /\ r.check = e.check
          /\ r.resched = e.resched
        BY <1>1, <1>3 DEF EeState
    <2> QED BY <2>1, AlikeTurn DEF Alike
<1>4. CASE e.status[t] = "WaitingSuspended" /\ r = [s EXCEPT !.status[t] = "Waiting"]
    <2>1. /\ r.status = [e.status EXCEPT ![t] = "Waiting"] /\ r.current = e.current
          /\ r.prio = e.prio /\ r.resume = e.resume /\ r.inv = e.inv /\ r.wait = e.wait
          /\ r.flag = e.flag /\ r.pending = e.pending /\ r.check = e.check
          /\ r.resched = e.resched
        BY <1>1, <1>4 DEF EeState
    <2>2. /\ \A u \in Threads : u # t => r.status[u] = e.status[u]
          /\ r.status[t] = "Waiting"
        BY <1>1, <2>1 DEF EeState
    <2>3. Relabelled(e, r, t) BY <1>4, <2>1, <2>2 DEF Relabelled, Fits, BlockedStatuses
    <2> QED BY <2>3, StatusTurn
<1>5. CASE e.status[t] = "Suspended" /\ r = requestPreemptionIfHigher(m, t, safe)
    <2>1. /\ DOMAIN m = DOMAIN e
          /\ m.status = [e.status EXCEPT ![t] = "Ready"] /\ m.prio = e.prio
          /\ m.wait = e.wait /\ m.resume = e.resume /\ m.inv = e.inv
          /\ m.flag = e.flag /\ m.current = e.current /\ m.pending = e.pending
          /\ m.resched = e.resched /\ m.check = e.check
        BY <1>1 DEF enqueueReady, EeState
    <2> HIDE DEF m
    <2>2. Requested(m, r, t) BY <1>1, <1>5, <2>1, RequestFields
    <2>3. ASSUME NEW u \in Threads PROVE Moved(e, r, u)
        BY <1>1, <1>5, <2>1, <2>2 DEF Requested, Moved, Side, EeState, BlockedStatuses, Fits
    <2>4. t # e.current BY <1>1, <1>5 DEF Good, RunOK
    <2>5. Others(e, m, t) BY <1>1, <2>1 DEF Others, EeState
    <2>6. Urgent(r) /\ Keeps(e, r) BY <2>2, <2>4, <2>5, RequestTurn DEF Side
    <2> QED BY <2>1, <2>2, <2>3, <2>6 DEF Turn, Moves, Requested
<1> QED BY <1>2, <1>3, <1>4, <1>5 DEF resumeThread

\* Counting wakeups says nothing about turns.
LEMMA WakeTurn ==
    ASSUME NEW e, Good(e), Side(e), NEW t, NEW n, NEW r, r = [e EXCEPT !.wake[t] = n]
    PROVE  Turn(e, r) /\ Keeps(e, r)
<1>1. e \in EeState BY DEF Good, Core
<1>2. /\ r.status = e.status /\ r.current = e.current
      /\ r.prio = e.prio /\ r.resume = e.resume /\ r.inv = e.inv /\ r.wait = e.wait
      /\ r.flag = e.flag /\ r.pending = e.pending /\ r.check = e.check
      /\ r.resched = e.resched
    BY <1>1 DEF EeState
<1> QED BY <1>2, AlikeTurn DEF Alike

\* The waits of some threads end, after they left what they waited for.
LEMMA EndWaitsTurn ==
    ASSUME NEW e, Good(e), Side(e), NEW m, Alike(e, m), m \in EeState,
           NEW ws, NEW X, X = ToSet(ws),
           X \subseteq {t \in Threads : e.status[t] \in BlockedStatuses},
           NEW safe \in BOOLEAN, NEW r, r = makeReady(m, ws, safe)
    PROVE  Turn(e, r) /\ Keeps(e, r)
<1>1. /\ Urgent(m) /\ (m.current = NoThread \/ m.current \in Threads)
      /\ X \subseteq {t \in Threads : m.status[t] \in BlockedStatuses}
      /\ \A t \in Threads : m.resume[t] => m.status[t] \in Fits
    BY AlikeTurn DEF Alike, Side, EeState
<1>2. Turn(m, r) /\ r.current = m.current BY <1>1, MakeReadyTurn
<1>3. Turn(e, r) BY <1>2, AlikeFirst
<1> QED BY <1>2, <1>3 DEF Alike, Keeps

\* A wakeup ends a sleep or is stored;
LEMMA WakeupThreadTurn ==
    ASSUME NEW e, Good(e), Side(e), NEW t \in Threads, NEW safe \in BOOLEAN,
           NEW r, r = wakeupThread(e, t, safe)
    PROVE  Turn(e, r) /\ Keeps(e, r)
<1>1. e \in EeState /\ Alike(e, e) BY DEF Good, Core, Alike
<1>2. CASE r = e BY <1>1, <1>2, AlikeTurn
<1>3. CASE e.status[t] \in BlockedStatuses /\ r = makeReady(e, <<t>>, safe)
    <2> DEFINE ws == <<t>>
               X  == {t}
    <2>1. X = ToSet(ws) BY OneThread
    <2>2. X \subseteq {u \in Threads : e.status[u] \in BlockedStatuses} BY <1>3
    <2>3. r = makeReady(e, ws, safe) BY <1>3
    <2> HIDE DEF ws, X
    <2> QED BY <1>1, <2>1, <2>2, <2>3, EndWaitsTurn
<1>4. CASE r = [e EXCEPT !.wake[t] = @ + 1]
    <2> DEFINE n == e.wake[t] + 1
    <2>1. r = [e EXCEPT !.wake[t] = n] BY <1>4
    <2> HIDE DEF n
    <2> QED BY <2>1, WakeTurn
<1> QED BY <1>2, <1>3, <1>4 DEF wakeupThread

\* a release ends the wait of one thread.
LEMMA ReleaseWaitTurn ==
    ASSUME NEW e, Good(e), Side(e), NEW t \in Threads, NEW safe \in BOOLEAN,
           NEW r, r = releaseWait(e, t, safe)
    PROVE  Turn(e, r) /\ Keeps(e, r)
<1>1. e \in EeState /\ Alike(e, e) BY DEF Good, Core, Alike
<1>2. CASE r = e BY <1>1, <1>2, AlikeTurn
<1>3. CASE /\ e.status[t] \in BlockedStatuses
           /\ r = makeReady(removeFromWaitObject(e, t), <<t>>, safe)
    <2> DEFINE ws == <<t>>
               X  == {t}
               m  == removeFromWaitObject(e, t)
    <2>1. X = ToSet(ws) BY OneThread
    <2>2. X \subseteq {u \in Threads : e.status[u] \in BlockedStatuses} BY <1>3
    <2>3. r = makeReady(m, ws, safe) BY <1>3
    <2>4. m \in EeState BY <1>3, LeaveWait DEF Good, Core
    <2>5. Alike(e, m)
        <3>1. /\ m.status = e.status /\ m.prio = e.prio
              /\ m.resume = e.resume /\ m.inv = e.inv /\ m.current = e.current
              /\ m.pending = e.pending /\ m.resched = e.resched /\ m.check = e.check
              /\ m.wait = [e.wait EXCEPT ![t] = NoWait]
              /\ \A f \in Flags : m.flag[f].bits = e.flag[f].bits
            BY <1>1, LeaveFields
        <3> HIDE DEF m
        <3> QED BY <1>1, <3>1 DEF Alike, EeState, NoWait
    <2> HIDE DEF ws, X, m
    <2> QED BY <1>1, <2>1, <2>2, <2>3, <2>4, <2>5, EndWaitsTurn
<1> QED BY <1>2, <1>3 DEF releaseWait

\* A thread that becomes more urgent, or a current one that becomes less so, asks
\* for the preemption.
LEMMA ChangePriorityTurn ==
    ASSUME NEW e, Good(e), Side(e), NEW t \in Threads, NEW p \in Priorities,
           NEW safe \in BOOLEAN, NEW r, r = changePriority(e, t, p, safe)
    PROVE  Turn(e, r) /\ Keeps(e, r)
<1> DEFINE c == [e EXCEPT !.prio[t] = p]
           above == \E q \in 0 .. p - 1 : e.ready[q] # <<>>
<1>1. e \in EeState BY DEF Good, Core
<1>2. CASE ~Exists(e, t)
    <2>1. r = e BY <1>2 DEF changePriority, Exists
    <2> QED BY <2>1, AlikeTurn DEF Alike
<1>3. CASE e.status[t] = "Ready"
    <2> DEFINE m == enqueueReady([removeReady(e, t) EXCEPT !.prio[t] = p], t)
    <2>1. r = requestPreemptionIfHigher(m, t, safe) BY <1>3 DEF changePriority, Exists
    <2>2. /\ DOMAIN m = DOMAIN e
          /\ m.status = [e.status EXCEPT ![t] = "Ready"] /\ m.prio = [e.prio EXCEPT ![t] = p]
          /\ m.wait = e.wait /\ m.resume = e.resume /\ m.inv = e.inv
          /\ m.flag = e.flag /\ m.current = e.current /\ m.pending = e.pending
          /\ m.resched = e.resched /\ m.check = e.check
        BY <1>1, <1>3 DEF enqueueReady, removeReady, EeState
    <2> HIDE DEF m
    <2>3. Requested(m, r, t) BY <1>1, <2>1, <2>2, RequestFields
    <2>4. ASSUME NEW u \in Threads PROVE Moved(e, r, u)
        BY <1>1, <1>3, <2>2, <2>3 DEF Requested, Moved, Side, EeState, BlockedStatuses, Fits
    <2>5. t # e.current BY <1>1, <1>3 DEF Good, RunOK
    <2>6. Others(e, m, t) BY <1>1, <2>2 DEF Others, EeState
    <2>7. Urgent(r) /\ Keeps(e, r) BY <2>3, <2>5, <2>6, RequestTurn DEF Side
    <2> QED BY <2>2, <2>3, <2>4, <2>7 DEF Turn, Moves, Requested
<1>4. CASE e.status[t] = "Running"
    <2>1. r = [c EXCEPT !.resched = @ \/ above] BY <1>4 DEF changePriority, Exists
    <2>2. /\ r.status = e.status /\ r.prio = [e.prio EXCEPT ![t] = p]
          /\ r.wait = e.wait /\ r.resume = e.resume /\ r.inv = e.inv
          /\ r.flag = e.flag /\ r.current = e.current /\ r.pending = e.pending
          /\ r.resched = (e.resched \/ above) /\ r.check = e.check
        <3> HIDE DEF above
        <3> QED BY <1>1, <2>1 DEF EeState
    <2>3. ASSUME NEW u \in Threads PROVE Moved(e, r, u) BY <2>2 DEF Moved, Side
    <2>4. Urgent(r)
        <3>4. t = e.current BY <1>4 DEF Good, RunOK
        <3>5. r.prio[t] = p /\ \A u \in Threads : u # t => r.prio[u] = e.prio[u]
            BY <1>1, <2>2 DEF EeState
        <3> SUFFICES ASSUME ~r.resched, NEW u \in Threads, e.status[u] = "Ready"
                     PROVE  p <= e.prio[u]
            BY <1>4, <2>2, <3>4, <3>5 DEF Urgent
        <3>6. ~above BY <2>2
        <3>1. e.prio[u] \in Priorities /\ p \in Int /\ e.prio[u] \in Int /\ e.prio[u] >= 0
            BY <1>1 DEF EeState, Priorities
        <3>2. e.ready[e.prio[u]] # <<>> BY <3>1, EmptyQueue
        <3> QED BY <3>1, <3>2, <3>6
    <2> QED BY <2>2, <2>3, <2>4 DEF Turn, Moves, Keeps
<1>5. CASE Exists(e, t) /\ e.status[t] \notin {"Ready", "Running"}
    <2>1. r = c BY <1>5 DEF changePriority
    <2>2. /\ r.status = e.status /\ r.prio = [e.prio EXCEPT ![t] = p]
          /\ r.wait = e.wait /\ r.resume = e.resume /\ r.inv = e.inv
          /\ r.flag = e.flag /\ r.current = e.current /\ r.pending = e.pending
          /\ r.resched = e.resched /\ r.check = e.check
        BY <1>1, <2>1 DEF EeState
    <2>3. ASSUME NEW u \in Threads PROVE Moved(e, r, u) BY <2>2 DEF Moved, Side
    <2>4. Urgent(r) BY <1>1, <1>5, <2>2 DEF Urgent, Side, EeState, Good, RunOK
    <2> QED BY <2>2, <2>3, <2>4 DEF Turn, Moves, Keeps
<1> QED BY <1>2, <1>3, <1>4, <1>5

\* rotateReadyQueue() may put the current thread behind its equals.
LEMMA RotateTurn ==
    ASSUME NEW e, Good(e), Side(e), NEW p, NEW r, r = rotateReadyQueue(e, p)
    PROVE  Turn(e, r)
<1>1. e \in EeState BY DEF Good, Core
<1>2. CASE r = e BY <1>2, AlikeTurn DEF Alike
<1>3. CASE /\ e.current # NoThread
           /\ r = [enqueueReady(e, e.current) EXCEPT !.current = NoThread, !.resched = TRUE]
    <2>1. /\ r.status = [e.status EXCEPT ![e.current] = "Ready"] /\ r.prio = e.prio
          /\ r.wait = e.wait /\ r.resume = e.resume /\ r.inv = e.inv
          /\ r.flag = e.flag /\ r.current = NoThread /\ r.pending = e.pending
          /\ r.check = e.check
        BY <1>1, <1>3 DEF enqueueReady, EeState
    <2>2. ASSUME NEW u \in Threads PROVE Moved(e, r, u)
        BY <1>1, <2>1 DEF Moved, Side, EeState, Fits, BlockedStatuses
    <2>3. Urgent(r) BY <2>1 DEF Urgent
    <2> QED BY <2>1, <2>2, <2>3 DEF Turn, Moves
<1>4. CASE r = [e EXCEPT !.ready[p] = Append(Tail(@), Head(@))]
    <2>1. /\ r.status = e.status /\ r.current = e.current
          /\ r.prio = e.prio /\ r.resume = e.resume /\ r.inv = e.inv /\ r.wait = e.wait
          /\ r.flag = e.flag /\ r.pending = e.pending /\ r.check = e.check
          /\ r.resched = e.resched
        BY <1>1, <1>4 DEF EeState
    <2> QED BY <2>1, AlikeTurn DEF Alike
<1> QED BY <1>2, <1>3, <1>4 DEF rotateReadyQueue

\* Semaphores say nothing about turns.
LEMMA SemaTurn ==
    ASSUME NEW e, Good(e), Side(e), NEW s, NEW o, NEW r, r = [e EXCEPT !.sema[s] = o]
    PROVE  Alike(e, r) /\ Turn(e, r) /\ Keeps(e, r)
<1>1. e \in EeState BY DEF Good, Core
<1>2. /\ r.status = e.status /\ r.current = e.current
      /\ r.prio = e.prio /\ r.resume = e.resume /\ r.inv = e.inv /\ r.wait = e.wait
      /\ r.flag = e.flag /\ r.pending = e.pending /\ r.check = e.check
      /\ r.resched = e.resched
    BY <1>1 DEF EeState
<1>3. Alike(e, r) BY <1>2 DEF Alike
<1> QED BY <1>3, AlikeTurn

\* deleteSemaphore() ends the waits for the semaphore.
LEMMA DeleteSemaTurn ==
    ASSUME NEW e, Good(e), Side(e), NEW s \in Semas, NEW safe \in BOOLEAN,
           NEW r, r = deleteSemaphore(e, s, safe)
    PROVE  Turn(e, r) /\ Keeps(e, r)
<1>1. e \in EeState /\ Alike(e, e) BY DEF Good, Core, Alike
<1>2. CASE r = e BY <1>1, <1>2, AlikeTurn
<1>3. CASE r = makeReady([e EXCEPT !.sema[s] = NoSema], e.sema[s].waiters, safe)
    <2> DEFINE o == NoSema
               m == [e EXCEPT !.sema[s] = o]
               ws == e.sema[s].waiters
               X == ToSet(ws)
    <2>1. o \in Semaphore BY DEF NoSema, Semaphore
    <2>2. X \subseteq {t \in Threads : e.status[t] \in BlockedStatuses} BY SemaFacts
    <2>3. r = makeReady(m, ws, safe) BY <1>3
    <2> HIDE DEF o
    <2>4. m \in EeState BY <1>1, <2>1 DEF EeState
    <2>5. Alike(e, m) BY SemaTurn
    <2> HIDE DEF m, ws
    <2> QED BY <2>2, <2>3, <2>4, <2>5, EndWaitsTurn
<1> QED BY <1>2, <1>3 DEF deleteSemaphore

\* pollSemaphore() takes a unit and disturbs nobody;
LEMMA PollSemaTurn ==
    ASSUME NEW e, Good(e), Side(e), NEW s \in Semas, NEW r, r = pollSemaphore(e, s)
    PROVE  Turn(e, r) /\ Keeps(e, r)
<1>1. e \in EeState /\ Alike(e, e) BY DEF Good, Core, Alike
<1>2. CASE r = e BY <1>1, <1>2, AlikeTurn
<1>3. CASE r = [e EXCEPT !.sema[s].count = @ - 1]
    <2> DEFINE o == [e.sema[s] EXCEPT !.count = @ - 1]
    <2>1. r = [e EXCEPT !.sema[s] = o] BY <1>1, <1>3 DEF EeState
    <2> HIDE DEF o
    <2> QED BY <2>1, SemaTurn
<1> QED BY <1>2, <1>3 DEF pollSemaphore

\* signalSemaphore() ends the first wait, or counts.
LEMMA SignalSemaTurn ==
    ASSUME NEW e, Good(e), Side(e), NEW s \in Semas, NEW safe \in BOOLEAN,
           NEW r, r = signalSemaphore(e, s, safe)
    PROVE  Turn(e, r) /\ Keeps(e, r)
<1>1. e \in EeState /\ Alike(e, e) BY DEF Good, Core, Alike
<1>2. CASE r = e BY <1>1, <1>2, AlikeTurn
<1>3. CASE r = [e EXCEPT !.sema[s].count = @ + 1]
    <2> DEFINE o == [e.sema[s] EXCEPT !.count = @ + 1]
    <2>1. r = [e EXCEPT !.sema[s] = o] BY <1>1, <1>3 DEF EeState
    <2> HIDE DEF o
    <2> QED BY <2>1, SemaTurn
<1>4. CASE /\ e.sema[s].waiters # <<>>
           /\ r = makeReady([e EXCEPT !.sema[s].waiters = Tail(@)],
                            <<Head(e.sema[s].waiters)>>, safe)
    <2> DEFINE q == e.sema[s].waiters
               h == Head(q)
               o == [e.sema[s] EXCEPT !.waiters = Tail(@)]
               m == [e EXCEPT !.sema[s] = o]
               ws == <<h>>
               X == {h}
    <2>1. /\ q \in Seq(Threads) /\ e.sema[s] \in Semaphore
          /\ ToSet(q) \subseteq {t \in Threads : e.status[t] \in BlockedStatuses}
        BY SemaFacts
    <2>2. h \in Threads /\ h \in ToSet(q) /\ Tail(q) \in Seq(Threads)
        <3> HIDE DEF q
        <3> QED BY <1>4, <2>1, TailOf DEF q
    <2>3. o \in Semaphore BY <2>1, <2>2 DEF Semaphore
    <2>4. X = ToSet(ws)
        <3> HIDE DEF h
        <3> QED BY <2>2, OneThread
    <2>5. X \subseteq {t \in Threads : e.status[t] \in BlockedStatuses} BY <2>1, <2>2
    <2>6. m = [e EXCEPT !.sema[s].waiters = Tail(@)] BY <1>1 DEF EeState
    <2>7. r = makeReady(m, ws, safe) BY <1>4, <2>6
    <2> HIDE DEF o
    <2>8. m \in EeState BY <1>1, <2>3 DEF EeState
    <2>9. Alike(e, m) BY SemaTurn
    <2> HIDE DEF m, ws, X
    <2> QED BY <2>4, <2>5, <2>7, <2>8, <2>9, EndWaitsTurn
<1> QED BY <1>2, <1>3, <1>4 DEF signalSemaphore

\* The bits each waiter is offered, and the bits it leaves to the next.
LEMMA OfferedSteps ==
    ASSUME NEW e, NEW f, e.flag[f].waiters \in Seq(Threads)
    PROVE  LET ws == e.flag[f].waiters
               offered == OfferedBits(e, f)
           IN  /\ offered[1] = e.flag[f].bits
               /\ \A k \in 1 .. Len(ws) :
                      offered[k + 1] = IF Satisfied(e, ws[k], offered[k])
                                       THEN Consume(offered[k], e.wait[ws[k]].bits, e.wait[ws[k]].mode)
                                       ELSE offered[k]
<1> DEFINE ws == e.flag[f].waiters
           L == Len(ws)
           first == e.flag[f].bits
           Go(k, x) == IF Satisfied(e, ws[k], x)
                       THEN Consume(x, e.wait[ws[k]].bits, e.wait[ws[k]].mode) ELSE x
           Fun(g) == [i \in 1 .. L + 1 |-> IF i = 1 THEN first ELSE Go(i - 1, g[i - 1])]
           Upto(g, n) == g[1] = first /\ \A k \in 1 .. n : g[k + 1] = Go(k, g[k])
<1>1. OfferedBits(e, f) = CHOOSE g : g = Fun(g) BY DEF OfferedBits
<1>2. L \in Nat OBVIOUS
<1> HIDE DEF Go, first, L
<1>3. \A n \in Nat : \E g : Upto(g, n)
    <2> DEFINE S == {n \in Nat : \E g : Upto(g, n)}
    <2>1. 0 \in S
        <3>1. Upto([i \in {1} |-> first], 0) OBVIOUS
        <3> QED BY <3>1
    <2>2. ASSUME NEW n \in S PROVE n + 1 \in S
        <3>1. PICK g : Upto(g, n) OBVIOUS
        <3> DEFINE h == [i \in 1 .. n + 2 |-> IF i = n + 2 THEN Go(n + 1, g[n + 1]) ELSE g[i]]
        <3>2. ASSUME NEW k \in 1 .. n + 1 PROVE h[k + 1] = Go(k, h[k])
            <4>1. CASE k = n + 1 BY <4>1
            <4>2. CASE k # n + 1
                <5>1. k \in 1 .. n /\ h[k + 1] = g[k + 1] /\ h[k] = g[k] BY <4>2
                <5> QED BY <3>1, <5>1
            <4> QED BY <4>1, <4>2
        <3>3. h[1] = first BY <3>1
        <3> HIDE DEF h
        <3>4. Upto(h, n + 1) BY <3>2, <3>3
        <3> QED BY <3>4
    <2> HIDE DEF Upto
    <2>3. S \in SUBSET Nat OBVIOUS
    <2>4. S = Nat BY <2>1, <2>2, <2>3, AllNaturals
    <2> QED BY <2>4
<1>4. PICK g : Upto(g, L) BY <1>2, <1>3
<1> DEFINE h == [i \in 1 .. L + 1 |-> g[i]]
<1>5. h = Fun(h)
    <2>1. ASSUME NEW i \in 1 .. L + 1
          PROVE  h[i] = IF i = 1 THEN first ELSE Go(i - 1, h[i - 1])
        <3>1. CASE i = 1 BY <1>2, <1>4, <3>1
        <3>2. CASE i # 1
            <4>1. i - 1 \in 1 .. L /\ (i - 1) + 1 = i /\ h[i - 1] = g[i - 1] /\ h[i] = g[i]
                BY <1>2, <3>2
            <4> QED BY <1>4, <3>2, <4>1
        <3> QED BY <3>1, <3>2
    <2> QED BY <2>1
<1> DEFINE o == OfferedBits(e, f)
<1>6. o = Fun(o)
    <2>1. \E x : x = Fun(x) BY <1>5
    <2> HIDE DEF Fun
    <2> QED BY <1>1, <2>1
<1> HIDE DEF o
<1>7. o[1] = first
    <2>1. 1 \in 1 .. L + 1 BY <1>2
    <2> QED BY <1>6, <2>1
<1>8. ASSUME NEW k \in 1 .. L PROVE o[k + 1] = Go(k, o[k])
    <2>1. k + 1 \in 1 .. L + 1 /\ k + 1 # 1 /\ (k + 1) - 1 = k BY <1>2
    <2> QED BY <1>6, <2>1
<1> QED BY <1>7, <1>8 DEF o, first, Go, L

\* What is left in the end was offered to every waiter.
LEMMA OfferedShrinks ==
    ASSUME NEW e, NEW f, e.flag[f].waiters \in Seq(Threads),
           NEW j \in 1 .. Len(e.flag[f].waiters)
    PROVE  OfferedBits(e, f)[Len(e.flag[f].waiters) + 1] \subseteq OfferedBits(e, f)[j]
<1> DEFINE ws == e.flag[f].waiters
           L == Len(ws)
           o == OfferedBits(e, f)
<1>1. \A k \in 1 .. L : o[k + 1] \subseteq o[k]
    <2> TAKE k \in 1 .. L
    <2>1. o[k + 1] = IF Satisfied(e, ws[k], o[k])
                     THEN Consume(o[k], e.wait[ws[k]].bits, e.wait[ws[k]].mode) ELSE o[k]
        BY OfferedSteps
    <2> QED BY <2>1 DEF Consume
<1>2. L \in Nat OBVIOUS
<1> HIDE DEF o, L
<1> DEFINE S == {n \in Nat : j + n <= L + 1 => o[j + n] \subseteq o[j]}
<1>3. 0 \in S BY <1>2 DEF L
<1>4. ASSUME NEW n \in S PROVE n + 1 \in S
    <2> SUFFICES ASSUME j + (n + 1) <= L + 1 PROVE o[j + (n + 1)] \subseteq o[j]
        OBVIOUS
    <2>1. j + n \in 1 .. L /\ (j + n) + 1 = j + (n + 1) /\ j + n <= L + 1 BY <1>2 DEF L
    <2>2. o[j + n] \subseteq o[j] BY <2>1
    <2>3. o[(j + n) + 1] \subseteq o[j + n] BY <1>1, <2>1
    <2> QED BY <2>1, <2>2, <2>3
<1>5. S \in SUBSET Nat OBVIOUS
<1>6. S = Nat BY <1>3, <1>4, <1>5, AllNaturals
<1>7. (L + 1) - j \in Nat /\ j + ((L + 1) - j) = L + 1 BY <1>2 DEF L
<1>8. (L + 1) - j \in S BY <1>6, <1>7
<1> QED BY <1>2, <1>7, <1>8 DEF o, L

\* A flag that has no bit it did not have is satisfied by no more waits.
LEMMA FlagTurn ==
    ASSUME NEW e, Good(e), Side(e), NEW f \in Flags, NEW o, o.bits \subseteq e.flag[f].bits,
           NEW r, r = [e EXCEPT !.flag[f] = o]
    PROVE  Alike(e, r) /\ Turn(e, r) /\ Keeps(e, r)
<1>1. e \in EeState BY DEF Good, Core
<1>2. /\ r.status = e.status /\ r.current = e.current
      /\ r.prio = e.prio /\ r.resume = e.resume /\ r.inv = e.inv /\ r.wait = e.wait
      /\ r.flag = [e.flag EXCEPT ![f] = o] /\ r.pending = e.pending /\ r.check = e.check
      /\ r.resched = e.resched
    BY <1>1 DEF EeState
<1>3. \A g \in Flags : r.flag[g].bits \subseteq e.flag[g].bits BY <1>1, <1>2 DEF EeState
<1>4. Alike(e, r) BY <1>2, <1>3 DEF Alike
<1> QED BY <1>4, AlikeTurn

\* Bits that are taken from a flag satisfy nobody.
LEMMA FlagBitsTurn ==
    ASSUME NEW e, Good(e), Side(e), NEW f \in Flags, NEW bits, bits \subseteq e.flag[f].bits,
           NEW r, r = [e EXCEPT !.flag[f].bits = bits]
    PROVE  Turn(e, r) /\ Keeps(e, r)
<1> DEFINE o == [e.flag[f] EXCEPT !.bits = bits]
<1>1. o.bits = bits BY FlagFacts DEF EventFlag
<1>2. r = [e EXCEPT !.flag[f] = o] BY FlagFacts DEF EeState
<1> HIDE DEF o
<1> QED BY <1>1, <1>2, FlagTurn

\* pollEventFlag() takes bits;
LEMMA PollFlagTurn ==
    ASSUME NEW e, Good(e), Side(e), NEW f \in Flags, NEW bits, NEW mode,
           NEW r, r = pollEventFlag(e, f, bits, mode)
    PROVE  Turn(e, r) /\ Keeps(e, r)
<1> DEFINE left == Consume(e.flag[f].bits, bits, mode)
<1>1. CASE r = e BY <1>1, AlikeTurn DEF Alike
<1>2. CASE r = [e EXCEPT !.flag[f].bits = left]
    <2>1. left \subseteq e.flag[f].bits BY DEF Consume
    <2> HIDE DEF left
    <2> QED BY <1>2, <2>1, FlagBitsTurn
<1> QED BY <1>1, <1>2 DEF pollEventFlag

\* deleteEventFlag() ends the waits for the flag.
LEMMA DeleteFlagTurn ==
    ASSUME NEW e, Good(e), Side(e), NEW f \in Flags, NEW safe \in BOOLEAN,
           NEW r, r = deleteEventFlag(e, f, safe)
    PROVE  Turn(e, r) /\ Keeps(e, r)
<1>1. e \in EeState /\ Alike(e, e) BY DEF Good, Core, Alike
<1>2. CASE r = e BY <1>1, <1>2, AlikeTurn
<1>3. CASE r = makeReady([e EXCEPT !.flag[f] = NoFlag], e.flag[f].waiters, safe)
    <2> DEFINE o == NoFlag
               m == [e EXCEPT !.flag[f] = o]
               ws == e.flag[f].waiters
               X == ToSet(ws)
    <2>1. o \in EventFlag /\ o.bits \subseteq e.flag[f].bits BY DEF NoFlag, EventFlag
    <2>2. X \subseteq {t \in Threads : e.status[t] \in BlockedStatuses} BY FlagFacts
    <2>3. r = makeReady(m, ws, safe) BY <1>3
    <2> HIDE DEF o
    <2>4. m \in EeState BY <1>1, <2>1 DEF EeState
    <2>5. Alike(e, m) BY <2>1, FlagTurn
    <2> HIDE DEF m, ws
    <2> QED BY <2>2, <2>3, <2>4, <2>5, EndWaitsTurn
<1> QED BY <1>2, <1>3 DEF deleteEventFlag

\* What a call leaves of the threads, whatever it does to event flags.
Mild(e, r) == /\ r.pending = e.pending
              /\ e.check => r.check
              /\ \A t \in Threads : Moved(e, r, t)

\* Every wait for an event flag but those for f is unsatisfied.
OtherFlags(e, f) ==
    \A t \in Threads : e.wait[t].obj # f => Unsatisfied(e, t)

Fitting(e) == \A t \in Threads : e.resume[t] => e.status[t] \in Fits

\* After finishEventWaiters() no waiter is satisfied by the bits that are left,
\* whatever the bits were before.
LEMMA FinishTurn ==
    ASSUME NEW e, Good(e), Urgent(e), Fitting(e), NEW f \in Flags, e.flag[f].live,
           OtherFlags(e, f), NEW safe \in BOOLEAN, NEW r, r = finishEventWaiters(e, f, safe)
    PROVE  /\ Mild(e, r) /\ Urgent(r) /\ r.current = e.current
           /\ \A t \in Threads : Unsatisfied(r, t)
<1> DEFINE old  == e.flag[f]
           ws   == old.waiters
           bits == OfferedBits(e, f)
           done == {ws[i] : i \in {j \in DOMAIN ws : Satisfied(e, ws[j], bits[j])}}
           stay == Filter(ws, Threads \ done)
           go   == Filter(ws, done)
           last == bits[Len(ws) + 1]
           left == old.bits \cap last
           o    == [old EXCEPT !.bits = left, !.waiters = stay]
           m    == [e EXCEPT !.flag[f] = o]
<1>1. /\ ws \in Seq(Threads) /\ old \in EventFlag /\ e \in EeState
      /\ ToSet(ws) \subseteq {t \in Threads : e.status[t] \in BlockedStatuses}
    BY FlagFacts
<1>2. Good(r) BY FinishGood
<1>3. r = makeReady(m, go, safe)
    <2>1. r = makeReady([e EXCEPT !.flag[f].bits = left, !.flag[f].waiters = stay], go, safe)
        BY DEF finishEventWaiters
    <2>2. m = [e EXCEPT !.flag[f].bits = left, !.flag[f].waiters = stay]
        BY <1>1 DEF EeState
    <2> QED BY <2>1, <2>2
<1>4. done \subseteq ToSet(ws) BY DEF ToSet
<1>5. \A j \in DOMAIN ws : ws[j] \notin done => ~Satisfied(e, ws[j], left)
    <2> SUFFICES ASSUME NEW j \in DOMAIN ws, ws[j] \notin done, Satisfied(e, ws[j], left)
                 PROVE  FALSE
        OBVIOUS
    <2>1. ~Satisfied(e, ws[j], bits[j]) OBVIOUS
    <2>2. j \in 1 .. Len(ws) BY <1>1
    <2>3. last \subseteq bits[j] BY <1>1, <2>2, OfferedShrinks
    <2>4. left \subseteq bits[j] BY <2>3
    <2> QED BY <2>1, <2>4, FewerBits DEF Satisfied
<1>6. left \in SUBSET Bits BY <1>1 DEF EventFlag
<1> HIDE DEF done, last
<1>7. stay \in Seq(Threads)
    <2> DEFINE S == Threads \ done
    <2> HIDE DEF S, ws
    <2>1. Filter(ws, S) \in Seq(Threads) BY <1>1, FilterOf
    <2> QED BY <2>1 DEF S
<1>8. done = ToSet(go)
    <2> HIDE DEF ws
    <2>1. ToSet(go) = ToSet(ws) \cap done BY <1>1, FilterOf
    <2> QED BY <1>4, <2>1
<1> HIDE DEF left, stay, go
<1>9. o \in EventFlag /\ o.bits = left BY <1>1, <1>6, <1>7 DEF EventFlag
<1> HIDE DEF o
<1>10. /\ m \in EeState /\ m.status = e.status /\ m.current = e.current
       /\ m.prio = e.prio /\ m.resume = e.resume /\ m.inv = e.inv /\ m.wait = e.wait
       /\ m.flag = [e.flag EXCEPT ![f] = o] /\ m.pending = e.pending /\ m.check = e.check
       /\ m.resched = e.resched
    BY <1>1, <1>9 DEF EeState
<1> HIDE DEF m
<1>11. /\ Urgent(m) /\ \A t \in Threads : m.resume[t] => m.status[t] \in Fits
    BY <1>10 DEF Urgent, Fitting
<1>12. m.current = NoThread \/ m.current \in Threads BY <1>1, <1>10 DEF EeState
<1>13. done \subseteq {t \in Threads : m.status[t] \in BlockedStatuses} BY <1>1, <1>4, <1>10
<1>14. /\ Turn(m, r) /\ r.current = m.current
       /\ \A t \in done : r.status[t] \notin BlockedStatuses
    BY <1>3, <1>8, <1>10, <1>11, <1>12, <1>13, MakeReadyTurn
<1>15. Mild(e, r) BY <1>10, <1>14 DEF Turn, Moves, Mild, Moved
<1>16. ASSUME NEW t \in Threads PROVE Unsatisfied(r, t)
    <2> SUFFICES ASSUME r.wait[t].reason = "EventFlag",
                        Satisfied(r, t, r.flag[r.wait[t].obj].bits)
                 PROVE  FALSE
        BY DEF Unsatisfied
    <2> DEFINE g == r.wait[t].obj
    <2>1. /\ r.wait[t] = e.wait[t] /\ g \in Flags /\ r.status[t] \in BlockedStatuses
        BY <1>2, <1>15 DEF Mild, Moved, Good, Core, ThreadOK
    <2>2. e.status[t] \in BlockedStatuses BY <1>15, <2>1 DEF Mild, Moved
    <2>3. r.flag[g].bits \subseteq m.flag[g].bits BY <1>14, <2>1 DEF Turn, Moves
    <2>4. CASE g # f
        <3>1. m.flag[g] = e.flag[g] BY <1>1, <1>10, <2>1, <2>4 DEF EeState
        <3>2. Satisfied(e, t, e.flag[g].bits) BY <2>1, <2>3, <3>1, FewerBits DEF Satisfied
        <3> QED BY <2>1, <2>4, <3>2 DEF OtherFlags, Unsatisfied
    <2>5. CASE g = f
        <3>1. t \in ToSet(ws)
            BY <2>1, <2>2, <2>5 DEF Good, Core, WaitsOK, BlockedOn, Blocks
        <3>2. PICK j \in DOMAIN ws : t = ws[j] BY <3>1 DEF ToSet
        <3>3. t \notin done BY <1>14, <2>1
        <3>4. ~Satisfied(e, t, left) BY <1>5, <3>2, <3>3
        <3>5. m.flag[g].bits = left BY <1>1, <1>9, <1>10, <2>5 DEF EeState
        <3> QED BY <2>1, <2>3, <3>4, <3>5, FewerBits DEF Satisfied
    <2> QED BY <2>4, <2>5
<1> QED BY <1>10, <1>14, <1>15, <1>16 DEF Turn

\* setEventFlag() leaves no waiter satisfied, though the flag gains bits.
LEMMA SetEventFlagTurn ==
    ASSUME NEW e, Good(e), Side(e), NEW f \in Flags, NEW bits \in SUBSET Bits,
           NEW safe \in BOOLEAN, NEW r, r = setEventFlag(e, f, bits, safe)
    PROVE  Side(r) /\ Mild(e, r) /\ Keeps(e, r)
<1>1. CASE ~e.flag[f].live
    <2>1. r = e BY <1>1 DEF setEventFlag
    <2>2. Turn(e, r) /\ Keeps(e, r) BY <2>1, AlikeTurn DEF Alike
    <2> QED BY <2>1, <2>2 DEF Turn, Moves, Mild
<1>2. CASE e.flag[f].live
    <2> DEFINE new == e.flag[f].bits \cup bits
               m   == [e EXCEPT !.flag[f].bits = new]
    <2>1. new \in SUBSET Bits BY FlagFacts DEF EventFlag
    <2>2. r = finishEventWaiters(m, f, safe) BY <1>2 DEF setEventFlag
    <2>3. m.flag[f].live BY <1>2, FlagFacts DEF EeState, EventFlag
    <2> HIDE DEF new
    <2>4. Good(m) BY <2>1, SetFlagBits
    <2>5. /\ m.status = e.status /\ m.current = e.current
          /\ m.prio = e.prio /\ m.resume = e.resume /\ m.inv = e.inv /\ m.wait = e.wait
          /\ m.pending = e.pending /\ m.check = e.check /\ m.resched = e.resched
          /\ \A g \in Flags : g # f => m.flag[g] = e.flag[g]
        BY FlagFacts DEF EeState
    <2> HIDE DEF m
    <2>6. Urgent(m) /\ Fitting(m) BY <2>5 DEF Urgent, Fitting, Side
    <2>7. OtherFlags(m, f)
        <3> SUFFICES ASSUME NEW t \in Threads, m.wait[t].obj # f PROVE Unsatisfied(m, t)
            BY DEF OtherFlags
        <3>1. Unsatisfied(e, t) BY DEF Side
        <3>2. e.wait[t].reason = "EventFlag" => e.wait[t].obj \in Flags
            BY DEF Good, Core, ThreadOK
        <3> QED BY <2>5, <3>1, <3>2 DEF Unsatisfied, Satisfied
    <2>8. /\ Mild(m, r) /\ Urgent(r) /\ r.current = m.current
          /\ \A t \in Threads : Unsatisfied(r, t)
        BY <2>2, <2>3, <2>4, <2>6, <2>7, FinishTurn
    <2>9. Mild(e, r) BY <2>5, <2>8 DEF Mild, Moved
    <2>10. ASSUME NEW t \in Threads
           PROVE  /\ \A i \in DOMAIN r.inv[t] : r.inv[t][i].kind \in AsyncKinds => i = 1
                  /\ r.resume[t] => r.status[t] \in Fits
        <3>1. Moved(e, r, t) BY <2>9 DEF Mild
        <3>2. \A i \in DOMAIN e.inv[t] : e.inv[t][i].kind \in AsyncKinds => i = 1 BY DEF Side
        <3>3. CASE r.inv[t] = e.inv[t] BY <3>1, <3>2, <3>3 DEF Moved
        <3>4. CASE r.inv[t] = <<>> BY <3>1, <3>4 DEF Moved
        <3> QED BY <3>1, <3>3, <3>4 DEF Moved
    <2> QED BY <2>5, <2>8, <2>9, <2>10 DEF Side, Keeps
<1> QED BY <1>1, <1>2

\* A flag that is created has no waiters, so whatever bits it starts with
\* satisfy none.
LEMMA CreateFlagTurn ==
    ASSUME NEW e, Good(e), Side(e), NEW f \in Flags, ~e.flag[f].live, NEW o,
           NEW r, r = [e EXCEPT !.flag[f] = o]
    PROVE  Side(r) /\ Mild(e, r) /\ Keeps(e, r)
<1>1. e \in EeState BY DEF Good, Core
<1>2. /\ r.status = e.status /\ r.current = e.current
      /\ r.prio = e.prio /\ r.resume = e.resume /\ r.inv = e.inv /\ r.wait = e.wait
      /\ r.pending = e.pending /\ r.check = e.check /\ r.resched = e.resched
      /\ \A g \in Flags : g # f => r.flag[g] = e.flag[g]
    BY <1>1 DEF EeState
<1>3. ASSUME NEW t \in Threads PROVE Unsatisfied(r, t)
    <2> SUFFICES ASSUME e.wait[t].reason = "EventFlag" PROVE Unsatisfied(r, t)
        BY <1>2 DEF Unsatisfied
    <2>1. e.wait[t].obj \in Flags /\ e.status[t] \in BlockedStatuses
        BY DEF Good, Core, ThreadOK
    <2>2. e.wait[t].obj # f
        <3>1. e.flag[f].waiters = <<>> BY FlagFacts
        <3>2. ToSet(e.flag[f].waiters) = BlockedOn(e, Threads \ {}, "EventFlag", f)
            BY DEF Good, Core, WaitsOK
        <3>3. BlockedOn(e, Threads \ {}, "EventFlag", f) = {} BY <3>1, <3>2 DEF ToSet
        <3> QED BY <2>1, <3>3 DEF BlockedOn, Blocks
    <2>3. Unsatisfied(e, t) BY DEF Side
    <2> QED BY <1>2, <2>1, <2>2, <2>3 DEF Unsatisfied, Satisfied
<1>4. Mild(e, r) BY <1>2 DEF Mild, Moved, Side
<1> QED BY <1>2, <1>3, <1>4 DEF Side, Urgent, Keeps

\* A turn keeps the invariant, and says nothing about flags.
LEMMA TurnMild ==
    ASSUME NEW e, NEW r, Good(r), Side(e), Turn(e, r)
    PROVE  Side(r) /\ Mild(e, r)
BY TurnSide DEF Turn, Moves, Mild

\* Nothing the invariant says of single threads is disturbed.
Settled(e, r) ==
    /\ r.resume = e.resume /\ r.wait = e.wait /\ r.flag = e.flag
    /\ \A t \in Threads :
        /\ e.status[t] \in Fits => r.status[t] \in Fits
        /\ \A i \in DOMAIN r.inv[t] : \/ i \in DOMAIN e.inv[t] /\ r.inv[t][i] = e.inv[t][i]
                                      \/ r.inv[t][i].kind \notin AsyncKinds
                                      \/ i = 1

\* A settled change keeps the invariant if nobody is overtaken.
LEMMA SettledSide ==
    ASSUME NEW e, Side(e), NEW r, Settled(e, r), Urgent(r)
    PROVE  Side(r)
<1> SUFFICES ASSUME NEW t \in Threads
             PROVE  /\ \A i \in DOMAIN r.inv[t] : r.inv[t][i].kind \in AsyncKinds => i = 1
                    /\ r.resume[t] => r.status[t] \in Fits
                    /\ Unsatisfied(r, t)
    BY DEF Side
<1>1. /\ \A i \in DOMAIN e.inv[t] : e.inv[t][i].kind \in AsyncKinds => i = 1
      /\ e.resume[t] => e.status[t] \in Fits
      /\ Unsatisfied(e, t)
    BY DEF Side
<1>2. \A i \in DOMAIN r.inv[t] : r.inv[t][i].kind \in AsyncKinds => i = 1
    BY <1>1 DEF Settled
<1> QED BY <1>1, <1>2 DEF Settled, Unsatisfied, Satisfied

\* An invocation is pushed: a handler only where there was none.
LEMMA PushSide ==
    ASSUME NEW e, Good(e), Side(e), NEW t \in Threads, NEW k,
           k \in AsyncKinds => e.inv[t] = <<>>, NEW r, r = pushInvocation(e, t, k)
    PROVE  Side(r) /\ Keeps(e, r)
<1> DEFINE new == [kind |-> k, under |-> e.pc[t]]
           inv == [e.inv EXCEPT ![t] = Append(@, new)]
<1>1. e \in EeState BY DEF Good, Core
<1>2. /\ r.status = e.status /\ r.current = e.current
      /\ r.prio = e.prio /\ r.resume = e.resume /\ r.inv = inv /\ r.wait = e.wait
      /\ r.flag = e.flag /\ r.resched = e.resched
    BY <1>1 DEF pushInvocation, EeState
<1>3. ASSUME NEW u \in Threads, NEW i \in DOMAIN r.inv[u]
      PROVE  \/ i \in DOMAIN e.inv[u] /\ r.inv[u][i] = e.inv[u][i]
             \/ r.inv[u][i].kind \notin AsyncKinds
             \/ i = 1
    <2>1. e.inv[u] \in Seq(Invocation) /\ e.inv \in [Threads -> Seq(Invocation)]
        BY <1>1 DEF EeState
    <2>2. CASE u # t BY <1>2, <2>1, <2>2
    <2>3. CASE u = t
        <3>1. r.inv[u] = Append(e.inv[u], new) BY <1>2, <2>1, <2>3
        <3>2. new.kind = k OBVIOUS
        <3> HIDE DEF new
        <3>3. CASE i \in 1 .. Len(e.inv[u]) BY <2>1, <3>1, <3>3
        <3>4. CASE i = Len(e.inv[u]) + 1
            <4>1. r.inv[u][i] = new BY <2>1, <3>1, <3>4
            <4>2. e.inv[u] = <<>> => i = 1 BY <2>1, <3>4
            <4> QED BY <2>3, <3>2, <4>1, <4>2
        <3>5. DOMAIN r.inv[u] = 1 .. Len(e.inv[u]) + 1 BY <2>1, <3>1
        <3>6. Len(e.inv[u]) \in Nat BY <2>1
        <3> QED BY <3>3, <3>4, <3>5, <3>6
    <2> QED BY <2>2, <2>3
<1>4. Settled(e, r) BY <1>2, <1>3 DEF Settled
<1>5. Urgent(r) BY <1>2 DEF Side, Urgent
<1> QED BY <1>2, <1>4, <1>5, SettledSide DEF Keeps

\* An invocation is popped.
LEMMA PopSide ==
    ASSUME NEW e, Good(e), Side(e), NEW t \in Threads, e.inv[t] # <<>>,
           NEW r, r = popInvocation(e, t)
    PROVE  Side(r) /\ Keeps(e, r) /\ r.resume = e.resume
<1> DEFINE inv == [e.inv EXCEPT ![t] = Front(@)]
<1>1. e \in EeState BY DEF Good, Core
<1>2. /\ r.status = e.status /\ r.current = e.current
      /\ r.prio = e.prio /\ r.resume = e.resume /\ r.inv = inv /\ r.wait = e.wait
      /\ r.flag = e.flag /\ r.resched = e.resched
    BY <1>1 DEF popInvocation, EeState
<1>3. ASSUME NEW u \in Threads, NEW i \in DOMAIN r.inv[u]
      PROVE  i \in DOMAIN e.inv[u] /\ r.inv[u][i] = e.inv[u][i]
    <2>1. e.inv[u] \in Seq(Invocation) /\ e.inv \in [Threads -> Seq(Invocation)]
        BY <1>1 DEF EeState
    <2>2. CASE u # t BY <1>2, <2>1, <2>2
    <2>3. CASE u = t
        <3>1. r.inv[u] = Front(e.inv[u]) BY <1>2, <2>1, <2>3
        <3> QED BY <2>1, <2>3, <3>1 DEF Front
    <2> QED BY <2>2, <2>3
<1>4. Settled(e, r) BY <1>2, <1>3 DEF Settled
<1>5. Urgent(r) BY <1>2 DEF Side, Urgent
<1> QED BY <1>2, <1>4, <1>5, SettledSide DEF Keeps

\* The current thread blocks with the wait w; its own completion has run.
LEMMA BlockSide ==
    ASSUME NEW e, Good(e), Side(e), e.current # NoThread, ~e.resume[e.current],
           NEW m \in EeState, Kept(e, m), m.wait = e.wait, m.resume = e.resume, m.inv = e.inv,
           \A g \in Flags : m.flag[g].bits = e.flag[g].bits, NEW w,
           w.reason = "EventFlag" =>
               ~eventCondition(e.flag[w.obj].bits, w.bits, w.mode) /\ w.obj \in Flags,
           NEW r, r = blockCurrent(m, w)
    PROVE  Side(r) /\ Keeps(e, r)
<1> DEFINE t == e.current
           st == IF m.susp[t] = 0 THEN "Waiting" ELSE "WaitingSuspended"
<1>1. t \in Threads /\ e \in EeState BY RunningLoose DEF Good, Core
<1>2. m.status = e.status /\ m.current = t BY DEF Kept
<1>3. /\ r.status = [e.status EXCEPT ![t] = st] /\ r.current = NoThread
      /\ r.wait = [e.wait EXCEPT ![t] = w] /\ r.resume = e.resume /\ r.inv = e.inv
      /\ r.flag = m.flag
    BY <1>2 DEF blockCurrent, EeState
<1> HIDE DEF st
<1>4. Urgent(r) BY <1>3 DEF Urgent
<1>5. ASSUME NEW u \in Threads PROVE Unsatisfied(r, u)
    <2>1. CASE u = t
        <3>1. r.wait[u] = w BY <1>1, <1>3, <2>1 DEF EeState
        <3> QED BY <1>3, <3>1 DEF Unsatisfied, Satisfied
    <2>2. CASE u # t
        <3>1. r.wait[u] = e.wait[u] BY <1>1, <1>3, <2>2 DEF EeState
        <3>2. Unsatisfied(e, u) BY DEF Side
        <3>3. e.wait[u].reason = "EventFlag" => e.wait[u].obj \in Flags
            BY DEF Good, Core, ThreadOK
        <3> QED BY <1>3, <3>1, <3>2, <3>3 DEF Unsatisfied, Satisfied
    <2> QED BY <2>1, <2>2
<1>6. ASSUME NEW u \in Threads, r.resume[u] PROVE r.status[u] \in Fits
    <2>1. u # t /\ e.resume[u] BY <1>3, <1>6
    <2> QED BY <1>1, <1>3, <2>1 DEF Side, EeState
<1>7. r.status[t] # "Ready" BY <1>1, <1>3 DEF EeState, st
<1> QED BY <1>3, <1>4, <1>5, <1>6, <1>7 DEF Side, Keeps

\* Handing the processor back; without the end of its slice the thread stays
\* the first of its queue.
LEMMA PreemptSide ==
    ASSUME NEW e, Good(e), Side(e), NEW atTail \in BOOLEAN, NEW r, r = preempt(e, atTail)
    PROVE  /\ Side(r) /\ r.current = NoThread
           /\ ~atTail /\ e.current # NoThread => Head(r.ready[r.prio[e.current]]) = e.current
           /\ e.current = NoThread => r.status = e.status
<1>1. e \in EeState BY DEF Good, Core
<1>2. CASE e.current = NoThread
    <2>1. /\ r.status = e.status /\ r.current = NoThread
          /\ r.resume = e.resume /\ r.inv = e.inv /\ r.wait = e.wait /\ r.flag = e.flag
        BY <1>1, <1>2 DEF preempt, EeState
    <2>2. Settled(e, r) /\ Urgent(r) BY <2>1 DEF Settled, Urgent
    <2> QED BY <1>2, <2>1, <2>2, SettledSide
<1>3. CASE e.current # NoThread
    <2> DEFINE t == e.current
               q == IF atTail THEN Append(e.ready[e.prio[t]], t) ELSE Cons(t, e.ready[e.prio[t]])
    <2>1. t \in Threads /\ e.prio[t] \in Priorities BY <1>1, <1>3, RunningLoose DEF EeState
    <2>2. /\ r.status = [e.status EXCEPT ![t] = "Ready"] /\ r.current = NoThread
          /\ r.resume = e.resume /\ r.inv = e.inv /\ r.wait = e.wait /\ r.flag = e.flag
          /\ r.prio = e.prio /\ r.ready = [e.ready EXCEPT ![e.prio[t]] = q]
        BY <1>1, <1>3 DEF preempt, enqueueReady, enqueueReadyFront, EeState
    <2>3. Settled(e, r) /\ Urgent(r) BY <1>1, <2>2 DEF Settled, Urgent, Fits, EeState
    <2>4. ~atTail => Head(r.ready[r.prio[t]]) = t
        <3> SUFFICES ASSUME ~atTail PROVE Head(r.ready[r.prio[t]]) = t
            OBVIOUS
        <3>1. r.ready[r.prio[t]] = Cons(t, e.ready[e.prio[t]]) BY <1>1, <2>1, <2>2 DEF EeState
        <3>2. e.ready[e.prio[t]] \in Seq(Threads) BY <1>1, <2>1 DEF EeState
        <3> QED BY <2>1, <3>1, <3>2 DEF Cons
    <2> QED BY <1>3, <2>2, <2>3, <2>4, SettledSide
<1> QED BY <1>2, <1>3

\* A thread becomes the running one, and none is more urgent.
LEMMA RunSide ==
    ASSUME NEW e, e \in EeState, Side(e), NEW t \in Threads,
           \A u \in Threads : e.status[u] = "Ready" => e.prio[t] <= e.prio[u],
           NEW r, r = makeRunning(e, t)
    PROVE  Side(r)
<1>1. /\ r.status = [e.status EXCEPT ![t] = "Running"] /\ r.current = t
      /\ r.resume = e.resume /\ r.inv = e.inv /\ r.wait = e.wait /\ r.flag = e.flag
      /\ r.prio = e.prio
    BY DEF makeRunning, EeState
<1>2. Settled(e, r) BY <1>1 DEF Settled, Fits, EeState
<1>3. Urgent(r) BY <1>1 DEF Urgent, EeState
<1> QED BY <1>2, <1>3, SettledSide

\* completeExternalWait() ends waits and asks for the preemption.
LEMMA CompleteExternalWaitTurn ==
    ASSUME NEW e, Good(e), Side(e), NEW k, NEW r, r = completeExternalWait(e, k)
    PROVE  Turn(e, r) /\ Keeps(e, r)
<1> DEFINE X == {t \in Threads : /\ e.status[t] \in BlockedStatuses
                                 /\ e.wait[t].reason = "External"
                                 /\ e.wait[t].obj = k}
           ws == InOrder(X)
           safe == FALSE
<1>1. r = makeReady(e, ws, safe) /\ safe \in BOOLEAN BY DEF completeExternalWait
<1> HIDE DEF safe
<1>2. X \subseteq {t \in Threads : e.status[t] \in BlockedStatuses} OBVIOUS
<1> HIDE DEF X
<1>3. X \in SUBSET Int /\ IsFiniteSet(X) BY <1>2, ThreadsFacts, FS_Subset
<1>4. X = ToSet(ws) BY <1>3, InOrderOf
<1> HIDE DEF ws
<1>5. Alike(e, e) /\ e \in EeState BY DEF Alike, Good, Core
<1> QED BY <1>1, <1>2, <1>4, <1>5, EndWaitsTurn

\* completeVSync() ends waits that are for a blank, and counts those down that
\* are for a later one.
LEMMA CompleteVSyncTurn ==
    ASSUME NEW e, Good(e), Side(e), NEW r, r = completeVSync(e)
    PROVE  Turn(e, r) /\ Keeps(e, r)
<1> DEFINE waiting == {t \in Threads : /\ e.status[t] \in BlockedStatuses
                                       /\ e.wait[t].reason = "VSync"}
           passed  == {t \in waiting : e.wait[t].ticks <= 1}
           later(t) == [e.wait[t] EXCEPT !.ticks = @ - 1]
           wait    == [t \in Threads |-> IF t \in waiting \ passed THEN later(t) ELSE e.wait[t]]
           m       == [e EXCEPT !.wait = wait]
           ws      == InOrder(passed)
           safe    == FALSE
<1>1. e \in EeState /\ \A t \in Threads : e.wait[t] \in Wait BY DEF Good, Core, EeState
<1>2. r = makeReady(m, ws, safe) /\ safe \in BOOLEAN BY DEF completeVSync
<1> HIDE DEF safe
<1>3. \A t \in waiting \ passed : later(t) \in Wait /\ later(t).reason = "VSync"
    <2> SUFFICES ASSUME NEW t \in waiting \ passed
                 PROVE  later(t) \in Wait /\ later(t).reason = "VSync"
        OBVIOUS
    <2>1. /\ e.wait[t] \in Wait /\ e.wait[t].ticks \in 0 .. MaxTicks
          /\ ~(e.wait[t].ticks <= 1) /\ MaxTicks \in Nat
        BY <1>1, ConstantsAssumption DEF Wait
    <2>2. e.wait[t].ticks - 1 \in 0 .. MaxTicks BY <2>1
    <2> QED BY <2>1, <2>2 DEF Wait
<1> HIDE DEF later
<1>4. /\ wait \in [Threads -> Wait]
      /\ \A t \in Threads : wait[t].reason = "EventFlag" => wait[t] = e.wait[t]
    BY <1>1, <1>3
<1>5. passed \subseteq {t \in Threads : e.status[t] \in BlockedStatuses} OBVIOUS
<1> HIDE DEF passed, wait
<1>6. /\ m \in EeState /\ m.status = e.status /\ m.prio = e.prio /\ m.resume = e.resume
      /\ m.inv = e.inv /\ m.pending = e.pending /\ m.current = e.current
      /\ m.resched = e.resched /\ m.check = e.check /\ m.flag = e.flag /\ m.wait = wait
    BY <1>1, <1>4 DEF EeState
<1> HIDE DEF m
<1>7. Alike(e, m) BY <1>4, <1>6 DEF Alike
<1>8. passed \in SUBSET Int /\ IsFiniteSet(passed) BY <1>5, ThreadsFacts, FS_Subset
<1>9. passed = ToSet(ws) BY <1>8, InOrderOf
<1> HIDE DEF ws
<1> QED BY <1>2, <1>5, <1>6, <1>7, <1>9, EndWaitsTurn

\* queueInvocation() asks for a checkpoint.
LEMMA QueueInvocationSide ==
    ASSUME NEW e, Good(e), Side(e), NEW ks, NEW r, r = queueInvocation(e, ks)
    PROVE  /\ Side(r) /\ Keeps(e, r) /\ r.resume = e.resume /\ r.inv = e.inv
           /\ ks # <<>> => r.check
<1> DEFINE pending == e.pending \o ks
           check   == e.check \/ ks # <<>>
<1>1. e \in EeState BY DEF Good, Core
<1>2. r = [e EXCEPT !.pending = pending, !.check = check]
    BY <1>1 DEF queueInvocation, EeState
<1>3. ks # <<>> => check OBVIOUS
<1> HIDE DEF pending, check
<1>4. /\ r.status = e.status /\ r.current = e.current
      /\ r.resume = e.resume /\ r.inv = e.inv /\ r.wait = e.wait /\ r.flag = e.flag
      /\ r.prio = e.prio /\ r.resched = e.resched /\ r.check = check
    BY <1>1, <1>2 DEF EeState
<1>5. Settled(e, r) /\ Urgent(r) BY <1>4 DEF Settled, Urgent, Side
<1> QED BY <1>3, <1>4, <1>5, SettledSide DEF Keeps

\* Members no turn depends on change.
LEMMA YieldsSide ==
    ASSUME NEW e, Good(e), Side(e), NEW t, NEW c, NEW r,
           \/ r = [e EXCEPT !.check = TRUE]
           \/ r = [e EXCEPT !.check = FALSE]
           \/ r = [e EXCEPT !.resched = TRUE, !.expired = TRUE]
           \/ r = [e EXCEPT !.pc[t] = c]
    PROVE  Side(r) /\ Keeps(e, r)
<1>1. e \in EeState BY DEF Good, Core
<1>2. /\ r.status = e.status /\ r.current = e.current
      /\ r.resume = e.resume /\ r.inv = e.inv /\ r.wait = e.wait /\ r.flag = e.flag
      /\ r.prio = e.prio /\ (e.resched => r.resched)
    BY <1>1 DEF EeState
<1>3. Settled(e, r) /\ Urgent(r) BY <1>2 DEF Settled, Urgent, Side
<1> QED BY <1>2, <1>3, SettledSide DEF Keeps

\* Threads in more urgent queues than the first non-empty one are not ready.
LEMMA FirstIsUrgent ==
    ASSUME NEW e, Good(e), NEW p \in Priorities, FirstQueue(e, p)
    PROVE  LET t == Head(e.ready[p]) IN
           t \in Threads /\ \A u \in Threads : e.status[u] = "Ready" => e.prio[t] <= e.prio[u]
<1> DEFINE t == Head(e.ready[p])
<1>1. e \in EeState /\ e.ready[p] \in Seq(Threads) BY DEF Good, Core, EeState
<1>2. t \in Threads /\ t \in ToSet(e.ready[p]) BY <1>1, TailOf DEF FirstQueue
<1>3. e.prio[t] = p BY <1>2 DEF Good, Core, QueuesOK, ReadyAt
<1>4. ASSUME NEW u \in Threads, e.status[u] = "Ready" PROVE p <= e.prio[u]
    <2>1. e.prio[u] \in Priorities BY <1>1 DEF EeState
    <2>2. e.ready[e.prio[u]] # <<>> BY <1>4, <2>1, EmptyQueue
    <2>3. e.prio[u] \notin 0 .. p - 1 BY <2>2 DEF FirstQueue
    <2> QED BY <2>1, <2>3, ConstantsAssumption DEF Priorities
<1> QED BY <1>2, <1>3, <1>4
================================================================================

-------------------------- MODULE EeEventLoop_proofs --------------------------
(***************************************************************************)
(* What EeEventLoop promises, proved for any threads, tokens, alarms,      *)
(* lengths and bounds.  About posted events: an event keeps the checkpoint *)
(* flag up, the executor does not sleep on it, and events are handled once *)
(* and in the order of the posts (the module implements EventChannel).     *)
(* About deadlines: there is always one vertical blank to come, alarms and *)
(* their deadlines agree, and guest code does not run on past a deadline.  *)
(***************************************************************************)
EXTENDS EeEventLoop, QueueOps_proofs

\* Where events, the flag, the notification and the executor's place agree.
EventsOK ==
    /\ events \in Seq(Tokens) /\ pending \in Seq(Tokens)
    /\ notifies \in Nat /\ checkpoint \in BOOLEAN /\ woken \in BOOLEAN
    /\ events # <<>> => checkpoint
    /\ pc \in {"Reset", "Lower", "PaceEnter", "WaitEnter"} => events = <<>>
    /\ pc \in {"PaceSleep", "WaitSleep"} /\ events # <<>> => woken \/ notifies > 0
    /\ pending # <<>> => pc = "Handle"

\* The events of the abstract channel.
Channelled == pending \o events

--------------------------------------------------------------------------------
(* Steps of the executor that handle no event *)

\* reset() clears the events, and no event can be posted before it.
LEMMA ResetStep == EventsOK /\ Reset => EventsOK' /\ UNCHANGED queues
BY DEF EventsOK, Reset, queues, hosts, kernel

\* The head of the loop, the wall pacing and the search for due deadlines.
LEMMA PassSteps ==
    ASSUME EventsOK, LoopHead \/ StopSeen \/ StartPass \/ NothingDue \/ TakeDue \/ StartPacing
    PROVE  EventsOK' /\ UNCHANGED queues
<1>1. CASE LoopHead
  BY <1>1 DEF EventsOK, LoopHead, hosts, flags, queues
<1>2. CASE StopSeen
  BY <1>2 DEF EventsOK, StopSeen, hosts, flags, queues
<1>3. CASE StartPass
  BY <1>3 DEF EventsOK, StartPass, hosts, queues
<1>4. CASE NothingDue
  BY <1>4 DEF EventsOK, NothingDue, hosts, flags, queues
<1>5. CASE TakeDue
  BY <1>5 DEF EventsOK, TakeDue, takeDue, hosts, flags, queues
<1>6. CASE StartPacing
  BY <1>6 DEF EventsOK, StartPacing, Signalled, hosts, flags, queues
<1> QED
  BY <1>1, <1>2, <1>3, <1>4, <1>5, <1>6

\* Waking from the pacing sleep: only without events does the executor go on to
\* take deadlines or to sleep again.
LEMMA PaceWakeStep == EventsOK /\ PaceWake => EventsOK' /\ UNCHANGED queues
<1> SUFFICES ASSUME EventsOK, PaceWake
             PROVE  EventsOK' /\ UNCHANGED queues
  OBVIOUS
<1>1. UNCHANGED <<hosts, flags, queues>>
  BY DEF PaceWake
<1>2. \/ pc' \in {"Swap", "Process"}
      \/ pc' = "PaceEnter" /\ events = <<>>
  BY DEF PaceWake, takeDue, Signalled
<1>3. pending = <<>>
  BY DEF EventsOK, PaceWake
<1> QED
  BY <1>1, <1>2, <1>3 DEF EventsOK, hosts, flags, queues

\* Going to sleep, which needs that there is no event, and the idle wake.
LEMMA SleepSteps ==
    ASSUME EventsOK, PaceSleep \/ WaitForEvent \/ WaitSleep \/ WaitWake
    PROVE  EventsOK' /\ UNCHANGED queues
<1>1. CASE PaceSleep
  BY <1>1 DEF EventsOK, PaceSleep, hosts, queues
<1>2. CASE WaitForEvent
  BY <1>2 DEF EventsOK, WaitForEvent, Signalled, hosts, flags, queues
<1>3. CASE WaitSleep
  BY <1>3 DEF EventsOK, WaitSleep, hosts, queues
<1>4. CASE WaitWake
  <2>1. pc' = "Loop" \/ (pc' = "WaitEnter" /\ events = <<>>)
    BY <1>4 DEF WaitWake, Signalled
  <2>2. checkpoint' = checkpoint \/ checkpoint' = TRUE
    BY <1>4 DEF WaitWake
  <2>3. pc = "WaitSleep" /\ UNCHANGED <<hosts, woken, queues>>
    BY <1>4 DEF WaitWake
  <2> QED
    BY <2>1, <2>2, <2>3 DEF EventsOK, hosts, queues
<1> QED
  BY <1>1, <1>2, <1>3, <1>4

\* Deadlines that come due leave the events alone.
LEMMA DueSteps ==
    ASSUME EventsOK, VBlankStart \/ VBlankEnd \/ Alarm
    PROVE  EventsOK' /\ UNCHANGED queues
<1>1. CASE VBlankStart
  BY <1>1 DEF EventsOK, VBlankStart, ProcessNext, flags, queues
<1>2. CASE VBlankEnd
  BY <1>2 DEF EventsOK, VBlankEnd, ProcessNext, hosts, flags, queues
<1>3. CASE Alarm
  BY <1>3 DEF EventsOK, Alarm, ProcessNext, hosts, flags, queues
<1> QED
  BY <1>1, <1>2, <1>3

\* The end of a pass clears the flag only where the mutex was held without events.
LEMMA EndSteps ==
    ASSUME EventsOK, EventsHandled \/ EndPass
    PROVE  EventsOK' /\ UNCHANGED queues
<1>1. CASE EventsHandled
  BY <1>1 DEF EventsOK, EventsHandled, Signalled, hosts, flags, queues
<1>2. CASE EndPass
  BY <1>2 DEF EventsOK, EndPass, hosts, queues
<1> QED
  BY <1>1, <1>2

\* Choosing what to run, and the checkpoints of guest code.
LEMMA ChoiceSteps ==
    ASSUME EventsOK, Select \/ StartHandler \/ Dispatch \/ GuestCheckpoint \/ GuestReturns
    PROVE  EventsOK' /\ UNCHANGED queues
<1>1. CASE Select
  BY <1>1 DEF EventsOK, Select, hosts, flags, queues
<1>2. CASE StartHandler
  BY <1>2 DEF EventsOK, StartHandler, hosts, flags, queues
<1>3. CASE Dispatch
  BY <1>3 DEF EventsOK, Dispatch, checkpointDue, TimerFires, hosts, queues
<1>4. CASE GuestCheckpoint
  BY <1>4 DEF EventsOK, GuestCheckpoint, checkpointDue, TimerFires, hosts, queues
<1>5. CASE GuestReturns
  BY <1>5 DEF EventsOK, GuestReturns, hosts, flags, queues
<1> QED
  BY <1>1, <1>2, <1>3, <1>4, <1>5

\* Kernel calls of guest code.
LEMMA CallSteps ==
    ASSUME EventsOK,
           \/ WaitVSync \/ WaitExternal
           \/ \E ticks \in AlarmTicks : SetAlarm(ticks)
           \/ \E id \in AlarmIds : CancelAlarm(id)
           \/ \E ticks \in TimerTicks : SetTimer(ticks)
    PROVE  EventsOK' /\ UNCHANGED queues
<1>1. CASE WaitVSync \/ WaitExternal
  BY <1>1 DEF EventsOK, WaitVSync, WaitExternal, Block, hosts, flags, queues
<1>2. CASE \E ticks \in AlarmTicks : SetAlarm(ticks)
  BY <1>2 DEF EventsOK, SetAlarm, hosts, flags, queues
<1>3. CASE \E id \in AlarmIds : CancelAlarm(id)
  BY <1>3 DEF EventsOK, CancelAlarm, hosts, flags, queues
<1>4. CASE \E ticks \in TimerTicks : SetTimer(ticks)
  BY <1>4 DEF EventsOK, SetTimer, hosts, flags, queues
<1> QED
  BY <1>1, <1>2, <1>3, <1>4

\* Host time, and the host threads that post nothing.  A notification is spent only
\* on an executor that is then awake.
LEMMA HostSteps ==
    ASSUME EventsOK, RequestStop \/ RaiseForStop \/ NotifyStop \/ NotifyPost \/ Tick
    PROVE  EventsOK' /\ UNCHANGED queues
<1>1. CASE RequestStop
  BY <1>1 DEF EventsOK, RequestStop, queues
<1>2. CASE RaiseForStop
  BY <1>2 DEF EventsOK, RaiseForStop, queues
<1>3. CASE NotifyStop
  BY <1>3 DEF EventsOK, NotifyStop, Asleep, queues
<1>4. CASE NotifyPost
  BY <1>4 DEF EventsOK, NotifyPost, Asleep, queues
<1>5. CASE Tick
  BY <1>5 DEF EventsOK, Tick, hosts, flags, queues
<1> QED
  BY <1>1, <1>2, <1>3, <1>4, <1>5

--------------------------------------------------------------------------------
(* Steps that move events *)

\* A post appends to the channel, raises the flag and owes a notification.
LEMMA PostStep ==
    ASSUME EventsOK, NEW token \in Tokens, PostEvent(token)
    PROVE  /\ EventsOK'
           /\ pending' \o events' = Append(pending \o events, token)
<1>1. /\ events' = Append(events, token) /\ pending' = pending
      /\ checkpoint' = TRUE /\ notifies' = notifies + 1 /\ woken' = woken
      /\ pc' = pc /\ pc \notin {"Reset", "Lower", "PaceEnter", "WaitEnter"}
  BY DEF PostEvent, HoldsMutex
<1>2. events' \in Seq(Tokens) /\ pending' \in Seq(Tokens)
  BY <1>1 DEF EventsOK
<1>3. EventsOK'
  BY <1>1, <1>2 DEF EventsOK
<1>4. pending \o Append(events, token) = Append(pending \o events, token)
  BY DEF EventsOK
<1> QED
  BY <1>1, <1>3, <1>4

\* Swapping m_events out leaves the channel as it is, for nothing was pending.
LEMMA TakeStep ==
    ASSUME EventsOK, TakeEvents
    PROVE  EventsOK' /\ pending' \o events' = pending \o events
<1>1. /\ pending' = events /\ events' = <<>> /\ pending = <<>>
      /\ pc' = "Handle" /\ UNCHANGED <<hosts, flags>>
  BY DEF EventsOK, TakeEvents
<1>2. EventsOK'
  BY <1>1 DEF EventsOK, hosts, flags
<1>3. events \o <<>> = <<>> \o events
  BY DEF EventsOK
<1> QED
  BY <1>1, <1>2, <1>3

\* Handling takes the oldest event off the channel.
LEMMA HandleStep ==
    ASSUME EventsOK, HandleEvent
    PROVE  /\ EventsOK'
           /\ pending \o events # <<>>
           /\ pending' \o events' = Tail(pending \o events)
<1>1. /\ pending # <<>> /\ pending' = Tail(pending) /\ events' = events
      /\ pc = "Handle" /\ pc' = pc /\ UNCHANGED <<hosts, flags>>
  BY DEF HandleEvent
<1>2. EventsOK'
  BY <1>1 DEF EventsOK, hosts, flags
<1>3. pending \o events # <<>> /\ Tail(pending) \o events = Tail(pending \o events)
  BY <1>1 DEF EventsOK
<1> QED
  BY <1>1, <1>2, <1>3

--------------------------------------------------------------------------------
(* Theorems *)

\* Every step keeps EventsOK, and is a step of the channel or leaves it alone.
LEMMA NextStep ==
    ASSUME EventsOK, [Next]_vars
    PROVE  EventsOK' /\ [Channel!Next]_Channelled
<1>1. ASSUME NEW token \in Tokens, PostEvent(token)
      PROVE  EventsOK' /\ [Channel!Next]_Channelled
  BY <1>1, PostStep DEF Channel!Next, Channel!Post, Channelled
<1>2. CASE TakeEvents
  BY <1>2, TakeStep DEF Channelled
<1>3. CASE HandleEvent
  BY <1>3, HandleStep DEF Channel!Next, Channel!Handle, Channelled
<1>4. ASSUME EventsOK' /\ UNCHANGED queues
      PROVE  EventsOK' /\ [Channel!Next]_Channelled
  BY <1>4 DEF Channelled, queues
<1>5. CASE Executor
  BY <1>2, <1>3, <1>4, <1>5, ResetStep, PassSteps, PaceWakeStep, SleepSteps, DueSteps,
     EndSteps, ChoiceSteps DEF Executor
<1>6. CASE Guest
  BY <1>4, <1>6, ChoiceSteps, CallSteps DEF Guest
<1>7. CASE Hosts
  BY <1>1, <1>4, <1>7, HostSteps DEF Hosts
<1>8. CASE Tick
  BY <1>4, <1>8, HostSteps
<1>9. CASE UNCHANGED vars
  BY <1>4, <1>9 DEF EventsOK, vars, hosts, flags, queues
<1> QED
  BY <1>5, <1>6, <1>7, <1>8, <1>9 DEF Next, Finished

\* EventsOK holds from the start.
LEMMA InitStep == Init => EventsOK /\ Channel!Init
<1> SUFFICES ASSUME Init
             PROVE  EventsOK /\ Channel!Init
  OBVIOUS
<1>1. /\ pc = "Reset" /\ events = <<>> /\ pending = <<>> /\ notifies = 0
      /\ checkpoint \in BOOLEAN /\ woken \in BOOLEAN
  BY DEF Init
<1>2. <<>> \in Seq(Tokens)
  BY EmptySeq
<1>3. <<>> \o <<>> = <<>>
  BY ConcatEmptySeq
<1>4. EventsOK
  BY <1>1, <1>2 DEF EventsOK
<1>5. Channel!Init
  BY <1>1, <1>3 DEF Channel!Init
<1> QED
  BY <1>4, <1>5

\* The events, the flag, the notification and the executor's place always agree.
THEOREM EventsAgree == Spec => []EventsOK
<1>1. Init => EventsOK
  BY InitStep
<1>2. EventsOK /\ [Next]_vars => EventsOK'
  BY NextStep
<1> QED
  BY <1>1, <1>2, PTL DEF Spec

\* Whenever an event waits in m_events, the checkpoint flag is up: clearing it at
\* the end of a pass loses no event that was posted during the pass.
THEOREM EventsRaiseCheckpointHolds == Spec => []EventsRaiseCheckpoint
<1>1. EventsOK => EventsRaiseCheckpoint
  BY DEF EventsOK, EventsRaiseCheckpoint
<1> QED
  BY <1>1, EventsAgree, PTL

\* The executor sleeps on no event: postEvent() pushes under the mutex, which the
\* executor holds from its check until it sleeps, and notifies afterwards.
THEOREM NoEventSleptThroughHolds == Spec => []NoEventSleptThrough
<1>1. EventsOK => NoEventSleptThrough
  BY DEF EventsOK, NoEventSleptThrough, Asleep
<1> QED
  BY <1>1, EventsAgree, PTL

\* Events are handled once each, in the order of the posts: the event loop
\* implements EventChannel, with what a pass has swapped out followed by m_events
\* as the channel.
THEOREM EventsInOrderHolds == Spec => EventsInOrder
<1>1. Init => Channel!Init
  BY InitStep
<1>2. EventsOK /\ [Next]_vars => [Channel!Next]_Channelled
  BY NextStep
<1> QED
  BY <1>1, <1>2, EventsAgree, PTL DEF Spec, EventsInOrder, Channel!Spec, Channelled

--------------------------------------------------------------------------------
(* Lists of deadlines *)

\* The deadlines the scheduler makes.
Stamps == {d \in [type : DeadlineTypes, id : AlarmIds \cup {0}, cycle : Int, host : Int] :
             /\ d.type = "Alarm" => d.id \in AlarmIds
             /\ d.type # "Alarm" => d.id = 0
             /\ d.host >= -Lag}

\* Does the list hold a deadline of this type and id, and at most one?
Holds(list, type, id) == \E i \in DOMAIN list : list[i].type = type /\ list[i].id = id
Once(list, type, id) ==
    \A i, j \in DOMAIN list :
        /\ list[i].type = type /\ list[i].id = id
        /\ list[j].type = type /\ list[j].id = id
        => i = j

\* The constants are numbers.
LEMMA ConstantsTyped ==
    /\ Lag \in Nat /\ MaxPosts \in Nat /\ BlankLength \in Nat \ {0}
    /\ DispatchCycles \in Nat \ {0} /\ BlockCycles \in Nat \ {0}
    /\ Periods \subseteq Nat \ {0}
    /\ \A t \in AlarmTicks : t \in Nat
    /\ \A t \in TimerTicks : t \in Nat \ {0}
    /\ AlarmIds \subseteq Nat \ {0} /\ 1 \in AlarmIds
<1>1. Lag \in Nat /\ MaxPosts \in Nat
  BY ConstantsAssumption
<1>2. BlankLength \in Nat \ {0} /\ DispatchCycles \in Nat \ {0} /\ BlockCycles \in Nat \ {0}
  BY ConstantsAssumption
<1>3. Periods \subseteq Nat \ {0}
  BY ConstantsAssumption
<1>4. AlarmTicks \subseteq Nat /\ TimerTicks \subseteq Nat \ {0}
  BY ConstantsAssumption
<1>5. Cardinality(AlarmIds) \in Nat /\ AlarmIds = 1 .. Cardinality(AlarmIds) /\ AlarmIds # {}
  BY ConstantsAssumption, FS_CardinalityType
<1>6. AlarmIds \subseteq Nat \ {0} /\ 1 \in AlarmIds
  BY <1>5
<1> QED
  BY <1>1, <1>2, <1>3, <1>4, <1>6

\* A host time that is no further back than Lag stays so.
LEMMA PastTyped == \A h \in Int : Past(h) \in Int /\ Past(h) >= -Lag
BY ConstantsTyped DEF Past

\* Time moves deadlines, it does not add, drop or rename any.
LEMMA ElapseOf ==
    ASSUME NEW l \in Seq(Stamps), NEW c \in Int, NEW h \in Int
    PROVE  /\ Elapse(l, c, h) \in Seq(Stamps)
           /\ DOMAIN Elapse(l, c, h) = DOMAIN l
           /\ \A i \in DOMAIN l : /\ Elapse(l, c, h)[i].cycle = l[i].cycle - c
                                  /\ Elapse(l, c, h)[i].type = l[i].type
                                  /\ Elapse(l, c, h)[i].id = l[i].id
           /\ l = <<>> => Elapse(l, c, h) = <<>>
<1> DEFINE r == Elapse(l, c, h)
<1>1. DOMAIN r = DOMAIN l
  BY DEF Elapse
<1>2. DOMAIN l = 1 .. Len(l) /\ Len(l) \in Nat
  OBVIOUS
<1>3. ASSUME NEW i \in DOMAIN l
      PROVE  /\ r[i] \in Stamps
             /\ r[i].cycle = l[i].cycle - c
             /\ r[i].type = l[i].type /\ r[i].id = l[i].id
  <2>1. l[i] \in Stamps
    OBVIOUS
  <2>2. r[i] = [l[i] EXCEPT !.cycle = @ - c, !.host = Past(@ - h)]
    BY DEF Elapse
  <2>3. Past(l[i].host - h) \in Int /\ Past(l[i].host - h) >= -Lag
    <3>1. l[i].host - h \in Int
      BY <2>1 DEF Stamps
    <3> QED
      BY <3>1, PastTyped
  <2>4. r[i] = [type |-> l[i].type, id |-> l[i].id, cycle |-> l[i].cycle - c,
                host |-> Past(l[i].host - h)]
    BY <2>1, <2>2 DEF Stamps
  <2> QED
    BY <2>1, <2>3, <2>4 DEF Stamps
<1> HIDE DEF r
<1>4. r \in [1 .. Len(l) -> Stamps]
  <2>1. r = [i \in 1 .. Len(l) |-> r[i]]
    BY <1>1, <1>2 DEF r, Elapse
  <2> QED
    BY <2>1, <1>2, <1>3
<1>5. r \in Seq(Stamps)
  BY <1>2, <1>4, IsASeq
<1>6. l = <<>> => r = <<>>
  BY <1>1, <1>2, <1>5
<1> QED
  BY <1>1, <1>3, <1>5, <1>6 DEF r

\* A list whose places stand for the same deadlines holds the same ones.
LEMMA SameNames ==
    ASSUME NEW l, NEW r, DOMAIN r = DOMAIN l,
           \A i \in DOMAIN l : r[i].type = l[i].type /\ r[i].id = l[i].id
    PROVE  \A type, id : /\ Holds(r, type, id) <=> Holds(l, type, id)
                         /\ Once(r, type, id) <=> Once(l, type, id)
BY DEF Holds, Once

\* What a filter keeps.
LEMMA FilteredList ==
    ASSUME NEW l \in Seq(Stamps), NEW S
    PROVE  /\ Filter(l, S) \in Seq(Stamps)
           /\ \A k \in DOMAIN Filter(l, S) :
                 \E i \in DOMAIN l : Filter(l, S)[k] = l[i] /\ l[i] \in S
           /\ \A type, id :
                 /\ Holds(Filter(l, S), type, id) <=>
                      \E i \in DOMAIN l : l[i] \in S /\ l[i].type = type /\ l[i].id = id
                 /\ Once(l, type, id) => Once(Filter(l, S), type, id)
<1> DEFINE r == Filter(l, S)
<1>1. r \in Seq(Stamps)
  BY FilterOf
<1>2. PICK at \in [DOMAIN r -> DOMAIN l] :
        /\ \A k \in DOMAIN r : r[k] = l[at[k]] /\ l[at[k]] \in S
        /\ \A k, m \in DOMAIN r : at[k] = at[m] => k = m
        /\ \A i \in DOMAIN l : l[i] \in S => \E k \in DOMAIN r : at[k] = i
  BY FilterPlaces
<1> HIDE DEF r
<1>3. \A k \in DOMAIN r : at[k] \in DOMAIN l
  OBVIOUS
<1>4. \A k \in DOMAIN r : \E i \in DOMAIN l : r[k] = l[i] /\ l[i] \in S
  BY <1>2, <1>3
<1>5. ASSUME NEW type, NEW id
      PROVE  Holds(r, type, id) <=>
               \E i \in DOMAIN l : l[i] \in S /\ l[i].type = type /\ l[i].id = id
  BY <1>2, <1>3 DEF Holds
<1>6. ASSUME NEW type, NEW id, Once(l, type, id)
      PROVE  Once(r, type, id)
  BY <1>2, <1>3, <1>6 DEF Once
<1> QED
  BY <1>1, <1>4, <1>5, <1>6 DEF r

\* What is left when one place is taken out.
LEMMA RemovedList ==
    ASSUME NEW l \in Seq(Stamps), NEW p \in DOMAIN l
    PROVE  /\ RemoveAt(l, p) \in Seq(Stamps)
           /\ Len(RemoveAt(l, p)) = Len(l) - 1
           /\ \A type, id :
                 /\ Holds(RemoveAt(l, p), type, id) <=>
                      \E i \in DOMAIN l : i # p /\ l[i].type = type /\ l[i].id = id
                 /\ Once(l, type, id) => Once(RemoveAt(l, p), type, id)
<1> DEFINE r == RemoveAt(l, p)
           a == SubSeq(l, 1, p - 1)
           b == SubSeq(l, p + 1, Len(l))
           at(m) == IF m < p THEN m ELSE m + 1
<1>1. /\ r \in Seq(Stamps) /\ Len(r) = Len(l) - 1
      /\ \A m \in 1 .. Len(l) - 1 : r[m] = l[at(m)]
  <2>1. a \in Seq(Stamps) /\ Len(a) = p - 1 /\ \A j \in 1 .. p - 1 : a[j] = l[j]
    OBVIOUS
  <2>2. /\ b \in Seq(Stamps) /\ Len(b) = Len(l) - p
        /\ \A j \in 1 .. Len(l) - p : b[j] = l[p + j]
    OBVIOUS
  <2> HIDE DEF a, b
  <2>3. a \o b \in Seq(Stamps) /\ Len(a \o b) = Len(l) - 1
    BY <2>1, <2>2
  <2>4. \A j \in 1 .. Len(l) - 1 : (a \o b)[j] = IF j < p THEN l[j] ELSE l[j + 1]
    BY <2>1, <2>2
  <2> QED
    BY <2>3, <2>4 DEF a, b, RemoveAt
<1>2. DOMAIN r = 1 .. Len(l) - 1 /\ DOMAIN l = 1 .. Len(l) /\ Len(l) \in Nat
  BY <1>1
<1> HIDE DEF r
<1>3. \A m \in DOMAIN r : at(m) \in DOMAIN l /\ at(m) # p /\ r[m] = l[at(m)]
  BY <1>1, <1>2
<1>4. \A i \in DOMAIN l : i # p => \E m \in DOMAIN r : at(m) = i
  <2> TAKE i \in DOMAIN l
  <2>1. CASE i < p
    <3>1. i \in DOMAIN r /\ at(i) = i
      BY <2>1, <1>2
    <3> QED
      BY <3>1
  <2>2. CASE i > p
    <3>1. i - 1 \in DOMAIN r /\ at(i - 1) = i
      BY <2>2, <1>2
    <3> QED
      BY <3>1
  <2> QED
    BY <2>1, <2>2, <1>2
<1>5. \A m, n \in DOMAIN r : at(m) = at(n) => m = n
  BY <1>2
<1> HIDE DEF at
<1>6. ASSUME NEW type, NEW id
      PROVE  Holds(r, type, id) <=>
               \E i \in DOMAIN l : i # p /\ l[i].type = type /\ l[i].id = id
  BY <1>3, <1>4 DEF Holds
<1>7. ASSUME NEW type, NEW id, Once(l, type, id)
      PROVE  Once(r, type, id)
  BY <1>3, <1>5, <1>7 DEF Once
<1> QED
  BY <1>1, <1>6, <1>7 DEF r

\* What two lists hold one after the other.
LEMMA JoinedList ==
    ASSUME NEW l \in Seq(Stamps), NEW n \in Seq(Stamps)
    PROVE  /\ l \o n \in Seq(Stamps)
           /\ \A i \in DOMAIN (l \o n) : \/ \E j \in DOMAIN l : (l \o n)[i] = l[j]
                                       \/ \E j \in DOMAIN n : (l \o n)[i] = n[j]
           /\ \A type, id :
                 /\ Holds(l \o n, type, id) <=> Holds(l, type, id) \/ Holds(n, type, id)
                 /\ Once(l, type, id) /\ Once(n, type, id)
                      /\ ~(Holds(l, type, id) /\ Holds(n, type, id))
                      => Once(l \o n, type, id)
<1> DEFINE r == l \o n
<1>1. /\ r \in Seq(Stamps) /\ Len(r) = Len(l) + Len(n)
      /\ \A i \in 1 .. Len(r) : r[i] = IF i <= Len(l) THEN l[i] ELSE n[i - Len(l)]
  OBVIOUS
<1>2. /\ DOMAIN r = 1 .. Len(l) + Len(n)
      /\ DOMAIN l = 1 .. Len(l) /\ DOMAIN n = 1 .. Len(n)
      /\ Len(l) \in Nat /\ Len(n) \in Nat
  BY <1>1
<1> HIDE DEF r
<1>3. ASSUME NEW i \in DOMAIN r
      PROVE  \/ i \in DOMAIN l /\ r[i] = l[i]
             \/ i - Len(l) \in DOMAIN n /\ r[i] = n[i - Len(l)]
  <2>1. r[i] = IF i <= Len(l) THEN l[i] ELSE n[i - Len(l)]
    BY <1>1, <1>2
  <2>2. i <= Len(l) => i \in DOMAIN l
    BY <1>2
  <2>3. ~(i <= Len(l)) => i - Len(l) \in DOMAIN n
    BY <1>2
  <2>4. CASE i <= Len(l)
    BY <2>1, <2>2, <2>4
  <2>5. CASE ~(i <= Len(l))
    BY <2>1, <2>3, <2>5
  <2> QED
    BY <2>4, <2>5
<1>4. \A j \in DOMAIN l : j \in DOMAIN r /\ r[j] = l[j]
  BY <1>1, <1>2
<1>5. \A j \in DOMAIN n : j + Len(l) \in DOMAIN r /\ r[j + Len(l)] = n[j]
  <2> TAKE j \in DOMAIN n
  <2>1. j + Len(l) \in 1 .. Len(r) /\ ~(j + Len(l) <= Len(l)) /\ j + Len(l) - Len(l) = j
    BY <1>1, <1>2
  <2> QED
    BY <1>1, <1>2, <2>1
<1>6. ASSUME NEW type, NEW id
      PROVE  Holds(r, type, id) <=> Holds(l, type, id) \/ Holds(n, type, id)
  BY <1>3, <1>4, <1>5 DEF Holds
<1>7. ASSUME NEW type, NEW id, Once(l, type, id), Once(n, type, id),
             ~(Holds(l, type, id) /\ Holds(n, type, id))
      PROVE  Once(r, type, id)
  <2> SUFFICES ASSUME NEW i \in DOMAIN r, NEW j \in DOMAIN r,
                      r[i].type = type, r[i].id = id, r[j].type = type, r[j].id = id
               PROVE  i = j
    BY DEF Once
  <2>1. CASE i \in DOMAIN l /\ r[i] = l[i] /\ j \in DOMAIN l /\ r[j] = l[j]
    BY <2>1, <1>7 DEF Once
  <2>2. CASE /\ i - Len(l) \in DOMAIN n /\ r[i] = n[i - Len(l)]
             /\ j - Len(l) \in DOMAIN n /\ r[j] = n[j - Len(l)]
    <3>1. i - Len(l) = j - Len(l)
      BY <2>2, <1>7 DEF Once
    <3> QED
      BY <3>1, <1>2
  <2>3. CASE i \in DOMAIN l /\ r[i] = l[i] /\ j - Len(l) \in DOMAIN n /\ r[j] = n[j - Len(l)]
    BY <2>3, <1>7 DEF Holds
  <2>4. CASE j \in DOMAIN l /\ r[j] = l[j] /\ i - Len(l) \in DOMAIN n /\ r[i] = n[i - Len(l)]
    BY <2>4, <1>7 DEF Holds
  <2> QED
    BY <1>3, <2>1, <2>2, <2>3, <2>4
<1> QED
  BY <1>1, <1>3, <1>6, <1>7 DEF r

\* The cached cycle is that of the nearest deadline: there is one when the list
\* has any, and it is only one.
LEMMA NearestDeadline ==
    ASSUME NEW l \in Seq(Stamps)
    PROVE  /\ \A n \in updateNextDeadline(l) : n \in Int
           /\ \A i \in DOMAIN l : \E n \in updateNextDeadline(l) : n <= l[i].cycle
           /\ \A m, n \in updateNextDeadline(l) : m = n
<1> DEFINE C == {l[i].cycle : i \in DOMAIN l}
<1>1. DOMAIN l = 1 .. Len(l) /\ Len(l) \in Nat
  OBVIOUS
<1>2. \A i \in DOMAIN l : l[i].cycle \in Int
  BY DEF Stamps
<1>3. \A n \in updateNextDeadline(l) : \E i \in DOMAIN l : IsFirst(l, i) /\ n = l[i].cycle
  BY DEF updateNextDeadline
<1>4. ASSUME NEW i \in DOMAIN l
      PROVE  \E n \in updateNextDeadline(l) : n <= l[i].cycle
  <2>1. C \in SUBSET Int /\ C # {}
    BY <1>2
  <2>2. IsFiniteSet(C)
    <3> DEFINE f == [k \in DOMAIN l |-> l[k].cycle]
    <3>1. f \in Surjection(DOMAIN l, C)
      BY DEF Surjection
    <3>2. IsFiniteSet(DOMAIN l)
      BY <1>1, FS_Interval
    <3> QED
      BY <3>1, <3>2, FS_Surjection
  <2>3. PICK c \in C : \A d \in C : c <= d
    BY <2>1, <2>2, LeastElement
  <2> DEFINE P == {k \in DOMAIN l : l[k].cycle = c}
  <2>4. P \in SUBSET Int /\ P # {} /\ IsFiniteSet(P)
    <3>1. IsFiniteSet(DOMAIN l)
      BY <1>1, FS_Interval
    <3> QED
      BY <1>1, <3>1, FS_Subset
  <2>5. PICK k \in P : \A m \in P : k <= m
    BY <2>4, LeastElement
  <2>6. \A m \in DOMAIN l : l[k].cycle <= l[m].cycle /\ (l[k].cycle = l[m].cycle => k <= m)
    BY <2>3, <2>5
  <2>7. k \in DOMAIN l /\ l[k].cycle = c
    BY <2>5
  <2>8. IsFirst(l, k)
    BY <1>2, <2>6, <2>7 DEF IsFirst
  <2>9. c \in updateNextDeadline(l)
    BY <2>7, <2>8 DEF updateNextDeadline
  <2> QED
    BY <2>3, <2>9
<1>5. ASSUME NEW i \in DOMAIN l, NEW j \in DOMAIN l, IsFirst(l, i), IsFirst(l, j)
      PROVE  l[i].cycle = l[j].cycle
  BY <1>2, <1>5 DEF IsFirst
<1> QED
  BY <1>2, <1>3, <1>4, <1>5

\* The cache moves with the clock.
LEMMA NearestAfter ==
    ASSUME NEW l \in Seq(Stamps), NEW c \in Int, NEW h \in Int
    PROVE  updateNextDeadline(Elapse(l, c, h)) = {n - c : n \in updateNextDeadline(l)}
<1> DEFINE r == Elapse(l, c, h)
<1>1. DOMAIN r = DOMAIN l /\ \A i \in DOMAIN l : r[i].cycle = l[i].cycle - c
  BY ElapseOf
<1> HIDE DEF r
<1>2. \A i \in DOMAIN l : l[i].cycle \in Int
  BY DEF Stamps
<1>3. \A i \in DOMAIN l : IsFirst(r, i) <=> IsFirst(l, i)
  <2>1. \A i, j \in DOMAIN l : /\ r[i].cycle < r[j].cycle <=> l[i].cycle < l[j].cycle
                               /\ r[i].cycle = r[j].cycle <=> l[i].cycle = l[j].cycle
    BY <1>1, <1>2
  <2> QED
    BY <1>1, <2>1 DEF IsFirst
<1>4. \A x : x \in updateNextDeadline(r) <=>
                \E i \in DOMAIN l : IsFirst(l, i) /\ x = l[i].cycle - c
  BY <1>1, <1>3 DEF updateNextDeadline
<1>5. \A x : x \in {n - c : n \in updateNextDeadline(l)} <=>
                \E i \in DOMAIN l : IsFirst(l, i) /\ x = l[i].cycle - c
  BY DEF updateNextDeadline
<1> QED
  BY <1>4, <1>5 DEF r

--------------------------------------------------------------------------------
(* The deadlines agree with the clock, the alarms and the executor's place *)

\* Deadlines are processed before anything else is done; guest code runs only when
\* every deadline is still to come, for the cached cycle never lags behind the list.
ListsOK ==
    /\ deadlines \in Seq(Stamps) /\ due \in Seq(Stamps)
    /\ nextDeadline = updateNextDeadline(deadlines)
    /\ timer \in Nat
    /\ until \in SUBSET [cycle : Int, host : Int]
    /\ due # <<>> => pc = "Process"
    /\ pc = "Reset" => deadlines = <<>>
    /\ pc = "Guest" => \A i \in DOMAIN deadlines : deadlines[i].cycle > 0

\* One deadline of this type and id is scheduled or being processed, if any should be.
Single(type, id, present) ==
    /\ Once(deadlines, type, id) /\ Once(due, type, id)
    /\ ~(Holds(deadlines, type, id) /\ Holds(due, type, id))
    /\ present <=> Holds(deadlines, type, id) \/ Holds(due, type, id)

BlankOK == Single("VBlankStart", 0, pc # "Reset")

AlarmsOK ==
    /\ alarms \in SUBSET AlarmIds
    /\ \A id \in AlarmIds : Single("Alarm", id, id \in alarms)

\* The steps that only move the executor, or none but a host thread.
LEMMA QuietLists ==
    ASSUME ListsOK, BlankOK, UNCHANGED <<deadlines, due, nextDeadline, alarms>>,
           timer' \in Nat, until' \in SUBSET [cycle : Int, host : Int],
           pc' = "Reset" <=> pc = "Reset", pc = "Process" => pc' = "Process",
           pc' = "Guest" => pc = "Guest"
    PROVE  ListsOK' /\ BlankOK' /\ (AlarmsOK => AlarmsOK')
<1>1. ListsOK'
  BY DEF ListsOK
<1>2. BlankOK'
  BY DEF BlankOK, Single
<1>3. AlarmsOK => AlarmsOK'
  BY DEF AlarmsOK, Single
<1> QED
  BY <1>1, <1>2, <1>3

\* The clock moves on by c cycles.
LEMMA ClockMoves ==
    ASSUME ListsOK, BlankOK, NEW c \in Int, accountCycles(c), UNCHANGED <<due, alarms>>,
           until' \in SUBSET [cycle : Int, host : Int], pc # "Reset", pc' # "Reset", pc # "Process",
           pc' = "Guest" => \A n \in nextDeadline : n > c
    PROVE  ListsOK' /\ BlankOK' /\ (AlarmsOK => AlarmsOK')
<1>1. /\ deadlines' = Elapse(deadlines, c, 0)
      /\ nextDeadline' = {n - c : n \in nextDeadline}
      /\ timer' = IF timer > c THEN timer - c ELSE 0
  BY DEF accountCycles
<1>2. /\ deadlines \in Seq(Stamps) /\ due \in Seq(Stamps) /\ due = <<>> /\ timer \in Nat
      /\ nextDeadline = updateNextDeadline(deadlines)
  BY DEF ListsOK
<1>3. /\ deadlines' \in Seq(Stamps) /\ DOMAIN deadlines' = DOMAIN deadlines
      /\ \A i \in DOMAIN deadlines : /\ deadlines'[i].cycle = deadlines[i].cycle - c
                                    /\ deadlines'[i].type = deadlines[i].type
                                    /\ deadlines'[i].id = deadlines[i].id
  <2>1. 0 \in Int
    OBVIOUS
  <2> QED
    BY <1>1, <1>2, <2>1, ElapseOf
<1>4. nextDeadline' = updateNextDeadline(deadlines')
  <2>1. updateNextDeadline(Elapse(deadlines, c, 0)) = {n - c : n \in updateNextDeadline(deadlines)}
    BY <1>2, NearestAfter
  <2> QED
    BY <1>1, <1>2, <2>1
<1>5. timer' \in Nat
  BY <1>1, <1>2
<1>6. pc' = "Guest" => \A i \in DOMAIN deadlines' : deadlines'[i].cycle > 0
  <2> SUFFICES ASSUME pc' = "Guest", NEW i \in DOMAIN deadlines PROVE deadlines[i].cycle - c > 0
    BY <1>3
  <2>1. PICK n \in nextDeadline : n <= deadlines[i].cycle /\ n \in Int
    BY <1>2, NearestDeadline
  <2>2. n > c
    OBVIOUS
  <2>3. deadlines[i].cycle \in Int
    BY <1>2 DEF Stamps
  <2> QED
    BY <2>1, <2>2, <2>3
<1>7. ListsOK'
  BY <1>2, <1>3, <1>4, <1>5, <1>6 DEF ListsOK
<1>8. \A type, id : /\ Holds(deadlines', type, id) <=> Holds(deadlines, type, id)
                    /\ Once(deadlines', type, id) <=> Once(deadlines, type, id)
  BY <1>3, SameNames
<1>9. BlankOK'
  BY <1>8 DEF BlankOK, Single
<1>10. AlarmsOK => AlarmsOK'
  BY <1>8 DEF AlarmsOK, Single
<1> QED
  BY <1>7, <1>9, <1>10

\* Host time passes.
LEMMA TickLists ==
    ASSUME ListsOK, BlankOK, Tick
    PROVE  ListsOK' /\ BlankOK' /\ (AlarmsOK => AlarmsOK')
<1>0. 0 \in Int /\ 1 \in Int
  OBVIOUS
<1>1. /\ deadlines' = Elapse(deadlines, 0, 1) /\ due' = Elapse(due, 0, 1)
      /\ until' = {[u EXCEPT !.host = Past(@ - 1)] : u \in until}
      /\ UNCHANGED <<pc, nextDeadline, timer, alarms>> /\ pc # "Reset"
  BY DEF Tick, kernel
<1>2. /\ deadlines \in Seq(Stamps) /\ due \in Seq(Stamps) /\ timer \in Nat
      /\ nextDeadline = updateNextDeadline(deadlines)
      /\ until \in SUBSET [cycle : Int, host : Int]
  BY DEF ListsOK
<1>3. /\ deadlines' \in Seq(Stamps) /\ DOMAIN deadlines' = DOMAIN deadlines
      /\ \A i \in DOMAIN deadlines : /\ deadlines'[i].cycle = deadlines[i].cycle - 0
                                    /\ deadlines'[i].type = deadlines[i].type
                                    /\ deadlines'[i].id = deadlines[i].id
  BY <1>0, <1>1, <1>2, ElapseOf
<1>4. /\ due' \in Seq(Stamps) /\ DOMAIN due' = DOMAIN due
      /\ \A i \in DOMAIN due : due'[i].type = due[i].type /\ due'[i].id = due[i].id
      /\ due = <<>> => due' = <<>>
  BY <1>0, <1>1, <1>2, ElapseOf
<1>5. nextDeadline' = updateNextDeadline(deadlines')
  <2>1. updateNextDeadline(Elapse(deadlines, 0, 1)) = {n - 0 : n \in updateNextDeadline(deadlines)}
    BY <1>0, <1>2, NearestAfter
  <2>2. \A n \in nextDeadline : n \in Int
    BY <1>2, NearestDeadline
  <2>3. {n - 0 : n \in nextDeadline} = nextDeadline
    BY <2>2
  <2> QED
    BY <1>1, <1>2, <2>1, <2>3
<1>6. until' \in SUBSET [cycle : Int, host : Int]
  <2> SUFFICES ASSUME NEW u \in until
               PROVE  [u EXCEPT !.host = Past(@ - 1)] \in [cycle : Int, host : Int]
    BY <1>1
  <2>1. u \in [cycle : Int, host : Int]
    BY <1>2
  <2>2. u.host - 1 \in Int
    BY <2>1
  <2>3. Past(u.host - 1) \in Int
    BY <2>2, PastTyped
  <2> QED
    BY <2>1, <2>3
<1>7. pc' = "Guest" => \A i \in DOMAIN deadlines' : deadlines'[i].cycle > 0
  <2>1. \A i \in DOMAIN deadlines : deadlines[i].cycle \in Int
    BY <1>2 DEF Stamps
  <2> QED
    BY <1>1, <1>3, <2>1 DEF ListsOK
<1>8. ListsOK'
  BY <1>1, <1>2, <1>3, <1>4, <1>5, <1>6, <1>7 DEF ListsOK
<1>9. \A type, id : /\ Holds(deadlines', type, id) <=> Holds(deadlines, type, id)
                    /\ Once(deadlines', type, id) <=> Once(deadlines, type, id)
  BY <1>3, SameNames
<1>10. \A type, id : /\ Holds(due', type, id) <=> Holds(due, type, id)
                     /\ Once(due', type, id) <=> Once(due, type, id)
  BY <1>4, SameNames
<1>11. BlankOK'
  BY <1>1, <1>9, <1>10 DEF BlankOK, Single
<1>12. AlarmsOK => AlarmsOK'
  BY <1>1, <1>9, <1>10 DEF AlarmsOK, Single
<1> QED
  BY <1>8, <1>11, <1>12

\* Taking the due deadlines off splits the list in two, with nothing lost.
LEMMA TakenLists ==
    ASSUME ListsOK, BlankOK, pc \in {"Due", "PaceSleep"}, takeDue, timer' = timer,
           alarms' = alarms, until' \in SUBSET [cycle : Int, host : Int]
    PROVE  ListsOK' /\ BlankOK' /\ (AlarmsOK => AlarmsOK')
<1> DEFINE past == PastDue(deadlines)
           rest == Range(deadlines) \ past
<1>1. /\ due' = Filter(deadlines, past) /\ deadlines' = Filter(deadlines, rest)
      /\ nextDeadline' = updateNextDeadline(deadlines')
      /\ pc' = IF due' = <<>> THEN "Swap" ELSE "Process"
  BY DEF takeDue
<1>2. deadlines \in Seq(Stamps) /\ due = <<>> /\ timer \in Nat
  BY DEF ListsOK
<1>3. \A i \in DOMAIN deadlines : deadlines[i] \in rest <=> deadlines[i] \notin past
  BY DEF Range
<1> HIDE DEF past, rest
<1>4. deadlines' \in Seq(Stamps) /\ due' \in Seq(Stamps)
  BY <1>1, <1>2, FilteredList
<1>5. ListsOK'
  BY <1>1, <1>2, <1>4 DEF ListsOK
<1>6. \A type, id : /\ Holds(due', type, id) <=>
                          \E i \in DOMAIN deadlines :
                             deadlines[i] \in past /\ deadlines[i].type = type /\ deadlines[i].id = id
                    /\ Holds(deadlines', type, id) <=>
                          \E i \in DOMAIN deadlines :
                             deadlines[i] \in rest /\ deadlines[i].type = type /\ deadlines[i].id = id
                    /\ Once(deadlines, type, id) => Once(deadlines', type, id) /\ Once(due', type, id)
  BY <1>1, <1>2, FilteredList
<1>7. \A type, id : Holds(deadlines, type, id) <=> Holds(deadlines', type, id) \/ Holds(due', type, id)
  BY <1>3, <1>6 DEF Holds
<1>8. \A type, id : Once(deadlines, type, id) => ~(Holds(deadlines', type, id) /\ Holds(due', type, id))
  BY <1>3, <1>6 DEF Once
<1>9. \A type, id : ~Holds(due, type, id)
  BY <1>2 DEF Holds
<1>10. BlankOK'
  <2>1. pc' # "Reset"
    BY <1>1
  <2> QED
    BY <1>6, <1>7, <1>8, <1>9, <2>1 DEF BlankOK, Single
<1>11. AlarmsOK => AlarmsOK'
  BY <1>6, <1>7, <1>8, <1>9 DEF AlarmsOK, Single
<1> QED
  BY <1>5, <1>10, <1>11

\* Processing a deadline removes it and no other.
LEMMA ProcessedDue ==
    ASSUME ListsOK, NEW type, NEW d, ProcessNext(type, d)
    PROVE  /\ d \in Stamps /\ d.type = type /\ due' \in Seq(Stamps)
           /\ pc = "Process" /\ pc' \in {"Due", "Process"}
           /\ due' # <<>> => pc' = "Process"
           /\ Holds(due, type, d.id)
           /\ Once(due, type, d.id) => ~Holds(due', type, d.id)
           /\ \A ty, id : /\ Once(due, ty, id) => Once(due', ty, id)
                          /\ ty # type \/ id # d.id => (Holds(due', ty, id) <=> Holds(due, ty, id))
<1>1. PICK p \in DOMAIN due : due[p].type = type /\ d = due[p] /\ due' = RemoveAt(due, p)
  BY DEF ProcessNext
<1>2. due \in Seq(Stamps) /\ d \in Stamps
  BY <1>1 DEF ListsOK
<1>3. /\ due' \in Seq(Stamps) /\ Len(due') = Len(due) - 1
      /\ \A ty, id : /\ Holds(due', ty, id) <=>
                           \E i \in DOMAIN due : i # p /\ due[i].type = ty /\ due[i].id = id
                     /\ Once(due, ty, id) => Once(due', ty, id)
  BY <1>1, <1>2, RemovedList
<1>4. pc = "Process" /\ pc' = IF Len(due) = 1 THEN "Due" ELSE "Process"
  BY DEF ProcessNext
<1>5. due' # <<>> => pc' = "Process"
  <2>1. Len(due) = 1 => Len(due') = 0
    BY <1>3
  <2>2. Len(due') = 0 => due' = <<>>
    BY <1>3
  <2> QED
    BY <1>4, <2>1, <2>2
<1>6. Holds(due, type, d.id)
  BY <1>1 DEF Holds
<1>7. Once(due, type, d.id) => ~Holds(due', type, d.id)
  BY <1>1, <1>3 DEF Once
<1>8. ASSUME NEW ty, NEW id, ty # type \/ id # d.id
      PROVE  Holds(due', ty, id) <=> Holds(due, ty, id)
  <2>1. ~(due[p].type = ty /\ due[p].id = id)
    BY <1>1, <1>8
  <2>2. Holds(due, ty, id) <=>
          \E i \in DOMAIN due : i # p /\ due[i].type = ty /\ due[i].id = id
    BY <2>1 DEF Holds
  <2> QED
    BY <1>3, <2>2
<1> QED
  BY <1>1, <1>2, <1>3, <1>4, <1>5, <1>6, <1>7, <1>8

\* New deadlines go to the end of the list and the cache.
LEMMA ScheduledLists ==
    ASSUME NEW l \in Seq(Stamps), NEW n \in Seq(Stamps), scheduleEvents(n), deadlines = l
    PROVE  /\ deadlines' \in Seq(Stamps) /\ nextDeadline' = updateNextDeadline(deadlines')
           /\ \A i \in DOMAIN deadlines' : \/ \E j \in DOMAIN l : deadlines'[i] = l[j]
                                         \/ \E j \in DOMAIN n : deadlines'[i] = n[j]
           /\ \A type, id :
                 /\ Holds(deadlines', type, id) <=> Holds(l, type, id) \/ Holds(n, type, id)
                 /\ Once(l, type, id) /\ Once(n, type, id)
                      /\ ~(Holds(l, type, id) /\ Holds(n, type, id))
                      => Once(deadlines', type, id)
<1>1. deadlines' = l \o n /\ nextDeadline' = updateNextDeadline(deadlines')
  BY DEF scheduleEvents
<1> QED
  BY <1>1, JoinedList

\* One deadline alone.
LEMMA OneDeadline ==
    ASSUME NEW d \in Stamps
    PROVE  /\ <<d>> \in Seq(Stamps) /\ DOMAIN <<d>> = {1} /\ <<d>>[1] = d
           /\ \A type, id : /\ Holds(<<d>>, type, id) <=> type = d.type /\ id = d.id
                            /\ Once(<<d>>, type, id)
<1>1. <<d>> \in Seq(Stamps) /\ DOMAIN <<d>> = {1} /\ <<d>>[1] = d
  OBVIOUS
<1> QED
  BY <1>1 DEF Holds, Once

\* reset() puts the first vertical blank on an empty list.
LEMMA FirstBlank ==
    ASSUME ListsOK, BlankOK, NEW cycles \in Periods, NEW time \in Periods,
           deadlines' = <<Deadline("VBlankStart", 0, cycles, time)>>, nextDeadline' = {cycles},
           pc = "Reset", pc' \in {"Loop", "Ended"}, UNCHANGED <<due, until, timer, alarms>>
    PROVE  ListsOK' /\ BlankOK' /\ (AlarmsOK => AlarmsOK')
<1> DEFINE d == Deadline("VBlankStart", 0, cycles, time)
<1>2. deadlines = <<>> /\ due = <<>>
  BY DEF ListsOK
<1>3. cycles \in Nat /\ time \in Nat /\ time >= -Lag
  BY ConstantsTyped
<1>4. d \in Stamps /\ d.type = "VBlankStart" /\ d.id = 0 /\ d.cycle = cycles
  BY <1>3 DEF Stamps, Deadline, DeadlineTypes
<1> HIDE DEF d
<1>5. /\ deadlines' \in Seq(Stamps) /\ DOMAIN deadlines' = {1} /\ deadlines'[1] = d
      /\ \A type, id : /\ Holds(deadlines', type, id) <=> type = "VBlankStart" /\ id = 0
                       /\ Once(deadlines', type, id)
  <2>1. deadlines' = <<d>>
    BY DEF d
  <2> QED
    BY <1>4, <2>1, OneDeadline
<1>6. nextDeadline' = updateNextDeadline(deadlines')
  <2>1. IsFirst(deadlines', 1)
    BY <1>3, <1>4, <1>5 DEF IsFirst
  <2> QED
    BY <1>4, <1>5, <2>1 DEF updateNextDeadline
<1>7. ListsOK'
  BY <1>2, <1>5, <1>6 DEF ListsOK
<1>8. \A type, id : ~Holds(due, type, id) /\ ~Holds(deadlines, type, id) /\ Once(due, type, id)
  BY <1>2 DEF Holds, Once
<1>9. BlankOK'
  BY <1>2, <1>5, <1>8 DEF BlankOK, Single
<1>10. AlarmsOK => AlarmsOK'
  BY <1>2, <1>5, <1>8 DEF AlarmsOK, Single
<1> QED
  BY <1>7, <1>9, <1>10

LEMMA ResetLists ==
    ASSUME ListsOK, BlankOK, Reset
    PROVE  ListsOK' /\ BlankOK' /\ (AlarmsOK => AlarmsOK')
<1>1. PICK cycles \in Periods, time \in Periods :
        /\ deadlines' = <<Deadline("VBlankStart", 0, cycles, time)>>
        /\ nextDeadline' = {cycles}
  BY DEF Reset
<1>2. pc = "Reset" /\ pc' = "Loop" /\ UNCHANGED <<due, until, timer, alarms>>
  BY DEF Reset, kernel
<1> QED
  BY <1>1, <1>2, FirstBlank

\* A vertical blank that is processed schedules the next one and its own end.
LEMMA VBlankStartLists ==
    ASSUME ListsOK, BlankOK, VBlankStart
    PROVE  ListsOK' /\ BlankOK' /\ (AlarmsOK => AlarmsOK')
<1>1. PICK d \in Range(due), cycles \in Periods, time \in Periods :
        ProcessNext("VBlankStart", d) /\ scheduleEvents(VBlankDeadlines(d, cycles, time))
  BY DEF VBlankStart
<1>2. UNCHANGED <<until, timer, alarms>>
  BY DEF VBlankStart
<1> DEFINE e == Deadline("VBlankEnd", 0, d.cycle + BlankLength, Past(d.host + BlankLength))
           f == Deadline("VBlankStart", 0, d.cycle + cycles, Past(d.host + time))
           new == VBlankDeadlines(d, cycles, time)
<1>3. /\ d \in Stamps /\ due' \in Seq(Stamps)
      /\ pc = "Process" /\ pc' \in {"Due", "Process"} /\ (due' # <<>> => pc' = "Process")
      /\ Holds(due, "VBlankStart", d.id)
      /\ Once(due, "VBlankStart", d.id) => ~Holds(due', "VBlankStart", d.id)
      /\ \A ty, id : /\ Once(due, ty, id) => Once(due', ty, id)
                     /\ ty # "VBlankStart" \/ id # d.id
                          => (Holds(due', ty, id) <=> Holds(due, ty, id))
      /\ d.type = "VBlankStart"
  BY <1>1, ProcessedDue
<1>4. d.id = 0 /\ d.cycle \in Int /\ d.host \in Int
  BY <1>3 DEF Stamps
<1>5. e \in Stamps /\ f \in Stamps
  <2>1. cycles \in Nat /\ time \in Nat /\ BlankLength \in Nat
    BY ConstantsTyped
  <2>2. d.host + BlankLength \in Int /\ d.host + time \in Int
    BY <1>4, <2>1
  <2>3. /\ Past(d.host + BlankLength) \in Int /\ Past(d.host + BlankLength) >= -Lag
        /\ Past(d.host + time) \in Int /\ Past(d.host + time) >= -Lag
    BY <2>2, PastTyped
  <2>4. d.cycle + BlankLength \in Int /\ d.cycle + cycles \in Int
    BY <1>4, <2>1
  <2> QED
    BY <2>3, <2>4 DEF Stamps, Deadline, DeadlineTypes
<1>6. /\ new \in Seq(Stamps)
      /\ \A id : Once(new, "VBlankStart", id) /\ Once(new, "Alarm", id)
      /\ Holds(new, "VBlankStart", 0) /\ \A id : ~Holds(new, "Alarm", id)
  <2>1. new = <<e, f>>
    BY DEF VBlankDeadlines
  <2>2. e.type = "VBlankEnd" /\ f.type = "VBlankStart" /\ f.id = 0
    BY DEF Deadline
  <2> HIDE DEF new, e, f
  <2>3. new \in Seq(Stamps) /\ DOMAIN new = {1, 2} /\ new[1] = e /\ new[2] = f
    BY <1>5, <2>1
  <2> QED
    BY <2>2, <2>3 DEF Holds, Once
<1> HIDE DEF new, e, f
<1>7. deadlines \in Seq(Stamps) /\ timer \in Nat /\ until \in SUBSET [cycle : Int, host : Int]
  BY DEF ListsOK
<1>8. /\ deadlines' \in Seq(Stamps) /\ nextDeadline' = updateNextDeadline(deadlines')
      /\ \A type, id :
            /\ Holds(deadlines', type, id) <=> Holds(deadlines, type, id) \/ Holds(new, type, id)
            /\ Once(deadlines, type, id) /\ Once(new, type, id)
                 /\ ~(Holds(deadlines, type, id) /\ Holds(new, type, id))
                 => Once(deadlines', type, id)
  <2>1. scheduleEvents(new)
    BY <1>1 DEF new
  <2> QED
    BY <1>6, <1>7, <2>1, ScheduledLists
<1>9. ListsOK'
  BY <1>2, <1>3, <1>7, <1>8 DEF ListsOK
<1>10. BlankOK'
  <2>1. ~Holds(deadlines, "VBlankStart", 0) /\ ~Holds(due', "VBlankStart", 0)
    BY <1>3, <1>4 DEF BlankOK, Single
  <2> QED
    BY <1>3, <1>6, <1>8, <2>1 DEF BlankOK, Single
<1>11. AlarmsOK => AlarmsOK'
  <2>1. \A id : /\ Holds(due', "Alarm", id) <=> Holds(due, "Alarm", id)
                /\ Once(due, "Alarm", id) => Once(due', "Alarm", id)
                /\ Holds(deadlines', "Alarm", id) <=> Holds(deadlines, "Alarm", id)
                /\ Once(deadlines, "Alarm", id) => Once(deadlines', "Alarm", id)
    BY <1>3, <1>6, <1>8
  <2> QED
    BY <1>2, <2>1 DEF AlarmsOK, Single
<1> QED
  BY <1>9, <1>10, <1>11

\* The end of a vertical blank schedules nothing.
LEMMA VBlankEndLists ==
    ASSUME ListsOK, BlankOK, VBlankEnd
    PROVE  ListsOK' /\ BlankOK' /\ (AlarmsOK => AlarmsOK')
<1>1. PICK d \in Range(due) : ProcessNext("VBlankEnd", d)
  BY DEF VBlankEnd
<1>2. UNCHANGED <<deadlines, nextDeadline, until, timer, alarms>>
  BY DEF VBlankEnd
<1>3. /\ due' \in Seq(Stamps)
      /\ pc = "Process" /\ pc' \in {"Due", "Process"} /\ (due' # <<>> => pc' = "Process")
      /\ \A ty, id : /\ Once(due, ty, id) => Once(due', ty, id)
                     /\ ty # "VBlankEnd" => (Holds(due', ty, id) <=> Holds(due, ty, id))
  BY <1>1, ProcessedDue
<1>4. ListsOK'
  BY <1>2, <1>3 DEF ListsOK
<1>5. BlankOK'
  BY <1>2, <1>3 DEF BlankOK, Single
<1>6. AlarmsOK => AlarmsOK'
  BY <1>2, <1>3 DEF AlarmsOK, Single
<1> QED
  BY <1>4, <1>5, <1>6

\* An alarm that comes due is forgotten, and with it its only deadline.
LEMMA AlarmLists ==
    ASSUME ListsOK, BlankOK, Alarm
    PROVE  ListsOK' /\ BlankOK' /\ (AlarmsOK => AlarmsOK')
<1>1. PICK d \in Range(due) : ProcessNext("Alarm", d) /\ alarms' = alarms \ {d.id}
  BY DEF Alarm
<1>2. UNCHANGED <<deadlines, nextDeadline, until, timer>>
  BY DEF Alarm
<1>3. /\ d \in Stamps /\ d.type = "Alarm" /\ due' \in Seq(Stamps)
      /\ pc = "Process" /\ pc' \in {"Due", "Process"} /\ (due' # <<>> => pc' = "Process")
      /\ Holds(due, "Alarm", d.id)
      /\ Once(due, "Alarm", d.id) => ~Holds(due', "Alarm", d.id)
      /\ \A ty, id : /\ Once(due, ty, id) => Once(due', ty, id)
                     /\ ty # "Alarm" \/ id # d.id => (Holds(due', ty, id) <=> Holds(due, ty, id))
  BY <1>1, ProcessedDue
<1>4. d.id \in AlarmIds
  BY <1>3 DEF Stamps
<1>5. ListsOK'
  BY <1>2, <1>3 DEF ListsOK
<1>6. BlankOK'
  BY <1>2, <1>3 DEF BlankOK, Single
<1>7. ASSUME AlarmsOK
      PROVE  AlarmsOK'
  <2>1. ASSUME NEW id \in AlarmIds
        PROVE  Single("Alarm", id, id \in alarms)'
    <3>1. CASE id = d.id
      BY <1>1, <1>2, <1>3, <1>7, <3>1 DEF AlarmsOK, Single
    <3>2. CASE id # d.id
      BY <1>1, <1>2, <1>3, <1>7, <3>2 DEF AlarmsOK, Single
    <3> QED
      BY <3>1, <3>2
  <2> QED
    BY <1>1, <1>7, <2>1 DEF AlarmsOK
<1> QED
  BY <1>5, <1>6, <1>7

\* SetAlarm() gives a free id one deadline, later than now.
LEMMA SetAlarmLists ==
    ASSUME ListsOK, BlankOK, NEW ticks \in AlarmTicks, SetAlarm(ticks)
    PROVE  ListsOK' /\ BlankOK' /\ (AlarmsOK => AlarmsOK')
<1> DEFINE length == IF ticks = 0 THEN 1 ELSE ticks
<1>1. PICK id \in FreeAlarm : /\ alarms' = alarms \cup {id}
                              /\ scheduleEvents(<<Deadline("Alarm", id, length, length)>>)
  BY DEF SetAlarm
<1>2. pc = "Guest" /\ UNCHANGED <<pc, due, until, timer>>
  BY DEF SetAlarm
<1>3. id \in AlarmIds /\ id \notin alarms
  BY DEF FreeAlarm
<1>4. length \in Nat /\ length > 0 /\ length >= -Lag
  <2>1. ticks \in Nat /\ Lag \in Nat
    BY ConstantsTyped
  <2>2. length \in Nat /\ length > 0
    BY <2>1
  <2> HIDE DEF length
  <2> QED
    BY <2>1, <2>2
<1> DEFINE d == Deadline("Alarm", id, length, length)
<1>5. d \in Stamps /\ d.type = "Alarm" /\ d.id = id /\ d.cycle = length
  BY <1>3, <1>4 DEF Stamps, Deadline, DeadlineTypes
<1>6. scheduleEvents(<<d>>)
  BY <1>1
<1> HIDE DEF d, length
<1>7. /\ <<d>> \in Seq(Stamps) /\ DOMAIN <<d>> = {1} /\ <<d>>[1] = d
      /\ \A type, i : /\ Holds(<<d>>, type, i) <=> type = "Alarm" /\ i = id
                      /\ Once(<<d>>, type, i)
  BY <1>5, OneDeadline
<1>8. /\ deadlines \in Seq(Stamps) /\ timer \in Nat /\ until \in SUBSET [cycle : Int, host : Int]
      /\ due \in Seq(Stamps) /\ due = <<>> /\ \A i \in DOMAIN deadlines : deadlines[i].cycle > 0
  BY <1>2 DEF ListsOK
<1>9. /\ deadlines' \in Seq(Stamps) /\ nextDeadline' = updateNextDeadline(deadlines')
      /\ \A i \in DOMAIN deadlines' : \/ \E j \in DOMAIN deadlines : deadlines'[i] = deadlines[j]
                                    \/ \E j \in DOMAIN <<d>> : deadlines'[i] = <<d>>[j]
      /\ \A type, i :
            /\ Holds(deadlines', type, i) <=> Holds(deadlines, type, i) \/ Holds(<<d>>, type, i)
            /\ Once(deadlines, type, i) /\ Once(<<d>>, type, i)
                 /\ ~(Holds(deadlines, type, i) /\ Holds(<<d>>, type, i))
                 => Once(deadlines', type, i)
  BY <1>6, <1>7, <1>8, ScheduledLists
<1>10. \A i \in DOMAIN deadlines' : deadlines'[i].cycle > 0
  BY <1>4, <1>5, <1>7, <1>8, <1>9
<1>11. ListsOK'
  BY <1>2, <1>8, <1>9, <1>10 DEF ListsOK
<1>12. BlankOK'
  BY <1>2, <1>7, <1>9 DEF BlankOK, Single
<1>13. ASSUME AlarmsOK
       PROVE  AlarmsOK'
  <2>1. ASSUME NEW i \in AlarmIds
        PROVE  Single("Alarm", i, i \in alarms)'
    <3>1. CASE i = id
      <4>1. ~Holds(deadlines, "Alarm", i) /\ ~Holds(due, "Alarm", i)
        BY <1>3, <1>13, <3>1 DEF AlarmsOK, Single
      <4> QED
        BY <1>1, <1>2, <1>7, <1>9, <1>13, <3>1, <4>1 DEF AlarmsOK, Single
    <3>2. CASE i # id
      BY <1>1, <1>2, <1>7, <1>9, <1>13, <3>2 DEF AlarmsOK, Single
    <3> QED
      BY <3>1, <3>2
  <2> QED
    BY <1>1, <1>3, <1>13, <2>1 DEF AlarmsOK
<1> QED
  BY <1>11, <1>12, <1>13

\* CancelAlarm() drops the deadline with the alarm.
LEMMA CancelAlarmLists ==
    ASSUME ListsOK, BlankOK, NEW a \in AlarmIds, CancelAlarm(a)
    PROVE  ListsOK' /\ BlankOK' /\ (AlarmsOK => AlarmsOK')
<1> DEFINE kept == {d \in Range(deadlines) : d.type # "Alarm" \/ d.id # a}
<1>1. /\ pc = "Guest" /\ UNCHANGED <<pc, due, until, timer>>
      /\ alarms' = alarms \ {a}
      /\ deadlines' = Filter(deadlines, kept)
      /\ nextDeadline' = updateNextDeadline(deadlines')
  BY DEF CancelAlarm
<1>2. \A i \in DOMAIN deadlines :
        deadlines[i] \in kept <=> ~(deadlines[i].type = "Alarm" /\ deadlines[i].id = a)
  BY DEF Range
<1> HIDE DEF kept
<1>3. /\ deadlines \in Seq(Stamps) /\ timer \in Nat /\ until \in SUBSET [cycle : Int, host : Int]
      /\ due \in Seq(Stamps) /\ due = <<>> /\ \A i \in DOMAIN deadlines : deadlines[i].cycle > 0
  BY <1>1 DEF ListsOK
<1>4. /\ deadlines' \in Seq(Stamps)
      /\ \A k \in DOMAIN deadlines' : \E i \in DOMAIN deadlines : deadlines'[k] = deadlines[i]
      /\ \A type, id :
            /\ Holds(deadlines', type, id) <=>
                 \E i \in DOMAIN deadlines :
                    deadlines[i] \in kept /\ deadlines[i].type = type /\ deadlines[i].id = id
            /\ Once(deadlines, type, id) => Once(deadlines', type, id)
  BY <1>1, <1>3, FilteredList
<1>5. ASSUME NEW type, NEW id
      PROVE  Holds(deadlines', type, id) <=>
               Holds(deadlines, type, id) /\ ~(type = "Alarm" /\ id = a)
  <2>1. Holds(deadlines', type, id) <=>
          \E i \in DOMAIN deadlines :
             /\ ~(deadlines[i].type = "Alarm" /\ deadlines[i].id = a)
             /\ deadlines[i].type = type /\ deadlines[i].id = id
    BY <1>2, <1>4
  <2>2. Holds(deadlines, type, id) <=>
          \E i \in DOMAIN deadlines : deadlines[i].type = type /\ deadlines[i].id = id
    BY DEF Holds
  <2> QED
    BY <2>1, <2>2
<1>6. \A k \in DOMAIN deadlines' : deadlines'[k].cycle > 0
  BY <1>3, <1>4
<1>7. ListsOK'
  BY <1>1, <1>3, <1>4, <1>6 DEF ListsOK
<1>8. BlankOK'
  BY <1>1, <1>4, <1>5 DEF BlankOK, Single
<1>9. ASSUME AlarmsOK
      PROVE  AlarmsOK'
  <2>1. \A id : ~Holds(due, "Alarm", id)
    BY <1>3 DEF Holds
  <2>2. ASSUME NEW id \in AlarmIds
        PROVE  Single("Alarm", id, id \in alarms)'
    BY <1>1, <1>4, <1>5, <1>9, <2>1 DEF AlarmsOK, Single
  <2> QED
    BY <1>1, <1>9, <2>2 DEF AlarmsOK
<1> QED
  BY <1>7, <1>8, <1>9

\* A list of deadlines is finite.
LEMMA FiniteList ==
    ASSUME NEW l \in Seq(Stamps), NEW I \in SUBSET DOMAIN l
    PROVE  IsFiniteSet(I) /\ I \in SUBSET Int
<1>1. DOMAIN l = 1 .. Len(l) /\ Len(l) \in Nat
  OBVIOUS
<1>2. IsFiniteSet(DOMAIN l)
  BY <1>1, FS_Interval
<1> QED
  BY <1>1, <1>2, FS_Subset

\* The cycles of finitely many deadlines have a greatest, the hosts a least.
LEMMA MaxCycle ==
    ASSUME NEW l \in Seq(Stamps), NEW L \in SUBSET Range(l), L # {}
    PROVE  Max({d.cycle : d \in L}) \in Int
<1> DEFINE I == {i \in DOMAIN l : l[i] \in L}
           f == [i \in I |-> l[i].cycle]
           C == {d.cycle : d \in L}
<1>1. IsFiniteSet(I)
  BY FiniteList
<1>2. \A i \in I : l[i] \in L /\ l[i].cycle \in Int
  BY DEF Stamps
<1>3. \A d \in L : \E i \in I : l[i] = d
  BY DEF Range
<1> HIDE DEF I
<1>4. f \in Surjection(I, C)
  BY <1>2, <1>3 DEF Surjection
<1>5. IsFiniteSet(C)
  BY <1>1, <1>4, FS_Surjection
<1>6. C \in SUBSET Int /\ C # {}
  BY <1>2, <1>3
<1>7. \E x \in C : \A y \in C : x >= y
  BY <1>5, <1>6, GreatestElement
<1>8. Max(C) \in C
  BY <1>7 DEF Max
<1> QED
  BY <1>6, <1>8

LEMMA MinHost ==
    ASSUME NEW l \in Seq(Stamps), NEW I \in SUBSET DOMAIN l, I # {}
    PROVE  Min({l[i].host : i \in I}) \in Int
<1> DEFINE f == [i \in I |-> l[i].host]
           C == {l[i].host : i \in I}
<1>1. IsFiniteSet(I)
  BY FiniteList
<1>2. \A i \in I : l[i].host \in Int
  BY DEF Stamps
<1>3. f \in Surjection(I, C)
  BY DEF Surjection
<1>4. IsFiniteSet(C)
  BY <1>1, <1>3, FS_Surjection
<1>5. C \in SUBSET Int /\ C # {}
  BY <1>2
<1>6. \E x \in C : \A y \in C : x <= y
  BY <1>4, <1>5, LeastElement
<1>7. Min(C) \in C
  BY <1>6 DEF Min
<1> QED
  BY <1>5, <1>7

\* GHPC_WALL_PACE skips cycles, for every deadline alike.
LEMMA StartPassLists ==
    ASSUME ListsOK, BlankOK, StartPass
    PROVE  ListsOK' /\ BlankOK' /\ (AlarmsOK => AlarmsOK')
<1> DEFINE late == {d \in Range(deadlines) : /\ d.type = "VBlankStart" /\ d.cycle > 0
                                             /\ d.host <= -WallSlack}
           skip == IF WallPace /\ late # {} THEN Max({d.cycle : d \in late}) ELSE 0
<1>1. /\ accountCycles(skip) /\ pc = "Pass" /\ pc' = "Due"
      /\ UNCHANGED <<due, until, alarms>>
  BY DEF StartPass, kernel
<1>2. deadlines \in Seq(Stamps) /\ late \in SUBSET Range(deadlines)
  BY DEF ListsOK
<1> HIDE DEF late
<1>3. skip \in Int
  BY <1>2, MaxCycle
<1>4. until' \in SUBSET [cycle : Int, host : Int]
  BY <1>1 DEF ListsOK
<1> HIDE DEF skip
<1> QED
  BY <1>1, <1>3, <1>4, ClockMoves

\* Going to sleep until a deadline of the list.
LEMMA StartPacingLists ==
    ASSUME ListsOK, BlankOK, StartPacing
    PROVE  ListsOK' /\ BlankOK' /\ (AlarmsOK => AlarmsOK')
<1>1. /\ pc = "Due" /\ pc' \in {"Swap", "PaceEnter"}
      /\ UNCHANGED <<deadlines, due, timer, alarms>>
      /\ CycleDue(deadlines) # {}
      /\ until' \in {{}, {[cycle |-> 0, host |-> PacingHost]}}
      /\ nextDeadline' \in {nextDeadline, updateNextDeadline(deadlines)}
  BY DEF StartPacing, kernel
<1>2. PacingHost \in Int
  <2>1. deadlines \in Seq(Stamps) /\ CycleDue(deadlines) \in SUBSET DOMAIN deadlines
    BY DEF ListsOK, CycleDue
  <2> QED
    BY <1>1, <2>1, MinHost DEF PacingHost
<1>3. until' \in SUBSET [cycle : Int, host : Int]
  BY <1>1, <1>2
<1>4. nextDeadline' = nextDeadline /\ timer' \in Nat
  BY <1>1 DEF ListsOK
<1> QED
  BY <1>1, <1>3, <1>4, QuietLists

LEMMA PaceWakeLists ==
    ASSUME ListsOK, BlankOK, PaceWake
    PROVE  ListsOK' /\ BlankOK' /\ (AlarmsOK => AlarmsOK')
<1>1. pc = "PaceSleep" /\ UNCHANGED <<timer, alarms>>
  BY DEF PaceWake, kernel
<1>2. timer' \in Nat /\ until \in SUBSET [cycle : Int, host : Int]
  BY <1>1 DEF ListsOK
<1>3. CASE takeDue /\ until' = {}
  BY <1>1, <1>2, <1>3, TakenLists
<1>4. CASE /\ pc' \in {"Swap", "PaceEnter"} /\ until' \in {{}, until}
           /\ nextDeadline' \in {nextDeadline, updateNextDeadline(deadlines)}
           /\ UNCHANGED <<deadlines, due>>
  <2>1. nextDeadline' = nextDeadline /\ until' \in SUBSET [cycle : Int, host : Int]
    BY <1>2, <1>4 DEF ListsOK
  <2> QED
    BY <1>1, <1>2, <1>4, <2>1, QuietLists
<1> QED
  BY <1>3, <1>4 DEF PaceWake

\* The search for due deadlines.
LEMMA DueLists ==
    ASSUME ListsOK, BlankOK, NothingDue \/ TakeDue
    PROVE  ListsOK' /\ BlankOK' /\ (AlarmsOK => AlarmsOK')
<1>1. timer \in Nat /\ until \in SUBSET [cycle : Int, host : Int]
  BY DEF ListsOK
<1>2. CASE NothingDue
  <2>1. /\ pc = "Due" /\ pc' = "Swap" /\ UNCHANGED <<deadlines, due, timer, until, alarms>>
        /\ nextDeadline' = nextDeadline
    BY <1>2 DEF NothingDue, ListsOK, kernel
  <2> QED
    BY <1>1, <2>1, QuietLists
<1>3. CASE TakeDue
  <2>1. pc = "Due" /\ takeDue /\ UNCHANGED <<timer, until, alarms>>
    BY <1>3 DEF TakeDue, kernel
  <2> QED
    BY <1>1, <2>1, TakenLists
<1> QED
  BY <1>2, <1>3

\* What an idle executor waits for.
LEMMA WaitForEventLists ==
    ASSUME ListsOK, BlankOK, WaitForEvent
    PROVE  ListsOK' /\ BlankOK' /\ (AlarmsOK => AlarmsOK')
<1>1. /\ pc = "Select" /\ pc' \in {"Loop", "WaitEnter"} /\ until' \in {until, FirstWait}
      /\ UNCHANGED <<deadlines, due, nextDeadline, timer, alarms>>
  BY DEF WaitForEvent, kernel
<1>2. timer \in Nat /\ until \in SUBSET [cycle : Int, host : Int] /\ deadlines \in Seq(Stamps)
  BY DEF ListsOK
<1>3. FirstWait \in SUBSET [cycle : Int, host : Int]
  <2>1. \A i \in DOMAIN deadlines : deadlines[i].cycle \in Int /\ deadlines[i].host \in Int
    BY <1>2 DEF Stamps
  <2> QED
    BY <1>2, <2>1 DEF FirstWait
<1>4. until' \in SUBSET [cycle : Int, host : Int] /\ timer' \in Nat
  BY <1>1, <1>2, <1>3
<1> QED
  BY <1>1, <1>4, QuietLists

LEMMA WaitWakeLists ==
    ASSUME ListsOK, BlankOK, WaitWake
    PROVE  ListsOK' /\ BlankOK' /\ (AlarmsOK => AlarmsOK')
<1>1. /\ pc = "WaitSleep" /\ pc' \in {"Loop", "WaitEnter"} /\ UNCHANGED <<due, alarms>>
      /\ timer \in Nat /\ until \in SUBSET [cycle : Int, host : Int]
  BY DEF WaitWake, ListsOK, kernel
<1>2. CASE until' \in {{}, until} /\ UNCHANGED <<deadlines, nextDeadline, timer>>
  <2>1. until' \in SUBSET [cycle : Int, host : Int]
    BY <1>1, <1>2
  <2> QED
    BY <1>1, <1>2, <2>1, QuietLists
<1>3. CASE until' = {} /\ \E u \in until : accountCycles(Max({u.cycle, 0}))
  <2>1. PICK u \in until : accountCycles(Max({u.cycle, 0}))
    BY <1>3
  <2>2. u.cycle \in Int
    BY <1>1
  <2>3. Max({u.cycle, 0}) \in Int
    <3>1. \E x \in {u.cycle, 0} : \A y \in {u.cycle, 0} : x >= y
      BY <2>2
    <3> QED
      BY <2>2, <3>1 DEF Max
  <2> DEFINE c == Max({u.cycle, 0})
  <2> HIDE DEF c
  <2>4. c \in Int /\ accountCycles(c)
    BY <2>1, <2>3 DEF c
  <2> QED
    BY <1>1, <1>3, <2>4, ClockMoves
<1> QED
  BY <1>2, <1>3 DEF WaitWake

\* Guest code that does not yield at a checkpoint has every deadline before it.
LEMMA CheckpointLists ==
    ASSUME ListsOK, BlankOK, NEW c \in Nat, NEW yields \in BOOLEAN, checkpointDue(c, yields),
           pc \in {"Dispatch", "Guest"}, pc' \in {"Loop", "Pass", "Guest"},
           yields => pc' # "Guest"
    PROVE  ListsOK' /\ BlankOK' /\ (AlarmsOK => AlarmsOK')
<1>1. accountCycles(c) /\ UNCHANGED <<due, until, alarms>>
  BY DEF checkpointDue
<1>2. \A n \in nextDeadline : n \in Int
  BY NearestDeadline DEF ListsOK
<1>3. pc' = "Guest" => \A n \in nextDeadline : n > c
  <2>1. ~yields => ~MustYield(c)
    BY DEF checkpointDue
  <2> QED
    BY <1>2, <2>1 DEF MustYield
<1>4. c \in Int /\ until' \in SUBSET [cycle : Int, host : Int]
  BY <1>1 DEF ListsOK
<1> QED
  BY <1>1, <1>3, <1>4, ClockMoves

LEMMA GuestTimeLists ==
    ASSUME ListsOK, BlankOK, Dispatch \/ GuestCheckpoint
    PROVE  ListsOK' /\ BlankOK' /\ (AlarmsOK => AlarmsOK')
<1>1. DispatchCycles \in Nat /\ BlockCycles \in Nat
  BY ConstantsTyped
<1>2. CASE Dispatch
  <2>1. PICK yields \in BOOLEAN : /\ pc = "Dispatch" /\ checkpointDue(DispatchCycles, yields)
                                  /\ pc' = IF yields THEN "Loop" ELSE "Guest"
    BY <1>2 DEF Dispatch
  <2>2. pc' \in {"Loop", "Pass", "Guest"} /\ (yields => pc' # "Guest")
    BY <2>1
  <2> QED
    BY <1>1, <2>1, <2>2, CheckpointLists
<1>3. CASE GuestCheckpoint
  <2>1. PICK yields \in BOOLEAN :
          /\ pc = "Guest" /\ checkpointDue(BlockCycles, yields)
          /\ IF yields THEN pc' = "Pass" /\ after' = TRUE ELSE UNCHANGED <<pc, after>>
    BY <1>3 DEF GuestCheckpoint
  <2>2. pc' \in {"Loop", "Pass", "Guest"} /\ (yields => pc' # "Guest")
    BY <2>1
  <2> QED
    BY <1>1, <2>1, <2>2, CheckpointLists
<1> QED
  BY <1>2, <1>3

\* Every other step of the executor leaves the lists as they are.
LEMMA OtherExecutorLists ==
    ASSUME ListsOK, BlankOK,
           \/ LoopHead \/ StopSeen \/ PaceSleep \/ TakeEvents \/ HandleEvent \/ EventsHandled
           \/ EndPass \/ Select \/ WaitSleep \/ StartHandler
    PROVE  ListsOK' /\ BlankOK' /\ (AlarmsOK => AlarmsOK')
<1>1. /\ UNCHANGED <<deadlines, due, nextDeadline, timer, until, alarms>>
      /\ pc \notin {"Reset", "Process"} /\ pc' \notin {"Reset", "Guest"}
  <2>1. CASE LoopHead \/ StopSeen \/ PaceSleep \/ WaitSleep \/ StartHandler
    BY <2>1 DEF LoopHead, StopSeen, PaceSleep, WaitSleep, StartHandler, clock, kernel
  <2>2. CASE TakeEvents \/ HandleEvent \/ EventsHandled
    BY <2>2 DEF TakeEvents, HandleEvent, EventsHandled, clock, kernel
  <2>3. CASE EndPass \/ Select
    BY <2>3 DEF EndPass, Select, clock, kernel
  <2> QED
    BY <2>1, <2>2, <2>3
<1>2. timer' \in Nat /\ until' \in SUBSET [cycle : Int, host : Int]
  BY <1>1 DEF ListsOK
<1> QED
  BY <1>1, <1>2, QuietLists

\* And so do the other kernel calls of guest code.
LEMMA OtherGuestLists ==
    ASSUME ListsOK, BlankOK,
           \/ GuestReturns \/ WaitVSync \/ WaitExternal
           \/ \E ticks \in TimerTicks : SetTimer(ticks)
    PROVE  ListsOK' /\ BlankOK' /\ (AlarmsOK => AlarmsOK')
<1>1. /\ UNCHANGED <<deadlines, due, nextDeadline, until, alarms>>
      /\ timer' \in {timer} \cup TimerTicks
      /\ pc = "Guest" /\ pc' \in {"Guest", "Pass"}
  <2>1. CASE GuestReturns
    BY <2>1 DEF GuestReturns, clock
  <2>2. CASE WaitVSync \/ WaitExternal
    BY <2>2 DEF WaitVSync, WaitExternal, Block, clock
  <2>3. CASE \E ticks \in TimerTicks : SetTimer(ticks)
    BY <2>3 DEF SetTimer, kernel
  <2> QED
    BY <2>1, <2>2, <2>3
<1>2. timer' \in Nat /\ until' \in SUBSET [cycle : Int, host : Int]
  BY <1>1, ConstantsTyped DEF ListsOK
<1> QED
  BY <1>1, <1>2, QuietLists

\* Host threads leave them alone.
LEMMA HostLists ==
    ASSUME ListsOK, BlankOK, Hosts
    PROVE  ListsOK' /\ BlankOK' /\ (AlarmsOK => AlarmsOK')
<1>1. UNCHANGED <<pc, deadlines, due, nextDeadline, timer, until, alarms>>
  <2>1. CASE RequestStop \/ RaiseForStop \/ NotifyStop
    BY <2>1 DEF RequestStop, RaiseForStop, NotifyStop, clock, kernel
  <2>2. CASE (\E token \in Tokens : PostEvent(token)) \/ NotifyPost
    BY <2>2 DEF PostEvent, NotifyPost, clock, kernel
  <2> QED
    BY <2>1, <2>2 DEF Hosts
<1>2. timer' \in Nat /\ until' \in SUBSET [cycle : Int, host : Int]
  BY <1>1 DEF ListsOK
<1> QED
  BY <1>1, <1>2, QuietLists

\* Every step keeps the lists, the chain of vertical blanks and the alarms in order.
LEMMA NextLists ==
    ASSUME ListsOK, BlankOK, [Next]_vars
    PROVE  ListsOK' /\ BlankOK' /\ (AlarmsOK => AlarmsOK')
<1>1. CASE Executor
  BY <1>1, ResetLists, StartPassLists, DueLists, StartPacingLists, PaceWakeLists,
     VBlankStartLists, VBlankEndLists, AlarmLists, WaitForEventLists, WaitWakeLists,
     GuestTimeLists, OtherExecutorLists DEF Executor
<1>2. CASE Guest
  BY <1>2, GuestTimeLists, SetAlarmLists, CancelAlarmLists, OtherGuestLists DEF Guest
<1>3. CASE UNCHANGED vars
  <2>1. UNCHANGED <<pc, deadlines, due, nextDeadline, timer, until, alarms>>
    BY <1>3 DEF vars, clock, kernel
  <2>2. timer' \in Nat /\ until' \in SUBSET [cycle : Int, host : Int]
    BY <2>1 DEF ListsOK
  <2> QED
    BY <2>1, <2>2, QuietLists
<1> QED
  BY <1>1, <1>2, <1>3, HostLists, TickLists DEF Next, Finished

\* They are in order before the scheduler is reset.
LEMMA InitLists == Init => ListsOK /\ BlankOK /\ AlarmsOK
<1> SUFFICES ASSUME Init
             PROVE  ListsOK /\ BlankOK /\ AlarmsOK
  OBVIOUS
<1>1. /\ pc = "Reset" /\ deadlines = <<>> /\ due = <<>> /\ nextDeadline = {} /\ until = {}
      /\ alarms = {} /\ timer = 0
  BY DEF Init
<1>2. <<>> \in Seq(Stamps) /\ DOMAIN <<>> = {}
  BY EmptySeq
<1>3. ListsOK
  BY <1>1, <1>2 DEF ListsOK, updateNextDeadline
<1>4. \A type, id : /\ ~Holds(deadlines, type, id) /\ ~Holds(due, type, id)
                    /\ Once(deadlines, type, id) /\ Once(due, type, id)
  BY <1>1, <1>2 DEF Holds, Once
<1> QED
  BY <1>1, <1>3, <1>4 DEF BlankOK, AlarmsOK, Single

\* Deadlines, clock, alarms and the executor's place always agree.
LEMMA DeadlinesAgree == Spec => [](ListsOK /\ BlankOK /\ AlarmsOK)
<1>1. Init => ListsOK /\ BlankOK /\ AlarmsOK
  BY InitLists
<1>2. (ListsOK /\ BlankOK /\ AlarmsOK) /\ [Next]_vars => (ListsOK /\ BlankOK /\ AlarmsOK)'
  BY NextLists
<1> QED
  BY <1>1, <1>2, PTL DEF Spec

\* Guest code never runs on past a deadline of its own clock: the cached cycle that a
\* checkpoint compares with is that of the nearest deadline of the list, whatever is
\* set, cancelled, processed or skipped in between.
THEOREM GuestRunsOnTimeHolds == Spec => []GuestRunsOnTime
<1>1. ListsOK => GuestRunsOnTime
  BY DEF ListsOK, GuestRunsOnTime
<1> QED
  BY <1>1, DeadlinesAgree, PTL

\* The places of a list that hold a type, when there is at most one per id.
LEMMA OnePlace ==
    ASSUME NEW l \in Seq(Stamps), NEW type \in DeadlineTypes \ {"Alarm"}, Once(l, type, 0)
    PROVE  /\ Holds(l, type, 0) => Cardinality({i \in DOMAIN l : l[i].type = type}) = 1
           /\ ~Holds(l, type, 0) => Cardinality({i \in DOMAIN l : l[i].type = type}) = 0
<1> DEFINE I == {i \in DOMAIN l : l[i].type = type}
<1>1. \A i \in DOMAIN l : l[i].type = type => l[i].id = 0
  BY DEF Stamps
<1>2. ASSUME Holds(l, type, 0)
      PROVE  Cardinality(I) = 1
  <2>1. PICK i \in DOMAIN l : l[i].type = type
    BY <1>2 DEF Holds
  <2>2. I = {i}
    BY <1>1, <2>1 DEF Once
  <2> QED
    BY <2>2, FS_Singleton
<1>3. ASSUME ~Holds(l, type, 0)
      PROVE  Cardinality(I) = 0
  <2>1. I = {}
    BY <1>1, <1>3 DEF Holds
  <2> QED
    BY <2>1, FS_EmptySet
<1> QED
  BY <1>2, <1>3

\* BlankOK, counted.
LEMMA OneBlank == ListsOK /\ BlankOK => OneVBlankScheduled
<1> SUFFICES ASSUME ListsOK, BlankOK, pc # "Reset"
             PROVE  Cardinality(Scheduled("VBlankStart")) + Cardinality(TakenDue("VBlankStart")) = 1
  BY DEF OneVBlankScheduled
<1>1. deadlines \in Seq(Stamps) /\ due \in Seq(Stamps)
  BY DEF ListsOK
<1>2. "VBlankStart" \in DeadlineTypes \ {"Alarm"}
  BY DEF DeadlineTypes
<1>3. Once(deadlines, "VBlankStart", 0) /\ Once(due, "VBlankStart", 0)
  BY DEF BlankOK, Single
<1>4. /\ Holds(deadlines, "VBlankStart", 0) => Cardinality(Scheduled("VBlankStart")) = 1
      /\ ~Holds(deadlines, "VBlankStart", 0) => Cardinality(Scheduled("VBlankStart")) = 0
      /\ Holds(due, "VBlankStart", 0) => Cardinality(TakenDue("VBlankStart")) = 1
      /\ ~Holds(due, "VBlankStart", 0) => Cardinality(TakenDue("VBlankStart")) = 0
  BY <1>1, <1>2, <1>3, OnePlace DEF Scheduled, TakenDue
<1>5. \/ Holds(deadlines, "VBlankStart", 0) /\ ~Holds(due, "VBlankStart", 0)
      \/ ~Holds(deadlines, "VBlankStart", 0) /\ Holds(due, "VBlankStart", 0)
  BY DEF BlankOK, Single
<1> QED
  BY <1>4, <1>5

\* Once the scheduler is reset there is exactly one VBlankStart to come, scheduled or
\* being processed: each one schedules the next before it is forgotten, and no other
\* step adds or drops one.  VBlankEnd, which is scheduled at the same time, is not
\* counted.
THEOREM OneVBlankScheduledHolds == Spec => []OneVBlankScheduled
BY DeadlinesAgree, OneBlank, PTL

\* The alarms a list names are as many as its alarm deadlines.
LEMMA AlarmPlaces ==
    ASSUME NEW l \in Seq(Stamps), \A id \in AlarmIds : Once(l, "Alarm", id)
    PROVE  LET I == {i \in DOMAIN l : l[i].type = "Alarm"}
               N == {l[i].id : i \in I}
           IN  /\ IsFiniteSet(N) /\ Cardinality(N) = Cardinality(I)
               /\ \A id : id \in N <=> Holds(l, "Alarm", id)
               /\ N \in SUBSET AlarmIds
<1> DEFINE I == {i \in DOMAIN l : l[i].type = "Alarm"}
           N == {l[i].id : i \in I}
           f == [i \in I |-> l[i].id]
<1>1. IsFiniteSet(I)
  BY FiniteList
<1>2. \A i \in I : l[i].id \in AlarmIds
  BY DEF Stamps
<1>3. f \in Bijection(I, N)
  <2>1. \A i, j \in I : f[i] = f[j] => i = j
    BY <1>2 DEF Once
  <2>2. f \in Surjection(I, N)
    BY DEF Surjection
  <2>3. f \in Injection(I, N)
    BY <2>1, <2>2 DEF Injection, Surjection, IsInjective
  <2> QED
    BY <2>2, <2>3 DEF Bijection
<1> HIDE DEF I, N, f
<1>4. IsFiniteSet(N) /\ Cardinality(N) = Cardinality(I)
  BY <1>1, <1>3, FS_Bijection DEF ExistsBijection
<1> USE DEF I, N
<1>5. \A id : id \in N <=> Holds(l, "Alarm", id)
  BY DEF Holds
<1> QED
  BY <1>2, <1>4, <1>5

\* AlarmsOK, counted.
LEMMA AlarmsCounted == ListsOK /\ AlarmsOK => AlarmsHaveDeadlines
<1> SUFFICES ASSUME ListsOK, AlarmsOK
             PROVE  AlarmsHaveDeadlines
  OBVIOUS
<1> DEFINE N == {deadlines[i].id : i \in Scheduled("Alarm")}
           M == {due[i].id : i \in TakenDue("Alarm")}
<1>1. deadlines \in Seq(Stamps) /\ due \in Seq(Stamps)
  BY DEF ListsOK
<1>2. \A id \in AlarmIds : Once(deadlines, "Alarm", id) /\ Once(due, "Alarm", id)
  BY DEF AlarmsOK, Single
<1>3. /\ IsFiniteSet(N) /\ Cardinality(N) = Cardinality(Scheduled("Alarm"))
      /\ \A id : id \in N <=> Holds(deadlines, "Alarm", id)
      /\ N \in SUBSET AlarmIds
  BY <1>1, <1>2, AlarmPlaces DEF Scheduled
<1>4. /\ IsFiniteSet(M) /\ Cardinality(M) = Cardinality(TakenDue("Alarm"))
      /\ \A id : id \in M <=> Holds(due, "Alarm", id)
      /\ M \in SUBSET AlarmIds
  BY <1>1, <1>2, AlarmPlaces DEF TakenDue
<1>5. {d.id : d \in {d \in Range(deadlines) \cup Range(due) : d.type = "Alarm"}} = N \cup M
  BY DEF Range, Scheduled, TakenDue
<1> HIDE DEF N, M
<1>6. alarms = N \cup M /\ N \cap M = {}
  BY <1>3, <1>4 DEF AlarmsOK, Single
<1>7. Cardinality(N \cup M) = Cardinality(N) + Cardinality(M)
  <2>1. Cardinality(N \cup M) = Cardinality(N) + Cardinality(M) - Cardinality(N \cap M)
    BY <1>3, <1>4, FS_Union
  <2>2. Cardinality(N) \in Nat /\ Cardinality(M) \in Nat /\ Cardinality({}) = 0
    BY <1>3, <1>4, FS_CardinalityType, FS_EmptySet
  <2>3. Cardinality(N \cap M) = 0
    BY <1>6, <2>2
  <2> QED
    BY <2>1, <2>2, <2>3
<1> QED
  BY <1>3, <1>4, <1>5, <1>6, <1>7 DEF AlarmsHaveDeadlines

\* The alarms are exactly those with a deadline, one each: an alarm that is cancelled
\* takes its deadline along, so an id that is given again never fires early.
THEOREM AlarmsHaveDeadlinesHolds == Spec => []AlarmsHaveDeadlines
BY DeadlinesAgree, AlarmsCounted, PTL

--------------------------------------------------------------------------------
(* Type correctness *)

\* The executor's place, and what the threads wait for: the current thread for nothing.
ThreadsOK ==
    /\ pc \in {"Reset", "Loop", "Pass", "Due", "PaceEnter", "PaceSleep", "Process",
               "Swap", "Handle", "Raise", "Lower", "Select", "WaitEnter",
               "WaitSleep", "Dispatch", "Guest", "Ended"}
    /\ waits \in [Threads -> Waits]
    /\ current \in Threads \cup {Dispatcher, None}
    /\ current \in Threads => waits[current] = NoWait
    /\ pc \in {"Dispatch", "Guest"} => current # None

\* The host threads and the flags.
FlagsOK ==
    /\ stopper \in {"Idle", "Stored", "Notify", "Done"}
    /\ after \in BOOLEAN /\ stop \in BOOLEAN /\ timerPending \in BOOLEAN
    /\ invoked \in BOOLEAN
    /\ notifies \in 0 .. MaxPosts /\ posts \in 0 .. MaxPosts
    /\ nextAlarm \in AlarmIds

\* A step of the executor that wakes and blocks nobody.
LEMMA SameThreads ==
    ASSUME ThreadsOK, UNCHANGED waits,
           current' \in {current, None},
           pc' \in {"Loop", "Pass", "Due", "PaceEnter", "PaceSleep", "Process", "Swap",
                   "Handle", "Raise", "Lower", "Select", "WaitEnter", "WaitSleep", "Ended"}
    PROVE  ThreadsOK'
BY ConstantsAssumption DEF ThreadsOK

LEMMA PassThreads ==
    ASSUME ThreadsOK,
           \/ Reset \/ LoopHead \/ StopSeen \/ StartPass \/ NothingDue \/ TakeDue \/ StartPacing
           \/ PaceSleep \/ PaceWake \/ VBlankEnd \/ Alarm \/ TakeEvents \/ EventsHandled
           \/ EndPass \/ WaitForEvent \/ WaitSleep \/ WaitWake \/ StartHandler
    PROVE  ThreadsOK'
<1>1. CASE Reset \/ LoopHead \/ StopSeen \/ StartPass \/ NothingDue
  BY <1>1, SameThreads DEF Reset, LoopHead, StopSeen, StartPass, NothingDue, kernel
<1>2. CASE TakeDue \/ StartPacing \/ PaceSleep \/ PaceWake
  BY <1>2, SameThreads DEF TakeDue, takeDue, StartPacing, PaceSleep, PaceWake, kernel
<1>3. CASE VBlankEnd
  BY <1>3, SameThreads DEF VBlankEnd, ProcessNext
<1>4. CASE Alarm
  BY <1>4, SameThreads DEF Alarm, ProcessNext
<1>5. CASE TakeEvents \/ EventsHandled \/ EndPass
  BY <1>5, SameThreads DEF TakeEvents, EventsHandled, EndPass, kernel
<1>6. CASE WaitForEvent \/ WaitSleep \/ WaitWake \/ StartHandler
  BY <1>6, SameThreads DEF WaitForEvent, WaitSleep, WaitWake, StartHandler, kernel
<1> QED
  BY <1>1, <1>2, <1>3, <1>4, <1>5, <1>6

\* Waking threads leaves the current one as it is: it waits for nothing.
LEMMA VBlankThreads ==
    ASSUME ThreadsOK, VBlankStart
    PROVE  ThreadsOK'
<1>1. pc' \in {"Due", "Process"} /\ UNCHANGED current /\ completeVSync
  BY DEF VBlankStart, ProcessNext
<1>2. ASSUME NEW t \in Threads
      PROVE  /\ waits'[t] \in Waits
             /\ waits[t] = NoWait => waits'[t] = NoWait
  <2>1. waits'[t] = IF waits[t].reason = "VSync"
                    THEN IF waits[t].left = 0 THEN NoWait ELSE VSyncWait(waits[t].left - 1)
                    ELSE waits[t]
    BY <1>1 DEF completeVSync
  <2>2. waits[t] \in Waits
    BY DEF ThreadsOK
  <2>3. CASE waits[t] = NoWait
    BY <2>1, <2>3 DEF NoWait, Waits
  <2>4. CASE \E n \in 0 .. MaxWait : waits[t] = VSyncWait(n)
    <3>1. PICK n \in 0 .. MaxWait : waits[t] = VSyncWait(n)
      BY <2>4
    <3>2. waits[t].reason = "VSync" /\ waits[t].left = n
      BY <3>1 DEF VSyncWait
    <3>3. n # 0 => n - 1 \in 0 .. MaxWait
      BY ConstantsAssumption
    <3>4. waits'[t] = NoWait \/ (n # 0 /\ waits'[t] = VSyncWait(n - 1))
      BY <2>1, <3>2
    <3>5. waits[t] # NoWait
      BY <3>2 DEF NoWait
    <3> QED
      BY <3>3, <3>4, <3>5 DEF Waits
  <2>5. CASE \E tok \in Tokens : waits[t] = ExternalWait(tok)
    <3>1. waits[t].reason = "External"
      BY <2>5 DEF ExternalWait
    <3>2. waits'[t] = waits[t]
      BY <2>1, <3>1
    <3> QED
      BY <2>2, <3>2
  <2> QED
    BY <2>2, <2>3, <2>4, <2>5 DEF Waits
<1>3. waits' \in [Threads -> Waits]
  BY <1>1, <1>2 DEF completeVSync
<1> QED
  BY <1>1, <1>2, <1>3 DEF ThreadsOK

\* completeExternalWait(), for an event or from guest code.
LEMMA WokenThreads ==
    ASSUME ThreadsOK, UNCHANGED <<pc, current>>, NEW token,
           waits' = [t \in Threads |-> IF waits[t] = ExternalWait(token) THEN NoWait ELSE waits[t]]
    PROVE  ThreadsOK'
<1>1. NoWait \in Waits
  BY DEF Waits
<1>2. waits' \in [Threads -> Waits]
  BY <1>1 DEF ThreadsOK
<1>3. current \in Threads => waits'[current] = NoWait
  BY DEF ThreadsOK
<1> QED
  BY <1>2, <1>3 DEF ThreadsOK

LEMMA HandleThreads == ThreadsOK /\ HandleEvent => ThreadsOK'
<1> SUFFICES ASSUME ThreadsOK, HandleEvent
             PROVE  ThreadsOK'
  OBVIOUS
<1>1. /\ UNCHANGED <<pc, current>>
      /\ waits' = [t \in Threads |->
                     IF waits[t] = ExternalWait(Head(pending)) THEN NoWait ELSE waits[t]]
  BY DEF HandleEvent
<1> QED
  BY <1>1, WokenThreads

\* Only a thread that waits for nothing is chosen.
LEMMA SelectThreads == ThreadsOK /\ Select => ThreadsOK'
<1> SUFFICES ASSUME ThreadsOK, Select
             PROVE  ThreadsOK'
  OBVIOUS
<1>1. pc' = "Dispatch" /\ UNCHANGED waits
  BY DEF Select
<1>2. \/ current # None /\ current' = current
      \/ current' \in Threads /\ waits[current'] = NoWait
      \/ current' = Dispatcher
  BY DEF Select, Ready
<1>3. None \notin Threads /\ Dispatcher \notin Threads /\ None # Dispatcher
  BY ConstantsAssumption
<1> QED
  BY <1>1, <1>2, <1>3 DEF ThreadsOK

\* Guest code runs on, or blocks the thread it runs on.
LEMMA GuestThreads ==
    ASSUME ThreadsOK,
           \/ Dispatch \/ GuestCheckpoint \/ GuestReturns \/ WaitVSync \/ WaitExternal
           \/ \E ticks \in AlarmTicks : SetAlarm(ticks)
           \/ \E id \in AlarmIds : CancelAlarm(id)
           \/ \E ticks \in TimerTicks : SetTimer(ticks)
    PROVE  ThreadsOK'
<1>1. CASE Dispatch
  <2>1. pc = "Dispatch" /\ pc' \in {"Loop", "Guest"} /\ UNCHANGED <<waits, current>>
    BY <1>1 DEF Dispatch, checkpointDue
  <2> QED
    BY <2>1 DEF ThreadsOK
<1>2. CASE GuestCheckpoint
  <2>1. pc = "Guest" /\ pc' \in {"Pass", "Guest"} /\ UNCHANGED <<waits, current>>
    BY <1>2 DEF GuestCheckpoint, checkpointDue
  <2> QED
    BY <2>1 DEF ThreadsOK
<1>3. CASE GuestReturns
  <2>1. pc' = "Pass" /\ current' \in {current, None} /\ UNCHANGED waits
    BY <1>3 DEF GuestReturns
  <2> QED
    BY <2>1, SameThreads
<1>4. ASSUME NEW wait \in Waits, Block(wait)
      PROVE  ThreadsOK'
  <2>1. /\ pc' = "Pass" /\ current \in Threads /\ current' = None
        /\ waits' = [waits EXCEPT ![current] = wait]
    BY <1>4 DEF Block
  <2>2. waits' \in [Threads -> Waits]
    BY <2>1, <1>4 DEF ThreadsOK
  <2>3. None \notin Threads
    BY ConstantsAssumption
  <2> QED
    BY <2>1, <2>2, <2>3 DEF ThreadsOK
<1>5. CASE WaitVSync \/ WaitExternal
  <2>1. /\ \A left \in 0 .. MaxWait : VSyncWait(left) \in Waits
        /\ \A token \in Tokens : ExternalWait(token) \in Waits
    BY DEF Waits
  <2> QED
    BY <1>4, <1>5, <2>1 DEF WaitVSync, WaitExternal
<1>6. CASE \/ \E ticks \in AlarmTicks : SetAlarm(ticks)
           \/ \E id \in AlarmIds : CancelAlarm(id)
           \/ \E ticks \in TimerTicks : SetTimer(ticks)
  <2>1. UNCHANGED <<pc, waits, current>>
    BY <1>6 DEF SetAlarm, CancelAlarm, SetTimer, kernel
  <2> QED
    BY <2>1 DEF ThreadsOK
<1> QED
  BY <1>1, <1>2, <1>3, <1>5, <1>6

LEMMA NextThreads ==
    ASSUME ThreadsOK, [Next]_vars
    PROVE  ThreadsOK'
<1>1. CASE Executor
  BY <1>1, PassThreads, VBlankThreads, HandleThreads, SelectThreads, GuestThreads DEF Executor
<1>2. CASE Guest
  BY <1>2, GuestThreads DEF Guest
<1>3. CASE Hosts \/ Tick \/ UNCHANGED vars
  <2>1. UNCHANGED <<pc, waits, current>>
    BY <1>3 DEF Hosts, RequestStop, RaiseForStop, NotifyStop, PostEvent, NotifyPost, Tick, vars,
       kernel
  <2> QED
    BY <2>1 DEF ThreadsOK
<1> QED
  BY <1>1, <1>2, <1>3 DEF Next, Finished

\* Flags stay flags; the bounds on posts and notifications are those of PostEvent.
LEMMA NextFlags ==
    ASSUME FlagsOK, [Next]_vars
    PROVE  FlagsOK'
<1> USE DEF FlagsOK
<1>1. CASE Reset \/ LoopHead \/ StopSeen
  BY <1>1 DEF Reset, LoopHead, StopSeen, hosts, flags, clock, kernel
<1>2. CASE StartPass
  BY <1>2 DEF StartPass, accountCycles, TimerFires, hosts, kernel
<1>3. CASE NothingDue \/ TakeDue \/ StartPacing
  BY <1>3 DEF NothingDue, TakeDue, StartPacing, hosts, flags, kernel
<1>4. CASE PaceSleep \/ PaceWake
  BY <1>4 DEF PaceSleep, PaceWake, hosts, flags, clock, kernel
<1>5. CASE VBlankStart
  <2>1. posts' = 0 /\ 0 \in 0 .. MaxPosts /\ invoked' \in {invoked, TRUE}
    <3>1. MaxPosts \in Nat
      BY ConstantsTyped
    <3>2. 0 \in 0 .. MaxPosts
      BY <3>1
    <3> QED
      BY <1>5, <3>2 DEF VBlankStart
  <2> QED
    BY <1>5, <2>1 DEF VBlankStart, flags
<1>6. CASE VBlankEnd
  BY <1>6 DEF VBlankEnd, hosts, flags
<1>7. CASE Alarm
  <2>1. invoked' \in BOOLEAN
    BY <1>7 DEF Alarm
  <2> QED
    BY <1>7, <2>1 DEF Alarm, hosts, flags
<1>8. CASE TakeEvents
  <2>1. invoked' \in BOOLEAN
    BY <1>8 DEF TakeEvents
  <2> QED
    BY <1>8, <2>1 DEF TakeEvents, hosts, flags
<1>9. CASE HandleEvent \/ EventsHandled \/ EndPass
  BY <1>9 DEF HandleEvent, EventsHandled, EndPass, hosts, flags, clock, kernel
<1>10. CASE Select
  BY <1>10 DEF Select, hosts, flags, clock
<1>11. CASE WaitForEvent \/ WaitSleep
  BY <1>11 DEF WaitForEvent, WaitSleep, hosts, flags, clock, kernel
<1>12. CASE WaitWake
  <2>1. timerPending' \in BOOLEAN
    BY <1>12 DEF WaitWake, accountCycles, TimerFires
  <2> QED
    BY <1>12, <2>1 DEF WaitWake, hosts, kernel
<1>13. CASE StartHandler
  BY <1>13 DEF StartHandler, hosts, flags, clock
<1>14. CASE Dispatch
  BY <1>14 DEF Dispatch, checkpointDue, accountCycles, TimerFires, hosts
<1>15. CASE GuestCheckpoint
  <2>1. timerPending' \in BOOLEAN /\ after' \in BOOLEAN
    BY <1>15 DEF GuestCheckpoint, checkpointDue, accountCycles, TimerFires
  <2> QED
    BY <1>15, <2>1 DEF GuestCheckpoint, checkpointDue, hosts
<1>16. CASE GuestReturns \/ WaitVSync \/ WaitExternal
  BY <1>16 DEF GuestReturns, WaitVSync, WaitExternal, Block, hosts, flags, clock
<1>17. ASSUME NEW ticks \in AlarmTicks, SetAlarm(ticks)
       PROVE  FlagsOK'
  <2>1. PICK id \in FreeAlarm : nextAlarm' = (id % Cardinality(AlarmIds)) + 1
    BY <1>17 DEF SetAlarm
  <2>2. id \in AlarmIds
    BY DEF FreeAlarm
  <2> DEFINE N == Cardinality(AlarmIds)
  <2>3. N \in Nat /\ AlarmIds = 1 .. N /\ 1 \in AlarmIds
    BY ConstantsAssumption, ConstantsTyped, FS_CardinalityType
  <2> HIDE DEF N
  <2>4. id \in Nat /\ N \in Nat \ {0}
    BY <2>2, <2>3
  <2>5. id % N \in Nat /\ id % N < N
    BY <2>4
  <2>6. (id % N) + 1 \in AlarmIds
    BY <2>3, <2>5
  <2> QED
    BY <1>17, <2>1, <2>6 DEF SetAlarm, N, hosts, flags
<1>18. CASE \E id \in AlarmIds : CancelAlarm(id)
  BY <1>18 DEF CancelAlarm, hosts, flags
<1>19. CASE \E ticks \in TimerTicks : SetTimer(ticks)
  BY <1>19 DEF SetTimer, hosts, flags, kernel
<1>20. CASE Hosts
  <2>1. CASE RequestStop \/ RaiseForStop \/ NotifyStop
    BY <2>1 DEF RequestStop, RaiseForStop, NotifyStop, clock, kernel
  <2>2. ASSUME NEW token \in Tokens, PostEvent(token)
        PROVE  FlagsOK'
    <3>1. notifies + 1 \in 0 .. MaxPosts /\ posts + 1 \in 0 .. MaxPosts
      BY <2>2, ConstantsAssumption DEF PostEvent
    <3> QED
      BY <2>2, <3>1 DEF PostEvent, clock, kernel
  <2>3. CASE NotifyPost
    <3>1. notifies - 1 \in 0 .. MaxPosts
      BY <2>3, ConstantsAssumption DEF NotifyPost
    <3> QED
      BY <2>3, <3>1 DEF NotifyPost, clock, kernel
  <2> QED
    BY <1>20, <2>1, <2>2, <2>3 DEF Hosts
<1>21. CASE Tick \/ UNCHANGED vars
  BY <1>21 DEF Tick, vars, hosts, flags, clock, kernel
<1> QED
  BY <1>1, <1>2, <1>3, <1>4, <1>5, <1>6, <1>7, <1>8, <1>9, <1>10, <1>11, <1>12, <1>13, <1>14,
     <1>15, <1>16, <1>17, <1>18, <1>19, <1>20, <1>21 DEF Next, Executor, Guest, Finished

\* Every variable has its type, in every reachable state.
THEOREM TypeCorrect == Spec => []TypeOK
<1> DEFINE IInv == EventsOK /\ ListsOK /\ BlankOK /\ AlarmsOK /\ ThreadsOK /\ FlagsOK
<1>1. Init => IInv
  <2>1. Init => ThreadsOK
    <3> SUFFICES ASSUME Init PROVE ThreadsOK
      OBVIOUS
    <3>1. waits \in [Threads -> Waits]
      BY DEF Init, Waits
    <3>2. None \notin Threads
      BY ConstantsAssumption
    <3> QED
      BY <3>1, <3>2 DEF Init, ThreadsOK
  <2>2. Init => FlagsOK
    <3>1. MaxPosts \in Nat /\ 1 \in AlarmIds
      BY ConstantsTyped
    <3>2. 0 \in 0 .. MaxPosts
      BY <3>1
    <3> QED
      BY <3>1, <3>2 DEF Init, FlagsOK
  <2> QED
    BY <2>1, <2>2, InitStep, InitLists
<1>2. IInv /\ [Next]_vars => IInv'
  BY NextStep, NextLists, NextThreads, NextFlags
<1>3. IInv => TypeOK
  <2> SUFFICES ASSUME IInv PROVE TypeOK
    OBVIOUS
  <2>1. \A d \in Range(deadlines) \cup Range(due) :
          /\ d.type \in DeadlineTypes /\ d.cycle \in Int
          /\ d.id \in IF d.type = "Alarm" THEN AlarmIds ELSE {0}
          /\ d.host \in Int /\ d.host >= -Lag
    <3>1. \A d \in Range(deadlines) \cup Range(due) : d \in Stamps
      BY DEF ListsOK, Range
    <3> QED
      BY <3>1 DEF Stamps
  <2>2. Cardinality(nextDeadline) <= 1
    <3>1. \A m, n \in nextDeadline : m = n
      BY NearestDeadline DEF ListsOK
    <3>2. CASE nextDeadline = {}
      BY <3>2, FS_EmptySet
    <3>3. CASE nextDeadline # {}
      <4>1. PICK n \in nextDeadline : TRUE
        BY <3>3
      <4>2. nextDeadline = {n}
        BY <3>1
      <4>3. Cardinality({n}) = 1
        BY FS_Singleton
      <4> QED
        BY <4>2, <4>3
    <3> QED
      BY <3>2, <3>3
  <2>3. alarms \subseteq AlarmIds /\ timer \in Nat
    BY DEF AlarmsOK, ListsOK
  <2>4. {after, stop, checkpoint, woken, timerPending, invoked} \subseteq BOOLEAN
    BY DEF FlagsOK, EventsOK
  <2>5. events \in Seq(Tokens) /\ pending \in Seq(Tokens)
    BY DEF EventsOK
  <2> QED
    BY <2>1, <2>2, <2>3, <2>4, <2>5 DEF TypeOK, ThreadsOK, FlagsOK
<1> QED
  BY <1>1, <1>2, <1>3, PTL DEF Spec

================================================================================

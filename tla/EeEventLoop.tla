------------------------------ MODULE EeEventLoop ------------------------------
(***************************************************************************)
(* The event side of EeScheduler.cpp: the executor runs guest code and     *)
(* looks for events at checkpoints; host threads post events and request   *)
(* the stop; deadlines (vertical blanks and alarms) come due when both     *)
(* their guest cycle and their host time have passed; and the executor     *)
(* sleeps on a condition variable when it has to wait for either.          *)
(*                                                                         *)
(* Two clocks drive it: m_eeCycle, which guest code and idle waits         *)
(* advance, and the host's steady clock.  The code only ever compares a    *)
(* deadline with the clock or with another deadline, so the model keeps    *)
(* how far away each deadline is: 0 or less means that it has passed.      *)
(*                                                                         *)
(* The threads are those of EeScheduler, reduced to what they wait for;    *)
(* which of them is chosen to run is left open here.                       *)
(***************************************************************************)
EXTENDS Integers, Sequences, FiniteSets, SequencesExt, FiniteSetsExt, QueueOps

CONSTANTS
    Threads,        \* guest threads
    None,           \* m_currentThreadId when nobody runs
    Dispatcher,     \* the record that runs handlers when every thread waits
    Tokens,         \* tokens of external waits
    Periods,        \* lengths of a vertical blank period (the frame rate is live)
    BlankLength,    \* kVBlankDurationCycles and kVBlankDuration
    AlarmIds,       \* 1 .. N for some N; allocatePositiveId wraps at INT_MAX
    AlarmTicks,     \* lengths of alarms the program asks for
    TimerTicks,     \* distances of the EE timer interrupts it programs
    DispatchCycles, \* kGuestDispatchCycles
    BlockCycles,    \* cycles guest code accounts at its own checkpoints
    WallPace,       \* is GHPC_WALL_PACE set?
    WallSlack,      \* how late a blank must be before it is paced (2 ms)
    EarlyStop,      \* may the stop be requested before the game thread resets?
    MaxWait,        \* bound: blanks a thread waits for
    MaxPosts,       \* bound: events posted in one vertical blank period
    Lag             \* bound: a host time further back than this is not told apart

ASSUME ConstantsAssumption ==
    /\ BlankLength \in Nat \ {0}
    /\ Periods \subseteq {p \in Nat : p > BlankLength} /\ Periods # {}
    /\ IsFiniteSet(AlarmIds) /\ AlarmIds = 1 .. Cardinality(AlarmIds) /\ AlarmIds # {}
    /\ AlarmTicks \subseteq Nat /\ TimerTicks \subseteq Nat \ {0}
    /\ DispatchCycles \in Nat \ {0} /\ BlockCycles \in Nat \ {0}
    /\ WallPace \in BOOLEAN /\ EarlyStop \in BOOLEAN
    /\ {WallSlack, MaxWait, MaxPosts, Lag} \subseteq Nat
    /\ Threads # {} /\ None # Dispatcher /\ {None, Dispatcher} \cap Threads = {}

VARIABLES
    pc,           \* where the executor is
    after,        \* does this pass over the events follow a guest function?
    stop,         \* m_stopRequested
    stopper,      \* how far requestStop() has come
    checkpoint,   \* m_checkpointPending
    events,       \* m_events
    pending,      \* the events this pass swapped out of m_events
    notifies,     \* posted events whose notify_one() has yet to run
    posts,        \* events posted since the last vertical blank
    woken,        \* was the condition variable notified since the executor slept?
    deadlines,    \* m_deadlines, in the order of m_eventSequence
    due,          \* the deadlines taken off the list and not processed yet
    nextDeadline, \* m_nextDeadlineCycle: empty or the one cycle it holds
    until,        \* what the executor's sleep waits for
    alarms,       \* ids in m_alarms
    nextAlarm,    \* m_nextAlarmId
    timer,        \* cycles until the EE timer interrupts, 0 when it never does
    timerPending, \* m_pendingEeTimerInterrupts
    waits,        \* what each thread waits for
    current,      \* m_currentThreadId
    invoked       \* is a handler queued (m_pendingInvocations)?

hosts   == <<stopper, notifies, posts>>
flags   == <<stop, checkpoint, woken>>
queues  == <<events, pending>>
clock   == <<deadlines, due, nextDeadline, until, timer, timerPending>>
kernel  == <<alarms, nextAlarm, waits, current, invoked>>
vars    == <<pc, after, hosts, flags, queues, clock, kernel>>

--------------------------------------------------------------------------------
(* Data *)

\* EeEventType, the events that have deadlines.
DeadlineTypes == {"VBlankStart", "VBlankEnd", "Alarm"}

\* The order of their types where deadlines at one cycle are sorted.
TypeOrder(type) == CASE type = "VBlankStart" -> 1
                     [] type = "VBlankEnd" -> 2
                     [] type = "Alarm" -> 5

\* ScheduledEvent.
Deadline(type, id, cycle, host) ==
    [type |-> type, id |-> id, cycle |-> cycle, host |-> host]

NoWait            == [reason |-> "None"]
VSyncWait(left)   == [reason |-> "VSync", left |-> left]
ExternalWait(tok) == [reason |-> "External", token |-> tok]

Waits == {NoWait} \cup {VSyncWait(n) : n \in 0 .. MaxWait}
                  \cup {ExternalWait(tok) : tok \in Tokens}

\* Host times long past are alike: whoever compares them finds them passed.
Past(host) == IF host < -Lag THEN -Lag ELSE host

\* The deadlines of list after some guest cycles and some host time.
Elapse(list, cycles, time) ==
    [i \in DOMAIN list |-> [list[i] EXCEPT !.cycle = @ - cycles,
                                           !.host = Past(@ - time)]]

\* The position of the deadline with the least cycle, the oldest of several.
IsFirst(list, i) ==
    \A j \in DOMAIN list : \/ list[i].cycle < list[j].cycle
                           \/ list[i].cycle = list[j].cycle /\ i <= j

\* updateNextDeadline().
updateNextDeadline(list) == {list[i].cycle : i \in {i \in DOMAIN list : IsFirst(list, i)}}

\* The order in which deadlines taken together are processed.
ComesBefore(list, i, j) ==
    LET a == list[i]  b == list[j] IN
    \/ a.cycle < b.cycle
    \/ a.cycle = b.cycle /\ TypeOrder(a.type) < TypeOrder(b.type)
    \/ a.cycle = b.cycle /\ a.type = b.type /\ a.id < b.id
    \/ a.cycle = b.cycle /\ a.type = b.type /\ a.id = b.id /\ i <= j

\* hostDeadline <= now and deadlineCycle <= m_eeCycle.
CycleDue(list) == {i \in DOMAIN list : list[i].cycle <= 0}
PastDue(list) == {d \in Range(list) : d.cycle <= 0 /\ d.host <= 0}

\* What the predicates of both waits look for.
Signalled == events # <<>> \/ stop

\* The places where the executor holds m_eventMutex between two steps.
HoldsMutex == pc \in {"PaceEnter", "WaitEnter", "Raise", "Lower"}
Asleep     == pc \in {"PaceSleep", "WaitSleep"}

TypeOK ==
    /\ pc \in {"Reset", "Loop", "Pass", "Due", "PaceEnter", "PaceSleep", "Process",
               "Swap", "Handle", "Raise", "Lower", "Select", "WaitEnter",
               "WaitSleep", "Dispatch", "Guest", "Ended"}
    /\ stopper \in {"Idle", "Stored", "Notify", "Done"}
    /\ {after, stop, checkpoint, woken, timerPending, invoked} \subseteq BOOLEAN
    /\ events \in Seq(Tokens) /\ pending \in Seq(Tokens)
    /\ notifies \in 0 .. MaxPosts /\ posts \in 0 .. MaxPosts
    /\ \A d \in Range(deadlines) \cup Range(due) :
         /\ d.type \in DeadlineTypes /\ d.cycle \in Int
         /\ d.id \in IF d.type = "Alarm" THEN AlarmIds ELSE {0}
         /\ d.host \in Int /\ d.host >= -Lag
    /\ Cardinality(nextDeadline) <= 1
    /\ alarms \subseteq AlarmIds /\ nextAlarm \in AlarmIds
    /\ timer \in Nat
    /\ waits \in [Threads -> Waits]
    /\ current \in Threads \cup {Dispatcher, None}
    /\ current \in Threads => waits[current] = NoWait
    /\ pc \in {"Dispatch", "Guest"} => current # None

--------------------------------------------------------------------------------
(* The game thread starts *)

Init ==
    /\ pc = "Reset" /\ after = FALSE
    /\ stop = FALSE /\ stopper = "Idle" /\ checkpoint = FALSE
    /\ events = <<>> /\ pending = <<>> /\ notifies = 0 /\ posts = 0 /\ woken = FALSE
    /\ deadlines = <<>> /\ due = <<>> /\ nextDeadline = {} /\ until = {}
    /\ alarms = {} /\ nextAlarm = 1
    /\ timer = 0 /\ timerPending = FALSE
    /\ waits = [t \in Threads |-> NoWait] /\ current = None /\ invoked = FALSE

\* reset() schedules the first vertical blank and clears everything else, a stop
\* that was requested before included.
Reset ==
    /\ pc = "Reset" /\ pc' = "Loop"
    /\ stop' = FALSE /\ checkpoint' = FALSE
    /\ \E cycles, time \in Periods :
         /\ deadlines' = <<Deadline("VBlankStart", 0, cycles, time)>>
         /\ nextDeadline' = {cycles}
    /\ UNCHANGED <<after, hosts, woken, queues, due, until, timer, timerPending, kernel>>

--------------------------------------------------------------------------------
(* Time *)

\* accountCycles(): every deadline comes nearer, and the EE timer may interrupt.
TimerFires(cycles) == timerPending \/ timer \in 1 .. cycles

accountCycles(cycles) ==
    /\ deadlines' = Elapse(deadlines, cycles, 0)
    /\ nextDeadline' = {n - cycles : n \in nextDeadline}
    /\ timer' = IF timer > cycles THEN timer - cycles ELSE 0
    /\ timerPending' = TimerFires(cycles)

\* One unit of host time passes.
Tick ==
    /\ pc \notin {"Reset", "Ended"}
    /\ deadlines' = Elapse(deadlines, 0, 1)
    /\ due' = Elapse(due, 0, 1)
    /\ until' = {[u EXCEPT !.host = Past(@ - 1)] : u \in until}
    /\ UNCHANGED <<pc, after, hosts, flags, queues, nextDeadline, timer,
                   timerPending, kernel>>

--------------------------------------------------------------------------------
(* Host threads *)

\* requestStop() stores two flags and notifies, all without the mutex.
RequestStop ==
    /\ stopper = "Idle" /\ stopper' = "Stored"
    /\ EarlyStop \/ pc # "Reset"
    /\ stop' = TRUE
    /\ UNCHANGED <<pc, after, notifies, posts, checkpoint, woken, queues, clock, kernel>>

RaiseForStop ==
    /\ stopper = "Stored" /\ stopper' = "Notify"
    /\ checkpoint' = TRUE
    /\ UNCHANGED <<pc, after, notifies, posts, stop, woken, queues, clock, kernel>>

NotifyStop ==
    /\ stopper = "Notify" /\ stopper' = "Done"
    /\ woken' = (woken \/ Asleep)
    /\ UNCHANGED <<pc, after, notifies, posts, stop, checkpoint, queues, clock, kernel>>

\* A mistake: the event is pushed without the mutex.
PostEventUnlocked(token) ==
    /\ pc \notin {"Reset", "Ended"}
    /\ posts < MaxPosts /\ notifies < MaxPosts
    /\ events' = Append(events, token)
    /\ checkpoint' = TRUE
    /\ notifies' = notifies + 1 /\ posts' = posts + 1
    /\ UNCHANGED <<pc, after, stopper, stop, woken, pending, clock, kernel>>

\* postEvent() pushes under the mutex and notifies after releasing it.
PostEvent(token) ==
    /\ ~HoldsMutex /\ pc \notin {"Reset", "Ended"}
    /\ posts < MaxPosts /\ notifies < MaxPosts
    /\ events' = Append(events, token)
    /\ checkpoint' = TRUE
    /\ notifies' = notifies + 1 /\ posts' = posts + 1
    /\ UNCHANGED <<pc, after, stopper, stop, woken, pending, clock, kernel>>

NotifyPost ==
    /\ notifies > 0 /\ notifies' = notifies - 1
    /\ woken' = (woken \/ Asleep)
    /\ UNCHANGED <<pc, after, stopper, posts, stop, checkpoint, queues, clock, kernel>>

--------------------------------------------------------------------------------
(* A pass over the events: processPendingEvents() *)

\* The head of the loop in run().
LoopHead ==
    /\ pc = "Loop" /\ ~stop
    /\ pc' = "Pass" /\ after' = FALSE
    /\ UNCHANGED <<hosts, flags, queues, clock, kernel>>

StopSeen ==
    /\ pc \in {"Loop", "Select"} /\ stop
    /\ pc' = "Ended"
    /\ UNCHANGED <<after, hosts, flags, queues, clock, kernel>>

\* GHPC_WALL_PACE: a vertical blank that is late gets its missing cycles at once.
StartPass ==
    LET late == {d \in Range(deadlines) : /\ d.type = "VBlankStart" /\ d.cycle > 0
                                          /\ d.host <= -WallSlack}
        skip == IF WallPace /\ late # {} THEN Max({d.cycle : d \in late}) ELSE 0
    IN /\ pc = "Pass" /\ pc' = "Due"
       /\ accountCycles(skip)
       /\ checkpoint' = (checkpoint \/ (skip > 0 /\ TimerFires(skip)))
       /\ UNCHANGED <<after, hosts, stop, woken, queues, due, until, kernel>>

NothingDue ==
    /\ pc = "Due" /\ CycleDue(deadlines) = {}
    /\ pc' = "Swap"
    /\ nextDeadline' = updateNextDeadline(deadlines)
    /\ UNCHANGED <<after, hosts, flags, queues, deadlines, due, until, timer,
                   timerPending, kernel>>

\* A mistake for TLC to find: everything past its cycle leaves the list, though only
\* what is also past its host time is processed.
takeDueByCycle ==
    /\ due' = Filter(deadlines, PastDue(deadlines))
    /\ deadlines' = Filter(deadlines, {d \in Range(deadlines) : d.cycle > 0})
    /\ nextDeadline' = updateNextDeadline(deadlines')
    /\ pc' = IF due' = <<>> THEN "Swap" ELSE "Process"

\* The deadlines past in both clocks are taken off the list, to be processed.
takeDue ==
    /\ due' = Filter(deadlines, PastDue(deadlines))
    /\ deadlines' = Filter(deadlines, Range(deadlines) \ PastDue(deadlines))
    /\ nextDeadline' = updateNextDeadline(deadlines')
    /\ pc' = IF due' = <<>> THEN "Swap" ELSE "Process"

PacingHost == Min({deadlines[i].host : i \in CycleDue(deadlines)})

TakeDue ==
    /\ pc = "Due" /\ CycleDue(deadlines) # {} /\ PacingHost <= 0
    /\ takeDue
    /\ UNCHANGED <<after, hosts, flags, queues, until, timer, timerPending, kernel>>

\* The guest is ahead of the host: wait, but return early for an event or a stop.
StartPacing ==
    /\ pc = "Due" /\ CycleDue(deadlines) # {} /\ PacingHost > 0
    /\ IF Signalled
       THEN pc' = "Swap" /\ until' = {} /\ nextDeadline' = updateNextDeadline(deadlines)
       ELSE /\ pc' = "PaceEnter" /\ until' = {[cycle |-> 0, host |-> PacingHost]}
            /\ UNCHANGED nextDeadline
    /\ UNCHANGED <<after, hosts, flags, queues, deadlines, due, timer, timerPending,
                   kernel>>

\* The condition variable releases the mutex and sleeps in one step.
PaceSleep ==
    /\ pc = "PaceEnter" /\ pc' = "PaceSleep"
    /\ woken' = FALSE
    /\ UNCHANGED <<after, hosts, stop, checkpoint, queues, clock, kernel>>

TimedOut == \E u \in until : u.host <= 0

PaceWake ==
    /\ pc = "PaceSleep" /\ (woken \/ TimedOut)
    /\ \/ /\ Signalled /\ pc' = "Swap" /\ until' = {}
          /\ nextDeadline' = updateNextDeadline(deadlines)
          /\ UNCHANGED <<deadlines, due>>
       \/ ~Signalled /\ TimedOut /\ takeDue /\ until' = {}
       \/ /\ ~Signalled /\ ~TimedOut /\ pc' = "PaceEnter"
          /\ UNCHANGED <<deadlines, due, nextDeadline, until>>
    /\ UNCHANGED <<after, hosts, flags, queues, timer, timerPending, kernel>>

--------------------------------------------------------------------------------
(* Deadlines that came due *)

\* A mistake: the cached cycle of the next deadline is not brought up to date.
scheduleEventsQuietly(new) ==
    /\ deadlines' = deadlines \o new
    /\ UNCHANGED nextDeadline

\* scheduleEvent(), for the deadlines of new.
scheduleEvents(new) ==
    /\ deadlines' = deadlines \o new
    /\ nextDeadline' = updateNextDeadline(deadlines \o new)

\* The next of the deadlines in their sorted order.
ProcessNext(type, deadline) ==
    /\ pc = "Process"
    /\ \E i \in DOMAIN due :
         /\ \A j \in DOMAIN due : ComesBefore(due, i, j)
         /\ due[i].type = type /\ deadline = due[i]
         /\ due' = RemoveAt(due, i)
    /\ pc' = IF Len(due) = 1 THEN "Due" ELSE "Process"

\* completeVSync().
completeVSync ==
    waits' = [t \in Threads |->
        IF waits[t].reason = "VSync"
        THEN IF waits[t].left = 0 THEN NoWait ELSE VSyncWait(waits[t].left - 1)
        ELSE waits[t]]

\* Mutant: the next vertical blank is forgotten.
VBlankDeadlinesEndOnly(deadline, cycles, time) ==
    <<Deadline("VBlankEnd", 0, deadline.cycle + BlankLength, Past(deadline.host + BlankLength))>>

\* The next vertical blank and the end of this one are scheduled from the
\* deadline that came due, not from the time at which it is processed.
VBlankDeadlines(deadline, cycles, time) ==
    <<Deadline("VBlankEnd", 0, deadline.cycle + BlankLength, Past(deadline.host + BlankLength)),
      Deadline("VBlankStart", 0, deadline.cycle + cycles, Past(deadline.host + time))>>

VBlankStart ==
    /\ \E deadline \in Range(due), cycles, time \in Periods :
         /\ ProcessNext("VBlankStart", deadline)
         /\ scheduleEvents(VBlankDeadlines(deadline, cycles, time))
    /\ completeVSync
    /\ invoked' \in {invoked, TRUE}
    /\ posts' = 0
    /\ UNCHANGED <<after, stopper, notifies, flags, queues, until, timer, timerPending,
                   alarms, nextAlarm, current>>

VBlankEnd ==
    /\ \E deadline \in Range(due) : ProcessNext("VBlankEnd", deadline)
    /\ invoked' \in {invoked, TRUE}
    /\ UNCHANGED <<after, hosts, flags, queues, deadlines, nextDeadline, until, timer,
                   timerPending, alarms, nextAlarm, waits, current>>

\* An alarm that was cancelled meanwhile is skipped; one that fires is forgotten.
Alarm ==
    /\ \E deadline \in Range(due) :
         /\ ProcessNext("Alarm", deadline)
         /\ alarms' = alarms \ {deadline.id}
         /\ invoked' = (invoked \/ deadline.id \in alarms)
    /\ UNCHANGED <<after, hosts, flags, queues, deadlines, nextDeadline, until, timer,
                   timerPending, nextAlarm, waits, current>>

--------------------------------------------------------------------------------
(* Events that were posted *)

\* A mistake: the newest event is handled first.
TakeEventsNewestFirst ==
    /\ pc = "Swap" /\ pc' = "Handle"
    /\ pending' = Reverse(events) /\ events' = <<>>
    /\ invoked' \in {invoked, invoked \/ timerPending}
    /\ timerPending' = FALSE
    /\ UNCHANGED <<after, hosts, flags, deadlines, due, nextDeadline, until, timer,
                   alarms, nextAlarm, waits, current>>

\* The handlers of the EE timers are queued and m_events is swapped out.
TakeEvents ==
    /\ pc = "Swap" /\ pc' = "Handle"
    /\ pending' = events /\ events' = <<>>
    /\ invoked' \in {invoked, invoked \/ timerPending}
    /\ timerPending' = FALSE
    /\ UNCHANGED <<after, hosts, flags, deadlines, due, nextDeadline, until, timer,
                   alarms, nextAlarm, waits, current>>

\* ExternalWake: completeExternalWait().
HandleEvent ==
    /\ pc = "Handle" /\ pending # <<>>
    /\ waits' = [t \in Threads |->
                   IF waits[t] = ExternalWait(Head(pending)) THEN NoWait ELSE waits[t]]
    /\ pending' = Tail(pending)
    /\ UNCHANGED <<pc, after, hosts, flags, events, clock, alarms, nextAlarm, current,
                   invoked>>

EventsHandledClears ==
    /\ pc = "Handle" /\ pending = <<>>
    /\ pc' = IF Signalled \/ \E n \in nextDeadline : n <= 0 THEN "Raise" ELSE "Lower"
    /\ events' = <<>>
    /\ UNCHANGED <<after, hosts, flags, pending, clock, kernel>>

\* Is there more to do?  The flag is stored in a later step, under the mutex,
\* which requestStop() does not take.
EventsHandled ==
    /\ pc = "Handle" /\ pending = <<>>
    /\ pc' = IF Signalled \/ \E n \in nextDeadline : n <= 0 THEN "Raise" ELSE "Lower"
    /\ UNCHANGED <<after, hosts, flags, queues, clock, kernel>>

\* The flag, and applyPendingPreemption().
EndPass ==
    /\ pc \in {"Raise", "Lower"}
    /\ checkpoint' = (pc = "Raise")
    /\ current' \in {current, None}
    /\ pc' = IF after THEN "Loop" ELSE "Select"
    /\ UNCHANGED <<after, hosts, stop, woken, queues, clock, alarms, nextAlarm, waits,
                   invoked>>

--------------------------------------------------------------------------------
(* Choosing what to run, or waiting for an event *)

Ready == {t \in Threads : waits[t] = NoWait}

\* selectReady() and makeRunning(), or a dispatcher record for a queued handler.
Select ==
    /\ pc = "Select" /\ ~stop /\ pc' = "Dispatch"
    /\ \/ current # None /\ UNCHANGED <<current, invoked>>
       \/ current = None /\ current' \in Ready /\ UNCHANGED invoked
       \/ /\ current = None /\ Ready = {} /\ invoked
          /\ current' = Dispatcher /\ invoked' = FALSE
    /\ UNCHANGED <<after, hosts, flags, queues, clock, alarms, nextAlarm, waits>>

\* What waitForEvent() waits for: the first deadline, or the EE timer if that is
\* nearer in host time.
FirstWait ==
    LET first == {[cycle |-> deadlines[i].cycle, host |-> deadlines[i].host] :
                     i \in {i \in DOMAIN deadlines : IsFirst(deadlines, i)}}
    IN IF timer > 0 /\ \A f \in first : timer < f.host
       THEN {[cycle |-> timer, host |-> timer]}
       ELSE first

WaitForEvent ==
    /\ pc = "Select" /\ ~stop /\ current = None /\ Ready = {} /\ ~invoked
    /\ IF Signalled
       THEN pc' = "Loop" /\ UNCHANGED until
       ELSE pc' = "WaitEnter" /\ until' = FirstWait
    /\ UNCHANGED <<after, hosts, flags, queues, deadlines, due, nextDeadline, timer,
                   timerPending, kernel>>

WaitSleep ==
    /\ pc = "WaitEnter" /\ pc' = "WaitSleep"
    /\ woken' = FALSE
    /\ UNCHANGED <<after, hosts, stop, checkpoint, queues, clock, kernel>>

\* A mistake: an idle wait accounts no cycles.
WaitWakeIdle ==
    /\ pc = "WaitSleep" /\ (woken \/ TimedOut)
    /\ IF Signalled \/ TimedOut
       THEN pc' = "Loop" /\ until' = {}
       ELSE pc' = "WaitEnter" /\ UNCHANGED until
    /\ checkpoint' = (checkpoint \/ TimedOut)
    /\ UNCHANGED <<after, hosts, stop, woken, queues, deadlines, due, nextDeadline, timer,
                   timerPending, kernel>>

\* An event or a stop ends the wait; the cycles of an idle wait are accounted
\* only when it ran its whole length.
WaitWake ==
    /\ pc = "WaitSleep" /\ (woken \/ TimedOut)
    /\ \/ /\ Signalled /\ pc' = "Loop" /\ until' = {}
          /\ UNCHANGED <<checkpoint, deadlines, nextDeadline, timer, timerPending>>
       \/ /\ ~Signalled /\ TimedOut /\ pc' = "Loop" /\ until' = {}
          /\ \E u \in until : accountCycles(Max({u.cycle, 0}))
          /\ checkpoint' = TRUE
       \/ /\ ~Signalled /\ ~TimedOut /\ pc' = "WaitEnter"
          /\ UNCHANGED <<checkpoint, deadlines, nextDeadline, timer, timerPending, until>>
    /\ UNCHANGED <<after, hosts, stop, woken, queues, due, kernel>>

--------------------------------------------------------------------------------
(* Guest code *)

\* checkpointDue(): does the guest have to yield?  The end of a time slice is
\* left open.
MustYield(cycles) ==
    \/ checkpoint \/ TimerFires(cycles) \/ stop
    \/ \E n \in nextDeadline : n <= cycles

checkpointDue(cycles, yields) ==
    /\ accountCycles(cycles)
    /\ yields \in {TRUE, MustYield(cycles)}
    /\ checkpoint' = \/ checkpoint \/ TimerFires(cycles)
                     \/ ~stop /\ \E n \in nextDeadline : n <= cycles
    /\ UNCHANGED <<hosts, stop, woken, queues, due, until, alarms, nextAlarm, waits,
                   current, invoked>>

\* A queued handler starts on the thread that is dispatched.
StartHandler ==
    /\ pc = "Dispatch" /\ invoked
    /\ pc' = "Loop" /\ invoked' = FALSE
    /\ UNCHANGED <<after, hosts, flags, queues, clock, alarms, nextAlarm, waits, current>>

Dispatch ==
    \E yields \in BOOLEAN :
        /\ pc = "Dispatch" /\ UNCHANGED after
        /\ checkpointDue(DispatchCycles, yields)
        /\ pc' = IF yields THEN "Loop" ELSE "Guest"

\* A back edge of generated code asks whether to yield.
GuestCheckpoint ==
    \E yields \in BOOLEAN :
        /\ pc = "Guest"
        /\ checkpointDue(BlockCycles, yields)
        /\ IF yields THEN pc' = "Pass" /\ after' = TRUE ELSE UNCHANGED <<pc, after>>

\* The guest function returns; a dispatcher record may have run its handler.
GuestReturns ==
    /\ pc = "Guest" /\ pc' = "Pass" /\ after' = TRUE
    /\ current' \in IF current = Dispatcher THEN {current, None} ELSE {current}
    /\ UNCHANGED <<hosts, flags, queues, clock, alarms, nextAlarm, waits, invoked>>

\* blockCurrent(), for the waits of this module.
Block(wait) ==
    /\ pc = "Guest" /\ pc' = "Pass" /\ after' = TRUE
    /\ current \in Threads
    /\ waits' = [waits EXCEPT ![current] = wait] /\ current' = None
    /\ UNCHANGED <<hosts, flags, queues, clock, alarms, nextAlarm, invoked>>

WaitVSync    == \E left \in 0 .. MaxWait : Block(VSyncWait(left))
WaitExternal == \E token \in Tokens : Block(ExternalWait(token))

\* allocatePositiveId(): the first free id from m_nextAlarmId on, cyclically.
FreeAlarm ==
    LET N == Cardinality(AlarmIds)
        steps(id) == (id - nextAlarm) % N
    IN {id \in AlarmIds \ alarms : \A j \in AlarmIds \ alarms : steps(id) <= steps(j)}

SetAlarm(ticks) ==
    LET length == IF ticks = 0 THEN 1 ELSE ticks IN
    /\ pc = "Guest"
    /\ \E id \in FreeAlarm :
         /\ alarms' = alarms \cup {id}
         /\ nextAlarm' = (id % Cardinality(AlarmIds)) + 1
         /\ scheduleEvents(<<Deadline("Alarm", id, length, length)>>)
    /\ UNCHANGED <<pc, after, hosts, flags, queues, due, until, timer, timerPending,
                   waits, current, invoked>>

\* A mistake: the deadline of the cancelled alarm stays on the list.
CancelAlarmKeepsDeadline(id) ==
    /\ pc = "Guest" /\ id \in alarms
    /\ alarms' = alarms \ {id}
    /\ UNCHANGED <<pc, after, hosts, flags, queues, clock, nextAlarm, waits, current,
                   invoked>>

CancelAlarm(id) ==
    /\ pc = "Guest" /\ id \in alarms
    /\ alarms' = alarms \ {id}
    /\ deadlines' =
           Filter(deadlines, {d \in Range(deadlines) : d.type # "Alarm" \/ d.id # id})
    /\ nextDeadline' = updateNextDeadline(deadlines')
    /\ UNCHANGED <<pc, after, hosts, flags, queues, due, until, timer, timerPending,
                   nextAlarm, waits, current, invoked>>

\* Guest code programs an EE timer; it interrupts once, until it is programmed again.
SetTimer(ticks) ==
    /\ pc = "Guest" /\ timer = 0
    /\ timer' = ticks
    /\ UNCHANGED <<pc, after, hosts, flags, queues, deadlines, due, nextDeadline, until,
                   timerPending, kernel>>

--------------------------------------------------------------------------------
(* Specification *)

\* What the executor does by itself, guest code excepted.
Executor ==
    \/ Reset \/ LoopHead \/ StopSeen \/ StartPass
    \/ NothingDue \/ TakeDue \/ StartPacing \/ PaceSleep \/ PaceWake
    \/ VBlankStart \/ VBlankEnd \/ Alarm
    \/ TakeEvents \/ HandleEvent \/ EventsHandled \/ EndPass
    \/ Select \/ WaitForEvent \/ WaitSleep \/ WaitWake
    \/ StartHandler \/ Dispatch

Guest ==
    \/ GuestCheckpoint \/ GuestReturns \/ WaitVSync \/ WaitExternal
    \/ \E ticks \in AlarmTicks : SetAlarm(ticks)
    \/ \E id \in AlarmIds : CancelAlarm(id)
    \/ \E ticks \in TimerTicks : SetTimer(ticks)

Hosts ==
    \/ RequestStop \/ RaiseForStop \/ NotifyStop
    \/ (\E token \in Tokens : PostEvent(token)) \/ NotifyPost

\* run() has returned.
Finished == pc = "Ended" /\ UNCHANGED vars

Next == Executor \/ Guest \/ Hosts \/ Tick \/ Finished

Spec == Init /\ [][Next]_vars

\* The executor runs, guest code comes to its checkpoints, host time passes, and a
\* host thread inside postEvent() or requestStop() gets to the end of the call.
FairSpec ==
    /\ Spec
    /\ WF_vars(Executor) /\ WF_vars(GuestCheckpoint) /\ WF_vars(Tick)
    /\ WF_vars(NotifyPost) /\ WF_vars(RaiseForStop) /\ WF_vars(NotifyStop)


--------------------------------------------------------------------------------
(* Properties *)

Scheduled(type) == {i \in DOMAIN deadlines : deadlines[i].type = type}
TakenDue(type)  == {i \in DOMAIN due : due[i].type = type}

\* Once the scheduler is reset there is exactly one start of a vertical blank to come,
\* on the list or among the deadlines being processed (its end, scheduled along with the
\* next start, is not counted): whatever is set, cancelled or late,
\* the chain of vertical blanks neither ends nor forks, and no sleep is endless.
OneVBlankScheduled ==
    pc # "Reset" =>
        Cardinality(Scheduled("VBlankStart")) + Cardinality(TakenDue("VBlankStart")) = 1

\* The alarms are exactly those with a deadline, and each has one: no alarm is
\* forgotten, and the deadline of a cancelled alarm cannot fire a later alarm that
\* got the same id.
AlarmsHaveDeadlines ==
    /\ alarms = {d.id : d \in {d \in Range(deadlines) \cup Range(due) : d.type = "Alarm"}}
    /\ Cardinality(alarms) = Cardinality(Scheduled("Alarm")) + Cardinality(TakenDue("Alarm"))

\* An event that waits in m_events keeps the checkpoint flag up, so that guest code
\* yields to it, although the executor clears the flag after every pass.
EventsRaiseCheckpoint == events # <<>> => checkpoint

\* The executor never sleeps on an event: it was woken, or the host thread that
\* posted the event is about to wake it.
NoEventSleptThrough == Asleep /\ events # <<>> => woken \/ notifies > 0

\* Guest code never runs on past a deadline of its own clock: the cached cycle that
\* checkpointDue() compares with never lags behind the list.
GuestRunsOnTime == pc = "Guest" => \A i \in DOMAIN deadlines : deadlines[i].cycle > 0

\* A stop that was requested ends run(), whatever the executor does or waits for.
StopEnds == []<>(stopper = "Idle" \/ pc = "Ended")

\* A thread that waits for a vertical blank is readied, or the loop was stopped.
VSyncWaitersResume ==
    \A t \in Threads : []<>(waits[t].reason # "VSync" \/ pc = "Ended")

\* An alarm that is set fires or is cancelled, or the loop was stopped.
AlarmsFire == \A id \in AlarmIds : []<>(id \notin alarms \/ pc = "Ended")

\* An EE timer interrupts after the cycles it was programmed for, even if they pass
\* in an idle wait.
TimerInterrupts == []<>(timer = 0 \/ pc = "Ended")

\* A wakeup that is posted reaches the threads that wait for it by then.
WakeupsArrive ==
    \A t \in Threads, token \in Tokens :
        waits[t] = ExternalWait(token) /\ token \in Range(events)
            ~> waits[t] # ExternalWait(token) \/ pc = "Ended"

\* Every event is handled once, in the order of the posts.
Channel == INSTANCE EventChannel WITH queue <- pending \o events, Events <- Tokens
EventsInOrder == Channel!Spec

================================================================================

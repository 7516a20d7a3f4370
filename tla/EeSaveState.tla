------------------------------ MODULE EeSaveState ------------------------------
(***************************************************************************)
(* Save states, over the event loop of EeEventLoop: ghpc_state.cpp and the *)
(* two halves of EeScheduler that write and restore the kernel tables.     *)
(*                                                                         *)
(* A save is asked for by guest code or by the vertical blank itself and   *)
(* is served in the middle of the next vertical blank that finds no host   *)
(* callback outstanding.  A file may be cut short by a write that fails.   *)
(* The program may end at any moment and start again, from nothing or from *)
(* a file; what is not in the file is then what reset() makes it.          *)
(*                                                                         *)
(* The loop is that of EeEventLoop.  Two things are added to its kernel:   *)
(* who has a host callback (the only state that cannot be written), and    *)
(* the stacks that handlers run on.                                        *)
(***************************************************************************)
EXTENDS EeEventLoop

CONSTANTS
    Slots,          \* names of state files
    NoSlot,         \* no save is wanted; or the program starts from nothing
    NoFile,         \* a slot that was never written
    BadFile,        \* a file that lacks a needed chunk, or a piece of one
    PoolSize,       \* invocation stacks in the pool
    MaxBoots        \* bound: how often the program starts

ASSUME SaveConstantsAssumption ==
    /\ NoSlot \notin Slots
    /\ NoFile # BadFile /\ MaxBoots \in Nat
    /\ PoolSize \in Nat /\ PoolSize > Cardinality(Threads)

VARIABLES
    request,        \* the slot of the pending save (g_savePending, g_pendingSlot)
    files,          \* the state files
    slot,           \* GHPC_STATE_LOAD of this process
    boots,          \* starts of the program so far
    completions,    \* threads with a host callback: wait.completion, resumeCompletion
    handling,       \* threads with an invocation that has not returned
    stacks,         \* m_invocationStackTops
    stackTop        \* m_asyncCallbackStackTop, in stacks

disk      == <<request, files, slot, boots>>
callbacks == <<completions, handling, stacks, stackTop>>
saveVars  == <<vars, disk, callbacks>>

Owners == Threads \cup {Dispatcher}

--------------------------------------------------------------------------------
(* Files *)

\* A mistake: the waits' own completions are not asked for.
isQuiescentIgnoringWaits ==
    ~invoked /\ handling = {} /\ \A t \in completions : waits[t] # NoWait

\* isQuiescentForState(): no host callback is outstanding.
isQuiescentForState == ~invoked /\ completions = {} /\ handling = {}

\* A mistake: the deadlines are those from before the vertical blank.
serializeBeforeScheduling ==
    [deadlines |-> deadlines, nextDeadline |-> nextDeadline,
     timer |-> timer, timerPending |-> timerPending, events |-> events,
     alarms |-> alarms, nextAlarm |-> nextAlarm, current |-> current,
     waits |-> [t \in Threads |-> IF waits[t].reason = "VSync"
                                  THEN VSyncWait(Max({waits[t].left - 1, 0}))
                                  ELSE waits[t]],
     stacks |-> stacks]

\* What serializeForState() writes inside the vertical blank: the deadlines with the
\* next blank on the list already, and the waits as they were, with this blank
\* counted but not yet reported to them.  Host times are not written, and neither
\* are the deadlines of the same pass that are still to be processed.
serializeForState ==
    [deadlines |-> [i \in DOMAIN deadlines' |-> [deadlines'[i] EXCEPT !.host = 0]],
     nextDeadline |-> nextDeadline',
     timer |-> timer, timerPending |-> timerPending, events |-> events,
     alarms |-> alarms, nextAlarm |-> nextAlarm, current |-> current,
     waits |-> [t \in Threads |-> IF waits[t].reason = "VSync"
                                  THEN VSyncWait(Max({waits[t].left - 1, 0}))
                                  ELSE waits[t]],
     stacks |-> stacks]

\* writeWholeFile() truncates the file and writes it from its start: a write that
\* fails leaves a piece of it.  The piece is bad if it lacks a chunk that is needed or
\* ends inside a chunk, whatever its tables say; one that lacks only the optional
\* chunks at the end loads like a whole one.
Written(tables) == {BadFile, tables}

\* Does ghpcStateLoad() accept the file?
Loads(file) == file \notin {NoFile, BadFile}

\* ghpcStateServicePendingSave(): a save is refused and asked for again at the next
\* vertical blank, or written; the request is forgotten even if the write failed.
ghpcStateServicePendingSave(wanted) ==
    IF wanted = NoSlot \/ ~isQuiescentForState
    THEN request' = wanted /\ UNCHANGED files
    ELSE /\ request' = NoSlot
         /\ \/ UNCHANGED files    \* the file cannot be opened
            \/ \E file \in Written(serializeForState) :
                  files' = [files EXCEPT ![wanted] = file]

--------------------------------------------------------------------------------
(* The program starts and ends *)

SaveInit ==
    /\ Init
    /\ request = NoSlot /\ files = [s \in Slots |-> NoFile] /\ slot = NoSlot /\ boots = 1
    /\ completions = {} /\ handling = {} /\ stacks = <<>> /\ stackTop = PoolSize

\* The process ends, by itself or not, and is started again: only files survive.
Restart ==
    /\ pc # "Reset" /\ boots < MaxBoots
    /\ boots' = boots + 1 /\ slot' \in Slots \cup {NoSlot}
    /\ pc' = "Reset" /\ after' = FALSE
    /\ stop' = FALSE /\ stopper' = "Idle" /\ checkpoint' = FALSE
    /\ events' = <<>> /\ pending' = <<>> /\ notifies' = 0 /\ posts' = 0 /\ woken' = FALSE
    /\ deadlines' = <<>> /\ due' = <<>> /\ nextDeadline' = {} /\ until' = {}
    /\ alarms' = {} /\ nextAlarm' = 1
    /\ timer' = 0 /\ timerPending' = FALSE
    /\ waits' = [t \in Threads |-> NoWait] /\ current' = None /\ invoked' = FALSE
    /\ request' = NoSlot
    /\ completions' = {} /\ handling' = {} /\ stacks' = <<>> /\ stackTop' = PoolSize
    /\ UNCHANGED files

\* The game thread resets the kernel and goes on from there.
Boot == Reset /\ slot = NoSlot /\ UNCHANGED <<disk, callbacks>>

\* A mistake: the allocator does not learn of the restored stacks.
holdNothing(tops) == PoolSize

\* holdAsyncCallbackStacksAbove(), with the lowest of the restored stacks.
holdAsyncCallbackStacksAbove(tops) == Min({PoolSize} \cup {tops[o] - 1 : o \in DOMAIN tops})

\* deserializeForState(), after a reset: host times are made up from the guest
\* cycles, and whatever is not in the file is as reset() left it.
Resume ==
    /\ pc = "Reset" /\ slot # NoSlot /\ Loads(files[slot])
    /\ pc' = "Loop" /\ stop' = FALSE /\ checkpoint' = FALSE
    /\ LET saved == files[slot] IN
         /\ deadlines' = [i \in DOMAIN saved.deadlines |->
               [saved.deadlines[i] EXCEPT !.host = Max({saved.deadlines[i].cycle, 0})]]
         /\ nextDeadline' = saved.nextDeadline
         /\ timer' = saved.timer /\ timerPending' = saved.timerPending
         /\ events' = saved.events
         /\ alarms' = saved.alarms /\ nextAlarm' = saved.nextAlarm
         /\ current' = saved.current /\ waits' = saved.waits
         /\ stacks' = saved.stacks /\ stackTop' = holdAsyncCallbackStacksAbove(saved.stacks)
    /\ UNCHANGED <<after, hosts, woken, pending, due, until, invoked, disk, completions,
                   handling>>

\* A file that does not load stops the program; run() is never called, so what the
\* chunks before the bad one restored is never seen.
RefuseToBoot ==
    /\ pc = "Reset" /\ slot # NoSlot /\ ~Loads(files[slot])
    /\ pc' = "Ended" /\ stop' = TRUE /\ checkpoint' = TRUE
    /\ \E cycles, time \in Periods :
         /\ deadlines' = <<Deadline("VBlankStart", 0, cycles, time)>>
         /\ nextDeadline' = {cycles}
    /\ UNCHANGED <<after, hosts, woken, queues, due, until, timer, timerPending, kernel,
                   disk, callbacks>>

--------------------------------------------------------------------------------
(* Saving *)

\* ghpcStateRequestSave() from the pad library: a later request replaces an earlier one.
RequestSave(wanted) ==
    /\ pc = "Guest" /\ request' = wanted
    /\ UNCHANGED <<vars, files, slot, boots, callbacks>>

\* The vertical blank may ask for a save itself, and serves the one that is pending.
SavingVBlank ==
    /\ VBlankStart
    /\ \E wanted \in {request} \cup Slots : ghpcStateServicePendingSave(wanted)
    /\ UNCHANGED <<slot, boots, callbacks>>

--------------------------------------------------------------------------------
(* Host callbacks and invocation stacks *)

\* invocationStackTop(): the stack of this thread, or a new one from the pool.  Only
\* one invocation is active on a thread, so depths are left out.
invocationStackTop(owner) ==
    IF owner \in DOMAIN stacks
    THEN UNCHANGED <<stacks, stackTop>>
    ELSE /\ stacks' = [o \in DOMAIN stacks \cup {owner} |->
                          IF o = owner THEN stackTop ELSE stacks[o]]
         /\ stackTop' = stackTop - 1

\* The thread chosen may be a dispatcher record that was preempted; a new one is
\* taken only when nobody is ready.
SelectThread ==
    /\ Select
    /\ IF current = None /\ current' = Dispatcher
       THEN /\ Dispatcher \notin handling /\ handling' = {Dispatcher} \cup handling
            /\ invocationStackTop(Dispatcher)
       ELSE UNCHANGED <<handling, stacks, stackTop>>
    /\ UNCHANGED <<disk, completions>>

SelectDispatcher ==
    /\ pc = "Select" /\ ~stop /\ pc' = "Dispatch"
    /\ current = None /\ Dispatcher \in handling /\ current' = Dispatcher
    /\ UNCHANGED <<after, hosts, flags, queues, clock, alarms, nextAlarm, waits, invoked,
                   disk, callbacks>>

WaitIdle == WaitForEvent /\ Dispatcher \notin handling /\ UNCHANGED <<disk, callbacks>>

\* The completion of a thread's wait runs before anything else of that thread, and
\* may block it again.
CompletionBlocks ==
    /\ pc = "Dispatch" /\ current \in completions
    /\ pc' = "Loop" /\ current' = None
    /\ \E token \in Tokens : waits' = [waits EXCEPT ![current] = ExternalWait(token)]
    /\ UNCHANGED <<after, hosts, flags, queues, clock, alarms, nextAlarm, invoked, disk,
                   callbacks>>

StartHandlerHere ==
    /\ StartHandler /\ current \notin handling
    /\ handling' = handling \cup {current} /\ invocationStackTop(current)
    /\ completions' = completions \ {current}
    /\ UNCHANGED disk

DispatchHere ==
    /\ Dispatch /\ (invoked => current \in handling)
    /\ completions' = completions \ {current}
    /\ UNCHANGED <<disk, handling, stacks, stackTop>>

\* A dispatcher record is let go when its handler has returned.
ReturnHere ==
    /\ GuestReturns
    /\ handling' \in {handling, handling \ {current}}
    /\ current = Dispatcher => (current' = None <=> Dispatcher \notin handling')
    /\ UNCHANGED <<disk, completions, stacks, stackTop>>

\* completeExternalWait(), from guest code: a thread gets the data it waits for.
CompleteExternalWait(token) ==
    /\ pc = "Guest"
    /\ \E t \in Threads : waits[t] = ExternalWait(token)
    /\ waits' = [t \in Threads |->
                   IF waits[t] = ExternalWait(token) THEN NoWait ELSE waits[t]]
    /\ UNCHANGED <<pc, after, hosts, flags, queues, clock, alarms, nextAlarm, current,
                   invoked, disk, callbacks>>

\* Waits for the host always have a completion, waits for a vertical blank may.
WaitVSyncHere ==
    /\ WaitVSync /\ completions' \in {completions, completions \cup {current}}
    /\ UNCHANGED <<disk, handling, stacks, stackTop>>

WaitExternalHere ==
    /\ WaitExternal /\ completions' = completions \cup {current}
    /\ UNCHANGED <<disk, handling, stacks, stackTop>>

--------------------------------------------------------------------------------
(* Specification *)

\* Steps of the loop that leave callbacks and files alone.
Elsewhere ==
    /\ \/ LoopHead \/ StartPass \/ NothingDue \/ TakeDue \/ StartPacing
       \/ PaceSleep \/ PaceWake \/ VBlankEnd \/ Alarm \/ TakeEvents
       \/ EventsHandled \/ EndPass \/ WaitSleep \/ WaitWake \/ GuestCheckpoint
       \/ \E ticks \in AlarmTicks : SetAlarm(ticks)
       \/ \E id \in AlarmIds : CancelAlarm(id)
       \/ \E ticks \in TimerTicks : SetTimer(ticks)
       \/ Tick \/ Finished
    /\ UNCHANGED <<disk, callbacks>>

SaveNext ==
    \/ Restart \/ Boot \/ Resume \/ RefuseToBoot
    \/ SavingVBlank \/ \E wanted \in Slots : RequestSave(wanted)
    \/ SelectThread \/ SelectDispatcher \/ WaitIdle
    \/ CompletionBlocks \/ StartHandlerHere \/ DispatchHere
    \/ \E token \in Tokens : CompleteExternalWait(token)
    \/ ReturnHere \/ WaitVSyncHere \/ WaitExternalHere
    \/ Elsewhere

SaveSpec == SaveInit /\ [][SaveNext]_saveVars

--------------------------------------------------------------------------------
(* Properties *)

\* No two threads share the stack their handlers run on, no stack is handed out
\* while a restored thread still owns it, and no restart loses stacks of the pool.
StacksDisjoint ==
    /\ \A o, p \in DOMAIN stacks : stacks[o] = stacks[p] => o = p
    /\ \A o \in DOMAIN stacks : stacks[o] > stackTop
    /\ PoolSize - stackTop = Cardinality(DOMAIN stacks)

\* A thread that waits for the host has the callback that goes on with its work, in
\* this process: a resumed machine never waits for a callback of the saved one.
WaitersHaveCallbacks == \A t \in Threads : waits[t].reason = "External" => t \in completions

================================================================================

----------------------------- MODULE MCEeScheduler -----------------------------
(* Constants for model checking EeScheduler. *)
EXTENDS EeScheduler

OneIdle == {-1}

\* Threads that start, stop, suspend and wake each other, and wait for vertical blanks.
ThreadProgram == {"CreateThread", "DeleteThread", "StartThread", "ExitThread",
    "ExitDeleteThread", "TerminateThread", "SuspendThread", "ResumeThread",
    "ChangeThreadPriority", "SleepThread", "WakeupThread", "CancelWakeupThread",
    "ReleaseWaitThread", "WaitVSync"}

\* Threads that share a semaphore and an event flag, wait for the host, and exit
\* through their exit handlers.
ObjectProgram == {"CreateThread", "StartThread", "ExitDeleteThread",
    "CreateEventFlag", "DeleteEventFlag", "SetEventFlag", "ClearEventFlag",
    "PollEventFlag", "WaitEventFlag", "CreateSema", "DeleteSema", "SignalSema",
    "PollSema", "WaitSema", "WaitExternal", "CompleteExternalWait"}

\* Interrupt handlers that signal, set, delete and release what those wait for, and
\* rotate the queue of the thread they interrupted.
ObjectHandlers == {"iSignalSema", "iDeleteSema", "iSetEventFlag", "iDeleteEventFlag",
    "iReleaseWaitThread", "iRotateThreadReadyQueue"}

\* An interrupt handler that rotates and signals.
RotatingHandlers == {"iRotateThreadReadyQueue", "iSignalSema"}
RotatingProgram == {"CreateThread", "StartThread", "CreateSema", "WaitSema", "SleepThread",
    "RotateThreadReadyQueue"}
================================================================================

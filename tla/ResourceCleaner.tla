--------------------------- MODULE ResourceCleaner ---------------------------
(***************************************************************************)
(* The idle optimisation of a context (context.cpp): after waitForJobs a   *)
(* queue calls Context::setIdle, and a thread of L0::ResourceCleaner calls *)
(* Context::releaseMemory when nothing more happens for idleTimeout.       *)
(* Context::setProperties creates and destroys the cleaner.                *)
(*                                                                         *)
(* The calls of the application are serialised by Context::cleanerMutex    *)
(* and are steps of one caller here; the cleaner's own mutex and condition *)
(* variable are modelled.  Time is abstract: an armed deadline passes some *)
(* time.  Spurious wakeups of the condition variable are left out.         *)
(***************************************************************************)
EXTENDS Naturals

CONSTANTS
    MaxCalls,          \* calls the application makes before it stops
    TimelyStart        \* does a new thread reach its first wait after the constructor
                       \* has set "action" and before the application's next call

ASSUME CleanerAssumption == MaxCalls \in Nat /\ TimelyStart \in BOOLEAN

VARIABLES
    exists,            \* Context::resourceCleaner is not null
    action,            \* ResourceCleaner::action; UNSET: not initialised yet
    deadline,          \* the thread's local timeout: never (max) or armed
    thread,            \* where the cleaner's thread is
    locked,            \* the thread holds ResourceCleaner::mutex
    cached,            \* the caches hold buffers that no job uses
    caller,            \* where the application's call is
    calls              \* number of calls made

vars == <<exists, action, deadline, thread, locked, cached, caller, calls>>

\* Types of the state; the thread holds its mutex exactly between two waits.
TypeOK ==
    /\ exists \in BOOLEAN
    /\ action \in {"UNSET", "NOP", "PRUNE_AFTER_TIMEOUT", "BREAK"}
    /\ deadline \in {"never", "armed"}
    /\ thread \in {"none", "spawned", "check", "toWait", "waiting", "woken", "timeout", "exited"}
    /\ locked \in BOOLEAN /\ (locked <=> thread \in {"check", "toWait"})
    /\ cached \in BOOLEAN
    /\ caller \in {"idle", "construct", "setIdle", "notify", "break", "notifyBreak", "join"}
    /\ calls \in 0..MaxCalls

Init ==
    /\ exists = FALSE
    /\ action = "UNSET"
    /\ deadline = "never"
    /\ thread = "none"
    /\ locked = FALSE
    /\ cached = FALSE
    /\ caller = "idle"
    /\ calls = 0

-----------------------------------------------------------------------------
(* Calls of the application.                                               *)

BeginCall ==
    /\ caller = "idle"
    /\ calls < MaxCalls
    /\ TimelyStart => thread \notin {"spawned", "check", "toWait"}
    /\ calls' = calls + 1

\* An inference completes and leaves idle buffers; waitForJobs calls Context::setIdle.
RunInference ==
    /\ BeginCall
    /\ cached' = TRUE
    /\ caller' = IF exists THEN "setIdle" ELSE "idle"
    /\ UNCHANGED <<exists, action, deadline, thread, locked>>

\* Mutant: setIdle does not change the action.
SetIdleForgets ==
    /\ caller = "setIdle"
    /\ ~locked
    /\ caller' = "notify"
    /\ UNCHANGED <<exists, action, deadline, thread, locked, cached, calls>>

\* Mutant: setIdle sets the action without the mutex.
SetIdleUnlocked ==
    /\ caller = "setIdle"
    /\ action' = "PRUNE_AFTER_TIMEOUT"
    /\ caller' = "notify"
    /\ UNCHANGED <<exists, deadline, thread, locked, cached, calls>>

\* ResourceCleaner::setIdle: the action is set under the mutex ...
SetIdle ==
    /\ caller = "setIdle"
    /\ ~locked
    /\ action' = "PRUNE_AFTER_TIMEOUT"
    /\ caller' = "notify"
    /\ UNCHANGED <<exists, deadline, thread, locked, cached, calls>>

Woken == IF thread = "waiting" THEN "woken" ELSE thread

\* ... and the condition variable is notified after it.
Notify ==
    /\ caller = "notify"
    /\ thread' = Woken
    /\ caller' = "idle"
    /\ UNCHANGED <<exists, action, deadline, locked, cached, calls>>

\* Context::setIdlePruningTimeout: notifies without the mutex.
SetIdlePruningTimeout ==
    /\ BeginCall
    /\ caller' = IF exists THEN "notify" ELSE "idle"
    /\ UNCHANGED <<exists, action, deadline, thread, locked, cached>>

\* Context::setProperties with idle optimisations: the constructor starts the thread
\* before it initialises "action", the member declared after it ...
Enable ==
    /\ BeginCall
    /\ ~exists
    /\ exists' = TRUE
    /\ action' = "UNSET"
    /\ deadline' = "never"
    /\ thread' = "spawned"
    /\ caller' = "construct"
    /\ UNCHANGED <<locked, cached>>

\* ... which it does without the mutex.
Construct ==
    /\ caller = "construct"
    /\ action' = "NOP"
    /\ caller' = "idle"
    /\ UNCHANGED <<exists, deadline, thread, locked, cached, calls>>

\* Context::setProperties without them, or ~Context: ~ResourceCleaner.
Disable ==
    /\ BeginCall
    /\ exists
    /\ caller' = "break"
    /\ UNCHANGED <<exists, action, deadline, thread, locked, cached>>

\* Mutant: BREAK is set without the mutex.
SetBreakUnlocked ==
    /\ caller = "break"
    /\ action' = "BREAK"
    /\ caller' = "notifyBreak"
    /\ UNCHANGED <<exists, deadline, thread, locked, cached, calls>>

SetBreak ==
    /\ caller = "break"
    /\ ~locked
    /\ action' = "BREAK"
    /\ caller' = "notifyBreak"
    /\ UNCHANGED <<exists, deadline, thread, locked, cached, calls>>

NotifyBreak ==
    /\ caller = "notifyBreak"
    /\ thread' = Woken
    /\ caller' = "join"
    /\ UNCHANGED <<exists, action, deadline, locked, cached, calls>>

Join ==
    /\ caller = "join"
    /\ thread = "exited"
    /\ thread' = "none"
    /\ exists' = FALSE
    /\ caller' = "idle"
    /\ UNCHANGED <<action, deadline, locked, cached, calls>>

\* Context::releaseMemory called by the application.
ReleaseMemory ==
    /\ BeginCall
    /\ cached' = FALSE
    /\ UNCHANGED <<exists, action, deadline, thread, locked, caller>>

-----------------------------------------------------------------------------
(* The cleaner's thread.                                                   *)

ThreadStarts ==
    /\ thread = "spawned"
    /\ TimelyStart => action # "UNSET"
    /\ thread' = "check" /\ locked' = TRUE
    /\ UNCHANGED <<exists, action, deadline, cached, caller, calls>>

\* The loop condition, on any value while "action" is not initialised.
CheckAction ==
    /\ thread = "check"
    /\ \/ action \in {"BREAK", "UNSET"} /\ thread' = "exited" /\ locked' = FALSE
       \/ action # "BREAK" /\ thread' = "toWait" /\ UNCHANGED locked
    /\ UNCHANGED <<exists, action, deadline, cached, caller, calls>>

\* wait_until releases the mutex as it starts to wait.
WaitUntil ==
    /\ thread = "toWait"
    /\ thread' = "waiting" /\ locked' = FALSE
    /\ UNCHANGED <<exists, action, deadline, cached, caller, calls>>

DeadlinePasses ==
    /\ thread = "waiting"
    /\ deadline = "armed"
    /\ thread' = "timeout"
    /\ UNCHANGED <<exists, action, deadline, locked, cached, caller, calls>>

\* wait_until returns timeout, also when it was notified but the deadline has passed.
TimedOut ==
    /\ thread = "timeout" \/ (thread = "woken" /\ deadline = "armed")
    /\ cached' = FALSE
    /\ deadline' = "never"
    /\ thread' = "check" /\ locked' = TRUE
    /\ UNCHANGED <<exists, action, caller, calls>>

\* wait_until returns no_timeout.
Notified ==
    /\ thread = "woken"
    /\ deadline' = IF action = "PRUNE_AFTER_TIMEOUT" THEN "armed" ELSE deadline
    /\ thread' = "check" /\ locked' = TRUE
    /\ UNCHANGED <<exists, action, cached, caller, calls>>

-----------------------------------------------------------------------------

InCall == SetIdle \/ Notify \/ Construct \/ SetBreak \/ NotifyBreak \/ Join

ThreadStep == ThreadStarts \/ CheckAction \/ WaitUntil \/ DeadlinePasses \/ TimedOut \/ Notified

Next ==
    \/ RunInference \/ SetIdlePruningTimeout \/ Enable \/ Disable \/ ReleaseMemory
    \/ InCall
    \/ ThreadStep

\* A call in progress and the thread keep running, and time passes.
FairSpec == Init /\ [][Next]_vars /\ WF_vars(InCall) /\ WF_vars(ThreadStep)

-----------------------------------------------------------------------------
(* Properties.                                                             *)

\* No notification that matters is lost, whatever the thread did when the action was
\* set: once setIdle has notified, the thread has a deadline or is awake, and it does not
\* sleep, nor is it about to, while the destructor joins it (ResourceCleaner::setIdle,
\* ResourceCleaner::~ResourceCleaner).  A thread that starts late misses a setIdle.
IdleIsSeen ==
    exists /\ cached /\ action = "PRUNE_AFTER_TIMEOUT" /\ caller \notin {"setIdle", "notify"}
        => deadline = "armed" \/ thread = "woken"
BreakIsSeen == caller = "join" => thread \notin {"toWait", "waiting"}
NotificationsSeen == BreakIsSeen /\ (TimelyStart => IdleIsSeen)

\* When idle optimisations are on, what an inference leaves in the caches is released
\* once the application is idle, whichever calls came before: no setIdle is lost.
IdleMemoryReleased ==
    (cached /\ exists /\ caller = "setIdle") ~> (~cached \/ ~exists)

\* Every call returns; in particular the destructor joins the thread, which cannot
\* miss BREAK and sleep for good.
CleanerCallsReturn == caller # "idle" ~> caller = "idle"
=============================================================================

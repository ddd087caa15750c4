---------------------------- MODULE CommandQueues ---------------------------
(***************************************************************************)
(* Submission of command lists and waiting for them: L0::CommandQueue and  *)
(* L0::Fence (cmdqueue.cpp, fence.cpp), VPU::VPUDeviceQueue::submit        *)
(* (vpu_command_queue.cpp), the part of VPU::VPUJob and VPUCommandBuffer   *)
(* they drive (job.cpp, command_buffer.cpp), and the scratch and           *)
(* preemption buffer caches all queues of a context share.                 *)
(*                                                                         *)
(* Threads of the application call executeCommandLists, synchronize,       *)
(* Fence::synchronize, queue creation and destruction concurrently; every  *)
(* step of such a call that another thread can observe is an action of its *)
(* own.  The device completes submitted jobs at any time, successfully or  *)
(* not.  A job stands for one closed command list with one command buffer  *)
(* (how a list is split into several is the subject of InOrderQueue).      *)
(*                                                                         *)
(* What the application must respect, as the guards MaySubmit, MayWaitOn   *)
(* and MayPassFence state it: a command list is used by one call at a time *)
(* (calls that wait for it included); it is not submitted again before a   *)
(* wait has reported on it, except to an in-order queue right after itself;*)
(* a fence is reset, and tracks no job, when it is passed to a call.       *)
(* MayUse says which queues a thread calls into; any thread may wait for a *)
(* fence.                                                                  *)
(***************************************************************************)
EXTENDS BufferCaches

CONSTANTS
    Threads, Queues, Jobs, Fences,
    ScratchBufs,       \* identities of the scratch buffer objects
    PreemptBufs,       \* identities of the preemption buffer objects
    NoBuf, NoJob, NoFence,
    EmptyJobs,         \* jobs of command lists without commands
    AllocSize,         \* getAllocSize() of each scratch buffer object
    ScratchSize,       \* inferenceScratchSize of each job, 0 if it needs none
    InOrder,           \* queues created with ModeFlags::IN_ORDER
    Synchronous,       \* queues in CommandQueueMode::SYNCHRONOUS
    Preemption,        \* isPreemptionBufferSupported()
    MayUse,            \* the queues each thread uses
    FenceQueue,        \* the queue each fence is created on
    QueueDepth,        \* submissions a device queue holds before EBUSY
    SubmitErrors,      \* may the submit ioctl fail for good
    JobErrors,         \* may a job end with an error status
    PreloadSizes       \* scratch sizes of the graphs that are loaded

ASSUME ConstantsAssumption ==
    /\ NoBuf \notin ScratchBufs \cup PreemptBufs
    /\ NoJob \notin Jobs
    /\ NoFence \notin Fences
    /\ EmptyJobs \subseteq Jobs
    /\ AllocSize \in [ScratchBufs -> Nat]
    /\ ScratchSize \in [Jobs -> Nat]
    /\ Queues # {} /\ InOrder \subseteq Queues
    /\ Synchronous \subseteq Queues
    /\ Preemption \in BOOLEAN
    /\ MayUse \in [Threads -> SUBSET Queues]
    /\ FenceQueue \in [Fences -> Queues]
    /\ QueueDepth \in Nat \ {0}
    /\ SubmitErrors \in BOOLEAN
    /\ JobErrors \in BOOLEAN
    /\ PreloadSizes \subseteq Nat \ {0}

ASSUME FiniteAssumption == IsFiniteSet(Queues) /\ IsFiniteSet(PreemptBufs)

VARIABLES
    scratchBuffers,    \* ScratchCacheFactory::scratchBuffers
    preemptionBuffers, \* PreemptionCacheFactory::preemptionBuffers
    numQueues,         \* PreemptionCacheFactory::numQueues
    preload,           \* size a graph load still has to acquire, 0 if none
    live,              \* the command queues that exist
    queueBuf,          \* CommandQueue::preemptionBuffer
    tracked,           \* CommandQueue::trackedJobs
    lastWaitBo,        \* VPUDeviceQueueManaged::lastWaitBo, as the job it belongs to
    fences,            \* the fences that exist (CommandQueue::fences)
    signaled,          \* Fence::signaled
    fenceJobs,         \* Fence::trackedJobs
    cb,                \* the command buffer of each job
    run,               \* the last submission of each job, as the device sees it
    th,                \* the API call each thread is in
    accepted,          \* history: unfinished or failed jobs of successful executes
    owed               \* history: what a wait must not report as SUCCESS

cacheVars == <<scratchBuffers, preemptionBuffers, numQueues, preload>>
queueVars == <<live, queueBuf, tracked, lastWaitBo>>
fenceVars == <<fences, signaled, fenceJobs>>
vars == <<cacheVars, queueVars, fenceVars, cb, run, th, accepted, owed>>

Status == {"NONE", "OK", "FAILED"}
Result == {"SUCCESS", "NOT_READY", "ERROR"}

\* How a job may end.
Outcomes == IF JobErrors THEN {"OK", "FAILED"} ELSE {"OK"}

\* VPUCommandBuffer: the buffers it holds references to, the scratch buffer its
\* inference is patched to for the submission being prepared,
\* VPUJob::hasInOrderWorkload, jobStatus.
CommandBuffer == [scratch : ScratchBufs \cup {NoBuf}, preempt : PreemptBufs \cup {NoBuf},
                  patched : ScratchBufs \cup {NoBuf}, inOrder : BOOLEAN, status : Status]

\* A submission: executing or not, whether a call has reported its end, its queue,
\* the buffers the device accesses for it, the status the kernel reports for it.
Submission == [on : BOOLEAN, seen : BOOLEAN, q : Queues, scratch : SUBSET (ScratchBufs \cup {NoBuf}),
               preempt : PreemptBufs \cup {NoBuf}, status : Status]

\* A thread's call: where it is, its queue and fence; lists left to submit, the
\* current one, those submitted or waited for; what is left to wait for; the result.
Call == [pc : {"idle", "next", "attach", "submit", "ioctl",
               "enter", "sync", "wait", "waited", "ret"},
         op : {"none", "execute", "synchronize", "fence", "destroy"},
         q : Queues, f : Fences \cup {NoFence},
         todo : SUBSET Jobs, cur : Jobs \cup {NoJob}, done : SUBSET Jobs,
         fencesLeft : SUBSET Fences, waitLeft : SUBSET Jobs, result : Result]

\* Types of the state; a call has a current list from updateOnSubmit to the ioctl.
TypeOK ==
    /\ scratchBuffers \subseteq ScratchBufs
    /\ preemptionBuffers \subseteq PreemptBufs
    /\ numQueues \in Nat
    /\ preload \in Nat
    /\ live \subseteq Queues
    /\ queueBuf \in [Queues -> PreemptBufs \cup {NoBuf}]
    /\ tracked \in [Queues -> SUBSET Jobs]
    /\ lastWaitBo \in [Queues -> Jobs \cup {NoJob}]
    /\ fences \subseteq Fences
    /\ signaled \in [Fences -> BOOLEAN]
    /\ fenceJobs \in [Fences -> SUBSET Jobs]
    /\ cb \in [Jobs -> CommandBuffer]
    /\ run \in [Jobs -> Submission]
    /\ th \in [Threads -> Call]
    /\ \A t \in Threads : th[t].cur \in Jobs <=> th[t].pc \in {"attach", "submit", "ioctl"}
    /\ accepted \in [Queues -> SUBSET Jobs]
    /\ owed \in [Threads -> SUBSET Jobs]

AnyQueue == CHOOSE q \in Queues : TRUE

NoCall == [pc |-> "idle", op |-> "none", q |-> AnyQueue, f |-> NoFence,
           todo |-> {}, cur |-> NoJob, done |-> {},
           fencesLeft |-> {}, waitLeft |-> {}, result |-> "SUCCESS"]

NoSubmission == [on |-> FALSE, seen |-> TRUE, q |-> AnyQueue, scratch |-> {},
                 preempt |-> NoBuf, status |-> "NONE"]

NewCommandBuffer == [scratch |-> NoBuf, preempt |-> NoBuf, patched |-> NoBuf,
                     inOrder |-> FALSE, status |-> "NONE"]

Init ==
    /\ scratchBuffers = {}
    /\ preemptionBuffers = {}
    /\ numQueues = 0
    /\ preload = 0
    /\ live = {}
    /\ queueBuf = [q \in Queues |-> NoBuf]
    /\ tracked = [q \in Queues |-> {}]
    /\ lastWaitBo = [q \in Queues |-> NoJob]
    /\ fences = {}
    /\ signaled = [f \in Fences |-> FALSE]
    /\ fenceJobs = [f \in Fences |-> {}]
    /\ cb = [j \in Jobs |-> NewCommandBuffer]
    /\ run = [j \in Jobs |-> NoSubmission]
    /\ th = [t \in Threads |-> NoCall]
    /\ accepted = [q \in Queues |-> {}]
    /\ owed = [t \in Threads |-> {}]

-----------------------------------------------------------------------------
(* References.  A cached buffer is idle when only the cache holds it.      *)

IdleScratch == {b \in scratchBuffers : \A j \in Jobs : cb[j].scratch # b}

JobHoldsPreempt(b) == \E j \in Jobs : cb[j].preempt = b

IdlePreempt == {b \in preemptionBuffers :
                    ~JobHoldsPreempt(b) /\ \A q \in Queues : queueBuf[q] # b}

-----------------------------------------------------------------------------
(* Queue and fence lifetime.                                               *)

\* CommandQueue::create and the constructor: preemptionCacheLoad.
CreateQueue(q) ==
    /\ q \notin live
    /\ \A t \in Threads : th[t].pc # "idle" => th[t].q # q
    /\ live' = live \cup {q}
    /\ numQueues' = numQueues + 1
    /\ UNCHANGED <<scratchBuffers, preemptionBuffers, preload, queueBuf,
                   tracked, lastWaitBo, fenceVars, cb, run, th, accepted, owed>>

\* A thread is inside the loop of synchronize that holds fenceMutex shared.
HoldsFenceMutex(t, q) ==
    /\ th[t].q = q
    /\ th[t].op \in {"execute", "synchronize", "destroy"}
    /\ \/ th[t].pc = "sync"
       \/ th[t].pc \in {"wait", "waited"} /\ th[t].f # NoFence

\* CommandQueue::createFence, with or without ZE_FENCE_FLAG_SIGNALED.
CreateFence(f, flag) ==
    /\ f \notin fences
    /\ FenceQueue[f] \in live
    /\ \A t \in Threads : ~HoldsFenceMutex(t, FenceQueue[f])
    /\ fences' = fences \cup {f}
    /\ signaled' = [signaled EXCEPT ![f] = flag]
    /\ fenceJobs' = [fenceJobs EXCEPT ![f] = {}]
    /\ UNCHANGED <<cacheVars, queueVars, cb, run, th, accepted, owed>>

\* No call uses the fence and no job it tracks is executing.
FenceIdle(f) ==
    /\ \A t \in Threads : th[t].pc # "idle" => th[t].f # f
    /\ \A j \in fenceJobs[f] : ~run[j].on

\* Fence::destroy, CommandQueue::destroyFence.
DestroyFence(f) ==
    /\ f \in fences /\ FenceQueue[f] \in live
    /\ FenceIdle(f)
    /\ \A t \in Threads : ~HoldsFenceMutex(t, FenceQueue[f])
    /\ fences' = fences \ {f}
    /\ accepted' = [accepted EXCEPT ![FenceQueue[f]] = @ \ fenceJobs[f]]
    /\ fenceJobs' = [fenceJobs EXCEPT ![f] = {}]
    /\ UNCHANGED <<cacheVars, queueVars, signaled, cb, run, th, owed>>

\* Fence::reset.
ResetFence(f) ==
    /\ f \in fences /\ FenceQueue[f] \in live
    /\ \A t \in Threads : th[t].pc # "idle" => th[t].f # f
    /\ signaled' = [signaled EXCEPT ![f] = FALSE]
    /\ UNCHANGED <<cacheVars, queueVars, fences, fenceJobs, cb, run, th, accepted, owed>>

-----------------------------------------------------------------------------
(* The caches.                                                             *)

\* Mutants: acquire forgets use_count().
PreemptionAcquireBusy(b) ==
    \/ b \in preemptionBuffers /\ UNCHANGED preemptionBuffers
    \/ preemptionBuffers = {} /\ b \in PreemptBufs /\ preemptionBuffers' = {b}
ScratchAcquireBusy(b, size) ==
    LET hits == BestFit(scratchBuffers, AllocSize, size)
    IN  \/ b \in hits /\ UNCHANGED scratchBuffers
        \/ hits = {} /\ b \in ScratchBufs \ scratchBuffers /\ AllocSize[b] = size
           /\ scratchBuffers' = scratchBuffers \cup {b}

\* PreemptionCacheFactory::acquire returning b: reuse an idle buffer, else
\* allocate one, or fail to.
PreemptionAcquire(b) ==
    \/ b \in IdlePreempt /\ UNCHANGED preemptionBuffers
    \/ /\ IdlePreempt = {}
       /\ b \in PreemptBufs \ preemptionBuffers
       /\ preemptionBuffers' = preemptionBuffers \cup {b}
    \/ IdlePreempt = {} /\ b = NoBuf /\ UNCHANGED preemptionBuffers

\* ScratchCacheFactory::acquire returning b, for a size other than 0.
ScratchAcquire(b, size) ==
    LET hits == BestFit(IdleScratch, AllocSize, size)
    IN  \/ b \in hits /\ UNCHANGED scratchBuffers
        \/ /\ hits = {}
           /\ b \in ScratchBufs \ scratchBuffers
           /\ AllocSize[b] = size
           /\ scratchBuffers' = scratchBuffers \cup {b}
        \/ hits = {} /\ b = NoBuf /\ UNCHANGED scratchBuffers

\* Loading a graph, scratchCachePreload: first the smaller buffers are pruned ...
PreloadPrune(size) ==
    /\ preload = 0
    /\ scratchBuffers' = ScratchPrune(scratchBuffers, IdleScratch, AllocSize, size - 1)
    /\ preload' = size
    /\ UNCHANGED <<preemptionBuffers, numQueues, queueVars, fenceVars,
                   cb, run, th, accepted, owed>>

\* ... then, in a second critical section, one is acquired and let go at once.
PreloadAcquire ==
    /\ preload # 0
    /\ \E b \in ScratchBufs \cup {NoBuf} : ScratchAcquire(b, preload)
    /\ preload' = 0
    /\ UNCHANGED <<preemptionBuffers, numQueues, queueVars, fenceVars,
                   cb, run, th, accepted, owed>>

\* Unloading a graph (ElfParser's destructor).
UnloadGraph(size) ==
    /\ scratchBuffers' = ScratchPrune(scratchBuffers, IdleScratch, AllocSize, size)
    /\ UNCHANGED <<preemptionBuffers, numQueues, preload, queueVars,
                   fenceVars, cb, run, th, accepted, owed>>

\* PreemptionCacheFactory::prune, with `idle` the buffers only the cache holds.
PruneQueueCount(idle) ==
    /\ numQueues' = QueuesAfterPrune(numQueues)
    /\ preemptionBuffers' \in PreemptionPrune(preemptionBuffers, idle, numQueues')

\* Context::releaseMemory, called by the application or by the idle cleaner.
ReleaseMemory ==
    /\ PruneQueueCount(IdlePreempt)
    /\ scratchBuffers' = {b \in scratchBuffers : b \notin IdleScratch}
    /\ UNCHANGED <<preload, queueVars, fenceVars, cb, run, th, accepted, owed>>

-----------------------------------------------------------------------------
(* CommandQueue::executeCommandLists.                                      *)

\* The call of thread t becomes c.
Becomes(t, c) == th' = [th EXCEPT ![t] = c]

\* A call that returns r; an execute that fails forgets what it submitted.
Returning(t, r) == [NoCall EXCEPT !.pc = "ret", !.op = th[t].op, !.q = th[t].q, !.f = th[t].f,
                                  !.result = r]

\* The lists thread t still has in hand.
InHand(t) == th[t].todo \cup ({th[t].cur} \ {NoJob})

\* The jobs a wait on queue q may come to touch.
TrackedOn(q) == tracked[q] \cup UNION {fenceJobs[f] : f \in {g \in Fences : FenceQueue[g] = q}}

\* The jobs thread t may still touch by waiting.
WaitsOn(t) ==
    IF \/ th[t].pc \in {"enter", "sync", "wait", "waited"}
       \/ th[t].pc \notin {"idle", "ret"} /\ th[t].q \in Synchronous
    THEN th[t].waitLeft \cup TrackedOn(th[t].q) ELSE {}

MaySubmit(t, q, lists, j) ==
    /\ ~run[j].seen => q \in InOrder /\ lastWaitBo[q] = j /\ lists = {j}
    /\ \A s \in Threads \ {t} : j \notin InHand(s) \cup th[s].done \cup WaitsOn(s)

MayWaitOn(t, q) == \A s \in Threads \ {t} : InHand(s) \cap TrackedOn(q) = {}

MayPassFence(f) ==
    /\ f \in fences /\ FenceQueue[f] \in live
    /\ ~signaled[f] /\ fenceJobs[f] = {}
    /\ \A t \in Threads : th[t].pc # "idle" => th[t].f # f

\* The call, up to the loop: the lists are closed; the queue takes a preemption
\* buffer from the cache unless it has one.
Execute(t, q, lists, f) ==
    /\ th[t].pc = "idle"
    /\ q \in live /\ q \in MayUse[t]
    /\ lists # {}
    /\ \A j \in lists : MaySubmit(t, q, lists, j)
    /\ q \in Synchronous => MayWaitOn(t, q)
    /\ f # NoFence => MayPassFence(f)
    /\ IF Preemption /\ queueBuf[q] = NoBuf
       THEN \E b \in PreemptBufs \cup {NoBuf} :
                PreemptionAcquire(b) /\ queueBuf' = [queueBuf EXCEPT ![q] = b]
       ELSE UNCHANGED <<preemptionBuffers, queueBuf>>
    /\ Becomes(t, [NoCall EXCEPT !.pc = "next", !.op = "execute", !.q = q, !.f = f,
                                 !.todo = lists])
    /\ UNCHANGED <<scratchBuffers, numQueues, preload, live, tracked,
                   lastWaitBo, fenceVars, cb, run, accepted, owed>>

\* An empty command list is skipped.
SkipEmpty(t, j) ==
    /\ th[t].pc = "next"
    /\ j \in th[t].todo \cap EmptyJobs
    /\ Becomes(t, [th[t] EXCEPT !.todo = @ \ {j}])
    /\ UNCHANGED <<cacheVars, queueVars, fenceVars, cb, run, accepted, owed>>

\* VPUJob::updateOnSubmit: the command buffer takes a scratch buffer and the
\* inference is patched to it, in memory that a running submission also reads.
UpdateOnSubmit(t, j) ==
    /\ th[t].pc = "next"
    /\ j \in th[t].todo \ EmptyJobs
    /\ \/ /\ ScratchSize[j] = 0
          /\ Becomes(t, [th[t] EXCEPT !.pc = "attach", !.cur = j, !.todo = @ \ {j}])
          /\ UNCHANGED <<scratchBuffers, cb, run>>
       \/ \E b \in ScratchBufs :
          /\ ScratchSize[j] # 0
          /\ ScratchAcquire(b, ScratchSize[j])
          /\ cb' = [cb EXCEPT ![j] = [@ EXCEPT !.scratch = b, !.patched = b]]
          /\ run' = [run EXCEPT ![j].scratch = IF run[j].on THEN @ \cup {b} ELSE @]
          /\ Becomes(t, [th[t] EXCEPT !.pc = "attach", !.cur = j, !.todo = @ \ {j}])
       \/ /\ ScratchSize[j] # 0
          /\ ScratchAcquire(NoBuf, ScratchSize[j])
          /\ cb' = [cb EXCEPT ![j].scratch = NoBuf]
          /\ Becomes(t, Returning(t, "ERROR"))
          /\ UNCHANGED run
    /\ UNCHANGED <<preemptionBuffers, numQueues, preload, queueVars, fenceVars,
                   accepted, owed>>

\* VPUJob::addPreemptionBuffer: attaches the queue's buffer, which another thread
\* may have put back since, unless the command buffer already has one.
AddPreemptionBuffer(t) ==
    LET j == th[t].cur
    IN  /\ th[t].pc = "attach"
        /\ cb' = IF cb[j].preempt = NoBuf
                 THEN [cb EXCEPT ![j].preempt = queueBuf[th[t].q]]
                 ELSE cb
        /\ Becomes(t, [th[t] EXCEPT !.pc = "submit"])
        /\ UNCHANGED <<cacheVars, queueVars, fenceVars, run, accepted, owed>>

\* What VPUCommandBuffer::waitForCompletion leaves once the wait succeeded.
Completed(c, status) == [c EXCEPT !.scratch = NoBuf, !.preempt = NoBuf, !.status = status]

\* VPUDeviceQueueManaged::submit on an in-order queue, VPUJob::makeInOrder: a job
\* that follows itself is first waited for, without a time limit.
MakeInOrder(t) ==
    LET j == th[t].cur
        q == th[t].q
        again == lastWaitBo[q] = j
    IN  /\ th[t].pc = "submit"
        /\ q \in InOrder
        /\ again => ~run[j].on
        /\ cb' = [cb EXCEPT ![j] = [(IF again THEN Completed(cb[j], run[j].status) ELSE cb[j])
                                    EXCEPT !.inOrder = TRUE]]
        /\ lastWaitBo' = [lastWaitBo EXCEPT ![q] = j]
        /\ Becomes(t, [th[t] EXCEPT !.pc = "ioctl"])
        /\ UNCHANGED <<cacheVars, live, queueBuf, tracked, fenceVars, run, accepted, owed>>

\* VPUDeviceQueueManaged::submit on another queue: a job that ran in order gets
\* new command buffers (VPUJob::stripInOrder), which no queue has as lastWaitBo.
StripInOrder(t) ==
    LET j == th[t].cur
    IN  /\ th[t].pc = "submit"
        /\ th[t].q \notin InOrder
        /\ IF cb[j].inOrder
           THEN /\ cb' = [cb EXCEPT ![j] = [NewCommandBuffer EXCEPT !.patched = cb[j].patched]]
                /\ lastWaitBo' = [q \in Queues |-> IF lastWaitBo[q] = j THEN NoJob
                                                   ELSE lastWaitBo[q]]
           ELSE UNCHANGED <<cb, lastWaitBo>>
        /\ Becomes(t, [th[t] EXCEPT !.pc = "ioctl"])
        /\ UNCHANGED <<cacheVars, live, queueBuf, tracked, fenceVars, run, accepted, owed>>

OnQueue(q) == {j \in Jobs : run[j].on /\ run[j].q = q}

\* submitWithWait: the submit ioctl succeeds; with a full queue it is retried.
SubmitIoctl(t) ==
    LET j == th[t].cur
        q == th[t].q
    IN  /\ th[t].pc = "ioctl"
        /\ Cardinality(OnQueue(q)) < QueueDepth
        /\ run' = [run EXCEPT ![j] =
                    [on |-> TRUE, seen |-> FALSE, q |-> q, preempt |-> cb[j].preempt, status |-> "NONE",
                     scratch |-> IF ScratchSize[j] = 0 THEN {} ELSE {cb[j].patched}]]
        /\ cb' = [cb EXCEPT ![j].patched = NoBuf]
        /\ Becomes(t, [th[t] EXCEPT !.pc = "next", !.cur = NoJob, !.done = @ \cup {j}])
        /\ accepted' = [p \in Queues |-> accepted[p] \ {j}]
        /\ owed' = [s \in Threads |-> owed[s] \ {j}]
        /\ UNCHANGED <<cacheVars, queueVars, fenceVars>>

\* submitWithWait: two seconds of EBUSY, or another error of the ioctl.
SubmitFails(t) ==
    /\ SubmitErrors
    /\ th[t].pc = "ioctl"
    /\ Becomes(t, Returning(t, "ERROR"))
    /\ UNCHANGED <<cacheVars, queueVars, fenceVars, cb, run, accepted, owed>>

\* After the loop: the fence or the queue tracks the jobs; a fence of another queue
\* is refused; a synchronous queue goes on to synchronize.
TrackJobs(t) ==
    LET q == th[t].q
        f == th[t].f
        foreign == f # NoFence /\ (f \notin fences \/ FenceQueue[f] # q)
    IN  /\ th[t].pc = "next"
        /\ th[t].todo = {}
        /\ IF foreign
           THEN Becomes(t, Returning(t, "ERROR")) /\ UNCHANGED <<signaled, fenceJobs, tracked, accepted>>
           ELSE /\ IF f # NoFence
                   THEN /\ signaled' = [signaled EXCEPT ![f] = @ \/ th[t].done = {}]
                        /\ fenceJobs' = [fenceJobs EXCEPT ![f] = th[t].done]
                        /\ UNCHANGED tracked
                   ELSE /\ tracked' = [tracked EXCEPT ![q] = @ \cup th[t].done]
                        /\ UNCHANGED <<signaled, fenceJobs>>
                /\ accepted' = [accepted EXCEPT ![q] =
                        @ \cup {j \in th[t].done : run[j].on \/ run[j].status = "FAILED"}]
                /\ Becomes(t, IF q \in Synchronous
                               THEN [th[t] EXCEPT !.pc = "enter", !.done = {}]
                               ELSE Returning(t, "SUCCESS"))
        /\ UNCHANGED <<cacheVars, live, queueBuf, lastWaitBo, fences, cb, run, owed>>

-----------------------------------------------------------------------------
(* CommandQueue::synchronize, Fence::synchronize, CommandQueue::waitForJobs. *)

Synchronize(t, q) ==
    /\ th[t].pc = "idle"
    /\ q \in live /\ q \in MayUse[t]
    /\ MayWaitOn(t, q)
    /\ Becomes(t, [NoCall EXCEPT !.pc = "enter", !.op = "synchronize", !.q = q])
    /\ UNCHANGED <<cacheVars, queueVars, fenceVars, cb, run, accepted, owed>>

\* Mutant: the shortcut of synchronize ignores the fences.
EnterSynchronizeNoFences(t) ==
    LET q == th[t].q
    IN  /\ th[t].pc = "enter"
        /\ owed' = [owed EXCEPT ![t] = accepted[q]]
        /\ Becomes(t, IF tracked[q] = {} THEN Returning(t, "SUCCESS")
                       ELSE [th[t] EXCEPT !.pc = "sync",
                                          !.fencesLeft = {f \in fences : FenceQueue[f] = q}])
        /\ UNCHANGED <<cacheVars, queueVars, fenceVars, cb, run, accepted>>

\* synchronize: nothing tracked and no fence exists, or the loop over the fences.
EnterSynchronize(t) ==
    LET q  == th[t].q
        fs == {f \in fences : FenceQueue[f] = q}
    IN  /\ th[t].pc = "enter"
        /\ owed' = [owed EXCEPT ![t] = accepted[q]]
        /\ Becomes(t, IF tracked[q] = {} /\ fs = {} THEN Returning(t, "SUCCESS")
                       ELSE [th[t] EXCEPT !.pc = "sync", !.fencesLeft = fs])
        /\ UNCHANGED <<cacheVars, queueVars, fenceVars, cb, run, accepted>>

\* Mutant: a fence without jobs is waited for.
NextFenceAlways(t, f) ==
    /\ th[t].pc = "sync"
    /\ f \in th[t].fencesLeft
    /\ fenceJobs[f] # {}
    /\ Becomes(t, [th[t] EXCEPT !.fencesLeft = @ \ {f}, !.pc = "wait", !.f = f,
                                !.waitLeft = fenceJobs[f]])
    /\ UNCHANGED <<cacheVars, queueVars, fenceVars, cb, run, accepted, owed>>

\* The next fence, if it tracks jobs (Fence::waitForJobs).
NextFence(t, f) ==
    /\ th[t].pc = "sync"
    /\ f \in th[t].fencesLeft
    /\ Becomes(t, IF fenceJobs[f] = {} THEN [th[t] EXCEPT !.fencesLeft = @ \ {f}]
                   ELSE [th[t] EXCEPT !.fencesLeft = @ \ {f}, !.pc = "wait", !.f = f,
                                      !.waitLeft = fenceJobs[f]])
    /\ UNCHANGED <<cacheVars, queueVars, fenceVars, cb, run, accepted, owed>>

\* After the last fence, the queue's own jobs.
NextTracked(t) ==
    /\ th[t].pc = "sync"
    /\ th[t].fencesLeft = {}
    /\ Becomes(t, [th[t] EXCEPT !.pc = "wait", !.f = NoFence, !.waitLeft = tracked[th[t].q]])
    /\ UNCHANGED <<cacheVars, queueVars, fenceVars, cb, run, accepted, owed>>

FenceSynchronize(t, f) ==
    /\ th[t].pc = "idle"
    /\ f \in fences
    /\ FenceQueue[f] \in live
    /\ MayWaitOn(t, FenceQueue[f])
    /\ owed' = [owed EXCEPT ![t] = fenceJobs[f] \cap accepted[FenceQueue[f]]]
    /\ LET call == [NoCall EXCEPT !.op = "fence", !.q = FenceQueue[f], !.f = f]
       IN  Becomes(t, IF signaled[f] THEN [call EXCEPT !.pc = "ret"]
                      ELSE IF fenceJobs[f] = {}
                      THEN [call EXCEPT !.pc = "ret", !.result = "NOT_READY"]
                      ELSE [call EXCEPT !.pc = "wait", !.waitLeft = fenceJobs[f]])
    /\ UNCHANGED <<cacheVars, queueVars, fenceVars, cb, run, accepted>>

\* VPUJob::waitForCompletion succeeds: the command buffer lets its buffers go.
WaitForCompletion(t, j) ==
    /\ th[t].pc = "wait"
    /\ j \in th[t].waitLeft
    /\ ~run[j].on
    /\ cb' = [cb EXCEPT ![j] = Completed(@, run[j].status)]
    /\ Becomes(t, [th[t] EXCEPT !.waitLeft = @ \ {j}, !.done = @ \cup {j}])
    /\ UNCHANGED <<cacheVars, queueVars, fenceVars, run, accepted, owed>>

\* The wait ioctl times out.  A synchronous execute waits without a time limit.
WaitTimesOut(t) ==
    /\ th[t].pc = "wait"
    /\ th[t].op # "execute"
    /\ \E j \in th[t].waitLeft : run[j].on
    /\ Becomes(t, Returning(t, "NOT_READY"))
    /\ UNCHANGED <<cacheVars, queueVars, fenceVars, cb, run, accepted, owed>>

\* waitForJobs, all jobs done: the queue puts its preemption buffer back if
\* use_count() says that no command buffer has it.
PutBackPreemptionBuffer(t) ==
    LET q == th[t].q
    IN  /\ th[t].pc = "wait"
        /\ th[t].waitLeft = {}
        /\ queueBuf' = IF Preemption /\ ~JobHoldsPreempt(queueBuf[q])
                       THEN [queueBuf EXCEPT ![q] = NoBuf] ELSE queueBuf
        /\ Becomes(t, [th[t] EXCEPT !.pc = "waited"])
        /\ UNCHANGED <<cacheVars, live, tracked, lastWaitBo, fenceVars, cb, run, accepted, owed>>

\* The status of the jobs (Device::jobStatusToResult), and what the callers of
\* waitForJobs do with it: only SUCCESS clears what is tracked.
JobsWaited(t) ==
    LET q == th[t].q
        f == th[t].f
        jobs == IF f = NoFence THEN tracked[q] ELSE fenceJobs[f]
    IN  /\ th[t].pc = "waited"
        /\ run' = [j \in Jobs |-> [run[j] EXCEPT !.seen = @ \/ j \in th[t].done]]
        /\ IF \E j \in jobs : cb[j].status # "OK"
           THEN Becomes(t, Returning(t, "ERROR")) /\ UNCHANGED <<signaled, fenceJobs, tracked>>
           ELSE /\ IF f = NoFence
                   THEN /\ tracked' = [tracked EXCEPT ![q] = {}]
                        /\ UNCHANGED <<signaled, fenceJobs>>
                   ELSE /\ fenceJobs' = [fenceJobs EXCEPT ![f] = {}]
                        /\ signaled' = [signaled EXCEPT ![f] = TRUE]
                        /\ UNCHANGED tracked
                /\ Becomes(t, IF f = NoFence \/ th[t].op = "fence" THEN Returning(t, "SUCCESS")
                               ELSE [th[t] EXCEPT !.pc = "sync", !.done = {}])
        /\ UNCHANGED <<cacheVars, live, queueBuf, lastWaitBo, fences, cb, accepted, owed>>

\* CommandQueue::destroy, once nothing executes on the queue and no call uses it:
\* the destructor first calls synchronize(0).
DestroyQueue(t, q) ==
    /\ th[t].pc = "idle"
    /\ q \in live /\ q \in MayUse[t]
    /\ OnQueue(q) = {}
    /\ MayWaitOn(t, q)
    /\ \A s \in Threads : th[s].pc # "idle" => th[s].q # q
    /\ live' = live \ {q}
    /\ Becomes(t, [NoCall EXCEPT !.pc = "enter", !.op = "destroy", !.q = q])
    /\ UNCHANGED <<cacheVars, queueBuf, tracked, lastWaitBo, fenceVars, cb, run, accepted, owed>>

\* Then it drops the preemption buffer, prunes the cache, and its members go.
QueueDestroyed(t) ==
    LET q == th[t].q
        mine == {f \in Fences : FenceQueue[f] = q}
    IN  /\ th[t].pc = "ret" /\ th[t].op = "destroy"
        /\ queueBuf' = [queueBuf EXCEPT ![q] = NoBuf]
        /\ PruneQueueCount({b \in preemptionBuffers :
                ~JobHoldsPreempt(b) /\ \A p \in Queues : queueBuf'[p] # b})
        /\ tracked' = [tracked EXCEPT ![q] = {}]
        /\ lastWaitBo' = [lastWaitBo EXCEPT ![q] = NoJob]
        /\ fences' = fences \ mine
        /\ fenceJobs' = [f \in Fences |-> IF f \in mine THEN {} ELSE fenceJobs[f]]
        /\ accepted' = [accepted EXCEPT ![q] = {}]
        /\ owed' = [owed EXCEPT ![t] = {}]
        /\ Becomes(t, NoCall)
        /\ UNCHANGED <<scratchBuffers, preload, live, signaled, cb, run>>

\* Any other call returns to the application.
Return(t) ==
    /\ th[t].pc = "ret" /\ th[t].op # "destroy"
    /\ Becomes(t, NoCall)
    /\ owed' = [owed EXCEPT ![t] = {}]
    /\ UNCHANGED <<cacheVars, queueVars, fenceVars, cb, run, accepted>>

-----------------------------------------------------------------------------
(* The device and the kernel driver (external).                            *)

\* A job completes, or is aborted: by itself or when the kernel resets the device.
DeviceCompletes(j, status) ==
    /\ run[j].on
    /\ run' = [run EXCEPT ![j] = [NoSubmission EXCEPT !.seen = run[j].seen, !.status = status]]
    /\ accepted' = IF status = "OK" THEN [q \in Queues |-> accepted[q] \ {j}] ELSE accepted
    /\ owed' = IF status = "OK" THEN [t \in Threads |-> owed[t] \ {j}] ELSE owed
    /\ UNCHANGED <<cacheVars, queueVars, fenceVars, cb, th>>

-----------------------------------------------------------------------------

CallStep(t) ==
    \/ \E j \in Jobs : SkipEmpty(t, j) \/ UpdateOnSubmit(t, j) \/ WaitForCompletion(t, j)
    \/ AddPreemptionBuffer(t) \/ MakeInOrder(t) \/ StripInOrder(t)
    \/ SubmitIoctl(t) \/ SubmitFails(t) \/ TrackJobs(t)
    \/ EnterSynchronize(t) \/ NextTracked(t)
    \/ \E f \in Fences : NextFence(t, f)
    \/ PutBackPreemptionBuffer(t) \/ JobsWaited(t) \/ QueueDestroyed(t) \/ Return(t)

CallBegin(t) ==
    \/ \E q \in Queues, lists \in SUBSET Jobs, f \in Fences \cup {NoFence} :
            Execute(t, q, lists, f)
    \/ \E q \in Queues : Synchronize(t, q) \/ DestroyQueue(t, q)
    \/ \E f \in Fences : FenceSynchronize(t, f)

Device == \E j \in Jobs, status \in Outcomes : DeviceCompletes(j, status)

Housekeeping ==
    \/ \E q \in Queues : CreateQueue(q)
    \/ \E f \in Fences, flag \in BOOLEAN : CreateFence(f, flag)
    \/ \E f \in Fences : DestroyFence(f) \/ ResetFence(f)
    \/ \E size \in PreloadSizes : PreloadPrune(size) \/ UnloadGraph(size)
    \/ PreloadAcquire
    \/ ReleaseMemory

Next ==
    \/ \E t \in Threads : CallBegin(t) \/ CallStep(t) \/ WaitTimesOut(t)
    \/ Device
    \/ Housekeeping

Spec == Init /\ [][Next]_vars

(***************************************************************************)
(* Fairness: a thread inside a call keeps running, and the device completes *)
(* or the kernel aborts (after its two-second TDR timeout) every job.       *)
(***************************************************************************)
Fairness ==
    /\ \A t \in Threads : WF_vars(CallStep(t))
    /\ \A j \in Jobs : WF_vars(\E status \in Outcomes : DeviceCompletes(j, status))

FairSpec == Spec /\ Fairness

-----------------------------------------------------------------------------
(* Properties.                                                             *)

\* No two executing jobs use the same scratch buffer, whatever order threads
\* acquire, release, prune and preload in: ScratchCacheFactory::acquire hands out
\* only buffers with use_count() = 1.
ScratchExclusive ==
    \A i, j \in Jobs : i # j /\ run[i].on /\ run[j].on
                            => run[i].scratch \cap run[j].scratch = {}

\* A buffer an executing job uses is neither free for another acquire nor prunable:
\* its cache entry exists and a command buffer or queue holds it as well.
InUseNotReclaimable ==
    \A j \in Jobs : run[j].on =>
        /\ run[j].scratch \subseteq scratchBuffers \ IdleScratch
        /\ run[j].preempt # NoBuf => run[j].preempt \in preemptionBuffers \ IdlePreempt

\* Executing jobs of different queues never share a preemption buffer, although a
\* queue returns its buffer in waitForJobs while another thread executes lists on it.
PreemptionPerQueue ==
    \A i, j \in Jobs : run[i].on /\ run[j].on /\ run[i].preempt # NoBuf
                            /\ run[i].preempt = run[j].preempt
                            => run[i].q = run[j].q

\* A wait on a queue or a fence that returns SUCCESS was not early: every job whose
\* executeCommandLists had returned before it began has completed, without error.
SuccessMeansDone ==
    \A t \in Threads : th[t].pc = "ret" /\ th[t].op \in {"synchronize", "fence"}
                            /\ th[t].result = "SUCCESS" => owed[t] = {}

\* When the last queue is gone, the destructors have emptied the preemption cache
\* but for buffers a command list still holds, however often releaseMemory ran.
NoPreemptionLeak ==
    live = {} /\ (\A t \in Threads : th[t].op # "destroy")
        => \A b \in preemptionBuffers : JobHoldsPreempt(b)

\* Every call returns: no wait, full device queue or chain of waits blocks forever.
CallsReturn == \A t \in Threads : th[t].pc # "idle" ~> th[t].pc = "idle"
=============================================================================

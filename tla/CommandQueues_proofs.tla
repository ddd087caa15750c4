------------------------ MODULE CommandQueues_proofs ------------------------
(***************************************************************************)
(* Theorems about CommandQueues, for any numbers of threads, queues, jobs, *)
(* fences and buffers, in three parts: the types of the state and memory    *)
(* that outlives the queues; the buffers of executing jobs; waits.         *)
(***************************************************************************)
EXTENDS CommandQueues, FiniteSetTheorems, TLAPS

USE ConstantsAssumption

-----------------------------------------------------------------------------
(* Type correctness.                                                       *)

\* A well formed call.
CallOK(c) == c \in Call /\ (c.cur \in Jobs <=> c.pc \in {"attach", "submit", "ioctl"})

\* The empty records the model starts from are well formed.
LEMMA EmptyRecords ==
    /\ AnyQueue \in Queues
    /\ NoCall \in Call /\ CallOK(NoCall)
    /\ NoSubmission \in Submission
    /\ NewCommandBuffer \in CommandBuffer
<1>1. AnyQueue \in Queues
  BY DEF AnyQueue
<1>2. NoCall \in Call /\ CallOK(NoCall)
  BY <1>1 DEF NoCall, Call, CallOK, Result
<1>3. NoSubmission \in Submission
  BY <1>1 DEF NoSubmission, Submission, Status
<1>4. NewCommandBuffer \in CommandBuffer
  BY DEF NewCommandBuffer, CommandBuffer, Status
<1> QED
  BY <1>1, <1>2, <1>3, <1>4

\* The types of one thread's call.
LEMMA ThreadType ==
    ASSUME TypeOK, NEW t \in Threads
    PROVE  /\ CallOK(th[t]) /\ th[t] \in Call
           /\ th[t].q \in Queues /\ th[t].f \in Fences \cup {NoFence} /\ th[t].cur \in Jobs \cup {NoJob}
           /\ th[t].todo \subseteq Jobs /\ th[t].done \subseteq Jobs
           /\ th[t].waitLeft \subseteq Jobs /\ th[t].fencesLeft \subseteq Fences
           /\ th[t].pc \in {"attach", "submit", "ioctl"} => th[t].cur \in Jobs
BY DEF TypeOK, CallOK, Call

\* The types of one job's command buffer and submission.
LEMMA JobType ==
    ASSUME TypeOK, NEW j \in Jobs
    PROVE  /\ cb[j] \in CommandBuffer /\ run[j] \in Submission
           /\ cb[j].scratch \in ScratchBufs \cup {NoBuf} /\ cb[j].patched \in ScratchBufs \cup {NoBuf}
           /\ cb[j].preempt \in PreemptBufs \cup {NoBuf}
           /\ run[j].status \in Status
BY DEF TypeOK, CommandBuffer, Submission

\* A call that returns is well formed.
LEMMA ReturningType ==
    ASSUME TypeOK, NEW t \in Threads, NEW r \in Result
    PROVE  CallOK(Returning(t, r))
<1>1. th[t] \in Call
  BY ThreadType
<1> QED
  BY <1>1, <1>1, EmptyRecords DEF Returning, NoCall, CallOK, Call

\* A thread whose call becomes a well formed one keeps the types of all calls.
LEMMA BecomesType ==
    ASSUME TypeOK, NEW t \in Threads, NEW c, CallOK(c), Becomes(t, c)
    PROVE  /\ th' \in [Threads -> Call]
           /\ \A s \in Threads : th'[s].cur \in Jobs <=> th'[s].pc \in {"attach", "submit", "ioctl"}
BY DEF TypeOK, CallOK, Becomes

\* The call of one thread becomes c, the others keep theirs.
LEMMA BecomesFields ==
    ASSUME TypeOK, NEW t \in Threads, NEW c, Becomes(t, c)
    PROVE  th'[t] = c /\ \A s \in Threads : s # t => th'[s] = th[s]
BY DEF TypeOK, Becomes

\* PreemptionCacheFactory::prune adds nothing to the cache.
LEMMA PruneKeepsTypes ==
    ASSUME TypeOK, NEW idle, PruneQueueCount(idle)
    PROVE  numQueues' \in Nat /\ preemptionBuffers' \subseteq preemptionBuffers
                              /\ preemptionBuffers' \subseteq PreemptBufs
<1>1. numQueues' \in Nat
  BY DEF PruneQueueCount, QueuesAfterPrune, TypeOK
<1>2. preemptionBuffers' \subseteq preemptionBuffers
  BY DEF PruneQueueCount, PreemptionPrune
<1> QED
  BY <1>1, <1>2 DEF TypeOK

\* What a completed wait leaves of a command buffer is well formed.
LEMMA CompletedType ==
    ASSUME NEW c \in CommandBuffer, NEW s \in Status
    PROVE  Completed(c, s) \in CommandBuffer
BY DEF Completed, CommandBuffer

\* The state before the first call is well-typed.
LEMMA InitType == Init => TypeOK
<1> SUFFICES ASSUME Init PROVE TypeOK
  OBVIOUS
<1>1. \A t \in Threads : th[t].cur \in Jobs <=> th[t].pc \in {"attach", "submit", "ioctl"}
  BY EmptyRecords DEF Init, CallOK
<1> QED
  BY <1>1, EmptyRecords DEF Init, TypeOK

\* Every step keeps the types.
LEMMA NextType ==
    ASSUME TypeOK, [Next]_vars
    PROVE  TypeOK'
<1> USE DEF cacheVars, queueVars, fenceVars
<1>1. ASSUME NEW q \in Queues, CreateQueue(q) PROVE TypeOK'
  BY <1>1 DEF CreateQueue, TypeOK
<1>2. ASSUME NEW f \in Fences, NEW flag \in BOOLEAN, CreateFence(f, flag) PROVE TypeOK'
  BY <1>2 DEF CreateFence, TypeOK
<1>3. ASSUME NEW f \in Fences, DestroyFence(f) PROVE TypeOK'
  BY <1>3 DEF DestroyFence, TypeOK
<1>4. ASSUME NEW f \in Fences, ResetFence(f) PROVE TypeOK'
  BY <1>4 DEF ResetFence, TypeOK
<1>5. ASSUME NEW size \in PreloadSizes, PreloadPrune(size) PROVE TypeOK'
  BY <1>5 DEF PreloadPrune, ScratchPrune, TypeOK
<1>6. ASSUME PreloadAcquire PROVE TypeOK'
  BY <1>6 DEF PreloadAcquire, ScratchAcquire, BestFit, IdleScratch, TypeOK
<1>7. ASSUME NEW size \in PreloadSizes, UnloadGraph(size) PROVE TypeOK'
  BY <1>7 DEF UnloadGraph, ScratchPrune, TypeOK
<1>8. ASSUME ReleaseMemory PROVE TypeOK'
  BY <1>8 DEF ReleaseMemory, PruneQueueCount, QueuesAfterPrune, PreemptionPrune, TypeOK
<1>9. ASSUME NEW t \in Threads, NEW q \in Queues, NEW lists \in SUBSET Jobs,
             NEW f \in Fences \cup {NoFence}, Execute(t, q, lists, f)
      PROVE  TypeOK'
  <2>1. CallOK([NoCall EXCEPT !.pc = "next", !.op = "execute", !.q = q, !.f = f, !.todo = lists])
    BY <1>9, EmptyRecords DEF CallOK, Call, NoCall
  <2>2. /\ th' \in [Threads -> Call]
        /\ \A s \in Threads : th'[s].cur \in Jobs <=> th'[s].pc \in {"attach", "submit", "ioctl"}
    BY <1>9, <2>1, BecomesType DEF Execute, Result
  <2> QED
    BY SMTT(20), <1>9, <2>1, <2>2, ThreadType DEF Execute, PreemptionAcquire, IdlePreempt, TypeOK
<1>10. ASSUME NEW t \in Threads, NEW j \in Jobs, SkipEmpty(t, j) PROVE TypeOK'
  <2>1. CallOK(th[t]) /\ th[t].pc = "next"
    BY <1>10, ThreadType DEF SkipEmpty
  <2>2. CallOK([th[t] EXCEPT !.todo = @ \ {j}])
    BY <1>10, <2>1 DEF CallOK, Call
  <2>3. /\ th' \in [Threads -> Call]
        /\ \A s \in Threads : th'[s].cur \in Jobs <=> th'[s].pc \in {"attach", "submit", "ioctl"}
    BY <1>10, <2>2, BecomesType DEF SkipEmpty, Result
  <2> QED
    BY <1>10, <2>1, <2>2, <2>3, ThreadType DEF SkipEmpty, TypeOK
<1>11. ASSUME NEW t \in Threads, NEW j \in Jobs, UpdateOnSubmit(t, j) PROVE TypeOK'
  <2>1. CallOK(th[t]) /\ th[t].pc = "next"
    BY <1>11, ThreadType DEF UpdateOnSubmit
  <2>2. CallOK([th[t] EXCEPT !.pc = "attach", !.cur = j, !.todo = @ \ {j}])
    BY <1>11, <2>1 DEF CallOK, Call
  <2>3. \A r \in Result : CallOK(Returning(t, r))
    BY ReturningType
  <2>4. /\ th' \in [Threads -> Call]
        /\ \A s \in Threads : th'[s].cur \in Jobs <=> th'[s].pc \in {"attach", "submit", "ioctl"}
    BY <1>11, <2>2, <2>3, BecomesType DEF UpdateOnSubmit, Result
  <2>5. \A b \in ScratchBufs : [cb[j] EXCEPT !.scratch = b, !.patched = b] \in CommandBuffer
    BY JobType DEF CommandBuffer
  <2>6. [cb[j] EXCEPT !.scratch = NoBuf] \in CommandBuffer
    BY JobType DEF CommandBuffer
  <2>7. \A b \in ScratchBufs : [run[j] EXCEPT !.scratch = IF run[j].on THEN @ \cup {b} ELSE @] \in Submission
    BY JobType DEF Submission
  <2>8. cb' \in [Jobs -> CommandBuffer]
    <3>1. CASE UNCHANGED cb
      BY <3>1 DEF TypeOK
    <3>2. ASSUME NEW b \in ScratchBufs, cb' = [cb EXCEPT ![j] = [@ EXCEPT !.scratch = b, !.patched = b]]
          PROVE  cb' \in [Jobs -> CommandBuffer]
      BY <3>2, <2>5 DEF TypeOK
    <3>3. CASE cb' = [cb EXCEPT ![j].scratch = NoBuf]
      BY <3>3, <2>6 DEF TypeOK
    <3> QED
      BY <1>11, <3>1, <3>2, <3>3 DEF UpdateOnSubmit
  <2>9. run' \in [Jobs -> Submission]
    <3>1. CASE UNCHANGED run
      BY <3>1 DEF TypeOK
    <3>2. ASSUME NEW b \in ScratchBufs,
                 run' = [run EXCEPT ![j].scratch = IF run[j].on THEN @ \cup {b} ELSE @]
          PROVE  run' \in [Jobs -> Submission]
      BY <3>2, <2>7 DEF TypeOK
    <3> QED
      BY <1>11, <3>1, <3>2 DEF UpdateOnSubmit
  <2>10. scratchBuffers' \subseteq ScratchBufs
    <3>1. ASSUME NEW b, NEW size, ScratchAcquire(b, size) PROVE scratchBuffers' \subseteq ScratchBufs
      BY <3>1 DEF ScratchAcquire, TypeOK
    <3>2. CASE UNCHANGED scratchBuffers
      BY <3>2 DEF TypeOK
    <3> QED
      BY <1>11, <3>1, <3>2 DEF UpdateOnSubmit
  <2> QED
    BY <1>11, <2>4, <2>8, <2>9, <2>10 DEF UpdateOnSubmit, TypeOK
<1>12. ASSUME NEW t \in Threads, AddPreemptionBuffer(t) PROVE TypeOK'
  <2>1. CallOK(th[t]) /\ th[t].pc = "attach"
    BY <1>12, ThreadType DEF AddPreemptionBuffer
  <2>2. CallOK([th[t] EXCEPT !.pc = "submit"])
    BY <1>12, <2>1 DEF CallOK, Call
  <2>3. /\ th' \in [Threads -> Call]
        /\ \A s \in Threads : th'[s].cur \in Jobs <=> th'[s].pc \in {"attach", "submit", "ioctl"}
    BY <1>12, <2>2, BecomesType DEF AddPreemptionBuffer, Result
  <2>4. [cb[th[t].cur] EXCEPT !.preempt = queueBuf[th[t].q]] \in CommandBuffer
    BY <1>12, JobType, ThreadType, CompletedType, EmptyRecords DEF CommandBuffer, TypeOK, AddPreemptionBuffer
  <2>5. cb' \in [Jobs -> CommandBuffer]
    BY <1>12, <2>4, ThreadType DEF AddPreemptionBuffer, TypeOK
  <2> QED
    BY <1>12, <2>1, <2>2, <2>3, <2>4, <2>5, ThreadType DEF AddPreemptionBuffer, TypeOK
<1>13. ASSUME NEW t \in Threads, MakeInOrder(t) PROVE TypeOK'
  <2>1. CallOK(th[t]) /\ th[t].pc = "submit"
    BY <1>13, ThreadType DEF MakeInOrder
  <2>2. CallOK([th[t] EXCEPT !.pc = "ioctl"])
    BY <1>13, <2>1 DEF CallOK, Call
  <2>3. /\ th' \in [Threads -> Call]
        /\ \A s \in Threads : th'[s].cur \in Jobs <=> th'[s].pc \in {"attach", "submit", "ioctl"}
    BY <1>13, <2>2, BecomesType DEF MakeInOrder, Result
  <2>4. cb[th[t].cur] \in CommandBuffer
    BY <1>13, JobType, ThreadType, CompletedType, EmptyRecords DEF CommandBuffer, MakeInOrder
  <2>5. Completed(cb[th[t].cur], run[th[t].cur].status) \in CommandBuffer
    BY <1>13, JobType, ThreadType, CompletedType, EmptyRecords DEF CommandBuffer, MakeInOrder
  <2>6. [(IF lastWaitBo[th[t].q] = th[t].cur THEN Completed(cb[th[t].cur], run[th[t].cur].status)
                         ELSE cb[th[t].cur]) EXCEPT !.inOrder = TRUE] \in CommandBuffer
    BY <2>4, <2>5 DEF CommandBuffer
  <2>7. cb' \in [Jobs -> CommandBuffer]
    BY <1>13, <2>4, <2>5, <2>6, ThreadType DEF MakeInOrder, TypeOK
  <2> QED
    BY <1>13, <2>1, <2>2, <2>3, <2>4, <2>5, <2>6, <2>7, ThreadType DEF MakeInOrder, TypeOK
<1>14. ASSUME NEW t \in Threads, StripInOrder(t) PROVE TypeOK'
  <2>1. CallOK(th[t]) /\ th[t].pc = "submit"
    BY <1>14, ThreadType DEF StripInOrder
  <2>2. CallOK([th[t] EXCEPT !.pc = "ioctl"])
    BY <1>14, <2>1 DEF CallOK, Call
  <2>3. /\ th' \in [Threads -> Call]
        /\ \A s \in Threads : th'[s].cur \in Jobs <=> th'[s].pc \in {"attach", "submit", "ioctl"}
    BY <1>14, <2>2, BecomesType DEF StripInOrder, Result
  <2>4. [NewCommandBuffer EXCEPT !.patched = cb[th[t].cur].patched] \in CommandBuffer
    BY <1>14, JobType, ThreadType, CompletedType, EmptyRecords DEF CommandBuffer, StripInOrder
  <2>5. cb' \in [Jobs -> CommandBuffer]
    BY <1>14, <2>4, ThreadType DEF StripInOrder, TypeOK
  <2> QED
    BY <1>14, <2>1, <2>2, <2>3, <2>4, <2>5, ThreadType DEF StripInOrder, TypeOK
<1>15. ASSUME NEW t \in Threads, SubmitIoctl(t) PROVE TypeOK'
  <2>1. CallOK(th[t]) /\ th[t].pc = "ioctl" /\ th[t].cur \in Jobs
    BY <1>15, ThreadType DEF SubmitIoctl
  <2>2. CallOK([th[t] EXCEPT !.pc = "next", !.cur = NoJob, !.done = @ \cup {th[t].cur}])
    BY <1>15, <2>1 DEF CallOK, Call
  <2>3. /\ th' \in [Threads -> Call]
        /\ \A s \in Threads : th'[s].cur \in Jobs <=> th'[s].pc \in {"attach", "submit", "ioctl"}
    BY <1>15, <2>2, BecomesType DEF SubmitIoctl, Result
  <2>4. [cb[th[t].cur] EXCEPT !.patched = NoBuf] \in CommandBuffer
    BY <1>15, JobType, ThreadType, CompletedType, EmptyRecords DEF CommandBuffer, SubmitIoctl
  <2>5. cb' \in [Jobs -> CommandBuffer]
    BY <1>15, <2>4, ThreadType DEF SubmitIoctl, TypeOK
  <2>6. run' \in [Jobs -> Submission]
    BY <1>15, ThreadType DEF SubmitIoctl, TypeOK, CommandBuffer, Submission, Status
  <2> QED
    BY <1>15, <2>1, <2>2, <2>3, <2>4, <2>5, <2>6, ThreadType DEF SubmitIoctl, TypeOK
<1>16. ASSUME NEW t \in Threads, SubmitFails(t) PROVE TypeOK'
  <2>1. \A r \in Result : CallOK(Returning(t, r))
    BY ReturningType
  <2>2. /\ th' \in [Threads -> Call]
        /\ \A s \in Threads : th'[s].cur \in Jobs <=> th'[s].pc \in {"attach", "submit", "ioctl"}
    BY <1>16, <2>1, BecomesType DEF SubmitFails, Result
  <2> QED
    BY <1>16, <2>1, <2>2, ThreadType DEF SubmitFails, TypeOK
<1>17. ASSUME NEW t \in Threads, TrackJobs(t) PROVE TypeOK'
  <2>1. CallOK(th[t]) /\ th[t].pc = "next"
    BY <1>17, ThreadType DEF TrackJobs
  <2>2. CallOK([th[t] EXCEPT !.pc = "enter", !.done = {}])
    BY <1>17, <2>1 DEF CallOK, Call
  <2>3. \A r \in Result : CallOK(Returning(t, r))
    BY ReturningType
  <2>4. /\ th' \in [Threads -> Call]
        /\ \A s \in Threads : th'[s].cur \in Jobs <=> th'[s].pc \in {"attach", "submit", "ioctl"}
    BY <1>17, <2>2, <2>3, BecomesType DEF TrackJobs, Result
  <2>5. /\ fenceJobs' \in [Fences -> SUBSET Jobs]
        /\ tracked' \in [Queues -> SUBSET Jobs]
    <3>1. th[t].done \subseteq Jobs
      BY ThreadType
    <3>2. fenceJobs' = fenceJobs \/ fenceJobs' = [fenceJobs EXCEPT ![th[t].f] = th[t].done]
      BY <1>17 DEF TrackJobs
    <3>3. tracked' = tracked \/ tracked' = [tracked EXCEPT ![th[t].q] = tracked[th[t].q] \cup th[t].done]
      BY <1>17 DEF TrackJobs
    <3>4. fenceJobs \in [Fences -> SUBSET Jobs] /\ tracked \in [Queues -> SUBSET Jobs]
      BY DEF TypeOK
    <3>5. fenceJobs' \in [Fences -> SUBSET Jobs]
      BY <3>1, <3>2, <3>4
    <3>6. tracked' \in [Queues -> SUBSET Jobs]
      BY <3>1, <3>3, <3>4
    <3> QED
      BY <3>5, <3>6
  <2>7. signaled' \in [Fences -> BOOLEAN]
    <3>1. CASE UNCHANGED signaled
      BY <3>1 DEF TypeOK
    <3>2. CASE signaled' = [signaled EXCEPT ![th[t].f] = @ \/ th[t].done = {}]
      BY <3>2, Zenon DEF TypeOK
    <3> QED
      BY <1>17, <3>1, <3>2 DEF TrackJobs
  <2>6. accepted' \in [Queues -> SUBSET Jobs]
    BY <1>17, ThreadType DEF TrackJobs, TypeOK
  <2> QED
    BY <1>17, <2>4, <2>5, <2>6, <2>7 DEF TrackJobs, TypeOK
<1>18. ASSUME NEW t \in Threads, NEW q \in Queues, Synchronize(t, q) PROVE TypeOK'
  <2>1. CallOK([NoCall EXCEPT !.pc = "enter", !.op = "synchronize", !.q = q])
    BY <1>18, EmptyRecords DEF CallOK, Call, NoCall
  <2>2. /\ th' \in [Threads -> Call]
        /\ \A s \in Threads : th'[s].cur \in Jobs <=> th'[s].pc \in {"attach", "submit", "ioctl"}
    BY <1>18, <2>1, BecomesType DEF Synchronize, Result
  <2> QED
    BY <1>18, <2>1, <2>2, ThreadType DEF Synchronize, TypeOK
<1>19. ASSUME NEW t \in Threads, EnterSynchronize(t) PROVE TypeOK'
  <2>1. CallOK(th[t]) /\ th[t].pc = "enter" /\ fences \subseteq Fences
    BY <1>19, ThreadType DEF EnterSynchronize, TypeOK
  <2>2. CallOK([th[t] EXCEPT !.pc = "sync", !.fencesLeft = {f \in fences : FenceQueue[f] = th[t].q}])
    BY <1>19, <2>1 DEF CallOK, Call
  <2>3. \A r \in Result : CallOK(Returning(t, r))
    BY ReturningType
  <2>4. /\ th' \in [Threads -> Call]
        /\ \A s \in Threads : th'[s].cur \in Jobs <=> th'[s].pc \in {"attach", "submit", "ioctl"}
    BY <1>19, <2>2, <2>3, BecomesType DEF EnterSynchronize, Result
  <2> QED
    BY <1>19, <2>1, <2>2, <2>3, <2>4, ThreadType DEF EnterSynchronize, TypeOK
<1>20. ASSUME NEW t \in Threads, NEW f \in Fences, NextFence(t, f) PROVE TypeOK'
  <2>1. CallOK(th[t]) /\ th[t].pc = "sync" /\ fenceJobs[f] \subseteq Jobs
    BY <1>20, ThreadType DEF NextFence, TypeOK
  <2>2. CallOK([th[t] EXCEPT !.fencesLeft = @ \ {f}])
    BY <1>20, <2>1 DEF CallOK, Call
  <2>3. CallOK([th[t] EXCEPT !.fencesLeft = @ \ {f}, !.pc = "wait", !.f = f,
                            !.waitLeft = fenceJobs[f]])
    BY <1>20, <2>1 DEF CallOK, Call
  <2>4. /\ th' \in [Threads -> Call]
        /\ \A s \in Threads : th'[s].cur \in Jobs <=> th'[s].pc \in {"attach", "submit", "ioctl"}
    BY <1>20, <2>2, <2>3, BecomesType DEF NextFence, Result
  <2> QED
    BY <1>20, <2>1, <2>2, <2>3, <2>4, ThreadType DEF NextFence, TypeOK
<1>21. ASSUME NEW t \in Threads, NextTracked(t) PROVE TypeOK'
  <2>1. CallOK(th[t]) /\ th[t].pc = "sync" /\ tracked[th[t].q] \subseteq Jobs
    BY <1>21, ThreadType DEF NextTracked, TypeOK
  <2>2. CallOK([th[t] EXCEPT !.pc = "wait", !.f = NoFence, !.waitLeft = tracked[th[t].q]])
    BY <1>21, <2>1 DEF CallOK, Call
  <2>3. /\ th' \in [Threads -> Call]
        /\ \A s \in Threads : th'[s].cur \in Jobs <=> th'[s].pc \in {"attach", "submit", "ioctl"}
    BY <1>21, <2>2, BecomesType DEF NextTracked, Result
  <2> QED
    BY <1>21, <2>1, <2>2, <2>3, ThreadType DEF NextTracked, TypeOK
<1>22. ASSUME NEW t \in Threads, NEW f \in Fences, FenceSynchronize(t, f) PROVE TypeOK'
  <2>1. CallOK([[NoCall EXCEPT !.op = "fence", !.q = FenceQueue[f], !.f = f] EXCEPT !.pc = "ret"])
    BY EmptyRecords DEF CallOK, Call, NoCall
  <2>2. CallOK([[NoCall EXCEPT !.op = "fence", !.q = FenceQueue[f], !.f = f]
            EXCEPT !.pc = "ret", !.result = "NOT_READY"])
    BY EmptyRecords DEF CallOK, Call, NoCall, Result
  <2>3. CallOK([[NoCall EXCEPT !.op = "fence", !.q = FenceQueue[f], !.f = f]
            EXCEPT !.pc = "wait", !.waitLeft = fenceJobs[f]])
    BY EmptyRecords DEF CallOK, Call, NoCall, TypeOK
  <2>4. /\ th' \in [Threads -> Call]
        /\ \A s \in Threads : th'[s].cur \in Jobs <=> th'[s].pc \in {"attach", "submit", "ioctl"}
    BY <1>22, <2>1, <2>2, <2>3, BecomesType DEF FenceSynchronize, Result
  <2> QED
    BY <1>22, <2>1, <2>2, <2>3, <2>4, ThreadType DEF FenceSynchronize, TypeOK
<1>23. ASSUME NEW t \in Threads, NEW j \in Jobs, WaitForCompletion(t, j) PROVE TypeOK'
  <2>1. CallOK(th[t]) /\ th[t].pc = "wait"
    BY <1>23, ThreadType DEF WaitForCompletion
  <2>2. CallOK([th[t] EXCEPT !.waitLeft = @ \ {j}, !.done = @ \cup {j}])
    BY <1>23, <2>1 DEF CallOK, Call
  <2>3. /\ th' \in [Threads -> Call]
        /\ \A s \in Threads : th'[s].cur \in Jobs <=> th'[s].pc \in {"attach", "submit", "ioctl"}
    BY <1>23, <2>2, BecomesType DEF WaitForCompletion, Result
  <2>4. Completed(cb[j], run[j].status) \in CommandBuffer
    BY <1>23, JobType, ThreadType, CompletedType, EmptyRecords DEF CommandBuffer
  <2>5. cb' \in [Jobs -> CommandBuffer]
    BY <1>23, <2>4, ThreadType DEF WaitForCompletion, TypeOK
  <2> QED
    BY <1>23, <2>1, <2>2, <2>3, <2>4, <2>5, ThreadType DEF WaitForCompletion, TypeOK
<1>24. ASSUME NEW t \in Threads, WaitTimesOut(t) PROVE TypeOK'
  <2>1. \A r \in Result : CallOK(Returning(t, r))
    BY ReturningType
  <2>2. /\ th' \in [Threads -> Call]
        /\ \A s \in Threads : th'[s].cur \in Jobs <=> th'[s].pc \in {"attach", "submit", "ioctl"}
    BY <1>24, <2>1, BecomesType DEF WaitTimesOut, Result
  <2> QED
    BY <1>24, <2>1, <2>2, ThreadType DEF WaitTimesOut, TypeOK
<1>25. ASSUME NEW t \in Threads, PutBackPreemptionBuffer(t) PROVE TypeOK'
  <2>1. CallOK(th[t]) /\ th[t].pc = "wait"
    BY <1>25, ThreadType DEF PutBackPreemptionBuffer
  <2>2. CallOK([th[t] EXCEPT !.pc = "waited"])
    BY <1>25, <2>1 DEF CallOK, Call
  <2>3. /\ th' \in [Threads -> Call]
        /\ \A s \in Threads : th'[s].cur \in Jobs <=> th'[s].pc \in {"attach", "submit", "ioctl"}
    BY <1>25, <2>2, BecomesType DEF PutBackPreemptionBuffer, Result
  <2> QED
    BY <1>25, <2>1, <2>2, <2>3, ThreadType DEF PutBackPreemptionBuffer, TypeOK
<1>26. ASSUME NEW t \in Threads, JobsWaited(t) PROVE TypeOK'
  <2>1. CallOK(th[t]) /\ th[t].pc = "waited"
    BY <1>26, ThreadType DEF JobsWaited
  <2>2. CallOK([th[t] EXCEPT !.pc = "sync", !.done = {}])
    BY <1>26, <2>1 DEF CallOK, Call
  <2>3. \A r \in Result : CallOK(Returning(t, r))
    BY ReturningType
  <2>4. /\ th' \in [Threads -> Call]
        /\ \A s \in Threads : th'[s].cur \in Jobs <=> th'[s].pc \in {"attach", "submit", "ioctl"}
    BY <1>26, <2>2, <2>3, BecomesType DEF JobsWaited, Result
  <2>5. \A j \in Jobs : [run[j] EXCEPT !.seen = @ \/ j \in th[t].done] \in Submission
    BY JobType DEF Submission
  <2>6. run' \in [Jobs -> Submission]
    BY <1>26, <2>5 DEF JobsWaited, TypeOK
  <2> QED
    BY ZenonT(40), <1>26, <2>1, <2>2, <2>3, <2>4, <2>5, <2>6, ThreadType DEF JobsWaited, TypeOK
<1>27. ASSUME NEW t \in Threads, NEW q \in Queues, DestroyQueue(t, q) PROVE TypeOK'
  <2>1. CallOK([NoCall EXCEPT !.pc = "enter", !.op = "destroy", !.q = q])
    BY <1>27, EmptyRecords DEF CallOK, Call, NoCall
  <2>2. /\ th' \in [Threads -> Call]
        /\ \A s \in Threads : th'[s].cur \in Jobs <=> th'[s].pc \in {"attach", "submit", "ioctl"}
    BY <1>27, <2>1, BecomesType DEF DestroyQueue, Result
  <2> QED
    BY <1>27, <2>1, <2>2, ThreadType DEF DestroyQueue, TypeOK
<1>28. ASSUME NEW t \in Threads, QueueDestroyed(t) PROVE TypeOK'
  <2>1. /\ th' \in [Threads -> Call]
        /\ \A s \in Threads : th'[s].cur \in Jobs <=> th'[s].pc \in {"attach", "submit", "ioctl"}
    BY <1>28, EmptyRecords, BecomesType DEF QueueDestroyed, Result
  <2>2. numQueues' \in Nat /\ preemptionBuffers' \subseteq PreemptBufs
    BY <1>28, PruneKeepsTypes DEF QueueDestroyed
  <2>3. /\ queueBuf' \in [Queues -> PreemptBufs \cup {NoBuf}]
        /\ tracked' \in [Queues -> SUBSET Jobs]
        /\ lastWaitBo' \in [Queues -> Jobs \cup {NoJob}]
        /\ accepted' \in [Queues -> SUBSET Jobs]
        /\ owed' \in [Threads -> SUBSET Jobs]
        /\ fences' \subseteq Fences /\ fenceJobs' \in [Fences -> SUBSET Jobs]
    BY <1>28, ThreadType DEF QueueDestroyed, TypeOK
  <2> QED
    BY <1>28, <2>1, <2>2, <2>3 DEF QueueDestroyed, TypeOK
<1>29. ASSUME NEW t \in Threads, Return(t) PROVE TypeOK'
  <2>1. /\ th' \in [Threads -> Call]
        /\ \A s \in Threads : th'[s].cur \in Jobs <=> th'[s].pc \in {"attach", "submit", "ioctl"}
    BY <1>29, EmptyRecords, BecomesType DEF Return, Result
  <2> QED
    BY <1>29, <2>1, ThreadType DEF Return, TypeOK
<1>30. ASSUME NEW j \in Jobs, NEW status \in Outcomes, DeviceCompletes(j, status) PROVE TypeOK'
  <2>1. run' \in [Jobs -> Submission]
    BY <1>30, EmptyRecords DEF DeviceCompletes, TypeOK, Submission, Outcomes, Status
  <2> QED
    BY <1>30, <2>1, ThreadType DEF DeviceCompletes, TypeOK
<1>31. CASE UNCHANGED vars
  BY <1>31 DEF vars, TypeOK
<1> QED
  BY <1>1, <1>2, <1>3, <1>4, <1>5, <1>6, <1>7, <1>8, <1>9, <1>10, <1>11, <1>12, <1>13, <1>14,
     <1>15, <1>16, <1>17, <1>18, <1>19, <1>20, <1>21, <1>22, <1>23, <1>24, <1>25, <1>26, <1>27,
     <1>28, <1>29, <1>30, <1>31
  DEF Next, CallBegin, CallStep, Device, Housekeeping

\* The state is well typed throughout.
THEOREM TypeCorrect == Spec => []TypeOK
BY InitType, NextType, PTL DEF Spec

-----------------------------------------------------------------------------
(* The preemption cache when the last queue is gone.                       *)

\* The queues that exist: live ones and those a destructor still runs for.
Existing == {q \in Queues : q \in live \/ \E t \in Threads : th[t].op = "destroy" /\ th[t].q = q}

\* A call uses an existing queue, and a destructor has its queue to itself.
CallsOnQueues ==
    /\ \A t \in Threads : th[t].pc = "idle" => th[t].op # "destroy"
    /\ \A t \in Threads : th[t].pc # "idle" => th[t].q \in Existing
    /\ \A t \in Threads : th[t].op = "destroy" => th[t].q \notin live
    /\ \A t, s \in Threads : t # s /\ th[t].op = "destroy" /\ th[s].pc # "idle"
                                => th[s].q # th[t].q

\* Only an existing queue has a preemption buffer; the cache counts no more queues
\* than exist; without queues it holds only what command buffers hold.
CacheFollowsQueues ==
    /\ \A q \in Queues : queueBuf[q] # NoBuf => q \in Existing
    /\ numQueues <= Cardinality(Existing)
    /\ Existing = {} => \A b \in preemptionBuffers : JobHoldsPreempt(b)

QueueInv == TypeOK /\ CallsOnQueues /\ CacheFollowsQueues

\* Thread t goes on with its call.
Continues(t) ==
    /\ th[t].pc # "idle" /\ th'[t].pc # "idle"
    /\ th'[t].op = th[t].op /\ th'[t].q = th[t].q
    /\ \A s \in Threads : s # t => th'[s] = th[s]

\* A call about to return keeps its kind and its queue.
LEMMA ReturningKeeps ==
    ASSUME TypeOK, NEW t \in Threads, NEW r \in Result
    PROVE  /\ Returning(t, r).pc = "ret" /\ Returning(t, r).op = th[t].op
           /\ Returning(t, r).q = th[t].q
BY EmptyRecords DEF Returning, NoCall

\* Every step inside a call keeps its kind and its queue.
LEMMA StepContinues ==
    ASSUME TypeOK, NEW t \in Threads, CallStep(t) \/ WaitTimesOut(t)
    PROVE  Continues(t) \/ Return(t) \/ QueueDestroyed(t)
<1> DEFINE Same(c) == c.pc # "idle" /\ c.op = th[t].op /\ c.q = th[t].q
<1>0. th[t] \in Call
  BY ThreadType
<1>1. \A c : Becomes(t, c) /\ Same(c) /\ th[t].pc # "idle" => Continues(t)
  BY BecomesFields DEF Continues
<1>2. \A r \in Result : Same(Returning(t, r))
  BY ReturningKeeps
<1> HIDE DEF Same
<1>3. ASSUME NEW j \in Jobs, SkipEmpty(t, j) PROVE Continues(t)
  <2>1. Same([th[t] EXCEPT !.todo = @ \ {j}])
    BY <1>0, <1>3 DEF Same, Call, SkipEmpty
  <2> QED
    BY <1>1, <1>3, <2>1 DEF SkipEmpty
<1>4. ASSUME NEW j \in Jobs, UpdateOnSubmit(t, j) PROVE Continues(t)
  <2>1. Same([th[t] EXCEPT !.pc = "attach", !.cur = j, !.todo = @ \ {j}])
    BY <1>0 DEF Same, Call
  <2> QED
    BY <1>1, <1>2, <1>4, <2>1 DEF UpdateOnSubmit, Result
<1>5. ASSUME NEW j \in Jobs, WaitForCompletion(t, j) PROVE Continues(t)
  <2>1. Same([th[t] EXCEPT !.waitLeft = @ \ {j}, !.done = @ \cup {j}])
    BY <1>0, <1>5 DEF Same, Call, WaitForCompletion
  <2> QED
    BY <1>1, <1>5, <2>1 DEF WaitForCompletion
<1>6. ASSUME AddPreemptionBuffer(t) PROVE Continues(t)
  <2>1. Same([th[t] EXCEPT !.pc = "submit"])
    BY <1>0 DEF Same, Call
  <2> QED
    BY <1>1, <1>6, <2>1 DEF AddPreemptionBuffer
<1>7. ASSUME MakeInOrder(t) \/ StripInOrder(t) PROVE Continues(t)
  <2>1. Same([th[t] EXCEPT !.pc = "ioctl"])
    BY <1>0 DEF Same, Call
  <2> QED
    BY <1>1, <1>7, <2>1 DEF MakeInOrder, StripInOrder
<1>8. ASSUME SubmitIoctl(t) PROVE Continues(t)
  <2>1. Same([th[t] EXCEPT !.pc = "next", !.cur = NoJob, !.done = @ \cup {th[t].cur}])
    BY <1>0 DEF Same, Call
  <2> QED
    BY <1>1, <1>8, <2>1 DEF SubmitIoctl
<1>9. ASSUME SubmitFails(t) \/ WaitTimesOut(t) PROVE Continues(t)
  BY <1>1, <1>2, <1>9 DEF SubmitFails, WaitTimesOut, Result
<1>10. ASSUME TrackJobs(t) PROVE Continues(t)
  <2>1. Same([th[t] EXCEPT !.pc = "enter", !.done = {}])
    BY <1>0 DEF Same, Call
  <2> QED
    BY <1>1, <1>2, <1>10, <2>1 DEF TrackJobs, Result
<1>11. ASSUME EnterSynchronize(t) PROVE Continues(t)
  <2>1. \A fs : Same([th[t] EXCEPT !.pc = "sync", !.fencesLeft = fs])
    BY <1>0 DEF Same, Call
  <2> QED
    BY <1>1, <1>2, <1>11, <2>1 DEF EnterSynchronize, Result
<1>12. ASSUME NextTracked(t) PROVE Continues(t)
  <2>1. Same([th[t] EXCEPT !.pc = "wait", !.f = NoFence, !.waitLeft = tracked[th[t].q]])
    BY <1>0 DEF Same, Call
  <2> QED
    BY <1>1, <1>12, <2>1 DEF NextTracked
<1>13. ASSUME NEW f \in Fences, NextFence(t, f) PROVE Continues(t)
  <2>1. Same([th[t] EXCEPT !.fencesLeft = @ \ {f}])
    BY <1>0, <1>13 DEF Same, Call, NextFence
  <2>2. Same([th[t] EXCEPT !.fencesLeft = @ \ {f}, !.pc = "wait", !.f = f, !.waitLeft = fenceJobs[f]])
    BY <1>0 DEF Same, Call
  <2> QED
    BY <1>1, <1>13, <2>1, <2>2 DEF NextFence
<1>14. ASSUME PutBackPreemptionBuffer(t) PROVE Continues(t)
  <2>1. Same([th[t] EXCEPT !.pc = "waited"])
    BY <1>0 DEF Same, Call
  <2> QED
    BY <1>1, <1>14, <2>1 DEF PutBackPreemptionBuffer
<1>15. ASSUME JobsWaited(t) PROVE Continues(t)
  <2>1. Same([th[t] EXCEPT !.pc = "sync", !.done = {}])
    BY <1>0 DEF Same, Call
  <2> QED
    BY <1>1, <1>2, <1>15, <2>1 DEF JobsWaited, Result
<1> QED
  BY <1>3, <1>4, <1>5, <1>6, <1>7, <1>8, <1>9, <1>10, <1>11, <1>12, <1>13, <1>14, <1>15
  DEF CallStep

\* The number of existing queues is a number.
LEMMA ExistingFinite == IsFiniteSet(Existing) /\ Cardinality(Existing) \in Nat
<1>1. Existing \subseteq Queues
  BY DEF Existing
<1> QED
  BY <1>1, FiniteAssumption, FS_Subset, FS_CardinalityType

\* The counter never exceeds the number of existing queues, whatever they become.
LEMMA PrunedCount ==
    ASSUME TypeOK, NEW idle, PruneQueueCount(idle)
    PROVE  numQueues' <= numQueues /\ (numQueues # 0 => numQueues' <= numQueues - 1)
BY DEF PruneQueueCount, QueuesAfterPrune, TypeOK

\* A call that goes on changes no queue.
LEMMA ContinuesKeeps ==
    ASSUME TypeOK, CallsOnQueues, CacheFollowsQueues, NEW t \in Threads, Continues(t),
           UNCHANGED <<live, numQueues>>,
           \A q \in Queues : queueBuf'[q] \in {queueBuf[q], NoBuf}
    PROVE  CallsOnQueues' /\ CacheFollowsQueues'
<1>1. Existing' = Existing
  BY DEF Continues, Existing
<1>2. Existing # {}
  BY DEF CallsOnQueues, Continues
<1>3. CallsOnQueues'
  BY <1>1 DEF CallsOnQueues, Continues
<1> QED
  BY <1>1, <1>2, <1>3 DEF CacheFollowsQueues

\* So does a call that begins on a live queue, other than a destructor, or returns.
LEMMA BeginsKeeps ==
    ASSUME TypeOK, CallsOnQueues, CacheFollowsQueues, NEW t \in Threads, NEW c, Becomes(t, c),
           th[t].op # "destroy", c.op # "destroy",
           c.pc # "idle" => c.q \in live /\ c.q \in Queues,
           Existing # {}, UNCHANGED <<live, numQueues>>,
           \A q \in Queues : queueBuf'[q] \in {queueBuf[q], NoBuf} \/ q \in live
    PROVE  CallsOnQueues' /\ CacheFollowsQueues'
<1>1. th'[t] = c /\ \A s \in Threads : s # t => th'[s] = th[s]
  BY BecomesFields
<1>2. Existing' = Existing
  BY <1>1 DEF Existing
<1>3. CallsOnQueues'
  BY <1>1, <1>2 DEF CallsOnQueues, Existing
<1>4. \A q \in Queues : queueBuf'[q] # NoBuf => q \in Existing
  BY DEF CacheFollowsQueues, Existing
<1> QED
  BY <1>2, <1>3, <1>4 DEF CacheFollowsQueues

\* Every step keeps the cache in step with the queues.
LEMMA NextQueueInv ==
    ASSUME QueueInv, [Next]_vars
    PROVE  CallsOnQueues' /\ CacheFollowsQueues'
<1> USE DEF QueueInv, cacheVars, queueVars, fenceVars
<1>1. CASE UNCHANGED <<live, numQueues, queueBuf, preemptionBuffers, th, cb>>
  <2>1. Existing' = Existing
    BY <1>1 DEF Existing
  <2> QED
    BY <1>1, <2>1 DEF CallsOnQueues, CacheFollowsQueues, JobHoldsPreempt
<1>2. ASSUME NEW t \in Threads, CallStep(t) \/ WaitTimesOut(t), Continues(t)
      PROVE  CallsOnQueues' /\ CacheFollowsQueues'
  <2>1. UNCHANGED <<live, numQueues>> \/ QueueDestroyed(t)
    BY <1>2 DEF CallStep, WaitTimesOut, SkipEmpty, UpdateOnSubmit, WaitForCompletion,
       AddPreemptionBuffer, MakeInOrder, StripInOrder, SubmitIoctl, SubmitFails, TrackJobs,
       EnterSynchronize, NextTracked, NextFence, PutBackPreemptionBuffer, JobsWaited, Return
  <2>2. ~QueueDestroyed(t)
    BY <1>2, BecomesFields, EmptyRecords DEF QueueDestroyed, NoCall, Continues
  <2>3. UNCHANGED queueBuf \/ PutBackPreemptionBuffer(t)
    BY <1>2, <2>2 DEF CallStep, WaitTimesOut, SkipEmpty, UpdateOnSubmit, WaitForCompletion,
       AddPreemptionBuffer, MakeInOrder, StripInOrder, SubmitIoctl, SubmitFails, TrackJobs,
       EnterSynchronize, NextTracked, NextFence, JobsWaited, Return
  <2>4. \A q \in Queues : queueBuf'[q] \in {queueBuf[q], NoBuf}
    BY <2>3, ThreadType DEF PutBackPreemptionBuffer, TypeOK
  <2> QED
    BY <1>2, <2>1, <2>2, <2>4, ContinuesKeeps
<1>3. ASSUME NEW t \in Threads, Return(t) PROVE CallsOnQueues' /\ CacheFollowsQueues'
  <2>1. NoCall.op # "destroy" /\ NoCall.pc = "idle"
    BY DEF NoCall
  <2>2. Existing # {}
    BY <1>3 DEF Return, CallsOnQueues
  <2> QED
    BY <1>3, <2>1, <2>2, BeginsKeeps DEF Return
<1>4. ASSUME NEW t \in Threads, NEW q \in Queues, NEW lists \in SUBSET Jobs,
             NEW f \in Fences \cup {NoFence}, Execute(t, q, lists, f)
      PROVE  CallsOnQueues' /\ CacheFollowsQueues'
  <2> DEFINE c == [NoCall EXCEPT !.pc = "next", !.op = "execute", !.q = q, !.f = f, !.todo = lists]
  <2>1. c.op # "destroy" /\ c.q = q
    BY EmptyRecords DEF NoCall
  <2>2. th[t].op # "destroy" /\ q \in live /\ Becomes(t, c) /\ UNCHANGED <<live, numQueues>>
    BY <1>4 DEF Execute, CallsOnQueues
  <2>3. \A p \in Queues : queueBuf'[p] \in {queueBuf[p], NoBuf} \/ p \in live
    BY <1>4 DEF Execute, TypeOK
  <2>4. Existing # {}
    BY <2>2 DEF Existing
  <2> QED
    BY <2>1, <2>2, <2>3, <2>4, BeginsKeeps
<1>5. ASSUME NEW t \in Threads, NEW q \in Queues, Synchronize(t, q)
      PROVE  CallsOnQueues' /\ CacheFollowsQueues'
  <2> DEFINE c == [NoCall EXCEPT !.pc = "enter", !.op = "synchronize", !.q = q]
  <2>1. c.op # "destroy" /\ c.q = q
    BY EmptyRecords DEF NoCall
  <2>2. th[t].op # "destroy" /\ q \in live /\ Becomes(t, c) /\ UNCHANGED <<live, numQueues, queueBuf>>
    BY <1>5 DEF Synchronize, CallsOnQueues
  <2>3. Existing # {}
    BY <2>2 DEF Existing
  <2> QED
    BY <2>1, <2>2, <2>3, BeginsKeeps
<1>6. ASSUME NEW t \in Threads, NEW f \in Fences, FenceSynchronize(t, f)
      PROVE  CallsOnQueues' /\ CacheFollowsQueues'
  <2> DEFINE q == FenceQueue[f]
             call == [NoCall EXCEPT !.op = "fence", !.q = q, !.f = f]
  <2>1. q \in Queues /\ q \in live /\ th[t].op # "destroy" /\ UNCHANGED <<live, numQueues, queueBuf>>
    BY <1>6 DEF FenceSynchronize, CallsOnQueues
  <2>2. /\ [call EXCEPT !.pc = "ret"].op # "destroy"
        /\ [call EXCEPT !.pc = "ret"].q = q
    BY EmptyRecords DEF NoCall
  <2>3. /\ [call EXCEPT !.pc = "ret", !.result = "NOT_READY"].op # "destroy"
        /\ [call EXCEPT !.pc = "ret", !.result = "NOT_READY"].q = q
    BY EmptyRecords DEF NoCall
  <2>4. /\ [call EXCEPT !.pc = "wait", !.waitLeft = fenceJobs[f]].op # "destroy"
        /\ [call EXCEPT !.pc = "wait", !.waitLeft = fenceJobs[f]].q = q
    BY EmptyRecords DEF NoCall
  <2>5. Existing # {}
    BY <2>1 DEF Existing
  <2>6. \E c : Becomes(t, c) /\ c.op # "destroy" /\ c.q = q
    BY <1>6, <2>2, <2>3, <2>4 DEF FenceSynchronize
  <2> QED
    BY <2>1, <2>5, <2>6, BeginsKeeps
<1>7. ASSUME NEW t \in Threads, NEW q \in Queues, DestroyQueue(t, q)
      PROVE  CallsOnQueues' /\ CacheFollowsQueues'
  <2> DEFINE c == [NoCall EXCEPT !.pc = "enter", !.op = "destroy", !.q = q]
  <2>1. c.pc # "idle" /\ c.op = "destroy" /\ c.q = q
    BY EmptyRecords DEF NoCall
  <2>2. th'[t] = c /\ \A s \in Threads : s # t => th'[s] = th[s]
    BY <1>7, BecomesFields DEF DestroyQueue
  <2>3. th[t].pc = "idle" /\ q \in live /\ live' = live \ {q}
        /\ \A s \in Threads : th[s].pc # "idle" => th[s].q # q
    BY <1>7 DEF DestroyQueue
  <2>4. Existing' = Existing /\ q \in Existing
    <3>1. th[t].op # "destroy" /\ th'[t].op = "destroy" /\ th'[t].q = q
      BY <2>1, <2>2, <2>3 DEF CallsOnQueues
    <3>2. ASSUME NEW p \in Queues PROVE p \in Existing' <=> p \in Existing
      <4>1. CASE p = q
        BY <2>3, <3>1, <4>1 DEF Existing
      <4>2. CASE p # q
        <5>1. (\E s \in Threads : th'[s].op = "destroy" /\ th'[s].q = p)
                <=> (\E s \in Threads : th[s].op = "destroy" /\ th[s].q = p)
          <6>1. \A s \in Threads : th'[s].op = "destroy" /\ th'[s].q = p
                                    <=> th[s].op = "destroy" /\ th[s].q = p
            <7> HIDE DEF c
            <7> QED
              BY <2>2, <3>1, <4>2
          <6> HIDE DEF c
          <6> QED
            BY <6>1
        <5> QED
          BY <2>3, <4>2, <5>1 DEF Existing
      <4> QED
        BY <4>1, <4>2
    <3> QED
      BY <2>3, <3>2 DEF Existing
  <2>5. CallsOnQueues'
    <3> HIDE DEF c
    <3> QED
      BY <2>1, <2>2, <2>3, <2>4 DEF CallsOnQueues
  <2> QED
    BY <1>7, <2>4, <2>5 DEF CacheFollowsQueues, DestroyQueue
<1>8. ASSUME NEW t \in Threads, QueueDestroyed(t) PROVE CallsOnQueues' /\ CacheFollowsQueues'
  <2> DEFINE q == th[t].q
             idle == {b \in preemptionBuffers :
                        ~JobHoldsPreempt(b) /\ \A p \in Queues : queueBuf'[p] # b}
  <2>1. th'[t] = NoCall /\ \A s \in Threads : s # t => th'[s] = th[s]
    BY <1>8, BecomesFields DEF QueueDestroyed
  <2>2. NoCall.pc = "idle" /\ NoCall.op # "destroy"
    BY DEF NoCall
  <2>3. th[t].pc = "ret" /\ th[t].op = "destroy" /\ q \in Queues /\ UNCHANGED <<live, cb>>
    BY <1>8, ThreadType DEF QueueDestroyed
  <2>4. q \in Existing /\ Existing' = Existing \ {q}
    BY <2>1, <2>2, <2>3 DEF Existing, CallsOnQueues
  <2>5. CallsOnQueues'
    BY <2>1, <2>2, <2>3, <2>4 DEF CallsOnQueues
  <2>6. \A p \in Queues : queueBuf'[p] # NoBuf => p \in Existing'
    BY <1>8, <2>4 DEF QueueDestroyed, CacheFollowsQueues, TypeOK
  <2>7. PruneQueueCount(idle)
    BY <1>8 DEF QueueDestroyed
  <2>8. numQueues' \in Nat /\ numQueues' <= Cardinality(Existing')
    <3>1. Cardinality(Existing \ {q}) = Cardinality(Existing) - 1
      <4>1. q \in Existing /\ IsFiniteSet(Existing)
        BY <2>4, ExistingFinite
      <4> HIDE DEF q
      <4> QED
        BY <4>1, FS_RemoveElement
    <3>2. Cardinality(Existing \ {q}) \in Nat
      BY ExistingFinite, FS_RemoveElement, FS_CardinalityType
    <3> QED
      BY <2>4, <2>7, <3>1, <3>2, ExistingFinite, PrunedCount, PruneKeepsTypes
      DEF CacheFollowsQueues, TypeOK
  <2>9. ASSUME Existing' = {}, NEW b \in preemptionBuffers' PROVE JobHoldsPreempt(b)'
    <3>1. numQueues' = 0
      BY <2>8, <2>9, FS_EmptySet
    <3>2. IsFiniteSet(preemptionBuffers) /\ idle \subseteq preemptionBuffers
      BY FiniteAssumption, FS_Subset DEF TypeOK
    <3>3. /\ IsFiniteSet(idle) /\ Cardinality(idle) <= Cardinality(preemptionBuffers)
          /\ Cardinality(idle) \in Nat /\ Cardinality(preemptionBuffers) \in Nat
      BY <3>2, FS_Subset, FS_CardinalityType
    <3>4. \E R \in SUBSET idle : Cardinality(R) = Cardinality(idle)
                                  /\ preemptionBuffers' = preemptionBuffers \ R
      <4>1. preemptionBuffers' \in PreemptionPrune(preemptionBuffers, idle, numQueues')
        BY <2>7 DEF PruneQueueCount
      <4>2. NumToRemove(Cardinality(preemptionBuffers), 0) = Cardinality(preemptionBuffers)
        BY <3>3 DEF NumToRemove
      <4> HIDE DEF idle
      <4> QED
        BY <3>1, <3>3, <4>1, <4>2 DEF PreemptionPrune
    <3>5. preemptionBuffers' = preemptionBuffers \ idle
      BY <3>3, <3>4, FS_Subset
    <3>6. \A p \in Queues : queueBuf'[p] = NoBuf
      BY <2>6, <2>9
    <3>7. b \in preemptionBuffers /\ b # NoBuf
      BY <2>9, <3>5 DEF TypeOK
    <3> QED
      BY <2>3, <2>9, <3>5, <3>6, <3>7 DEF JobHoldsPreempt
  <2> QED
    BY <2>5, <2>6, <2>8, <2>9 DEF CacheFollowsQueues
<1>9. ASSUME NEW q \in Queues, CreateQueue(q) PROVE CallsOnQueues' /\ CacheFollowsQueues'
  <2>1. UNCHANGED <<th, queueBuf>> /\ q \notin live /\ live' = live \cup {q}
        /\ \A t \in Threads : th[t].pc # "idle" => th[t].q # q
    BY <1>9 DEF CreateQueue
  <2>2. q \notin Existing /\ Existing' = Existing \cup {q}
    BY <2>1 DEF Existing, CallsOnQueues
  <2>3. Cardinality(Existing') = Cardinality(Existing) + 1
    BY <2>2, ExistingFinite, FS_AddElement
  <2>4. CallsOnQueues'
    BY <2>1, <2>2 DEF CallsOnQueues
  <2>5. numQueues' <= Cardinality(Existing')
    BY <1>9, <2>3, ExistingFinite DEF CreateQueue, CacheFollowsQueues, TypeOK
  <2> QED
    BY <2>1, <2>2, <2>4, <2>5 DEF CacheFollowsQueues
<1>10. CASE ReleaseMemory
  <2>1. UNCHANGED <<th, live, queueBuf, cb>> /\ PruneQueueCount(IdlePreempt)
    BY <1>10 DEF ReleaseMemory
  <2>2. Existing' = Existing
    BY <2>1 DEF Existing
  <2>3. CallsOnQueues'
    BY <2>1, <2>2 DEF CallsOnQueues
  <2>4. numQueues' <= Cardinality(Existing')
    BY <2>1, <2>2, ExistingFinite, PrunedCount, PruneKeepsTypes DEF CacheFollowsQueues, TypeOK
  <2>5. preemptionBuffers' \subseteq preemptionBuffers
    BY <2>1, PruneKeepsTypes
  <2> QED
    BY <2>1, <2>2, <2>3, <2>4, <2>5 DEF CacheFollowsQueues, JobHoldsPreempt
<1>11. CASE UNCHANGED vars
  BY <1>1, <1>11 DEF vars
<1>12. ASSUME NEW t \in Threads, CallBegin(t) PROVE CallsOnQueues' /\ CacheFollowsQueues'
  BY <1>4, <1>5, <1>6, <1>7, <1>12 DEF CallBegin
<1>13. ASSUME NEW t \in Threads, CallStep(t) \/ WaitTimesOut(t)
       PROVE  CallsOnQueues' /\ CacheFollowsQueues'
  BY <1>2, <1>3, <1>8, <1>13, StepContinues
<1>14. CASE Device
  BY <1>1, <1>14 DEF Device, DeviceCompletes
<1>15. CASE Housekeeping
  BY <1>1, <1>9, <1>10, <1>15 DEF Housekeeping, CreateFence, DestroyFence, ResetFence,
     PreloadPrune, PreloadAcquire, UnloadGraph
<1> QED
  BY <1>11, <1>12, <1>13, <1>14, <1>15 DEF Next

\* The queue invariant holds throughout.
LEMMA QueueInvariant == Spec => []QueueInv
<1>1. Init => QueueInv
  <2> SUFFICES ASSUME Init PROVE QueueInv
    OBVIOUS
  <2>1. \A t \in Threads : th[t].pc = "idle" /\ th[t].op # "destroy"
    BY DEF Init, NoCall
  <2>2. 0 <= Cardinality(Existing)
    BY ExistingFinite
  <2> QED
    BY <2>1, <2>2, InitType DEF Init, QueueInv, CallsOnQueues, CacheFollowsQueues
<1>2. QueueInv /\ [Next]_vars => QueueInv'
  BY NextType, NextQueueInv DEF QueueInv
<1> QED
  BY <1>1, <1>2, PTL DEF Spec

\* When the last queue is gone, no preemption buffer stays in the cache but those of
\* command lists, for any numbers of threads and queues, with and without in-order
\* queues and failing submissions, and however often Context::releaseMemory has
\* decremented the counter of queues.
THEOREM NoLeakWithoutQueues == Spec => []NoPreemptionLeak
<1>1. QueueInv => NoPreemptionLeak
  BY DEF QueueInv, CacheFollowsQueues, NoPreemptionLeak, Existing
<1> QED
  BY <1>1, QueueInvariant, PTL

-----------------------------------------------------------------------------
(***************************************************************************)
(* The buffers that executing jobs use are safe from other users: the      *)
(* theorems ScratchSafe and InUseSafe, for command queues without          *)
(* ModeFlags::IN_ORDER (with it the property fails: see the run            *)
(* queues_inorder_scratch).                                                *)
(*                                                                         *)
(* The argument: a list in the hand of one call is out of reach of every   *)
(* other call (Apart), so it is not executing (Seen) and the command       *)
(* buffer it is prepared in keeps its buffers until it is submitted        *)
(* (Ready); what the device uses is then what the command buffer holds     *)
(* (Used), which the caches neither hand out nor prune (Held).             *)
(*                                                                         *)
(* PreemptionSafe, the last of these, is about preemption buffers and needs *)
(* also that no submission fails: a command buffer then lets go of its buffer *)
(* before it is prepared again, so every buffer stays with one queue.      *)
(***************************************************************************)

-----------------------------------------------------------------------------
(* The inductive invariant.                                                *)

\* What the fields of a call are in each of its phases.
Shape(c) ==
    /\ c.pc \in {"idle", "ret"} => c.todo = {} /\ c.done = {}
    /\ c.pc \in {"enter", "sync", "wait", "waited"} => c.todo = {}
    /\ c.pc \in {"enter", "sync"} => c.done = {}
    /\ c.pc # "wait" => c.waitLeft = {}
    /\ c.cur \notin c.todo
    /\ \A f \in c.fencesLeft : FenceQueue[f] = c.q

Shapes == \A t \in Threads : Shape(th[t])

\* The jobs thread t may still submit or touch.
Reach(t) == InHand(t) \cup th[t].done \cup WaitsOn(t)

\* A list in the hand of one call is out of reach of every other.
Apart == \A t, s \in Threads : t # s => InHand(t) \cap Reach(s) = {}

\* A reported job is not executing; lists in hand are reported; jobs waited for are done.
Seen ==
    /\ \A j \in Jobs : run[j].seen => ~run[j].on
    /\ \A t \in Threads : \A j \in InHand(t) : run[j].seen
    /\ \A t \in Threads : th[t].pc \in {"wait", "waited"} => \A j \in th[t].done : ~run[j].on

\* What command buffers and queues hold is in the caches; no scratch buffer has two holders.
Held ==
    /\ \A j \in Jobs : cb[j].scratch \in scratchBuffers \cup {NoBuf}
    /\ \A j \in Jobs : cb[j].preempt \in preemptionBuffers \cup {NoBuf}
    /\ \A q \in Queues : queueBuf[q] \in preemptionBuffers \cup {NoBuf}
    /\ \A i, j \in Jobs : i # j /\ cb[i].scratch = cb[j].scratch => cb[i].scratch = NoBuf
    /\ \A j \in Jobs : ~cb[j].inOrder

\* The device uses what the command buffer holds.
Used == \A j \in Jobs : run[j].on => /\ run[j].scratch \subseteq {cb[j].scratch} \ {NoBuf}
                                     /\ run[j].preempt = cb[j].preempt

\* A list between updateOnSubmit and its submission is patched to the buffer it holds.
Ready == \A t \in Threads : th[t].cur \in Jobs /\ ScratchSize[th[t].cur] # 0 =>
            /\ cb[th[t].cur].patched = cb[th[t].cur].scratch
            /\ cb[th[t].cur].scratch # NoBuf

BufferInv == TypeOK /\ Shapes /\ Apart /\ Seen /\ Held /\ Used /\ Ready

-----------------------------------------------------------------------------
(* Calls.                                                                  *)

\* A thread outside any call has the shape of an idle call.
LEMMA EmptyShape == Shape(NoCall)
BY DEF Shape, NoCall

\* A call about to return has nothing left to submit or to wait for.
LEMMA ReturningShape ==
    ASSUME TypeOK, NEW t \in Threads, NEW r \in Result
    PROVE  Shape(Returning(t, r))
BY EmptyRecords DEF Shape, Returning, NoCall

\* When one call becomes a well-shaped one, all calls stay well-shaped.
LEMMA BecomesShape ==
    ASSUME TypeOK, Shapes, NEW t \in Threads, NEW c, Shape(c), Becomes(t, c)
    PROVE  Shapes'
BY BecomesFields DEF Shapes

\* Every step keeps the calls well-shaped.
LEMMA NextShapes ==
    ASSUME TypeOK, Shapes, [Next]_vars
    PROVE  Shapes'
<1>1. ASSUME NEW t \in Threads, NEW q \in Queues, NEW lists \in SUBSET Jobs,
             NEW f \in Fences \cup {NoFence}, Execute(t, q, lists, f)
      PROVE  Shapes'
  <2>1. Shape([NoCall EXCEPT !.pc = "next", !.op = "execute", !.q = q, !.f = f, !.todo = lists])
    BY EmptyRecords DEF Shape, NoCall
  <2> QED
    BY <1>1, <2>1, BecomesShape DEF Execute, Result
<1>2. ASSUME NEW t \in Threads, NEW j \in Jobs, SkipEmpty(t, j) PROVE Shapes'
  <2>1. CallOK(th[t]) /\ Shape(th[t]) /\ th[t].pc = "next"
    BY <1>2, ThreadType DEF SkipEmpty, Shapes, TypeOK
  <2>2. Shape([th[t] EXCEPT !.todo = @ \ {j}])
    BY <1>2, <2>1 DEF Shape, CallOK, Call
  <2> QED
    BY <1>2, <2>2, BecomesShape DEF SkipEmpty, Result
<1>3. ASSUME NEW t \in Threads, NEW j \in Jobs, UpdateOnSubmit(t, j) PROVE Shapes'
  <2>1. CallOK(th[t]) /\ Shape(th[t]) /\ th[t].pc = "next"
    BY <1>3, ThreadType DEF UpdateOnSubmit, Shapes, TypeOK
  <2>2. Shape([th[t] EXCEPT !.pc = "attach", !.cur = j, !.todo = @ \ {j}])
    BY <1>3, <2>1 DEF Shape, CallOK, Call
  <2> QED
    BY <1>3, <2>2, ReturningShape, BecomesShape DEF UpdateOnSubmit, Result
<1>4. ASSUME NEW t \in Threads, AddPreemptionBuffer(t) PROVE Shapes'
  <2>1. CallOK(th[t]) /\ Shape(th[t]) /\ th[t].pc = "attach"
    BY <1>4, ThreadType DEF AddPreemptionBuffer, Shapes, TypeOK
  <2>2. Shape([th[t] EXCEPT !.pc = "submit"])
    BY <1>4, <2>1 DEF Shape, CallOK, Call
  <2> QED
    BY <1>4, <2>2, BecomesShape DEF AddPreemptionBuffer, Result
<1>5. ASSUME NEW t \in Threads, MakeInOrder(t) PROVE Shapes'
  <2>1. CallOK(th[t]) /\ Shape(th[t]) /\ th[t].pc = "submit"
    BY <1>5, ThreadType DEF MakeInOrder, Shapes, TypeOK
  <2>2. Shape([th[t] EXCEPT !.pc = "ioctl"])
    BY <1>5, <2>1 DEF Shape, CallOK, Call
  <2> QED
    BY <1>5, <2>2, BecomesShape DEF MakeInOrder, Result
<1>6. ASSUME NEW t \in Threads, StripInOrder(t) PROVE Shapes'
  <2>1. CallOK(th[t]) /\ Shape(th[t]) /\ th[t].pc = "submit"
    BY <1>6, ThreadType DEF StripInOrder, Shapes, TypeOK
  <2>2. Shape([th[t] EXCEPT !.pc = "ioctl"])
    BY <1>6, <2>1 DEF Shape, CallOK, Call
  <2> QED
    BY <1>6, <2>2, BecomesShape DEF StripInOrder, Result
<1>7. ASSUME NEW t \in Threads, SubmitIoctl(t) PROVE Shapes'
  <2>1. CallOK(th[t]) /\ Shape(th[t]) /\ th[t].pc = "ioctl" /\ th[t].cur \in Jobs
    BY <1>7, ThreadType DEF SubmitIoctl, Shapes, TypeOK
  <2>2. Shape([th[t] EXCEPT !.pc = "next", !.cur = NoJob, !.done = @ \cup {th[t].cur}])
    BY <1>7, <2>1 DEF Shape, CallOK, Call
  <2> QED
    BY <1>7, <2>2, BecomesShape DEF SubmitIoctl, Result
<1>8. ASSUME NEW t \in Threads, SubmitFails(t) PROVE Shapes'
  <2> QED
    BY <1>8, ReturningShape, BecomesShape DEF SubmitFails, Result
<1>9. ASSUME NEW t \in Threads, TrackJobs(t) PROVE Shapes'
  <2>1. CallOK(th[t]) /\ Shape(th[t]) /\ th[t].pc = "next" /\ th[t].todo = {}
    BY <1>9, ThreadType DEF TrackJobs, Shapes, TypeOK
  <2>2. Shape([th[t] EXCEPT !.pc = "enter", !.done = {}])
    BY <1>9, <2>1 DEF Shape, CallOK, Call
  <2> QED
    BY <1>9, <2>2, ReturningShape, BecomesShape DEF TrackJobs, Result
<1>10. ASSUME NEW t \in Threads, NEW q \in Queues, Synchronize(t, q) PROVE Shapes'
  <2>1. Shape([NoCall EXCEPT !.pc = "enter", !.op = "synchronize", !.q = q])
    BY EmptyRecords DEF Shape, NoCall
  <2> QED
    BY <1>10, <2>1, BecomesShape DEF Synchronize, Result
<1>11. ASSUME NEW t \in Threads, EnterSynchronize(t) PROVE Shapes'
  <2>1. CallOK(th[t]) /\ Shape(th[t]) /\ th[t].pc = "enter" /\ fences \subseteq Fences
    BY <1>11, ThreadType DEF EnterSynchronize, Shapes, TypeOK
  <2>2. Shape([th[t] EXCEPT !.pc = "sync", !.fencesLeft = {f \in fences : FenceQueue[f] = th[t].q}])
    BY <1>11, <2>1 DEF Shape, CallOK, Call
  <2> QED
    BY <1>11, <2>2, ReturningShape, BecomesShape DEF EnterSynchronize, Result
<1>12. ASSUME NEW t \in Threads, NEW f \in Fences, NextFence(t, f) PROVE Shapes'
  <2>1. CallOK(th[t]) /\ Shape(th[t]) /\ th[t].pc = "sync" /\ fenceJobs[f] \subseteq Jobs
    BY <1>12, ThreadType DEF NextFence, Shapes, TypeOK
  <2>2. Shape([th[t] EXCEPT !.fencesLeft = @ \ {f}])
    BY <1>12, <2>1 DEF Shape, CallOK, Call
  <2>3. Shape([th[t] EXCEPT !.fencesLeft = @ \ {f}, !.pc = "wait", !.f = f,
                            !.waitLeft = fenceJobs[f]])
    BY <1>12, <2>1 DEF Shape, CallOK, Call
  <2> QED
    BY <1>12, <2>2, <2>3, BecomesShape DEF NextFence, Result
<1>13. ASSUME NEW t \in Threads, NextTracked(t) PROVE Shapes'
  <2>1. CallOK(th[t]) /\ Shape(th[t]) /\ th[t].pc = "sync" /\ tracked[th[t].q] \subseteq Jobs
    BY <1>13, ThreadType DEF NextTracked, Shapes, TypeOK
  <2>2. Shape([th[t] EXCEPT !.pc = "wait", !.f = NoFence, !.waitLeft = tracked[th[t].q]])
    BY <1>13, <2>1 DEF Shape, CallOK, Call
  <2> QED
    BY <1>13, <2>2, BecomesShape DEF NextTracked, Result
<1>14. ASSUME NEW t \in Threads, NEW f \in Fences, FenceSynchronize(t, f) PROVE Shapes'
  <2>1. Shape([[NoCall EXCEPT !.op = "fence", !.q = FenceQueue[f], !.f = f] EXCEPT !.pc = "ret"])
    BY EmptyRecords DEF Shape, NoCall
  <2>2. Shape([[NoCall EXCEPT !.op = "fence", !.q = FenceQueue[f], !.f = f]
            EXCEPT !.pc = "ret", !.result = "NOT_READY"])
    BY EmptyRecords DEF Shape, NoCall
  <2>3. Shape([[NoCall EXCEPT !.op = "fence", !.q = FenceQueue[f], !.f = f]
            EXCEPT !.pc = "wait", !.waitLeft = fenceJobs[f]])
    BY EmptyRecords DEF Shape, NoCall
  <2> QED
    BY <1>14, <2>1, <2>2, <2>3, BecomesShape DEF FenceSynchronize, Result
<1>15. ASSUME NEW t \in Threads, NEW j \in Jobs, WaitForCompletion(t, j) PROVE Shapes'
  <2>1. CallOK(th[t]) /\ Shape(th[t]) /\ th[t].pc = "wait"
    BY <1>15, ThreadType DEF WaitForCompletion, Shapes, TypeOK
  <2>2. Shape([th[t] EXCEPT !.waitLeft = @ \ {j}, !.done = @ \cup {j}])
    BY <1>15, <2>1 DEF Shape, CallOK, Call
  <2> QED
    BY <1>15, <2>2, BecomesShape DEF WaitForCompletion, Result
<1>16. ASSUME NEW t \in Threads, WaitTimesOut(t) PROVE Shapes'
  <2> QED
    BY <1>16, ReturningShape, BecomesShape DEF WaitTimesOut, Result
<1>17. ASSUME NEW t \in Threads, PutBackPreemptionBuffer(t) PROVE Shapes'
  <2>1. CallOK(th[t]) /\ Shape(th[t]) /\ th[t].pc = "wait" /\ th[t].waitLeft = {}
    BY <1>17, ThreadType DEF PutBackPreemptionBuffer, Shapes, TypeOK
  <2>2. Shape([th[t] EXCEPT !.pc = "waited"])
    BY <1>17, <2>1 DEF Shape, CallOK, Call
  <2> QED
    BY <1>17, <2>2, BecomesShape DEF PutBackPreemptionBuffer, Result
<1>18. ASSUME NEW t \in Threads, JobsWaited(t) PROVE Shapes'
  <2>1. CallOK(th[t]) /\ Shape(th[t]) /\ th[t].pc = "waited"
    BY <1>18, ThreadType DEF JobsWaited, Shapes, TypeOK
  <2>2. Shape([th[t] EXCEPT !.pc = "sync", !.done = {}])
    BY <1>18, <2>1 DEF Shape, CallOK, Call
  <2> QED
    BY <1>18, <2>2, ReturningShape, BecomesShape DEF JobsWaited, Result
<1>19. ASSUME NEW t \in Threads, NEW q \in Queues, DestroyQueue(t, q) PROVE Shapes'
  <2>1. Shape([NoCall EXCEPT !.pc = "enter", !.op = "destroy", !.q = q])
    BY EmptyRecords DEF Shape, NoCall
  <2> QED
    BY <1>19, <2>1, BecomesShape DEF DestroyQueue, Result
<1>20. ASSUME NEW t \in Threads, QueueDestroyed(t) PROVE Shapes'
  <2> QED
    BY <1>20, EmptyShape, BecomesShape DEF QueueDestroyed, Result
<1>21. ASSUME NEW t \in Threads, Return(t) PROVE Shapes'
  <2> QED
    BY <1>21, EmptyShape, BecomesShape DEF Return, Result
<1>22. CASE UNCHANGED th
  BY <1>22 DEF Shapes
<1> QED
  BY <1>1, <1>2, <1>3, <1>4, <1>5, <1>6, <1>7, <1>8, <1>9, <1>10, <1>11, <1>12, <1>13, <1>14,
     <1>15, <1>16, <1>17, <1>18, <1>19, <1>20, <1>21, <1>22
  DEF Next, CallBegin, CallStep, Device, Housekeeping, vars, CreateQueue, CreateFence,
     DestroyFence, ResetFence, PreloadPrune, PreloadAcquire, UnloadGraph, ReleaseMemory,
     DeviceCompletes

-----------------------------------------------------------------------------
(* Apart.                                                                  *)

\* Apart of one call: the lists it has in hand; does it wait, now or later.
\* The lists in hand, and whether the call may come to wait.
HandOf(c) == c.todo \cup ({c.cur} \ {NoJob})

MayWait(c) == \/ c.pc \in {"enter", "sync", "wait", "waited"}
              \/ c.pc \notin {"idle", "ret"} /\ c.q \in Synchronous

\* No queue and no fence tracks more jobs after the step.
TracksNoMore ==
    /\ \A q \in Queues : tracked'[q] \subseteq tracked[q]
    /\ \A f \in Fences : fenceJobs'[f] \subseteq fenceJobs[f]

\* What a thread has in hand and may wait for, in terms of its call alone.
LEMMA ReachOf ==
    ASSUME NEW t
    PROVE  /\ InHand(t) = HandOf(th[t])
           /\ WaitsOn(t) = IF MayWait(th[t]) THEN th[t].waitLeft \cup TrackedOn(th[t].q) ELSE {}
BY DEF InHand, HandOf, WaitsOn, MayWait

\* When nothing is tracked anew, no queue tracks more jobs.
LEMMA TrackedShrinks ==
    ASSUME TracksNoMore, NEW q \in Queues
    PROVE  TrackedOn(q)' \subseteq TrackedOn(q)
BY DEF TracksNoMore, TrackedOn

\* When no call and nothing tracked grows, lists in hand stay out of reach.
LEMMA ApartShrinks ==
    ASSUME Apart,
           \A t \in Threads : InHand(t)' \subseteq InHand(t) /\ Reach(t)' \subseteq Reach(t)
    PROVE  Apart'
BY DEF Apart

\* A step that changes no call and tracks nothing anew keeps lists in hand out of reach.
LEMMA SameThreads ==
    ASSUME TypeOK, Apart, TracksNoMore, UNCHANGED th
    PROVE  Apart'
<1>1. ASSUME NEW t \in Threads PROVE InHand(t)' \subseteq InHand(t) /\ Reach(t)' \subseteq Reach(t)
  <2>1. TrackedOn(th[t].q)' \subseteq TrackedOn(th[t].q)
    BY <1>1, TrackedShrinks, ThreadType
  <2> QED
    BY <2>1 DEF InHand, Reach, WaitsOn
<1> QED
  BY <1>1, ApartShrinks

\* A call that takes no list and reaches no job beyond its own keeps them out of reach.
LEMMA CallShrinks ==
    ASSUME TypeOK, Apart, TracksNoMore, NEW t \in Threads, NEW c, CallOK(c), Becomes(t, c),
           HandOf(c) \subseteq InHand(t),
           c.done \subseteq Reach(t),
           MayWait(c) => c.waitLeft \cup TrackedOn(c.q) \subseteq Reach(t)
    PROVE  Apart'
<1>1. th'[t] = c /\ \A s \in Threads : s # t => th'[s] = th[s]
  BY BecomesFields
<1>2. ASSUME NEW s \in Threads PROVE InHand(s)' \subseteq InHand(s) /\ Reach(s)' \subseteq Reach(s)
  <2>1. CASE s # t
    <3>1. th'[s] = th[s]
      BY <1>1, <2>1
    <3>2. ASSUME NEW q \in Queues PROVE TrackedOn(q)' \subseteq TrackedOn(q)
      BY TrackedShrinks
    <3>3. TrackedOn(th[s].q)' \subseteq TrackedOn(th[s].q)
      BY <3>1, <3>2, ThreadType DEF TrackedOn
    <3> QED
      BY <3>1, <3>3 DEF InHand, Reach, WaitsOn
  <2>2. CASE s = t
    <3>1. c.q \in Queues
      BY DEF CallOK, Call
    <3>2. TrackedOn(c.q)' \subseteq TrackedOn(c.q)
      BY <3>1, TrackedShrinks
    <3>3. InHand(t)' = HandOf(c)
      BY <1>1 DEF InHand, HandOf
    <3>4. WaitsOn(t)' = IF MayWait(c) THEN c.waitLeft \cup TrackedOn(c.q)' ELSE {}
      BY <1>1 DEF WaitsOn, MayWait
    <3>5. Reach(t)' \subseteq Reach(t)
      BY <1>1, <3>2, <3>3, <3>4 DEF Reach
    <3> QED
      BY <2>2, <3>3, <3>5
  <2> QED
    BY <2>1, <2>2
<1> QED
  BY <1>2, ApartShrinks

\* A call begins: its lists and the jobs it waits for are nobody else's.
LEMMA CallBegins ==
    ASSUME TypeOK, Apart, TracksNoMore, NEW t \in Threads, NEW c, CallOK(c), Becomes(t, c),
           c.done = {},
           \A s \in Threads \ {t} : HandOf(c) \cap Reach(s) = {},
           MayWait(c) => \A s \in Threads \ {t} :
                            InHand(s) \cap (c.waitLeft \cup TrackedOn(c.q)) = {}
    PROVE  Apart'
<1>1. th'[t] = c /\ \A s \in Threads : s # t => th'[s] = th[s]
  BY BecomesFields
<1>2. ASSUME NEW s \in Threads, s # t PROVE InHand(s)' = InHand(s) /\ Reach(s)' \subseteq Reach(s)
  <2>1. th'[s] = th[s]
    BY <1>1, <1>2
  <2>2. ASSUME NEW q \in Queues PROVE TrackedOn(q)' \subseteq TrackedOn(q)
    BY TrackedShrinks
  <2>3. TrackedOn(th[s].q)' \subseteq TrackedOn(th[s].q)
    BY <2>1, <2>2, ThreadType DEF TrackedOn
  <2> QED
    BY <2>1, <2>3 DEF InHand, Reach, WaitsOn
<1>3. c.q \in Queues
  BY DEF CallOK, Call
<1>4. TrackedOn(c.q)' \subseteq TrackedOn(c.q)
  BY <1>3, TrackedShrinks
<1>5. InHand(t)' = HandOf(c)
  BY <1>1 DEF InHand, HandOf
<1>6. WaitsOn(t)' = IF MayWait(c) THEN c.waitLeft \cup TrackedOn(c.q)' ELSE {}
  BY <1>1 DEF WaitsOn, MayWait
<1>7. Reach(t)' = HandOf(c) \cup WaitsOn(t)'
  BY <1>1, <1>5 DEF Reach
<1>8. ASSUME NEW s \in Threads, s # t PROVE InHand(t)' \cap Reach(s)' = {}
  BY <1>2, <1>5, <1>8
<1>9. ASSUME NEW s \in Threads, s # t PROVE InHand(s)' \cap Reach(t)' = {}
  <2>1. InHand(s)' = InHand(s) /\ InHand(s) \subseteq Reach(s)
    BY <1>2, <1>9 DEF Reach
  <2>2. HandOf(c) \cap InHand(s) = {}
    BY <1>9, <2>1
  <2>3. InHand(s) \cap WaitsOn(t)' = {}
    BY <1>4, <1>6, <1>9
  <2> QED
    BY <1>7, <2>1, <2>2, <2>3
<1>10. ASSUME NEW r \in Threads, NEW s \in Threads, r # t, s # t, r # s
       PROVE  InHand(r)' \cap Reach(s)' = {}
  BY <1>2, <1>10 DEF Apart
<1> QED
  BY <1>8, <1>9, <1>10 DEF Apart

\* A call that ends reaches nothing any more.
LEMMA CallEnds ==
    ASSUME TypeOK, Apart, TracksNoMore, NEW t \in Threads, NEW c, CallOK(c), Becomes(t, c),
           Shape(c), c.pc \in {"idle", "ret"}
    PROVE  Apart'
<1>1. HandOf(c) = {} /\ c.done = {} /\ ~MayWait(c)
  BY DEF HandOf, MayWait, Shape, CallOK, Call
<1> QED
  BY <1>1, CallShrinks

\* The two ways a call ends are well-typed and well-shaped.
LEMMA Ends ==
    /\ CallOK(NoCall) /\ Shape(NoCall) /\ NoCall.pc = "idle"
    /\ TypeOK => \A t \in Threads : \A r \in Result :
            CallOK(Returning(t, r)) /\ Shape(Returning(t, r)) /\ Returning(t, r).pc = "ret"
<1>1. ASSUME TypeOK, NEW t \in Threads, NEW r \in Result PROVE Returning(t, r).pc = "ret"
  BY EmptyRecords DEF Returning, NoCall
<1> QED
  BY <1>1, EmptyRecords, EmptyShape, ReturningType, ReturningShape DEF NoCall

\* Every step keeps a list in the hand of one call out of reach of the others.
LEMMA NextApart ==
    ASSUME TypeOK, Shapes, Apart, InOrder = {}, [Next]_vars
    PROVE  Apart'
<1> USE DEF cacheVars, queueVars, fenceVars
<1>1. ASSUME NEW q \in Queues, CreateQueue(q) PROVE Apart'
  <2>1. TracksNoMore
    BY <1>1 DEF CreateQueue, TracksNoMore, TypeOK
  <2> QED
    BY <1>1, <2>1, SameThreads DEF CreateQueue
<1>2. ASSUME NEW f \in Fences, NEW flag \in BOOLEAN, CreateFence(f, flag) PROVE Apart'
  <2>1. TracksNoMore
    BY <1>2 DEF CreateFence, TracksNoMore, TypeOK
  <2> QED
    BY <1>2, <2>1, SameThreads DEF CreateFence
<1>3. ASSUME NEW f \in Fences, DestroyFence(f) PROVE Apart'
  <2>1. TracksNoMore
    BY <1>3 DEF DestroyFence, TracksNoMore, TypeOK
  <2> QED
    BY <1>3, <2>1, SameThreads DEF DestroyFence
<1>4. ASSUME NEW f \in Fences, ResetFence(f) PROVE Apart'
  <2>1. TracksNoMore
    BY <1>4 DEF ResetFence, TracksNoMore, TypeOK
  <2> QED
    BY <1>4, <2>1, SameThreads DEF ResetFence
<1>5. ASSUME NEW size \in PreloadSizes, PreloadPrune(size) PROVE Apart'
  <2>1. TracksNoMore
    BY <1>5 DEF PreloadPrune, TracksNoMore, TypeOK
  <2> QED
    BY <1>5, <2>1, SameThreads DEF PreloadPrune
<1>6. ASSUME PreloadAcquire PROVE Apart'
  <2>1. TracksNoMore
    BY <1>6 DEF PreloadAcquire, TracksNoMore, TypeOK
  <2> QED
    BY <1>6, <2>1, SameThreads DEF PreloadAcquire
<1>7. ASSUME NEW size \in PreloadSizes, UnloadGraph(size) PROVE Apart'
  <2>1. TracksNoMore
    BY <1>7 DEF UnloadGraph, TracksNoMore, TypeOK
  <2> QED
    BY <1>7, <2>1, SameThreads DEF UnloadGraph
<1>8. ASSUME ReleaseMemory PROVE Apart'
  <2>1. TracksNoMore
    BY <1>8 DEF ReleaseMemory, TracksNoMore, TypeOK
  <2> QED
    BY <1>8, <2>1, SameThreads DEF ReleaseMemory
<1>9. ASSUME NEW t \in Threads, NEW q \in Queues, NEW lists \in SUBSET Jobs,
             NEW f \in Fences \cup {NoFence}, Execute(t, q, lists, f)
      PROVE  Apart'
  <2> DEFINE c == [NoCall EXCEPT !.pc = "next", !.op = "execute", !.q = q, !.f = f, !.todo = lists]
  <2>1. TracksNoMore /\ Becomes(t, c)
    BY <1>9 DEF Execute, TracksNoMore
  <2>2. CallOK(c) /\ c.done = {} /\ HandOf(c) = lists
    BY <1>9, EmptyRecords DEF CallOK, Call, NoCall, HandOf
  <2>3. \A s \in Threads \ {t} : HandOf(c) \cap Reach(s) = {}
    BY <1>9, <2>2 DEF Execute, MaySubmit, Reach
  <2>4. MayWait(c) => \A s \in Threads \ {t} : InHand(s) \cap (c.waitLeft \cup TrackedOn(c.q)) = {}
    <3>1. c.waitLeft = {} /\ c.q = q /\ c.pc = "next"
      BY EmptyRecords DEF NoCall
    <3> QED
      BY <1>9, <3>1 DEF Execute, MayWait, MayWaitOn
  <2> QED
    BY <2>1, <2>2, <2>3, <2>4, CallBegins
<1>10. ASSUME NEW t \in Threads, NEW j \in Jobs, SkipEmpty(t, j) PROVE Apart'
  <2>1. TracksNoMore
    BY <1>10, ThreadType DEF SkipEmpty, TracksNoMore, TypeOK
  <2>2. CallOK(th[t]) /\ Shape(th[t]) /\ th[t].pc = "next"
    BY <1>10, ThreadType DEF SkipEmpty, Shapes, TypeOK
  <2>3. ASSUME Becomes(t, [th[t] EXCEPT !.todo = @ \ {j}]) PROVE Apart'
    <3> DEFINE c == [th[t] EXCEPT !.todo = @ \ {j}]
    <3>1. CallOK(c)
      BY <1>10, <2>2, ThreadType DEF CallOK, Call, TypeOK
    <3>2. HandOf(c) \subseteq InHand(t)
      BY <1>10, <2>2 DEF InHand, HandOf, CallOK, Call
    <3>3. c.done \subseteq Reach(t)
      BY <1>10, <2>2 DEF Reach, InHand, WaitsOn, CallOK, Call
    <3>4. MayWait(c) => c.waitLeft \cup TrackedOn(c.q) \subseteq Reach(t)
      BY <1>10, <2>2 DEF MayWait, Reach, WaitsOn, CallOK, Call
    <3> QED
      BY <2>3, <2>1, <3>1, <3>2, <3>3, <3>4, CallShrinks
  <2> QED
    BY <1>10, <2>3 DEF SkipEmpty, Result
<1>11. ASSUME NEW t \in Threads, NEW j \in Jobs, UpdateOnSubmit(t, j) PROVE Apart'
  <2>1. TracksNoMore
    BY <1>11, ThreadType DEF UpdateOnSubmit, TracksNoMore, TypeOK
  <2>2. CallOK(th[t]) /\ Shape(th[t]) /\ th[t].pc = "next" /\ j \in th[t].todo
    BY <1>11, ThreadType DEF UpdateOnSubmit, Shapes, TypeOK
  <2>3. ASSUME Becomes(t, [th[t] EXCEPT !.pc = "attach", !.cur = j, !.todo = @ \ {j}]) PROVE Apart'
    <3> DEFINE c == [th[t] EXCEPT !.pc = "attach", !.cur = j, !.todo = @ \ {j}]
    <3>1. CallOK(c)
      BY <1>11, <2>2, ThreadType DEF CallOK, Call, TypeOK
    <3>2. HandOf(c) \subseteq InHand(t)
      BY <1>11, <2>2 DEF InHand, HandOf, CallOK, Call
    <3>3. c.done \subseteq Reach(t)
      BY <1>11, <2>2 DEF Reach, InHand, WaitsOn, CallOK, Call
    <3>4. MayWait(c) => c.waitLeft \cup TrackedOn(c.q) \subseteq Reach(t)
      BY <1>11, <2>2 DEF MayWait, Reach, WaitsOn, CallOK, Call
    <3> QED
      BY <2>3, <2>1, <3>1, <3>2, <3>3, <3>4, CallShrinks
  <2>4. ASSUME NEW r \in Result, Becomes(t, Returning(t, r)) PROVE Apart'
    BY <2>4, <2>1, Ends, CallEnds
  <2> QED
    BY <1>11, <2>3, <2>4 DEF UpdateOnSubmit, Result
<1>12. ASSUME NEW t \in Threads, AddPreemptionBuffer(t) PROVE Apart'
  <2>1. TracksNoMore
    BY <1>12, ThreadType DEF AddPreemptionBuffer, TracksNoMore, TypeOK
  <2>2. CallOK(th[t]) /\ Shape(th[t]) /\ th[t].pc = "attach"
    BY <1>12, ThreadType DEF AddPreemptionBuffer, Shapes, TypeOK
  <2>3. ASSUME Becomes(t, [th[t] EXCEPT !.pc = "submit"]) PROVE Apart'
    <3> DEFINE c == [th[t] EXCEPT !.pc = "submit"]
    <3>1. CallOK(c)
      BY <1>12, <2>2, ThreadType DEF CallOK, Call, TypeOK
    <3>2. HandOf(c) \subseteq InHand(t)
      BY <1>12, <2>2 DEF InHand, HandOf, CallOK, Call
    <3>3. c.done \subseteq Reach(t)
      BY <1>12, <2>2 DEF Reach, InHand, WaitsOn, CallOK, Call
    <3>4. MayWait(c) => c.waitLeft \cup TrackedOn(c.q) \subseteq Reach(t)
      BY <1>12, <2>2 DEF MayWait, Reach, WaitsOn, CallOK, Call
    <3> QED
      BY <2>3, <2>1, <3>1, <3>2, <3>3, <3>4, CallShrinks
  <2> QED
    BY <1>12, <2>3 DEF AddPreemptionBuffer, Result
<1>13. ASSUME NEW t \in Threads, MakeInOrder(t) PROVE Apart'
  <2>1. TracksNoMore
    BY <1>13, ThreadType DEF MakeInOrder, TracksNoMore, TypeOK
  <2>2. CallOK(th[t]) /\ Shape(th[t]) /\ th[t].pc = "submit"
    BY <1>13, ThreadType DEF MakeInOrder, Shapes, TypeOK
  <2>3. ASSUME Becomes(t, [th[t] EXCEPT !.pc = "ioctl"]) PROVE Apart'
    <3> DEFINE c == [th[t] EXCEPT !.pc = "ioctl"]
    <3>1. CallOK(c)
      BY <1>13, <2>2, ThreadType DEF CallOK, Call, TypeOK
    <3>2. HandOf(c) \subseteq InHand(t)
      BY <1>13, <2>2 DEF InHand, HandOf, CallOK, Call
    <3>3. c.done \subseteq Reach(t)
      BY <1>13, <2>2 DEF Reach, InHand, WaitsOn, CallOK, Call
    <3>4. MayWait(c) => c.waitLeft \cup TrackedOn(c.q) \subseteq Reach(t)
      BY <1>13, <2>2 DEF MayWait, Reach, WaitsOn, CallOK, Call
    <3> QED
      BY <2>3, <2>1, <3>1, <3>2, <3>3, <3>4, CallShrinks
  <2> QED
    BY <1>13, <2>3 DEF MakeInOrder, Result
<1>14. ASSUME NEW t \in Threads, StripInOrder(t) PROVE Apart'
  <2>1. TracksNoMore
    BY <1>14, ThreadType DEF StripInOrder, TracksNoMore, TypeOK
  <2>2. CallOK(th[t]) /\ Shape(th[t]) /\ th[t].pc = "submit"
    BY <1>14, ThreadType DEF StripInOrder, Shapes, TypeOK
  <2>3. ASSUME Becomes(t, [th[t] EXCEPT !.pc = "ioctl"]) PROVE Apart'
    <3> DEFINE c == [th[t] EXCEPT !.pc = "ioctl"]
    <3>1. CallOK(c)
      BY <1>14, <2>2, ThreadType DEF CallOK, Call, TypeOK
    <3>2. HandOf(c) \subseteq InHand(t)
      BY <1>14, <2>2 DEF InHand, HandOf, CallOK, Call
    <3>3. c.done \subseteq Reach(t)
      BY <1>14, <2>2 DEF Reach, InHand, WaitsOn, CallOK, Call
    <3>4. MayWait(c) => c.waitLeft \cup TrackedOn(c.q) \subseteq Reach(t)
      BY <1>14, <2>2 DEF MayWait, Reach, WaitsOn, CallOK, Call
    <3> QED
      BY <2>3, <2>1, <3>1, <3>2, <3>3, <3>4, CallShrinks
  <2> QED
    BY <1>14, <2>3 DEF StripInOrder, Result
<1>15. ASSUME NEW t \in Threads, SubmitIoctl(t) PROVE Apart'
  <2>1. TracksNoMore
    BY <1>15, ThreadType DEF SubmitIoctl, TracksNoMore, TypeOK
  <2>2. CallOK(th[t]) /\ Shape(th[t]) /\ th[t].pc = "ioctl" /\ th[t].cur \in Jobs
    BY <1>15, ThreadType DEF SubmitIoctl, Shapes, TypeOK
  <2>3. ASSUME Becomes(t, [th[t] EXCEPT !.pc = "next", !.cur = NoJob, !.done = @ \cup {th[t].cur}])
        PROVE  Apart'
    <3> DEFINE c == [th[t] EXCEPT !.pc = "next", !.cur = NoJob, !.done = @ \cup {th[t].cur}]
    <3>1. CallOK(c)
      BY ZenonT(40), <1>15, <2>2, ThreadType DEF CallOK, Call, TypeOK
    <3>2. HandOf(c) \subseteq InHand(t)
      BY <1>15, <2>2 DEF InHand, HandOf, CallOK, Call
    <3>3. c.done \subseteq Reach(t)
      BY <1>15, <2>2 DEF Reach, InHand, WaitsOn, CallOK, Call
    <3>4. MayWait(c) => c.waitLeft \cup TrackedOn(c.q) \subseteq Reach(t)
      BY <1>15, <2>2 DEF MayWait, Reach, WaitsOn, CallOK, Call
    <3> QED
      BY <2>3, <2>1, <3>1, <3>2, <3>3, <3>4, CallShrinks
  <2> QED
    BY <1>15, <2>3 DEF SubmitIoctl, Result
<1>16. ASSUME NEW t \in Threads, SubmitFails(t) PROVE Apart'
  <2>1. TracksNoMore
    BY <1>16, ThreadType DEF SubmitFails, TracksNoMore, TypeOK
  <2>2. ASSUME NEW r \in Result, Becomes(t, Returning(t, r)) PROVE Apart'
    BY <2>2, <2>1, Ends, CallEnds
  <2> QED
    BY <1>16, <2>2 DEF SubmitFails, Result
<1>17. ASSUME NEW t \in Threads, TrackJobs(t) PROVE Apart'
  <2>0. CallOK(th[t]) /\ Shape(th[t]) /\ th[t].pc = "next" /\ th[t].todo = {}
    BY <1>17, ThreadType DEF TrackJobs, Shapes
  <2>1. InHand(t) = {}
    BY <2>0 DEF InHand, CallOK, Call
  <2>2. ASSUME NEW q \in Queues
        PROVE  TrackedOn(q)' \subseteq TrackedOn(q) \cup (IF q = th[t].q THEN th[t].done ELSE {})
    <3>1. tracked'[q] \subseteq tracked[q] \cup (IF q = th[t].q THEN th[t].done ELSE {})
      BY <1>17, <2>2, ThreadType DEF TrackJobs, TypeOK
    <3>2. ASSUME NEW f \in Fences, FenceQueue[f] = q
          PROVE  fenceJobs'[f] \subseteq fenceJobs[f] \cup (IF q = th[t].q THEN th[t].done ELSE {})
      BY <1>17, <3>2, ThreadType DEF TrackJobs, TypeOK
    <3> QED
      BY <3>1, <3>2 DEF TrackedOn
  <2>3. \A s \in Threads : s # t => th'[s] = th[s]
    BY <1>17, BecomesFields DEF TrackJobs
  <2>4. InHand(t)' = {} /\ th'[t].done = {} /\ WaitsOn(t)' \subseteq Reach(t)
    <3>1. CASE Becomes(t, [th[t] EXCEPT !.pc = "enter", !.done = {}]) /\ th[t].q \in Synchronous
      <4> DEFINE c == [th[t] EXCEPT !.pc = "enter", !.done = {}]
      <4>1. th'[t] = c
        BY <3>1, BecomesFields
      <4>2. c.todo = {} /\ c.cur \notin Jobs /\ c.done = {} /\ c.q = th[t].q
            /\ c.waitLeft = th[t].waitLeft /\ c.cur \in Jobs \cup {NoJob} /\ c.pc = "enter"
        BY <2>0 DEF CallOK, Call
      <4>3. th[t].q \in Queues
        BY ThreadType
      <4>4. ASSUME NEW q \in Queues, q = th[t].q PROVE TrackedOn(q)' \subseteq Reach(t)
        <5>1. TrackedOn(q) \subseteq WaitsOn(t)
          BY <2>0, <3>1, <4>4 DEF WaitsOn
        <5> QED
          BY <2>2, <4>4, <5>1 DEF Reach
      <4>5. TrackedOn(th[t].q)' \subseteq Reach(t)
        BY <4>1, <4>2, <4>3, <4>4 DEF TrackedOn
      <4>6. th[t].waitLeft \subseteq Reach(t)
        BY <2>0, <3>1 DEF WaitsOn, Reach
      <4> QED
        BY <4>1, <4>2, <4>5, <4>6 DEF InHand, WaitsOn
    <3>2. ASSUME NEW r \in Result, Becomes(t, Returning(t, r))
          PROVE  InHand(t)' = {} /\ th'[t].done = {} /\ WaitsOn(t)' \subseteq Reach(t)
      <4>1. th'[t] = Returning(t, r)
        BY <3>2, BecomesFields
      <4> QED
        BY <4>1, Ends DEF InHand, WaitsOn, Shape, CallOK, Call
    <3> QED
      BY <1>17, <3>1, <3>2 DEF TrackJobs, Result
  <2>5. ASSUME NEW s \in Threads, s # t
        PROVE  InHand(s)' = InHand(s) /\ Reach(s)' \subseteq Reach(s) \cup th[t].done
    <3>1. th'[s] = th[s]
      BY <2>3, <2>5
    <3>2. TrackedOn(th[s].q)' \subseteq TrackedOn(th[s].q) \cup th[t].done
      BY <2>2, <3>1, ThreadType DEF TrackedOn
    <3> QED
      BY <3>1, <3>2 DEF InHand, Reach, WaitsOn
  <2>6. ASSUME NEW s \in Threads, s # t PROVE InHand(s) \cap Reach(t) = {} /\ th[t].done \subseteq Reach(t)
    BY <2>6 DEF Apart, Reach
  <2>7. Reach(t)' \subseteq Reach(t)
    BY <2>4 DEF Reach
  <2>8. ASSUME NEW r \in Threads, NEW s \in Threads, r # s PROVE InHand(r)' \cap Reach(s)' = {}
    <3>1. CASE r = t
      BY <2>4, <3>1
    <3>2. CASE s = t
      BY <2>5, <2>6, <2>7, <2>8, <3>2
    <3>3. CASE r # t /\ s # t
      BY <2>5, <2>6, <2>8, <3>3 DEF Apart
    <3> QED
      BY <3>1, <3>2, <3>3
  <2> QED
    BY <2>8 DEF Apart
<1>18. ASSUME NEW t \in Threads, NEW q \in Queues, Synchronize(t, q) PROVE Apart'
  <2> DEFINE c == [NoCall EXCEPT !.pc = "enter", !.op = "synchronize", !.q = q]
  <2>1. TracksNoMore /\ Becomes(t, c)
    BY <1>18 DEF Synchronize, TracksNoMore
  <2>2. CallOK(c) /\ c.done = {} /\ HandOf(c) = {} /\ c.waitLeft = {} /\ c.q = q
    BY <1>18, EmptyRecords DEF CallOK, Call, NoCall, HandOf
  <2> QED
    BY <1>18, <2>1, <2>2, CallBegins DEF Synchronize, MayWaitOn
<1>19. ASSUME NEW t \in Threads, EnterSynchronize(t) PROVE Apart'
  <2>1. TracksNoMore
    BY <1>19, ThreadType DEF EnterSynchronize, TracksNoMore, TypeOK
  <2>2. CallOK(th[t]) /\ Shape(th[t]) /\ th[t].pc = "enter"
    BY <1>19, ThreadType DEF EnterSynchronize, Shapes, TypeOK
  <2>3. ASSUME Becomes(t, [th[t] EXCEPT !.pc = "sync", !.fencesLeft = {f \in fences : FenceQueue[f] = th[t].q}])
        PROVE  Apart'
    <3> DEFINE c == [th[t] EXCEPT !.pc = "sync", !.fencesLeft = {f \in fences : FenceQueue[f] = th[t].q}]
    <3>1. CallOK(c)
      BY <1>19, <2>2, ThreadType DEF CallOK, Call, TypeOK
    <3>2. HandOf(c) \subseteq InHand(t)
      BY <1>19, <2>2 DEF InHand, HandOf, CallOK, Call
    <3>3. c.done \subseteq Reach(t)
      BY <1>19, <2>2 DEF Reach, InHand, WaitsOn, CallOK, Call
    <3>4. MayWait(c) => c.waitLeft \cup TrackedOn(c.q) \subseteq Reach(t)
      BY <1>19, <2>2 DEF MayWait, Reach, WaitsOn, CallOK, Call
    <3> QED
      BY <2>3, <2>1, <3>1, <3>2, <3>3, <3>4, CallShrinks
  <2>4. ASSUME NEW r \in Result, Becomes(t, Returning(t, r)) PROVE Apart'
    BY <2>4, <2>1, Ends, CallEnds
  <2> QED
    BY <1>19, <2>3, <2>4 DEF EnterSynchronize, Result
<1>20. ASSUME NEW t \in Threads, NEW f \in Fences, NextFence(t, f) PROVE Apart'
  <2>1. TracksNoMore
    BY <1>20, ThreadType DEF NextFence, TracksNoMore, TypeOK
  <2>2. CallOK(th[t]) /\ Shape(th[t]) /\ th[t].pc = "sync" /\ f \in th[t].fencesLeft
    BY <1>20, ThreadType DEF NextFence, Shapes, TypeOK
  <2>3. fenceJobs[f] \subseteq TrackedOn(th[t].q)
    BY <1>20, <2>2, ThreadType DEF Shape, TrackedOn
  <2>4. ASSUME Becomes(t, [th[t] EXCEPT !.fencesLeft = @ \ {f}]) PROVE Apart'
    <3> DEFINE c == [th[t] EXCEPT !.fencesLeft = @ \ {f}]
    <3>1. CallOK(c)
      BY <1>20, <2>2, ThreadType DEF CallOK, Call, TypeOK
    <3>2. HandOf(c) \subseteq InHand(t)
      BY <1>20, <2>2 DEF InHand, HandOf, CallOK, Call
    <3>3. c.done \subseteq Reach(t)
      BY <1>20, <2>2 DEF Reach, InHand, WaitsOn, CallOK, Call
    <3>4. MayWait(c) => c.waitLeft \cup TrackedOn(c.q) \subseteq Reach(t)
      BY <1>20, <2>2, <2>3 DEF MayWait, Reach, WaitsOn, CallOK, Call
    <3> QED
      BY <2>4, <2>1, <3>1, <3>2, <3>3, <3>4, CallShrinks
  <2>5. ASSUME Becomes(t, [th[t] EXCEPT !.fencesLeft = @ \ {f}, !.pc = "wait", !.f = f,
                            !.waitLeft = fenceJobs[f]]) PROVE Apart'
    <3> DEFINE c == [th[t] EXCEPT !.fencesLeft = @ \ {f}, !.pc = "wait", !.f = f,
                            !.waitLeft = fenceJobs[f]]
    <3>1. CallOK(c)
      BY <1>20, <2>2, ThreadType DEF CallOK, Call, TypeOK
    <3>2. HandOf(c) \subseteq InHand(t)
      BY <1>20, <2>2 DEF InHand, HandOf, CallOK, Call
    <3>3. c.done \subseteq Reach(t)
      BY <1>20, <2>2 DEF Reach, InHand, WaitsOn, CallOK, Call
    <3>4. MayWait(c) => c.waitLeft \cup TrackedOn(c.q) \subseteq Reach(t)
      BY <1>20, <2>2, <2>3 DEF MayWait, Reach, WaitsOn, CallOK, Call
    <3> QED
      BY <2>5, <2>1, <3>1, <3>2, <3>3, <3>4, CallShrinks
  <2> QED
    BY <1>20, <2>4, <2>5 DEF NextFence, Result
<1>21. ASSUME NEW t \in Threads, NextTracked(t) PROVE Apart'
  <2>1. TracksNoMore
    BY <1>21, ThreadType DEF NextTracked, TracksNoMore, TypeOK
  <2>2. CallOK(th[t]) /\ Shape(th[t]) /\ th[t].pc = "sync"
    BY <1>21, ThreadType DEF NextTracked, Shapes, TypeOK
  <2>3. tracked[th[t].q] \subseteq TrackedOn(th[t].q)
    BY <1>21, <2>2, ThreadType DEF Shape, TrackedOn
  <2>4. ASSUME Becomes(t, [th[t] EXCEPT !.pc = "wait", !.f = NoFence, !.waitLeft = tracked[th[t].q]])
        PROVE  Apart'
    <3> DEFINE c == [th[t] EXCEPT !.pc = "wait", !.f = NoFence, !.waitLeft = tracked[th[t].q]]
    <3>1. CallOK(c)
      BY ZenonT(40), <1>21, <2>2, ThreadType DEF CallOK, Call, TypeOK
    <3>2. HandOf(c) \subseteq InHand(t)
      BY <1>21, <2>2 DEF InHand, HandOf, CallOK, Call
    <3>3. c.done \subseteq Reach(t)
      BY <1>21, <2>2 DEF Reach, InHand, WaitsOn, CallOK, Call
    <3>4. MayWait(c) => c.waitLeft \cup TrackedOn(c.q) \subseteq Reach(t)
      BY <1>21, <2>2, <2>3 DEF MayWait, Reach, WaitsOn, CallOK, Call
    <3> QED
      BY <2>4, <2>1, <3>1, <3>2, <3>3, <3>4, CallShrinks
  <2> QED
    BY <1>21, <2>4 DEF NextTracked, Result
<1>22. ASSUME NEW t \in Threads, NEW f \in Fences, FenceSynchronize(t, f) PROVE Apart'
  <2> DEFINE c == [NoCall EXCEPT !.op = "fence", !.q = FenceQueue[f], !.f = f]
  <2>1. TracksNoMore
    BY <1>22 DEF FenceSynchronize, TracksNoMore
  <2>2. ASSUME NEW d, CallOK(d), d.done = {}, HandOf(d) = {}, d.q = FenceQueue[f],
               d.waitLeft \subseteq fenceJobs[f], Becomes(t, d)
        PROVE  Apart'
    <3>1. fenceJobs[f] \subseteq TrackedOn(d.q)
      BY <1>22, <2>2 DEF TrackedOn
    <3> QED
      BY <1>22, <2>1, <2>2, <3>1, CallBegins DEF FenceSynchronize, MayWaitOn
  <2>3. ASSUME Becomes(t, [c EXCEPT !.pc = "ret"]) PROVE Apart'
    <3> DEFINE d == [c EXCEPT !.pc = "ret"]
    <3>1. CallOK(d) /\ d.done = {} /\ HandOf(d) = {} /\ d.q = FenceQueue[f] /\ d.waitLeft = {}
      BY <1>22, EmptyRecords DEF CallOK, Call, NoCall, HandOf
    <3> QED
      BY <2>2, <2>3, <3>1
  <2>4. ASSUME Becomes(t, [c EXCEPT !.pc = "ret", !.result = "NOT_READY"]) PROVE Apart'
    <3> DEFINE d == [c EXCEPT !.pc = "ret", !.result = "NOT_READY"]
    <3>1. CallOK(d) /\ d.done = {} /\ HandOf(d) = {} /\ d.q = FenceQueue[f] /\ d.waitLeft = {}
      BY <1>22, EmptyRecords DEF CallOK, Call, NoCall, HandOf, Result
    <3> QED
      BY <2>2, <2>4, <3>1
  <2>5. ASSUME Becomes(t, [c EXCEPT !.pc = "wait", !.waitLeft = fenceJobs[f]]) PROVE Apart'
    <3> DEFINE d == [c EXCEPT !.pc = "wait", !.waitLeft = fenceJobs[f]]
    <3>1. CallOK(d) /\ d.done = {} /\ HandOf(d) = {} /\ d.q = FenceQueue[f]
              /\ d.waitLeft = fenceJobs[f]
      BY <1>22, EmptyRecords DEF CallOK, Call, NoCall, HandOf, TypeOK
    <3> QED
      BY <2>2, <2>5, <3>1
  <2> QED
    BY <1>22, <2>3, <2>4, <2>5 DEF FenceSynchronize
<1>23. ASSUME NEW t \in Threads, NEW j \in Jobs, WaitForCompletion(t, j) PROVE Apart'
  <2>1. TracksNoMore
    BY <1>23, ThreadType DEF WaitForCompletion, TracksNoMore, TypeOK
  <2>2. CallOK(th[t]) /\ Shape(th[t]) /\ th[t].pc = "wait" /\ j \in th[t].waitLeft
    BY <1>23, ThreadType DEF WaitForCompletion, Shapes, TypeOK
  <2>3. ASSUME Becomes(t, [th[t] EXCEPT !.waitLeft = @ \ {j}, !.done = @ \cup {j}]) PROVE Apart'
    <3> DEFINE c == [th[t] EXCEPT !.waitLeft = @ \ {j}, !.done = @ \cup {j}]
    <3>1. CallOK(c)
      BY ZenonT(40), <1>23, <2>2, ThreadType DEF CallOK, Call, TypeOK
    <3>2. HandOf(c) \subseteq InHand(t)
      BY <1>23, <2>2 DEF InHand, HandOf, CallOK, Call
    <3>3. c.done \subseteq Reach(t)
      BY <1>23, <2>2 DEF Reach, InHand, WaitsOn, CallOK, Call
    <3>4. MayWait(c) => c.waitLeft \cup TrackedOn(c.q) \subseteq Reach(t)
      BY <1>23, <2>2 DEF MayWait, Reach, WaitsOn, CallOK, Call
    <3> QED
      BY <2>3, <2>1, <3>1, <3>2, <3>3, <3>4, CallShrinks
  <2> QED
    BY <1>23, <2>3 DEF WaitForCompletion, Result
<1>24. ASSUME NEW t \in Threads, WaitTimesOut(t) PROVE Apart'
  <2>1. TracksNoMore
    BY <1>24, ThreadType DEF WaitTimesOut, TracksNoMore, TypeOK
  <2>2. ASSUME NEW r \in Result, Becomes(t, Returning(t, r)) PROVE Apart'
    BY <2>2, <2>1, Ends, CallEnds
  <2> QED
    BY <1>24, <2>2 DEF WaitTimesOut, Result
<1>25. ASSUME NEW t \in Threads, PutBackPreemptionBuffer(t) PROVE Apart'
  <2>1. TracksNoMore
    BY <1>25, ThreadType DEF PutBackPreemptionBuffer, TracksNoMore, TypeOK
  <2>2. CallOK(th[t]) /\ Shape(th[t]) /\ th[t].pc = "wait"
    BY <1>25, ThreadType DEF PutBackPreemptionBuffer, Shapes, TypeOK
  <2>3. ASSUME Becomes(t, [th[t] EXCEPT !.pc = "waited"]) PROVE Apart'
    <3> DEFINE c == [th[t] EXCEPT !.pc = "waited"]
    <3>1. CallOK(c)
      BY <1>25, <2>2, ThreadType DEF CallOK, Call, TypeOK
    <3>2. HandOf(c) \subseteq InHand(t)
      BY <1>25, <2>2 DEF InHand, HandOf, CallOK, Call
    <3>3. c.done \subseteq Reach(t)
      BY <1>25, <2>2 DEF Reach, InHand, WaitsOn, CallOK, Call
    <3>4. MayWait(c) => c.waitLeft \cup TrackedOn(c.q) \subseteq Reach(t)
      BY <1>25, <2>2 DEF MayWait, Reach, WaitsOn, CallOK, Call
    <3> QED
      BY <2>3, <2>1, <3>1, <3>2, <3>3, <3>4, CallShrinks
  <2> QED
    BY <1>25, <2>3 DEF PutBackPreemptionBuffer, Result
<1>26. ASSUME NEW t \in Threads, JobsWaited(t) PROVE Apart'
  <2>1. TracksNoMore
    BY ZenonT(40), <1>26, ThreadType DEF JobsWaited, TracksNoMore, TypeOK
  <2>2. CallOK(th[t]) /\ Shape(th[t]) /\ th[t].pc = "waited"
    BY <1>26, ThreadType DEF JobsWaited, Shapes, TypeOK
  <2>3. ASSUME Becomes(t, [th[t] EXCEPT !.pc = "sync", !.done = {}]) PROVE Apart'
    <3> DEFINE c == [th[t] EXCEPT !.pc = "sync", !.done = {}]
    <3>1. CallOK(c)
      BY <1>26, <2>2, ThreadType DEF CallOK, Call, TypeOK
    <3>2. HandOf(c) \subseteq InHand(t)
      BY <1>26, <2>2 DEF InHand, HandOf, CallOK, Call
    <3>3. c.done \subseteq Reach(t)
      BY <1>26, <2>2 DEF Reach, InHand, WaitsOn, CallOK, Call
    <3>4. MayWait(c) => c.waitLeft \cup TrackedOn(c.q) \subseteq Reach(t)
      BY <1>26, <2>2 DEF MayWait, Reach, WaitsOn, CallOK, Call
    <3> QED
      BY <2>3, <2>1, <3>1, <3>2, <3>3, <3>4, CallShrinks
  <2>4. ASSUME NEW r \in Result, Becomes(t, Returning(t, r)) PROVE Apart'
    BY <2>4, <2>1, Ends, CallEnds
  <2> QED
    BY <1>26, <2>3, <2>4 DEF JobsWaited, Result
<1>27. ASSUME NEW t \in Threads, NEW q \in Queues, DestroyQueue(t, q) PROVE Apart'
  <2> DEFINE c == [NoCall EXCEPT !.pc = "enter", !.op = "destroy", !.q = q]
  <2>1. TracksNoMore /\ Becomes(t, c)
    BY <1>27 DEF DestroyQueue, TracksNoMore
  <2>2. CallOK(c) /\ c.done = {} /\ HandOf(c) = {} /\ c.waitLeft = {} /\ c.q = q
    BY <1>27, EmptyRecords DEF CallOK, Call, NoCall, HandOf
  <2> QED
    BY <1>27, <2>1, <2>2, CallBegins DEF DestroyQueue, MayWaitOn
<1>28. ASSUME NEW t \in Threads, QueueDestroyed(t) PROVE Apart'
  <2>1. TracksNoMore
    BY <1>28, ThreadType DEF QueueDestroyed, TracksNoMore, TypeOK
  <2>2. ASSUME Becomes(t, NoCall) PROVE Apart'
    BY <2>2, <2>1, Ends, CallEnds
  <2> QED
    BY <1>28, <2>2 DEF QueueDestroyed, Result
<1>29. ASSUME NEW t \in Threads, Return(t) PROVE Apart'
  <2>1. TracksNoMore
    BY <1>29, ThreadType DEF Return, TracksNoMore, TypeOK
  <2>2. ASSUME Becomes(t, NoCall) PROVE Apart'
    BY <2>2, <2>1, Ends, CallEnds
  <2> QED
    BY <1>29, <2>2 DEF Return, Result
<1>30. ASSUME NEW j \in Jobs, NEW status \in Outcomes, DeviceCompletes(j, status) PROVE Apart'
  <2>1. TracksNoMore
    BY <1>30 DEF DeviceCompletes, TracksNoMore, TypeOK
  <2> QED
    BY <1>30, <2>1, SameThreads DEF DeviceCompletes
<1>31. CASE UNCHANGED vars
  BY <1>31, SameThreads DEF vars, TracksNoMore
<1> QED
  BY <1>1, <1>2, <1>3, <1>4, <1>5, <1>6, <1>7, <1>8, <1>9, <1>10, <1>11, <1>12, <1>13, <1>14,
     <1>15, <1>16, <1>17, <1>18, <1>19, <1>20, <1>21, <1>22, <1>23, <1>24, <1>25, <1>26, <1>27,
     <1>28, <1>29, <1>30, <1>31
  DEF Next, CallBegin, CallStep, Device, Housekeeping

-----------------------------------------------------------------------------
(* Seen.                                                                   *)

\* No submission starts in this step, and what is reported has ended.
NothingStarts ==
    \A j \in Jobs : /\ run'[j].on => run[j].on
                    /\ run[j].seen => run'[j].seen
                    /\ run'[j].seen => ~run'[j].on

\* A step that leaves the submissions alone starts none.
LEMMA SameSubmissions ==
    ASSUME Seen, UNCHANGED run
    PROVE  NothingStarts
BY DEF Seen, NothingStarts

\* A step that starts no job and changes no call keeps Seen.
LEMMA SeenSameThreads ==
    ASSUME Seen, NothingStarts, UNCHANGED th, TypeOK
    PROVE  Seen'
<1>1. \A t \in Threads : InHand(t)' = InHand(t) /\ InHand(t) \subseteq Jobs /\ th[t].done \subseteq Jobs
  BY ThreadType DEF InHand
<1> QED
  BY <1>1 DEF Seen, NothingStarts

\* A call that changes keeps Seen if its lists are reported and its waited jobs are done.
LEMMA SeenCall ==
    ASSUME TypeOK, Seen, NothingStarts, NEW t \in Threads, NEW c, CallOK(c), Becomes(t, c),
           \A j \in HandOf(c) : run[j].seen,
           c.pc \in {"wait", "waited"} => \A j \in c.done : ~run[j].on
    PROVE  Seen'
<1>1. th'[t] = c /\ \A s \in Threads : s # t => th'[s] = th[s]
  BY BecomesFields
<1>2. HandOf(c) \subseteq Jobs /\ c.done \subseteq Jobs
  BY DEF CallOK, Call, HandOf
<1>3. ASSUME NEW s \in Threads, NEW j \in InHand(s)' PROVE run'[j].seen
  <2>1. CASE s = t
    BY <1>1, <1>2, <1>3, <2>1 DEF InHand, HandOf, NothingStarts
  <2>2. CASE s # t
    <3>1. j \in InHand(s) /\ j \in Jobs
      BY <1>1, <1>3, <2>2, ThreadType DEF InHand
    <3> QED
      BY <3>1 DEF Seen, NothingStarts
  <2> QED
    BY <2>1, <2>2
<1>4. ASSUME NEW s \in Threads, th'[s].pc \in {"wait", "waited"}, NEW j \in th'[s].done
      PROVE  ~run'[j].on
  <2>1. CASE s = t
    BY <1>1, <1>2, <1>4, <2>1 DEF NothingStarts
  <2>2. CASE s # t
    <3>1. th'[s] = th[s] /\ j \in Jobs
      BY <1>1, <1>4, <2>2, ThreadType
    <3> QED
      BY <1>4, <3>1 DEF Seen, NothingStarts
  <2> QED
    BY <2>1, <2>2
<1>5. \A j \in Jobs : run'[j].seen => ~run'[j].on
  BY DEF NothingStarts
<1> QED
  BY <1>3, <1>4, <1>5 DEF Seen

\* A call that ends keeps Seen.
LEMMA SeenEnds ==
    ASSUME TypeOK, Seen, NothingStarts, NEW t \in Threads, NEW c, CallOK(c), Becomes(t, c),
           Shape(c), c.pc \in {"idle", "ret"}
    PROVE  Seen'
<1>1. HandOf(c) = {} /\ c.done = {}
  BY DEF HandOf, Shape, CallOK, Call
<1> QED
  BY <1>1, SeenCall

\* Every step keeps the lists in hand reported, and the jobs waited for done.
LEMMA NextSeen ==
    ASSUME TypeOK, Shapes, Apart, Seen, InOrder = {}, [Next]_vars
    PROVE  Seen'
<1> USE DEF cacheVars, queueVars, fenceVars
<1>1. ASSUME NEW q \in Queues, CreateQueue(q) PROVE Seen'
  BY <1>1, SameSubmissions, SeenSameThreads DEF CreateQueue
<1>2. ASSUME NEW f \in Fences, NEW flag \in BOOLEAN, CreateFence(f, flag) PROVE Seen'
  BY <1>2, SameSubmissions, SeenSameThreads DEF CreateFence
<1>3. ASSUME NEW f \in Fences, DestroyFence(f) PROVE Seen'
  BY <1>3, SameSubmissions, SeenSameThreads DEF DestroyFence
<1>4. ASSUME NEW f \in Fences, ResetFence(f) PROVE Seen'
  BY <1>4, SameSubmissions, SeenSameThreads DEF ResetFence
<1>5. ASSUME NEW size \in PreloadSizes, PreloadPrune(size) PROVE Seen'
  BY <1>5, SameSubmissions, SeenSameThreads DEF PreloadPrune
<1>6. ASSUME PreloadAcquire PROVE Seen'
  BY <1>6, SameSubmissions, SeenSameThreads DEF PreloadAcquire
<1>7. ASSUME NEW size \in PreloadSizes, UnloadGraph(size) PROVE Seen'
  BY <1>7, SameSubmissions, SeenSameThreads DEF UnloadGraph
<1>8. ASSUME ReleaseMemory PROVE Seen'
  BY <1>8, SameSubmissions, SeenSameThreads DEF ReleaseMemory
<1>9. ASSUME NEW t \in Threads, NEW q \in Queues, NEW lists \in SUBSET Jobs,
             NEW f \in Fences \cup {NoFence}, Execute(t, q, lists, f)
      PROVE  Seen'
  <2>1. NothingStarts
    BY <1>9, SameSubmissions DEF Execute
  <2>2. ASSUME Becomes(t, [NoCall EXCEPT !.pc = "next", !.op = "execute", !.q = q, !.f = f, !.todo = lists])
        PROVE  Seen'
    <3> DEFINE c == [NoCall EXCEPT !.pc = "next", !.op = "execute", !.q = q, !.f = f, !.todo = lists]
    <3>1. CallOK(c)
      BY ZenonT(40), <1>9, EmptyRecords DEF CallOK, Call, NoCall, TypeOK, Result
    <3>2. HandOf(c) = lists /\ c.done = {}
      BY <1>9, EmptyRecords DEF NoCall, HandOf
    <3>3. \A i \in HandOf(c) : run[i].seen
      BY <1>9, <3>2 DEF Execute, MaySubmit
    <3> QED
      BY <2>2, <2>1, <3>1, <3>2, <3>3, SeenCall
  <2> QED
    BY <1>9, <2>2 DEF Execute, Result
<1>10. ASSUME NEW t \in Threads, NEW j \in Jobs, SkipEmpty(t, j) PROVE Seen'
  <2>1. NothingStarts
    BY <1>10, SameSubmissions DEF SkipEmpty
  <2>2. CallOK(th[t]) /\ Shape(th[t]) /\ th[t].pc = "next" /\ j \in th[t].todo
    BY <1>10, ThreadType DEF SkipEmpty, Shapes, TypeOK
  <2>3. ASSUME Becomes(t, [th[t] EXCEPT !.todo = @ \ {j}]) PROVE Seen'
    <3> DEFINE c == [th[t] EXCEPT !.todo = @ \ {j}]
    <3>1. CallOK(c)
      BY <1>10, <2>2, ThreadType DEF CallOK, Call, TypeOK
    <3>2. HandOf(c) \subseteq InHand(t)
      BY <1>10, <2>2 DEF InHand, HandOf, CallOK, Call
    <3>3. c.pc \in {"wait", "waited"} => \A i \in c.done : ~run[i].on
      BY <1>10, <2>2 DEF Shape, Seen, CallOK, Call
    <3> QED
      BY <2>3, <2>1, <3>1, <3>2, <3>3, SeenCall DEF Seen
  <2> QED
    BY <1>10, <2>3 DEF SkipEmpty, Result
<1>11. ASSUME NEW t \in Threads, NEW j \in Jobs, UpdateOnSubmit(t, j) PROVE Seen'
  <2>1. NothingStarts
    <3>1. ASSUME NEW b \in ScratchBufs,
                 run' = [run EXCEPT ![j].scratch = IF run[j].on THEN @ \cup {b} ELSE @]
          PROVE  NothingStarts
      <4>1. ASSUME NEW i \in Jobs PROVE run'[i].on = run[i].on /\ run'[i].seen = run[i].seen
        BY <3>1, JobType DEF Submission, TypeOK
      <4> QED
        BY <4>1 DEF NothingStarts, Seen
    <3> QED
      BY <1>11, <3>1, SameSubmissions DEF UpdateOnSubmit
  <2>2. CallOK(th[t]) /\ Shape(th[t]) /\ th[t].pc = "next" /\ j \in th[t].todo
    BY <1>11, ThreadType DEF UpdateOnSubmit, Shapes, TypeOK
  <2>3. ASSUME Becomes(t, [th[t] EXCEPT !.pc = "attach", !.cur = j, !.todo = @ \ {j}]) PROVE Seen'
    <3> DEFINE c == [th[t] EXCEPT !.pc = "attach", !.cur = j, !.todo = @ \ {j}]
    <3>1. CallOK(c)
      BY <1>11, <2>2, ThreadType DEF CallOK, Call, TypeOK
    <3>2. HandOf(c) \subseteq InHand(t)
      BY <1>11, <2>2 DEF InHand, HandOf, CallOK, Call
    <3>3. c.pc \in {"wait", "waited"} => \A i \in c.done : ~run[i].on
      BY <1>11, <2>2 DEF Shape, Seen, CallOK, Call
    <3> QED
      BY <2>3, <2>1, <3>1, <3>2, <3>3, SeenCall DEF Seen
  <2>4. ASSUME NEW r \in Result, Becomes(t, Returning(t, r)) PROVE Seen'
    BY <2>4, <2>1, Ends, SeenEnds
  <2> QED
    BY <1>11, <2>3, <2>4 DEF UpdateOnSubmit, Result
<1>12. ASSUME NEW t \in Threads, AddPreemptionBuffer(t) PROVE Seen'
  <2>1. NothingStarts
    BY <1>12, SameSubmissions DEF AddPreemptionBuffer
  <2>2. CallOK(th[t]) /\ Shape(th[t]) /\ th[t].pc = "attach"
    BY <1>12, ThreadType DEF AddPreemptionBuffer, Shapes, TypeOK
  <2>3. ASSUME Becomes(t, [th[t] EXCEPT !.pc = "submit"]) PROVE Seen'
    <3> DEFINE c == [th[t] EXCEPT !.pc = "submit"]
    <3>1. CallOK(c)
      BY <1>12, <2>2, ThreadType DEF CallOK, Call, TypeOK
    <3>2. HandOf(c) \subseteq InHand(t)
      BY <1>12, <2>2 DEF InHand, HandOf, CallOK, Call
    <3>3. c.pc \in {"wait", "waited"} => \A i \in c.done : ~run[i].on
      BY <1>12, <2>2 DEF Shape, Seen, CallOK, Call
    <3> QED
      BY <2>3, <2>1, <3>1, <3>2, <3>3, SeenCall DEF Seen
  <2> QED
    BY <1>12, <2>3 DEF AddPreemptionBuffer, Result
<1>13. ASSUME NEW t \in Threads, MakeInOrder(t) PROVE Seen'
  <2>1. NothingStarts
    BY <1>13, SameSubmissions DEF MakeInOrder
  <2>2. CallOK(th[t]) /\ Shape(th[t]) /\ th[t].pc = "submit"
    BY <1>13, ThreadType DEF MakeInOrder, Shapes, TypeOK
  <2>3. ASSUME Becomes(t, [th[t] EXCEPT !.pc = "ioctl"]) PROVE Seen'
    <3> DEFINE c == [th[t] EXCEPT !.pc = "ioctl"]
    <3>1. CallOK(c)
      BY <1>13, <2>2, ThreadType DEF CallOK, Call, TypeOK
    <3>2. HandOf(c) \subseteq InHand(t)
      BY <1>13, <2>2 DEF InHand, HandOf, CallOK, Call
    <3>3. c.pc \in {"wait", "waited"} => \A i \in c.done : ~run[i].on
      BY <1>13, <2>2 DEF Shape, Seen, CallOK, Call
    <3> QED
      BY <2>3, <2>1, <3>1, <3>2, <3>3, SeenCall DEF Seen
  <2> QED
    BY <1>13, <2>3 DEF MakeInOrder, Result
<1>14. ASSUME NEW t \in Threads, StripInOrder(t) PROVE Seen'
  <2>1. NothingStarts
    BY <1>14, SameSubmissions DEF StripInOrder
  <2>2. CallOK(th[t]) /\ Shape(th[t]) /\ th[t].pc = "submit"
    BY <1>14, ThreadType DEF StripInOrder, Shapes, TypeOK
  <2>3. ASSUME Becomes(t, [th[t] EXCEPT !.pc = "ioctl"]) PROVE Seen'
    <3> DEFINE c == [th[t] EXCEPT !.pc = "ioctl"]
    <3>1. CallOK(c)
      BY <1>14, <2>2, ThreadType DEF CallOK, Call, TypeOK
    <3>2. HandOf(c) \subseteq InHand(t)
      BY <1>14, <2>2 DEF InHand, HandOf, CallOK, Call
    <3>3. c.pc \in {"wait", "waited"} => \A i \in c.done : ~run[i].on
      BY <1>14, <2>2 DEF Shape, Seen, CallOK, Call
    <3> QED
      BY <2>3, <2>1, <3>1, <3>2, <3>3, SeenCall DEF Seen
  <2> QED
    BY <1>14, <2>3 DEF StripInOrder, Result
<1>15. ASSUME NEW t \in Threads, SubmitIoctl(t) PROVE Seen'
  <2> DEFINE j == th[t].cur
             c == [th[t] EXCEPT !.pc = "next", !.cur = NoJob, !.done = @ \cup {j}]
  <2>1. CallOK(th[t]) /\ Shape(th[t]) /\ th[t].pc = "ioctl" /\ j \in Jobs /\ Becomes(t, c)
    BY <1>15, ThreadType DEF SubmitIoctl, Shapes
  <2>2. th'[t] = c /\ \A s \in Threads : s # t => th'[s] = th[s]
    BY <2>1, BecomesFields
  <2>3. c.todo = th[t].todo /\ c.cur = NoJob /\ c.pc = "next"
    BY <2>1 DEF CallOK, Call
  <2>4. run'[j].seen = FALSE /\ \A i \in Jobs : i # j => run'[i] = run[i]
    BY <1>15, <2>1 DEF SubmitIoctl, TypeOK
  <2>5. j \in InHand(t) /\ InHand(t)' = th[t].todo /\ j \notin th[t].todo
    BY <2>1, <2>2, <2>3 DEF InHand, Shape
  <2>6. ASSUME NEW s \in Threads, s # t
        PROVE  j \notin InHand(s) /\ j \notin th[s].done /\ InHand(s)' = InHand(s)
    BY <2>2, <2>5, <2>6 DEF Apart, Reach, InHand
  <2>7. ASSUME NEW s \in Threads, NEW i \in InHand(s)' PROVE run'[i].seen
    <3>1. i \in InHand(s) /\ i # j
      BY <2>5, <2>6, <2>7 DEF InHand
    <3>2. i \in Jobs
      BY <3>1, ThreadType DEF InHand
    <3> QED
      BY <2>4, <3>1, <3>2 DEF Seen
  <2>8. ASSUME NEW s \in Threads, th'[s].pc \in {"wait", "waited"}, NEW i \in th'[s].done PROVE ~run'[i].on
    <3>1. s # t
      BY <2>2, <2>3, <2>8
    <3>2. th'[s] = th[s] /\ i \in Jobs /\ i # j
      BY <2>2, <2>6, <2>8, <3>1, ThreadType
    <3> QED
      BY <2>4, <2>8, <3>2 DEF Seen
  <2>9. \A i \in Jobs : run'[i].seen => ~run'[i].on
    BY <2>4 DEF Seen
  <2> QED
    BY <2>7, <2>8, <2>9 DEF Seen
<1>16. ASSUME NEW t \in Threads, SubmitFails(t) PROVE Seen'
  <2>1. NothingStarts
    BY <1>16, SameSubmissions DEF SubmitFails
  <2>2. ASSUME NEW r \in Result, Becomes(t, Returning(t, r)) PROVE Seen'
    BY <2>2, <2>1, Ends, SeenEnds
  <2> QED
    BY <1>16, <2>2 DEF SubmitFails, Result
<1>17. ASSUME NEW t \in Threads, TrackJobs(t) PROVE Seen'
  <2>1. NothingStarts
    BY <1>17, SameSubmissions DEF TrackJobs
  <2>2. CallOK(th[t]) /\ Shape(th[t]) /\ th[t].pc = "next"
    BY <1>17, ThreadType DEF TrackJobs, Shapes, TypeOK
  <2>3. ASSUME Becomes(t, [th[t] EXCEPT !.pc = "enter", !.done = {}]) PROVE Seen'
    <3> DEFINE c == [th[t] EXCEPT !.pc = "enter", !.done = {}]
    <3>1. CallOK(c)
      BY <1>17, <2>2, ThreadType DEF CallOK, Call, TypeOK
    <3>2. HandOf(c) \subseteq InHand(t)
      BY <1>17, <2>2 DEF InHand, HandOf, CallOK, Call
    <3>3. c.pc \in {"wait", "waited"} => \A i \in c.done : ~run[i].on
      BY <1>17, <2>2 DEF Shape, Seen, CallOK, Call
    <3> QED
      BY <2>3, <2>1, <3>1, <3>2, <3>3, SeenCall DEF Seen
  <2>4. ASSUME NEW r \in Result, Becomes(t, Returning(t, r)) PROVE Seen'
    BY <2>4, <2>1, Ends, SeenEnds
  <2> QED
    BY <1>17, <2>3, <2>4 DEF TrackJobs, Result
<1>18. ASSUME NEW t \in Threads, NEW q \in Queues, Synchronize(t, q) PROVE Seen'
  <2>1. NothingStarts
    BY <1>18, SameSubmissions DEF Synchronize
  <2>2. ASSUME Becomes(t, [NoCall EXCEPT !.pc = "enter", !.op = "synchronize", !.q = q]) PROVE Seen'
    <3> DEFINE c == [NoCall EXCEPT !.pc = "enter", !.op = "synchronize", !.q = q]
    <3>1. CallOK(c)
      BY <1>18, EmptyRecords DEF CallOK, Call, NoCall, TypeOK, Result
    <3>2. HandOf(c) = {} /\ c.done = {}
      BY <1>18, EmptyRecords DEF NoCall, HandOf
    <3>3. \A i \in HandOf(c) : run[i].seen
      BY <3>2
    <3> QED
      BY <2>2, <2>1, <3>1, <3>2, <3>3, SeenCall
  <2> QED
    BY <1>18, <2>2 DEF Synchronize, Result
<1>19. ASSUME NEW t \in Threads, EnterSynchronize(t) PROVE Seen'
  <2>1. NothingStarts
    BY <1>19, SameSubmissions DEF EnterSynchronize
  <2>2. CallOK(th[t]) /\ Shape(th[t]) /\ th[t].pc = "enter"
    BY <1>19, ThreadType DEF EnterSynchronize, Shapes, TypeOK
  <2>3. ASSUME Becomes(t, [th[t] EXCEPT !.pc = "sync", !.fencesLeft = {f \in fences : FenceQueue[f] = th[t].q}])
        PROVE  Seen'
    <3> DEFINE c == [th[t] EXCEPT !.pc = "sync", !.fencesLeft = {f \in fences : FenceQueue[f] = th[t].q}]
    <3>1. CallOK(c)
      BY <1>19, <2>2, ThreadType DEF CallOK, Call, TypeOK
    <3>2. HandOf(c) \subseteq InHand(t)
      BY <1>19, <2>2 DEF InHand, HandOf, CallOK, Call
    <3>3. c.pc \in {"wait", "waited"} => \A i \in c.done : ~run[i].on
      BY <1>19, <2>2 DEF Shape, Seen, CallOK, Call
    <3> QED
      BY <2>3, <2>1, <3>1, <3>2, <3>3, SeenCall DEF Seen
  <2>4. ASSUME NEW r \in Result, Becomes(t, Returning(t, r)) PROVE Seen'
    BY <2>4, <2>1, Ends, SeenEnds
  <2> QED
    BY <1>19, <2>3, <2>4 DEF EnterSynchronize, Result
<1>20. ASSUME NEW t \in Threads, NEW f \in Fences, NextFence(t, f) PROVE Seen'
  <2>1. NothingStarts
    BY <1>20, SameSubmissions DEF NextFence
  <2>2. CallOK(th[t]) /\ Shape(th[t]) /\ th[t].pc = "sync" /\ f \in th[t].fencesLeft
    BY <1>20, ThreadType DEF NextFence, Shapes, TypeOK
  <2>3. ASSUME Becomes(t, [th[t] EXCEPT !.fencesLeft = @ \ {f}]) PROVE Seen'
    <3> DEFINE c == [th[t] EXCEPT !.fencesLeft = @ \ {f}]
    <3>1. CallOK(c)
      BY <1>20, <2>2, ThreadType DEF CallOK, Call, TypeOK
    <3>2. HandOf(c) \subseteq InHand(t)
      BY <1>20, <2>2 DEF InHand, HandOf, CallOK, Call
    <3>3. c.pc \in {"wait", "waited"} => \A i \in c.done : ~run[i].on
      BY <1>20, <2>2 DEF Shape, Seen, CallOK, Call
    <3> QED
      BY <2>3, <2>1, <3>1, <3>2, <3>3, SeenCall DEF Seen
  <2>4. ASSUME Becomes(t, [th[t] EXCEPT !.fencesLeft = @ \ {f}, !.pc = "wait", !.f = f,
                            !.waitLeft = fenceJobs[f]]) PROVE Seen'
    <3> DEFINE c == [th[t] EXCEPT !.fencesLeft = @ \ {f}, !.pc = "wait", !.f = f,
                            !.waitLeft = fenceJobs[f]]
    <3>1. CallOK(c)
      BY <1>20, <2>2, ThreadType DEF CallOK, Call, TypeOK
    <3>2. HandOf(c) \subseteq InHand(t)
      BY <1>20, <2>2 DEF InHand, HandOf, CallOK, Call
    <3>3. c.pc \in {"wait", "waited"} => \A i \in c.done : ~run[i].on
      BY <1>20, <2>2 DEF Shape, Seen, CallOK, Call
    <3> QED
      BY <2>4, <2>1, <3>1, <3>2, <3>3, SeenCall DEF Seen
  <2> QED
    BY <1>20, <2>3, <2>4 DEF NextFence, Result
<1>21. ASSUME NEW t \in Threads, NextTracked(t) PROVE Seen'
  <2>1. NothingStarts
    BY <1>21, SameSubmissions DEF NextTracked
  <2>2. CallOK(th[t]) /\ Shape(th[t]) /\ th[t].pc = "sync"
    BY <1>21, ThreadType DEF NextTracked, Shapes, TypeOK
  <2>3. ASSUME Becomes(t, [th[t] EXCEPT !.pc = "wait", !.f = NoFence, !.waitLeft = tracked[th[t].q]])
        PROVE  Seen'
    <3> DEFINE c == [th[t] EXCEPT !.pc = "wait", !.f = NoFence, !.waitLeft = tracked[th[t].q]]
    <3>1. CallOK(c)
      BY <1>21, <2>2, ThreadType DEF CallOK, Call, TypeOK
    <3>2. HandOf(c) \subseteq InHand(t)
      BY <1>21, <2>2 DEF InHand, HandOf, CallOK, Call
    <3>3. c.pc \in {"wait", "waited"} => \A i \in c.done : ~run[i].on
      BY <1>21, <2>2 DEF Shape, Seen, CallOK, Call
    <3> QED
      BY <2>3, <2>1, <3>1, <3>2, <3>3, SeenCall DEF Seen
  <2> QED
    BY <1>21, <2>3 DEF NextTracked, Result
<1>22. ASSUME NEW t \in Threads, NEW f \in Fences, FenceSynchronize(t, f) PROVE Seen'
  <2>1. NothingStarts
    BY <1>22, SameSubmissions DEF FenceSynchronize
  <2>2. ASSUME Becomes(t, [[NoCall EXCEPT !.op = "fence", !.q = FenceQueue[f], !.f = f] EXCEPT !.pc = "ret"])
        PROVE  Seen'
    <3> DEFINE c == [[NoCall EXCEPT !.op = "fence", !.q = FenceQueue[f], !.f = f] EXCEPT !.pc = "ret"]
    <3>1. CallOK(c)
      BY <1>22, EmptyRecords DEF CallOK, Call, NoCall, TypeOK, Result
    <3>2. HandOf(c) = {} /\ c.done = {}
      BY <1>22, EmptyRecords DEF NoCall, HandOf
    <3>3. \A i \in HandOf(c) : run[i].seen
      BY <3>2
    <3> QED
      BY <2>2, <2>1, <3>1, <3>2, <3>3, SeenCall
  <2>3. ASSUME Becomes(t, [[NoCall EXCEPT !.op = "fence", !.q = FenceQueue[f], !.f = f]
            EXCEPT !.pc = "ret", !.result = "NOT_READY"])
        PROVE  Seen'
    <3> DEFINE c == [[NoCall EXCEPT !.op = "fence", !.q = FenceQueue[f], !.f = f]
              EXCEPT !.pc = "ret", !.result = "NOT_READY"]
    <3>1. CallOK(c)
      BY <1>22, EmptyRecords DEF CallOK, Call, NoCall, TypeOK, Result
    <3>2. HandOf(c) = {} /\ c.done = {}
      BY <1>22, EmptyRecords DEF NoCall, HandOf
    <3>3. \A i \in HandOf(c) : run[i].seen
      BY <3>2
    <3> QED
      BY <2>3, <2>1, <3>1, <3>2, <3>3, SeenCall
  <2>4. ASSUME Becomes(t, [[NoCall EXCEPT !.op = "fence", !.q = FenceQueue[f], !.f = f]
            EXCEPT !.pc = "wait", !.waitLeft = fenceJobs[f]])
        PROVE  Seen'
    <3> DEFINE c == [[NoCall EXCEPT !.op = "fence", !.q = FenceQueue[f], !.f = f]
              EXCEPT !.pc = "wait", !.waitLeft = fenceJobs[f]]
    <3>1. CallOK(c)
      BY <1>22, EmptyRecords DEF CallOK, Call, NoCall, TypeOK, Result
    <3>2. HandOf(c) = {} /\ c.done = {}
      BY <1>22, EmptyRecords DEF NoCall, HandOf
    <3>3. \A i \in HandOf(c) : run[i].seen
      BY <3>2
    <3> QED
      BY <2>4, <2>1, <3>1, <3>2, <3>3, SeenCall
  <2> QED
    BY <1>22, <2>2, <2>3, <2>4 DEF FenceSynchronize, Result
<1>23. ASSUME NEW t \in Threads, NEW j \in Jobs, WaitForCompletion(t, j) PROVE Seen'
  <2>1. NothingStarts
    BY <1>23, SameSubmissions DEF WaitForCompletion
  <2>2. CallOK(th[t]) /\ Shape(th[t]) /\ th[t].pc = "wait" /\ j \in th[t].waitLeft /\ ~run[j].on
    BY <1>23, ThreadType DEF WaitForCompletion, Shapes, TypeOK
  <2>3. ASSUME Becomes(t, [th[t] EXCEPT !.waitLeft = @ \ {j}, !.done = @ \cup {j}]) PROVE Seen'
    <3> DEFINE c == [th[t] EXCEPT !.waitLeft = @ \ {j}, !.done = @ \cup {j}]
    <3>1. CallOK(c)
      BY ZenonT(40), <1>23, <2>2, ThreadType DEF CallOK, Call, TypeOK
    <3>2. HandOf(c) \subseteq InHand(t)
      BY <1>23, <2>2 DEF InHand, HandOf, CallOK, Call
    <3>3. c.pc \in {"wait", "waited"} => \A i \in c.done : ~run[i].on
      BY <1>23, <2>2 DEF Shape, Seen, CallOK, Call
    <3> QED
      BY <2>3, <2>1, <3>1, <3>2, <3>3, SeenCall DEF Seen
  <2> QED
    BY <1>23, <2>3 DEF WaitForCompletion, Result
<1>24. ASSUME NEW t \in Threads, WaitTimesOut(t) PROVE Seen'
  <2>1. NothingStarts
    BY <1>24, SameSubmissions DEF WaitTimesOut
  <2>2. ASSUME NEW r \in Result, Becomes(t, Returning(t, r)) PROVE Seen'
    BY <2>2, <2>1, Ends, SeenEnds
  <2> QED
    BY <1>24, <2>2 DEF WaitTimesOut, Result
<1>25. ASSUME NEW t \in Threads, PutBackPreemptionBuffer(t) PROVE Seen'
  <2>1. NothingStarts
    BY <1>25, SameSubmissions DEF PutBackPreemptionBuffer
  <2>2. CallOK(th[t]) /\ Shape(th[t]) /\ th[t].pc = "wait"
    BY <1>25, ThreadType DEF PutBackPreemptionBuffer, Shapes, TypeOK
  <2>3. ASSUME Becomes(t, [th[t] EXCEPT !.pc = "waited"]) PROVE Seen'
    <3> DEFINE c == [th[t] EXCEPT !.pc = "waited"]
    <3>1. CallOK(c)
      BY <1>25, <2>2, ThreadType DEF CallOK, Call, TypeOK
    <3>2. HandOf(c) \subseteq InHand(t)
      BY <1>25, <2>2 DEF InHand, HandOf, CallOK, Call
    <3>3. c.pc \in {"wait", "waited"} => \A i \in c.done : ~run[i].on
      BY <1>25, <2>2 DEF Shape, Seen, CallOK, Call
    <3> QED
      BY <2>3, <2>1, <3>1, <3>2, <3>3, SeenCall DEF Seen
  <2> QED
    BY <1>25, <2>3 DEF PutBackPreemptionBuffer, Result
<1>26. ASSUME NEW t \in Threads, JobsWaited(t) PROVE Seen'
  <2>1. NothingStarts
    <3>1. ASSUME NEW j \in Jobs
          PROVE  run'[j].on = run[j].on /\ run'[j].seen = (run[j].seen \/ j \in th[t].done)
      <4>1. run'[j] = [run[j] EXCEPT !.seen = @ \/ j \in th[t].done]
        BY <1>26, <3>1 DEF JobsWaited
      <4> QED
        BY <4>1, JobType DEF Submission
    <3>2. ASSUME NEW j \in Jobs, j \in th[t].done PROVE ~run[j].on
      BY <1>26, <3>2 DEF JobsWaited, Seen
    <3> QED
      BY <3>1, <3>2 DEF NothingStarts, Seen
  <2>2. CallOK(th[t]) /\ Shape(th[t]) /\ th[t].pc = "waited"
    BY <1>26, ThreadType DEF JobsWaited, Shapes, TypeOK
  <2>3. ASSUME Becomes(t, [th[t] EXCEPT !.pc = "sync", !.done = {}]) PROVE Seen'
    <3> DEFINE c == [th[t] EXCEPT !.pc = "sync", !.done = {}]
    <3>1. CallOK(c)
      BY <1>26, <2>2, ThreadType DEF CallOK, Call, TypeOK
    <3>2. HandOf(c) \subseteq InHand(t)
      BY <1>26, <2>2 DEF InHand, HandOf, CallOK, Call
    <3>3. c.pc \in {"wait", "waited"} => \A i \in c.done : ~run[i].on
      BY <1>26, <2>2 DEF Shape, Seen, CallOK, Call
    <3> QED
      BY <2>3, <2>1, <3>1, <3>2, <3>3, SeenCall DEF Seen
  <2>4. ASSUME NEW r \in Result, Becomes(t, Returning(t, r)) PROVE Seen'
    BY <2>4, <2>1, Ends, SeenEnds
  <2> QED
    BY <1>26, <2>3, <2>4 DEF JobsWaited, Result
<1>27. ASSUME NEW t \in Threads, NEW q \in Queues, DestroyQueue(t, q) PROVE Seen'
  <2>1. NothingStarts
    BY <1>27, SameSubmissions DEF DestroyQueue
  <2>2. ASSUME Becomes(t, [NoCall EXCEPT !.pc = "enter", !.op = "destroy", !.q = q]) PROVE Seen'
    <3> DEFINE c == [NoCall EXCEPT !.pc = "enter", !.op = "destroy", !.q = q]
    <3>1. CallOK(c)
      BY <1>27, EmptyRecords DEF CallOK, Call, NoCall, TypeOK, Result
    <3>2. HandOf(c) = {} /\ c.done = {}
      BY <1>27, EmptyRecords DEF NoCall, HandOf
    <3>3. \A i \in HandOf(c) : run[i].seen
      BY <3>2
    <3> QED
      BY <2>2, <2>1, <3>1, <3>2, <3>3, SeenCall
  <2> QED
    BY <1>27, <2>2 DEF DestroyQueue, Result
<1>28. ASSUME NEW t \in Threads, QueueDestroyed(t) PROVE Seen'
  <2>1. NothingStarts
    BY <1>28, SameSubmissions DEF QueueDestroyed
  <2>2. ASSUME Becomes(t, NoCall) PROVE Seen'
    BY <2>2, <2>1, Ends, SeenEnds
  <2> QED
    BY <1>28, <2>2 DEF QueueDestroyed, Result
<1>29. ASSUME NEW t \in Threads, Return(t) PROVE Seen'
  <2>1. NothingStarts
    BY <1>29, SameSubmissions DEF Return
  <2>2. ASSUME Becomes(t, NoCall) PROVE Seen'
    BY <2>2, <2>1, Ends, SeenEnds
  <2> QED
    BY <1>29, <2>2 DEF Return, Result
<1>30. ASSUME NEW j \in Jobs, NEW status \in Outcomes, DeviceCompletes(j, status) PROVE Seen'
  <2>1. NothingStarts
    BY <1>30, EmptyRecords DEF DeviceCompletes, NothingStarts, Seen, TypeOK, NoSubmission
  <2> QED
    BY <1>30, <2>1, SeenSameThreads DEF DeviceCompletes
<1>31. CASE UNCHANGED vars
  BY <1>31, SameSubmissions, SeenSameThreads DEF vars
<1> QED
  BY <1>1, <1>2, <1>3, <1>4, <1>5, <1>6, <1>7, <1>8, <1>9, <1>10, <1>11, <1>12, <1>13, <1>14,
     <1>15, <1>16, <1>17, <1>18, <1>19, <1>20, <1>21, <1>22, <1>23, <1>24, <1>25, <1>26, <1>27,
     <1>28, <1>29, <1>30, <1>31
  DEF Next, CallBegin, CallStep, Device, Housekeeping

-----------------------------------------------------------------------------
(* Held, Used and Ready.                                                   *)

\* acquire hands out a buffer that nobody holds, and forgets none.
LEMMA ScratchAcquired ==
    ASSUME TypeOK, Held, NEW b \in ScratchBufs \cup {NoBuf}, NEW size, ScratchAcquire(b, size)
    PROVE  /\ scratchBuffers \subseteq scratchBuffers'
           /\ b \in scratchBuffers' \cup {NoBuf}
           /\ b # NoBuf => \A j \in Jobs : cb[j].scratch # b
<1>1. CASE b \in BestFit(IdleScratch, AllocSize, size) /\ UNCHANGED scratchBuffers
  BY <1>1 DEF BestFit, IdleScratch
<1>2. CASE b \in ScratchBufs \ scratchBuffers /\ scratchBuffers' = scratchBuffers \cup {b}
  BY <1>2 DEF Held
<1>3. CASE b = NoBuf /\ UNCHANGED scratchBuffers
  BY <1>3
<1> QED
  BY <1>1, <1>2, <1>3 DEF ScratchAcquire

\* PreemptionCacheFactory::acquire drops nothing and returns a cached buffer or none.
LEMMA PreemptionAcquired ==
    ASSUME NEW b, PreemptionAcquire(b)
    PROVE  /\ preemptionBuffers \subseteq preemptionBuffers'
           /\ b \in preemptionBuffers' \cup {NoBuf}
BY DEF PreemptionAcquire, IdlePreempt

\* prune removes idle buffers only.
LEMMA PreemptionPruned ==
    ASSUME NEW idle, PruneQueueCount(idle)
    PROVE  preemptionBuffers \ idle \subseteq preemptionBuffers'
BY DEF PruneQueueCount, PreemptionPrune

\* A step that takes no buffer and frees none that is held keeps Held.
LEMMA HeldKeeps ==
    ASSUME TypeOK, Held,
           \A j \in Jobs : /\ cb'[j].scratch \in {cb[j].scratch, NoBuf}
                           /\ cb'[j].preempt \in {cb[j].preempt, NoBuf}
                           /\ cb'[j].inOrder = FALSE,
           \A j \in Jobs : cb[j].scratch \in scratchBuffers => cb[j].scratch \in scratchBuffers',
           \A j \in Jobs : cb[j].preempt \in preemptionBuffers => cb[j].preempt \in preemptionBuffers',
           \A q \in Queues : queueBuf'[q] \in preemptionBuffers' \cup {NoBuf}
    PROVE  Held'
BY DEF Held

\* Every step keeps what command buffers and queues hold in the caches.
LEMMA NextHeld ==
    ASSUME TypeOK, Held, InOrder = {}, [Next]_vars
    PROVE  Held'
<1> USE DEF cacheVars, queueVars, fenceVars
<1>0. \A j \in Jobs : cb[j].inOrder = FALSE
  BY JobType DEF Held, CommandBuffer
<1>1. CASE UNCHANGED <<cb, scratchBuffers, preemptionBuffers, queueBuf>>
  BY <1>1 DEF Held
<1>2. ASSUME NEW size, UNCHANGED <<cb, preemptionBuffers, queueBuf>>,
             scratchBuffers' = ScratchPrune(scratchBuffers, IdleScratch, AllocSize, size)
      PROVE  Held'
  <2>1. \A j \in Jobs : cb[j].scratch \in scratchBuffers => cb[j].scratch \in scratchBuffers'
    BY <1>2 DEF ScratchPrune, IdleScratch
  <2> QED
    BY <1>0, <1>2, <2>1, HeldKeeps DEF Held
<1>3. ASSUME NEW size \in PreloadSizes, PreloadPrune(size) PROVE Held'
  BY <1>2, <1>3 DEF PreloadPrune
<1>4. ASSUME NEW size \in PreloadSizes, UnloadGraph(size) PROVE Held'
  BY <1>2, <1>4 DEF UnloadGraph
<1>5. CASE PreloadAcquire
  <2>1. scratchBuffers \subseteq scratchBuffers'
    BY <1>5, ScratchAcquired DEF PreloadAcquire
  <2> QED
    BY <1>0, <1>5, <2>1, HeldKeeps DEF PreloadAcquire, Held
<1>6. CASE ReleaseMemory
  <2>1. preemptionBuffers \ IdlePreempt \subseteq preemptionBuffers'
    BY <1>6, PreemptionPruned DEF ReleaseMemory
  <2>2. \A j \in Jobs : cb[j].preempt \notin IdlePreempt
    BY DEF IdlePreempt, JobHoldsPreempt
  <2>3. \A q \in Queues : queueBuf[q] \notin IdlePreempt
    BY DEF IdlePreempt
  <2>4. \A j \in Jobs : cb[j].scratch \in scratchBuffers => cb[j].scratch \in scratchBuffers'
    BY <1>6 DEF ReleaseMemory, IdleScratch
  <2> QED
    BY <1>0, <1>6, <2>1, <2>2, <2>3, <2>4, HeldKeeps DEF ReleaseMemory, Held
<1>7. ASSUME NEW t \in Threads, NEW q \in Queues, NEW lists \in SUBSET Jobs,
             NEW f \in Fences \cup {NoFence}, Execute(t, q, lists, f)
      PROVE  Held'
  <2>1. preemptionBuffers \subseteq preemptionBuffers'
    BY <1>7, PreemptionAcquired DEF Execute
  <2>2. \A p \in Queues : queueBuf'[p] \in preemptionBuffers' \cup {NoBuf}
    <3>1. ASSUME NEW b, PreemptionAcquire(b), queueBuf' = [queueBuf EXCEPT ![q] = b]
          PROVE  \A p \in Queues : queueBuf'[p] \in preemptionBuffers' \cup {NoBuf}
      BY <2>1, <3>1, PreemptionAcquired DEF Held, TypeOK
    <3>2. CASE UNCHANGED <<preemptionBuffers, queueBuf>>
      BY <3>2 DEF Held
    <3> QED
      BY <1>7, <3>1, <3>2 DEF Execute
  <2> QED
    BY <1>0, <1>7, <2>1, <2>2, HeldKeeps DEF Execute
<1>8. ASSUME NEW t \in Threads, NEW j \in Jobs, UpdateOnSubmit(t, j) PROVE Held'
  <2>1. CASE UNCHANGED <<scratchBuffers, cb>>
    BY <1>1, <1>8, <2>1 DEF UpdateOnSubmit
  <2>2. ASSUME NEW b \in ScratchBufs, ScratchAcquire(b, ScratchSize[j]),
               cb' = [cb EXCEPT ![j] = [@ EXCEPT !.scratch = b, !.patched = b]]
        PROVE  Held'
    <3>1. /\ scratchBuffers \subseteq scratchBuffers' /\ b \in scratchBuffers'
          /\ \A i \in Jobs : cb[i].scratch # b
      BY <2>2, ScratchAcquired
    <3>2. cb'[j].scratch = b /\ cb'[j].preempt = cb[j].preempt /\ cb'[j].inOrder = cb[j].inOrder
      BY <2>2, JobType DEF TypeOK, CommandBuffer
    <3>3. \A i \in Jobs : i # j => cb'[i] = cb[i]
      BY <2>2 DEF TypeOK
    <3>4. UNCHANGED <<preemptionBuffers, queueBuf>>
      BY <1>8 DEF UpdateOnSubmit
    <3>5. \A i \in Jobs : cb'[i].scratch \in scratchBuffers' \cup {NoBuf}
      BY <3>1, <3>2, <3>3 DEF Held
    <3>6. \A i, k \in Jobs : i # k /\ cb'[i].scratch = cb'[k].scratch => cb'[i].scratch = NoBuf
      BY <3>1, <3>2, <3>3 DEF Held
    <3> QED
      BY <3>2, <3>3, <3>4, <3>5, <3>6 DEF Held
  <2>3. ASSUME ScratchAcquire(NoBuf, ScratchSize[j]), cb' = [cb EXCEPT ![j].scratch = NoBuf]
        PROVE  Held'
    <3>1. scratchBuffers \subseteq scratchBuffers'
      BY <2>3, ScratchAcquired
    <3>2. cb'[j].scratch = NoBuf /\ cb'[j].preempt = cb[j].preempt /\ cb'[j].inOrder = cb[j].inOrder
      BY <2>3, JobType DEF TypeOK, CommandBuffer
    <3>3. \A i \in Jobs : i # j => cb'[i] = cb[i]
      BY <2>3 DEF TypeOK
    <3>4. UNCHANGED <<preemptionBuffers, queueBuf>>
      BY <1>8 DEF UpdateOnSubmit
    <3> QED
      BY <1>0, <3>1, <3>2, <3>3, <3>4, HeldKeeps DEF Held
  <2> QED
    BY <1>8, <2>1, <2>2, <2>3 DEF UpdateOnSubmit
<1>9. ASSUME NEW t \in Threads, AddPreemptionBuffer(t) PROVE Held'
  <2> DEFINE j == th[t].cur
  <2>1. j \in Jobs /\ th[t].q \in Queues /\ UNCHANGED <<scratchBuffers, preemptionBuffers, queueBuf>>
    BY <1>9, ThreadType DEF AddPreemptionBuffer
  <2>2. CASE cb' = [cb EXCEPT ![j].preempt = queueBuf[th[t].q]]
    <3>1. /\ cb'[j].preempt = queueBuf[th[t].q]
          /\ cb'[j].scratch = cb[j].scratch /\ cb'[j].inOrder = cb[j].inOrder
      BY <2>1, <2>2, JobType DEF TypeOK, CommandBuffer
    <3>2. \A i \in Jobs : i # j => cb'[i] = cb[i]
      BY <2>2 DEF TypeOK
    <3> QED
      BY <2>1, <3>1, <3>2 DEF Held
  <2>3. CASE UNCHANGED cb
    BY <1>1, <2>1, <2>3
  <2> QED
    BY <1>9, <2>2, <2>3 DEF AddPreemptionBuffer
<1>10. ASSUME NEW t \in Threads, StripInOrder(t) PROVE Held'
  <2>1. th[t].cur \in Jobs
    BY <1>10, ThreadType DEF StripInOrder
  <2>2. UNCHANGED cb
    BY <1>0, <1>10, <2>1 DEF StripInOrder
  <2> QED
    BY <1>1, <1>10, <2>2 DEF StripInOrder
<1>11. ASSUME NEW t \in Threads, SubmitIoctl(t) PROVE Held'
  <2> DEFINE j == th[t].cur
  <2>1. j \in Jobs /\ UNCHANGED <<scratchBuffers, preemptionBuffers, queueBuf>>
    BY <1>11, ThreadType DEF SubmitIoctl
  <2>2. /\ cb'[j].preempt = cb[j].preempt
        /\ cb'[j].scratch = cb[j].scratch /\ cb'[j].inOrder = cb[j].inOrder
    BY <1>11, <2>1, JobType DEF SubmitIoctl, TypeOK, CommandBuffer
  <2>3. \A i \in Jobs : i # j => cb'[i] = cb[i]
    BY <1>11 DEF SubmitIoctl, TypeOK
  <2> QED
    BY <2>1, <2>2, <2>3 DEF Held
<1>12. ASSUME NEW t \in Threads, NEW j \in Jobs, WaitForCompletion(t, j) PROVE Held'
  <2>1. UNCHANGED <<scratchBuffers, preemptionBuffers, queueBuf>>
    BY <1>12 DEF WaitForCompletion
  <2>2. cb'[j].preempt = NoBuf /\ cb'[j].scratch = NoBuf /\ cb'[j].inOrder = cb[j].inOrder
    BY <1>12, JobType DEF WaitForCompletion, Completed, TypeOK, CommandBuffer
  <2>3. \A i \in Jobs : i # j => cb'[i] = cb[i]
    BY <1>12 DEF WaitForCompletion, TypeOK
  <2> QED
    BY <1>0, <2>1, <2>2, <2>3, HeldKeeps DEF Held
<1>13. ASSUME NEW t \in Threads, PutBackPreemptionBuffer(t) PROVE Held'
  <2>1. UNCHANGED <<scratchBuffers, preemptionBuffers, cb>>
    BY <1>13 DEF PutBackPreemptionBuffer
  <2>2. \A q \in Queues : queueBuf'[q] \in {queueBuf[q], NoBuf}
    BY <1>13, ThreadType DEF PutBackPreemptionBuffer, TypeOK
  <2> QED
    BY <1>0, <2>1, <2>2, HeldKeeps DEF Held
<1>14. ASSUME NEW t \in Threads, QueueDestroyed(t) PROVE Held'
  <2> DEFINE idle == {b \in preemptionBuffers : ~JobHoldsPreempt(b) /\ \A p \in Queues : queueBuf'[p] # b}
  <2>1. UNCHANGED <<scratchBuffers, cb>>
    BY <1>14 DEF QueueDestroyed
  <2>2. \A q \in Queues : queueBuf'[q] \in {queueBuf[q], NoBuf}
    BY <1>14, ThreadType DEF QueueDestroyed, TypeOK
  <2>3. PruneQueueCount(idle)
    BY <1>14 DEF QueueDestroyed
  <2>4. preemptionBuffers \ idle \subseteq preemptionBuffers'
    BY <2>3, PreemptionPruned
  <2>5. \A j \in Jobs : cb[j].preempt \notin idle
    BY DEF JobHoldsPreempt
  <2>6. \A q \in Queues : queueBuf'[q] \notin idle
    OBVIOUS
  <2>7. \A q \in Queues : queueBuf'[q] \in preemptionBuffers' \cup {NoBuf}
    BY <2>2, <2>4, <2>6 DEF Held
  <2> QED
    BY <1>0, <2>1, <2>4, <2>5, <2>7, HeldKeeps
<1>15. ASSUME NEW t \in Threads, MakeInOrder(t) PROVE Held'
  BY <1>15 DEF MakeInOrder
<1>16. CASE UNCHANGED vars
  BY <1>1, <1>16 DEF vars
<1>17. ASSUME NEW t \in Threads, CallBegin(t) PROVE Held'
  BY <1>1, <1>7, <1>17 DEF CallBegin, Synchronize, DestroyQueue, FenceSynchronize
<1>18. ASSUME NEW t \in Threads, CallStep(t) PROVE Held'
  BY <1>1, <1>8, <1>9, <1>10, <1>11, <1>12, <1>13, <1>14, <1>15, <1>18
  DEF CallStep, SkipEmpty, SubmitFails, TrackJobs, EnterSynchronize, NextTracked, NextFence,
      JobsWaited, Return
<1>19. CASE Housekeeping
  BY <1>1, <1>3, <1>4, <1>5, <1>6, <1>19
  DEF Housekeeping, CreateQueue, CreateFence, DestroyFence, ResetFence
<1> QED
  BY <1>1, <1>16, <1>17, <1>18, <1>19 DEF Next, Device, DeviceCompletes, WaitTimesOut

\* A list in hand is not executing; nor has another call it in hand or waits for it.
LEMMA InHandIdle ==
    ASSUME TypeOK, Apart, Seen, NEW t \in Threads, NEW j \in InHand(t)
    PROVE  /\ j \in Jobs /\ ~run[j].on
           /\ \A s \in Threads : s # t => j \notin InHand(s) /\ j \notin WaitsOn(s)
<1>1. j \in Jobs
  BY ThreadType DEF InHand
<1> QED
  BY <1>1 DEF Seen, Apart, Reach

\* Every step keeps the device on what the command buffers hold.
LEMMA NextUsed ==
    ASSUME TypeOK, Apart, Seen, Held, Used, Ready, InOrder = {}, [Next]_vars
    PROVE  Used'
<1> USE DEF cacheVars, queueVars, fenceVars
<1>1. CASE UNCHANGED <<cb, run>>
  BY <1>1 DEF Used
<1>2. ASSUME NEW t \in Threads, NEW j \in Jobs, UpdateOnSubmit(t, j) PROVE Used'
  <2>1. ~run[j].on
    BY <1>2, InHandIdle DEF UpdateOnSubmit, InHand
  <2>2. \A i \in Jobs : i # j => cb'[i] = cb[i]
    BY <1>2 DEF UpdateOnSubmit, TypeOK
  <2>3. ASSUME NEW i \in Jobs PROVE run'[i].on = run[i].on /\ (i # j => run'[i] = run[i])
    <3>1. ASSUME NEW b \in ScratchBufs,
                 run' = [run EXCEPT ![j].scratch = IF run[j].on THEN @ \cup {b} ELSE @]
          PROVE  run'[i].on = run[i].on /\ (i # j => run'[i] = run[i])
      BY <2>3, <3>1, JobType DEF Submission, TypeOK
    <3> QED
      BY <1>2, <3>1 DEF UpdateOnSubmit
  <2> QED
    BY <2>1, <2>2, <2>3 DEF Used
<1>3. ASSUME NEW t \in Threads, AddPreemptionBuffer(t) PROVE Used'
  <2>1. th[t].cur \in Jobs /\ ~run[th[t].cur].on
    BY <1>3, InHandIdle, ThreadType DEF AddPreemptionBuffer, InHand
  <2>2. \A i \in Jobs : i # th[t].cur => cb'[i] = cb[i]
    BY <1>3 DEF AddPreemptionBuffer, TypeOK
  <2> QED
    BY <1>3, <2>1, <2>2 DEF AddPreemptionBuffer, Used
<1>4. ASSUME NEW t \in Threads, StripInOrder(t) PROVE Used'
  <2>1. th[t].cur \in Jobs
    BY <1>4, ThreadType DEF StripInOrder
  <2> QED
    BY <1>1, <1>4, <2>1 DEF StripInOrder, Held
<1>5. ASSUME NEW t \in Threads, SubmitIoctl(t) PROVE Used'
  <2> DEFINE j == th[t].cur
  <2>1. j \in Jobs
    BY <1>5, ThreadType DEF SubmitIoctl
  <2>2. /\ run'[j].scratch = IF ScratchSize[j] = 0 THEN {} ELSE {cb[j].patched}
        /\ run'[j].preempt = cb[j].preempt
    BY <1>5, <2>1 DEF SubmitIoctl, TypeOK
  <2>3. cb'[j].scratch = cb[j].scratch /\ cb'[j].preempt = cb[j].preempt
    BY <1>5, <2>1, JobType DEF SubmitIoctl, TypeOK, CommandBuffer
  <2>4. \A i \in Jobs : i # j => cb'[i] = cb[i] /\ run'[i] = run[i]
    BY <1>5 DEF SubmitIoctl, TypeOK
  <2>5. ScratchSize[j] # 0 => cb[j].patched = cb[j].scratch /\ cb[j].scratch # NoBuf
    BY <2>1 DEF Ready
  <2> QED
    BY <2>1, <2>2, <2>3, <2>4, <2>5 DEF Used
<1>6. ASSUME NEW t \in Threads, NEW j \in Jobs, WaitForCompletion(t, j) PROVE Used'
  <2>1. \A i \in Jobs : i # j => cb'[i] = cb[i]
    BY <1>6 DEF WaitForCompletion, TypeOK
  <2> QED
    BY <1>6, <2>1 DEF WaitForCompletion, Used
<1>7. ASSUME NEW t \in Threads, JobsWaited(t) PROVE Used'
  <2>1. ASSUME NEW j \in Jobs
        PROVE  /\ run'[j].on = run[j].on /\ run'[j].scratch = run[j].scratch
               /\ run'[j].preempt = run[j].preempt
    <3>1. run'[j] = [run[j] EXCEPT !.seen = @ \/ j \in th[t].done]
      BY <1>7, <2>1 DEF JobsWaited
    <3> QED
      BY <3>1, JobType DEF Submission
  <2> QED
    BY <1>7, <2>1 DEF JobsWaited, Used
<1>8. ASSUME NEW j \in Jobs, NEW status \in Outcomes, DeviceCompletes(j, status) PROVE Used'
  <2>1. run'[j].on = FALSE /\ \A i \in Jobs : i # j => run'[i] = run[i]
    BY <1>8, EmptyRecords DEF DeviceCompletes, NoSubmission, TypeOK
  <2> QED
    BY <1>8, <2>1 DEF DeviceCompletes, Used
<1>9. ASSUME NEW t \in Threads, MakeInOrder(t) PROVE Used'
  BY <1>9 DEF MakeInOrder
<1>10. CASE UNCHANGED vars
  BY <1>1, <1>10 DEF vars
<1>11. ASSUME NEW t \in Threads, CallBegin(t) PROVE Used'
  BY <1>1, <1>11 DEF CallBegin, Execute, Synchronize, DestroyQueue, FenceSynchronize
<1>12. ASSUME NEW t \in Threads, CallStep(t) PROVE Used'
  BY <1>1, <1>2, <1>3, <1>4, <1>5, <1>6, <1>7, <1>9, <1>12
  DEF CallStep, SkipEmpty, SubmitFails, TrackJobs, EnterSynchronize, NextTracked, NextFence,
      PutBackPreemptionBuffer, QueueDestroyed, Return
<1>13. CASE Housekeeping
  BY <1>1, <1>13 DEF Housekeeping, CreateQueue, CreateFence, DestroyFence, ResetFence,
      PreloadPrune, PreloadAcquire, UnloadGraph, ReleaseMemory
<1> QED
  BY <1>1, <1>8, <1>10, <1>11, <1>12, <1>13 DEF Next, Device, WaitTimesOut

\* A step that leaves every list in preparation and its command buffer alone keeps Ready.
LEMMA ReadyKeeps ==
    ASSUME TypeOK, Ready,
           \A t \in Threads : th'[t].cur \in Jobs =>
                /\ th'[t].cur = th[t].cur
                /\ cb'[th[t].cur].patched = cb[th[t].cur].patched
                /\ cb'[th[t].cur].scratch = cb[th[t].cur].scratch
    PROVE  Ready'
BY DEF Ready

\* Calls that have no list in preparation after the step.
LEMMA ReadyCall ==
    ASSUME TypeOK, Ready, UNCHANGED cb, NEW t \in Threads, NEW c, Becomes(t, c),
           c.cur \in Jobs => c.cur = th[t].cur
    PROVE  Ready'
<1>1. th'[t] = c /\ \A s \in Threads : s # t => th'[s] = th[s]
  BY BecomesFields
<1> QED
  BY <1>1, ReadyKeeps

\* Every step keeps a list in preparation patched to the buffer it holds.
LEMMA NextReady ==
    ASSUME TypeOK, Shapes, Apart, Seen, Held, Ready, InOrder = {}, [Next]_vars
    PROVE  Ready'
<1> USE DEF cacheVars, queueVars, fenceVars
<1>1. CASE UNCHANGED <<th, cb>>
  BY <1>1 DEF Ready
<1>2. ASSUME NEW t \in Threads, NEW r \in Result, Becomes(t, Returning(t, r)), UNCHANGED cb
      PROVE  Ready'
  BY <1>2, Ends, ReadyCall DEF CallOK
<1>3. ASSUME NEW t \in Threads, Becomes(t, NoCall), UNCHANGED cb PROVE Ready'
  BY <1>3, Ends, ReadyCall DEF CallOK
<1>4. ASSUME NEW t \in Threads, NEW q \in Queues, NEW lists \in SUBSET Jobs,
             NEW f \in Fences \cup {NoFence}, Execute(t, q, lists, f)
      PROVE  Ready'
  <2>1. [NoCall EXCEPT !.pc = "next", !.op = "execute", !.q = q, !.f = f, !.todo = lists].cur = NoJob
    BY EmptyRecords DEF NoCall
  <2> QED
    BY <1>4, <2>1, ReadyCall DEF Execute
<1>5. ASSUME NEW t \in Threads, NEW j \in Jobs, SkipEmpty(t, j) PROVE Ready'
  <2>1. [th[t] EXCEPT !.todo = @ \ {j}].cur = th[t].cur
    BY ThreadType DEF Call
  <2> QED
    BY <1>5, <2>1, ReadyCall DEF SkipEmpty
<1>6. ASSUME NEW t \in Threads, NEW j \in Jobs, UpdateOnSubmit(t, j) PROVE Ready'
  <2>1. j \in InHand(t)
    BY <1>6 DEF UpdateOnSubmit, InHand
  <2>2. \A i \in Jobs : i # j => cb'[i] = cb[i]
    BY <1>6 DEF UpdateOnSubmit, TypeOK
  <2>3. \A s \in Threads : s # t => th[s].cur # j
    BY <2>1, InHandIdle DEF InHand
  <2>4. \A s \in Threads : s # t => th'[s] = th[s]
    BY <1>6, BecomesFields DEF UpdateOnSubmit
  <2>5. th'[t].cur \in Jobs /\ ScratchSize[th'[t].cur] # 0 =>
            cb'[th'[t].cur].patched = cb'[th'[t].cur].scratch /\ cb'[th'[t].cur].scratch # NoBuf
    <3>1. CASE Becomes(t, [th[t] EXCEPT !.pc = "attach", !.cur = j, !.todo = @ \ {j}])
      <4> DEFINE c == [th[t] EXCEPT !.pc = "attach", !.cur = j, !.todo = @ \ {j}]
      <4>0. th'[t] = c /\ c.cur = j /\ c.pc = "attach"
        <5>1. th'[t] = c
          BY <3>1, BecomesFields
        <5>2. th[t] \in Call
          BY ThreadType
        <5>3. c.cur = j /\ c.pc = "attach"
          BY <5>2 DEF Call
        <5> QED
          BY <5>1, <5>3
      <4>1. th'[t].cur = j
        BY <4>0
      <4>2. ASSUME NEW b \in ScratchBufs, cb' = [cb EXCEPT ![j] = [@ EXCEPT !.scratch = b, !.patched = b]]
            PROVE  cb'[j].patched = cb'[j].scratch /\ cb'[j].scratch # NoBuf
        BY <4>2, JobType DEF TypeOK, CommandBuffer
      <4>3. Becomes(t, Returning(t, "ERROR")) => FALSE
        <5>1. Becomes(t, Returning(t, "ERROR")) => th'[t].pc = "ret"
          BY BecomesFields, Ends DEF Result
        <5>2. th'[t].pc = "attach"
          BY <4>0
        <5> QED
          BY <5>1, <5>2
      <4> QED
        BY <1>6, <4>1, <4>2, <4>3 DEF UpdateOnSubmit
    <3>2. CASE Becomes(t, Returning(t, "ERROR"))
      BY <3>2, BecomesFields, Ends DEF Result, CallOK
    <3> QED
      BY <1>6, <3>1, <3>2 DEF UpdateOnSubmit
  <2> QED
    BY <2>2, <2>3, <2>4, <2>5 DEF Ready
<1>7. ASSUME NEW t \in Threads, AddPreemptionBuffer(t) PROVE Ready'
  <2>1. [th[t] EXCEPT !.pc = "submit"].cur = th[t].cur
    BY ThreadType DEF Call
  <2>2. \A s \in Threads : th'[s].cur = th[s].cur
    BY <1>7, <2>1, BecomesFields DEF AddPreemptionBuffer
  <2>3. \A i \in Jobs : cb'[i].patched = cb[i].patched /\ cb'[i].scratch = cb[i].scratch
    BY <1>7, JobType DEF AddPreemptionBuffer, TypeOK, CommandBuffer
  <2> QED
    BY <2>2, <2>3, ReadyKeeps
<1>8. ASSUME NEW t \in Threads, StripInOrder(t) PROVE Ready'
  <2>1. th[t].cur \in Jobs
    BY <1>8, ThreadType DEF StripInOrder
  <2>2. UNCHANGED cb
    BY <1>8, <2>1 DEF StripInOrder, Held
  <2>3. [th[t] EXCEPT !.pc = "ioctl"].cur = th[t].cur
    BY ThreadType DEF Call
  <2> QED
    BY <1>8, <2>2, <2>3, ReadyCall DEF StripInOrder
<1>9. ASSUME NEW t \in Threads, SubmitIoctl(t) PROVE Ready'
  <2>1. th[t].cur \in Jobs /\ th[t].cur \in InHand(t)
    BY <1>9, ThreadType DEF SubmitIoctl, InHand
  <2>2. \A i \in Jobs : i # th[t].cur => cb'[i] = cb[i]
    BY <1>9 DEF SubmitIoctl, TypeOK
  <2>3. \A s \in Threads : s # t => th'[s] = th[s] /\ th[s].cur # th[t].cur
    BY <1>9, <2>1, BecomesFields, InHandIdle DEF SubmitIoctl, InHand
  <2>4. th'[t].cur = NoJob
    <3> DEFINE c == [th[t] EXCEPT !.pc = "next", !.cur = NoJob, !.done = @ \cup {th[t].cur}]
    <3>1. th'[t] = c
      BY <1>9, BecomesFields DEF SubmitIoctl
    <3>2. th[t] \in Call
      BY ThreadType
    <3>3. c.cur = NoJob
      BY <3>2 DEF Call
    <3> QED
      BY <3>1, <3>3
  <2> QED
    BY <2>2, <2>3, <2>4, ReadyKeeps
<1>10. ASSUME NEW t \in Threads, NEW j \in Jobs, WaitForCompletion(t, j) PROVE Ready'
  <2>1. \A i \in Jobs : i # j => cb'[i] = cb[i]
    BY <1>10 DEF WaitForCompletion, TypeOK
  <2>2. j \in WaitsOn(t)
    BY <1>10 DEF WaitForCompletion, WaitsOn
  <2>3. \A s \in Threads : s # t => th'[s] = th[s] /\ th[s].cur # j
    BY <1>10, <2>2, BecomesFields DEF WaitForCompletion, Apart, Reach, InHand
  <2>4. th'[t].cur \notin Jobs
    <3> DEFINE c == [th[t] EXCEPT !.waitLeft = @ \ {j}, !.done = @ \cup {j}]
    <3>1. th'[t] = c
      BY <1>10, BecomesFields DEF WaitForCompletion
    <3>2. CallOK(th[t]) /\ th[t].pc = "wait"
      BY <1>10, ThreadType DEF WaitForCompletion
    <3>3. c.cur = th[t].cur
      BY <3>2 DEF CallOK, Call
    <3> QED
      BY <3>1, <3>2, <3>3 DEF CallOK
  <2> QED
    BY <2>1, <2>3, <2>4, ReadyKeeps
<1>11. ASSUME NEW t \in Threads, MakeInOrder(t) PROVE Ready'
  BY <1>11 DEF MakeInOrder
<1>12. ASSUME NEW t \in Threads, TrackJobs(t) PROVE Ready'
  <2>1. [th[t] EXCEPT !.pc = "enter", !.done = {}].cur = th[t].cur
    BY ThreadType DEF Call
  <2> QED
    BY <1>2, <1>12, <2>1, ReadyCall DEF TrackJobs, Result
<1>13. ASSUME NEW t \in Threads, NEW q \in Queues, Synchronize(t, q) \/ DestroyQueue(t, q) PROVE Ready'
  <2>1. [NoCall EXCEPT !.pc = "enter", !.op = "synchronize", !.q = q].cur = NoJob
    BY EmptyRecords DEF NoCall
  <2>2. [NoCall EXCEPT !.pc = "enter", !.op = "destroy", !.q = q].cur = NoJob
    BY EmptyRecords DEF NoCall
  <2> QED
    BY <1>13, <2>1, <2>2, ReadyCall DEF Synchronize, DestroyQueue
<1>14. ASSUME NEW t \in Threads, EnterSynchronize(t) PROVE Ready'
  <2>1. \A fs : [th[t] EXCEPT !.pc = "sync", !.fencesLeft = fs].cur = th[t].cur
    BY ThreadType DEF Call
  <2> QED
    BY <1>2, <1>14, <2>1, ReadyCall DEF EnterSynchronize, Result
<1>15. ASSUME NEW t \in Threads, NEW f \in Fences, NextFence(t, f) PROVE Ready'
  <2>1. [th[t] EXCEPT !.fencesLeft = @ \ {f}].cur = th[t].cur
    BY ThreadType DEF Call
  <2>2. [th[t] EXCEPT !.fencesLeft = @ \ {f}, !.pc = "wait", !.f = f, !.waitLeft = fenceJobs[f]].cur
            = th[t].cur
    BY ThreadType DEF Call
  <2> QED
    BY <1>15, <2>1, <2>2, ReadyCall DEF NextFence
<1>16. ASSUME NEW t \in Threads, NextTracked(t) PROVE Ready'
  <2>1. [th[t] EXCEPT !.pc = "wait", !.f = NoFence, !.waitLeft = tracked[th[t].q]].cur = th[t].cur
    BY ThreadType DEF Call
  <2> QED
    BY <1>16, <2>1, ReadyCall DEF NextTracked
<1>17. ASSUME NEW t \in Threads, NEW f \in Fences, FenceSynchronize(t, f) PROVE Ready'
  <2> DEFINE c == [NoCall EXCEPT !.op = "fence", !.q = FenceQueue[f], !.f = f]
  <2>1. /\ [c EXCEPT !.pc = "ret"].cur = NoJob
        /\ [c EXCEPT !.pc = "ret", !.result = "NOT_READY"].cur = NoJob
        /\ [c EXCEPT !.pc = "wait", !.waitLeft = fenceJobs[f]].cur = NoJob
    BY EmptyRecords DEF NoCall
  <2> QED
    BY <1>17, <2>1, ReadyCall DEF FenceSynchronize
<1>18. ASSUME NEW t \in Threads, PutBackPreemptionBuffer(t) PROVE Ready'
  <2>1. [th[t] EXCEPT !.pc = "waited"].cur = th[t].cur
    BY ThreadType DEF Call
  <2> QED
    BY <1>18, <2>1, ReadyCall DEF PutBackPreemptionBuffer
<1>19. ASSUME NEW t \in Threads, JobsWaited(t) PROVE Ready'
  <2>1. [th[t] EXCEPT !.pc = "sync", !.done = {}].cur = th[t].cur
    BY ThreadType DEF Call
  <2> QED
    BY <1>2, <1>19, <2>1, ReadyCall DEF JobsWaited, Result
<1>20. CASE UNCHANGED vars
  BY <1>1, <1>20 DEF vars
<1>21. ASSUME NEW t \in Threads, CallBegin(t) PROVE Ready'
  BY <1>4, <1>13, <1>17, <1>21 DEF CallBegin
<1>22. ASSUME NEW t \in Threads, SubmitFails(t) \/ WaitTimesOut(t) PROVE Ready'
  BY <1>2, <1>22 DEF SubmitFails, WaitTimesOut, Result
<1>23. ASSUME NEW t \in Threads, QueueDestroyed(t) \/ Return(t) PROVE Ready'
  BY <1>3, <1>23 DEF QueueDestroyed, Return
<1>24. ASSUME NEW t \in Threads, CallStep(t) PROVE Ready'
  BY <1>5, <1>6, <1>7, <1>8, <1>9, <1>10, <1>11, <1>12, <1>14, <1>15, <1>16, <1>18, <1>19,
     <1>22, <1>23, <1>24 DEF CallStep
<1>25. CASE Housekeeping
  BY <1>1, <1>25 DEF Housekeeping, CreateQueue, CreateFence, DestroyFence, ResetFence,
      PreloadPrune, PreloadAcquire, UnloadGraph, ReleaseMemory
<1> QED
  BY <1>1, <1>20, <1>21, <1>22, <1>24, <1>25 DEF Next, Device, DeviceCompletes

-----------------------------------------------------------------------------
(* The theorems.                                                           *)

\* The invariant holds before the first call.
LEMMA InitBufferInv == Init => BufferInv
<1> SUFFICES ASSUME Init PROVE BufferInv
  OBVIOUS
<1>1. TypeOK
  BY InitType
<1>2. \A t \in Threads : th[t] = NoCall
  BY DEF Init
<1>3. NoCall.todo = {} /\ NoCall.done = {} /\ NoCall.cur = NoJob /\ NoCall.pc = "idle"
  BY DEF NoCall
<1>4. \A t \in Threads : InHand(t) = {}
  BY <1>2, <1>3 DEF InHand
<1>5. Shapes /\ Apart /\ Ready
  BY <1>2, <1>3, <1>4, EmptyShape DEF Shapes, Apart, Ready
<1>6. \A j \in Jobs : run[j].on = FALSE
  BY DEF Init, NoSubmission
<1>7. \A j \in Jobs : cb[j].scratch = NoBuf /\ cb[j].preempt = NoBuf /\ cb[j].inOrder = FALSE
  BY DEF Init, NewCommandBuffer
<1>8. \A q \in Queues : queueBuf[q] = NoBuf
  BY DEF Init
<1>9. Held /\ Used
  BY <1>6, <1>7, <1>8 DEF Held, Used
<1>10. Seen
  BY <1>2, <1>3, <1>4, <1>6 DEF Seen
<1> QED
  BY <1>1, <1>5, <1>9, <1>10 DEF BufferInv

\* Every step preserves the invariant.
LEMMA NextBufferInv ==
    ASSUME BufferInv, InOrder = {}, [Next]_vars
    PROVE  BufferInv'
BY NextType, NextShapes, NextApart, NextSeen, NextHeld, NextUsed, NextReady DEF BufferInv

\* The invariant implies the two safety properties.
LEMMA BufferInvSafe ==
    ASSUME BufferInv
    PROVE  ScratchExclusive /\ InUseNotReclaimable
<1>1. ScratchExclusive
  BY DEF BufferInv, ScratchExclusive, Used, Held
<1>2. ASSUME NEW j \in Jobs, run[j].on PROVE run[j].scratch \subseteq scratchBuffers \ IdleScratch
  BY <1>2 DEF BufferInv, Used, Held, IdleScratch
<1>3. ASSUME NEW j \in Jobs, run[j].on, run[j].preempt # NoBuf
      PROVE  run[j].preempt \in preemptionBuffers \ IdlePreempt
  BY <1>3 DEF BufferInv, Used, Held, IdlePreempt, JobHoldsPreempt
<1> QED
  BY <1>1, <1>2, <1>3 DEF InUseNotReclaimable

\* The buffer invariant holds throughout, when no queue is in order.
THEOREM BufferInvariant == InOrder = {} => (Spec => []BufferInv)
<1> SUFFICES ASSUME InOrder = {} PROVE Spec => []BufferInv
  OBVIOUS
<1>1. Init => BufferInv
  BY InitBufferInv
<1>2. BufferInv /\ [Next]_vars => BufferInv'
  BY NextBufferInv
<1> QED
  BY <1>1, <1>2, PTL DEF Spec

\* Without in-order queues, no two executing jobs ever use the same scratch buffer,
\* for any numbers of threads, queues and jobs and any sizes: use_count() = 1 in
\* ScratchCacheFactory::acquire is enough.
THEOREM ScratchSafe == InOrder = {} => (Spec => []ScratchExclusive)
<1> SUFFICES ASSUME InOrder = {} PROVE Spec => []ScratchExclusive
  OBVIOUS
<1>1. Spec => []BufferInv
  BY BufferInvariant
<1>2. BufferInv => ScratchExclusive
  BY BufferInvSafe
<1> QED
  BY <1>1, <1>2, PTL

\* Without in-order queues, a buffer that an executing job uses is never idle in its
\* cache, hence never handed out again or pruned before the job's completion.
THEOREM InUseSafe == InOrder = {} => (Spec => []InUseNotReclaimable)
<1> SUFFICES ASSUME InOrder = {} PROVE Spec => []InUseNotReclaimable
  OBVIOUS
<1>1. Spec => []BufferInv
  BY BufferInvariant
<1>2. BufferInv => InUseNotReclaimable
  BY BufferInvSafe
<1> QED
  BY <1>1, <1>2, PTL

-----------------------------------------------------------------------------
(* Preemption buffers: one queue each.                                     *)

\* Thread t has attached a preemption buffer to the list it is about to submit.
Preparing(t) == th[t].pc \in {"submit", "ioctl"}

\* Queue q has buffer b, is about to submit a list with it, or executes one.
Uses(b, q) ==
    \/ queueBuf[q] = b
    \/ \E t \in Threads : Preparing(t) /\ th[t].q = q /\ cb[th[t].cur].preempt = b
    \/ \E j \in Jobs : run[j].on /\ run[j].q = q /\ run[j].preempt = b

OneQueue == \A b \in PreemptBufs : \A p, q \in Queues : Uses(b, p) /\ Uses(b, q) => p = q

\* A command buffer has let its preemption buffer go once a wait has reported its job,
\* until the next submission, and already when the wait has seen its end.
LetGo ==
    /\ \A j \in Jobs : run[j].seen /\ (\A t \in Threads : Preparing(t) => th[t].cur # j)
            => cb[j].preempt = NoBuf
    /\ \A t \in Threads : th[t].pc \in {"wait", "waited"} =>
            \A j \in th[t].done : cb[j].preempt = NoBuf

\* A step that gives no queue a buffer, prepares no list and starts no job.
LEMMA NoNewUse ==
    ASSUME TypeOK, OneQueue,
           \A q \in Queues : queueBuf'[q] \in {queueBuf[q], NoBuf},
           \A j \in Jobs : cb'[j].preempt \in {cb[j].preempt, NoBuf},
           \A t \in Threads : Preparing(t)' => /\ Preparing(t)
                                               /\ th'[t].q = th[t].q /\ th'[t].cur = th[t].cur,
           \A j \in Jobs : run'[j].on => /\ run[j].on
                                         /\ run'[j].q = run[j].q /\ run'[j].preempt = run[j].preempt
    PROVE  OneQueue'
<1>1. ASSUME NEW b \in PreemptBufs, NEW q \in Queues, Uses(b, q)' PROVE Uses(b, q)
  <2>1. CASE queueBuf'[q] = b
    BY <2>1 DEF Uses
  <2>2. ASSUME NEW t \in Threads, Preparing(t)', th'[t].q = q, cb'[th'[t].cur].preempt = b
        PROVE  Uses(b, q)
    <3>1. th[t].cur \in Jobs /\ Preparing(t)
      BY <2>2, ThreadType DEF Preparing
    <3> QED
      BY <2>2, <3>1 DEF Uses
  <2>3. ASSUME NEW j \in Jobs, run'[j].on, run'[j].q = q, run'[j].preempt = b PROVE Uses(b, q)
    BY <2>3 DEF Uses
  <2> QED
    BY <1>1, <2>1, <2>2, <2>3 DEF Uses
<1> QED
  BY <1>1 DEF OneQueue

\* A call that neither had a list in preparation nor gets one.
LEMMA NothingPrepared ==
    ASSUME TypeOK, OneQueue, LetGo, NEW t \in Threads, NEW c, Becomes(t, c),
           th[t].pc \notin {"submit", "ioctl"}, c.pc \notin {"submit", "ioctl"},
           c.pc \in {"wait", "waited"} => \A j \in c.done : cb'[j].preempt = NoBuf,
           \A q \in Queues : queueBuf'[q] \in {queueBuf[q], NoBuf},
           \A j \in Jobs : cb'[j].preempt \in {cb[j].preempt, NoBuf},
           \A j \in Jobs : /\ run'[j].on = run[j].on /\ run'[j].q = run[j].q
                           /\ run'[j].preempt = run[j].preempt
                           /\ run'[j].seen => run[j].seen \/ cb[j].preempt = NoBuf
    PROVE  LetGo' /\ OneQueue'
<1>1. th'[t] = c /\ \A s \in Threads : s # t => th'[s] = th[s]
  BY BecomesFields
<1>2. \A s \in Threads : Preparing(s)' <=> Preparing(s)
  BY <1>1 DEF Preparing
<1>3. \A s \in Threads : Preparing(s) => th'[s].q = th[s].q /\ th'[s].cur = th[s].cur
  BY <1>1 DEF Preparing
<1>4. OneQueue'
  BY <1>2, <1>3, NoNewUse
<1>5. ASSUME NEW j \in Jobs, run'[j].seen, \A s \in Threads : Preparing(s)' => th'[s].cur # j
      PROVE  cb'[j].preempt = NoBuf
  BY <1>2, <1>3, <1>5 DEF LetGo
<1>6. ASSUME NEW s \in Threads, th'[s].pc \in {"wait", "waited"}, NEW j \in th'[s].done
      PROVE  cb'[j].preempt = NoBuf
  <2>1. CASE s = t
    BY <1>1, <1>6, <2>1
  <2>2. CASE s # t
    <3>1. th[s].pc \in {"wait", "waited"} /\ j \in th[s].done /\ j \in Jobs
      BY <1>1, <1>6, <2>2, ThreadType
    <3> QED
      BY <3>1 DEF LetGo
  <2> QED
    BY <2>1, <2>2
<1> QED
  BY <1>4, <1>5, <1>6 DEF LetGo

\* A step outside calls that takes buffers from no command buffer and starts no job.
LEMMA NoCallChanges ==
    ASSUME TypeOK, OneQueue, LetGo, UNCHANGED <<th, cb, queueBuf>>,
           \A j \in Jobs : run'[j].seen = run[j].seen /\ (run'[j].on => run'[j] = run[j])
    PROVE  LetGo' /\ OneQueue'
<1>1. \A s \in Threads : Preparing(s)' <=> Preparing(s)
  BY DEF Preparing
<1>2. OneQueue'
  BY <1>1, NoNewUse
<1>3. LetGo'
  BY <1>1 DEF LetGo
<1> QED
  BY <1>2, <1>3

\* The queue takes an idle preemption buffer, which no queue, list or job uses.
LEMMA AcquiredUnused ==
    ASSUME TypeOK, Held, Used, NEW b \in PreemptBufs, PreemptionAcquire(b), NEW q \in Queues
    PROVE  ~Uses(b, q)
<1>1. \A j \in Jobs : cb[j].preempt # b
  BY DEF PreemptionAcquire, IdlePreempt, JobHoldsPreempt, Held
<1>2. queueBuf[q] # b
  BY DEF PreemptionAcquire, IdlePreempt, Held
<1>3. \A t \in Threads : Preparing(t) => cb[th[t].cur].preempt # b
  BY <1>1, ThreadType DEF Preparing
<1>4. \A j \in Jobs : run[j].on => run[j].preempt # b
  BY <1>1 DEF Used
<1> QED
  BY <1>2, <1>3, <1>4 DEF Uses

\* executeCommandLists takes a buffer nothing used.
LEMMA ExecuteKeeps ==
    ASSUME BufferInv, LetGo, OneQueue, NEW t \in Threads, NEW q \in Queues,
           NEW lists \in SUBSET Jobs, NEW f \in Fences \cup {NoFence}, Execute(t, q, lists, f)
    PROVE  LetGo' /\ OneQueue'
<1> DEFINE c == [NoCall EXCEPT !.pc = "next", !.op = "execute", !.q = q, !.f = f, !.todo = lists]
<1>1. TypeOK /\ Held /\ Used
  BY DEF BufferInv
<1>2. c.pc = "next" /\ th[t].pc = "idle" /\ Becomes(t, c) /\ UNCHANGED <<cb, run>>
  BY EmptyRecords DEF Execute, NoCall
<1> HIDE DEF c
<1>3. CASE UNCHANGED queueBuf
  BY <1>1, <1>2, <1>3, NothingPrepared
<1>4. ASSUME NEW b \in PreemptBufs \cup {NoBuf}, PreemptionAcquire(b),
             queueBuf' = [queueBuf EXCEPT ![q] = b]
      PROVE  LetGo' /\ OneQueue'
  <2>1. CASE b = NoBuf
    <3>1. \A p \in Queues : queueBuf'[p] \in {queueBuf[p], NoBuf}
      BY <1>1, <1>4, <2>1 DEF TypeOK
    <3> QED
      BY <1>1, <1>2, <3>1, NothingPrepared
  <2>2. CASE b \in PreemptBufs
    <3>1. \A p \in Queues : ~Uses(b, p)
      BY <1>1, <1>4, <2>2, AcquiredUnused
    <3>2. th'[t] = c /\ \A s \in Threads : s # t => th'[s] = th[s]
      BY <1>1, <1>2, BecomesFields
    <3>3. \A s \in Threads : /\ Preparing(s)' <=> Preparing(s)
                             /\ Preparing(s) => th'[s] = th[s]
      BY <1>2, <3>2 DEF Preparing
    <3>4. LetGo'
      <4>1. \A s \in Threads : th'[s].pc \in {"wait", "waited"} => th'[s] = th[s]
        BY <1>2, <3>2
      <4> QED
        BY <1>2, <3>3, <4>1 DEF LetGo
    <3>5. queueBuf'[q] = b /\ \A p \in Queues : p # q => queueBuf'[p] = queueBuf[p]
      BY <1>1, <1>4 DEF TypeOK
    <3>6. ASSUME NEW a \in PreemptBufs, NEW p \in Queues, Uses(a, p)'
          PROVE  Uses(a, p) \/ (a = b /\ p = q)
      BY <1>2, <3>3, <3>5, <3>6 DEF Uses
    <3>7. OneQueue'
      BY <3>1, <3>6 DEF OneQueue
    <3> QED
      BY <3>4, <3>7
  <2> QED
    BY <2>1, <2>2
<1> QED
  BY <1>3, <1>4 DEF Execute

\* addPreemptionBuffer gives a list the buffer of its own queue.
LEMMA AddPreemptionKeeps ==
    ASSUME BufferInv, LetGo, OneQueue, NEW t \in Threads, AddPreemptionBuffer(t)
    PROVE  LetGo' /\ OneQueue'
<1> DEFINE j == th[t].cur
<1>1. TypeOK /\ Apart /\ Seen
  BY DEF BufferInv
<1>2. th[t].pc = "attach" /\ j \in Jobs /\ th[t].q \in Queues /\ j \in InHand(t)
  BY <1>1, ThreadType DEF AddPreemptionBuffer, InHand
<1>3. \A s \in Threads : s # t => th[s].cur # j /\ j \notin th[s].done
  <2>1. \A s \in Threads : s # t => j \notin InHand(s) \cup th[s].done
    BY <1>1, <1>2 DEF Apart, Reach
  <2>2. j # NoJob
    BY <1>2
  <2> QED
    BY <2>1, <2>2 DEF InHand
<1>4. cb[j].preempt = NoBuf
  BY <1>1, <1>2, <1>3 DEF LetGo, Seen, Preparing
<1>5. UNCHANGED <<queueBuf, run>> /\ cb' = [cb EXCEPT ![j].preempt = queueBuf[th[t].q]]
  BY <1>4 DEF AddPreemptionBuffer, queueVars
<1>6. cb'[j].preempt = queueBuf[th[t].q] /\ \A i \in Jobs : i # j => cb'[i] = cb[i]
  BY <1>1, <1>2, <1>5, JobType DEF TypeOK, CommandBuffer
<1>7. /\ th'[t].pc = "submit" /\ th'[t].cur = j /\ th'[t].q = th[t].q
      /\ \A s \in Threads : s # t => th'[s] = th[s]
  <2>1. th'[t] = [th[t] EXCEPT !.pc = "submit"] /\ \A s \in Threads : s # t => th'[s] = th[s]
    BY <1>1, BecomesFields DEF AddPreemptionBuffer
  <2> QED
    BY <1>1, <2>1, ThreadType DEF Call
<1>8. LetGo'
  <2>1. ASSUME NEW i \in Jobs, run'[i].seen, \A s \in Threads : Preparing(s)' => th'[s].cur # i
        PROVE  cb'[i].preempt = NoBuf
    <3>1. i # j
      BY <1>7, <2>1 DEF Preparing
    <3>2. \A s \in Threads : Preparing(s) => th[s].cur # i
      BY <1>2, <1>7, <2>1 DEF Preparing
    <3> QED
      BY <1>5, <1>6, <2>1, <3>1, <3>2 DEF LetGo
  <2>2. ASSUME NEW s \in Threads, th'[s].pc \in {"wait", "waited"}, NEW i \in th'[s].done
        PROVE  cb'[i].preempt = NoBuf
    <3>1. s # t /\ th'[s] = th[s]
      BY <1>7, <2>2
    <3>2. i # j /\ i \in Jobs
      BY <1>1, <1>3, <2>2, <3>1, ThreadType
    <3> QED
      BY <1>6, <2>2, <3>1, <3>2 DEF LetGo
  <2> QED
    BY <2>1, <2>2 DEF LetGo
<1>9. ASSUME NEW b \in PreemptBufs, NEW p \in Queues, Uses(b, p)' PROVE Uses(b, p)
  <2>1. ASSUME NEW s \in Threads, Preparing(s)', th'[s].q = p, cb'[th'[s].cur].preempt = b
        PROVE  Uses(b, p)
    <3>1. CASE s = t
      BY <1>6, <1>7, <2>1, <3>1 DEF Uses
    <3>2. CASE s # t
      <4>1. Preparing(s) /\ th[s].cur # j /\ th[s].cur \in Jobs /\ th'[s] = th[s]
        BY <1>1, <1>3, <1>7, <2>1, <3>2, ThreadType DEF Preparing
      <4> QED
        BY <1>6, <2>1, <4>1 DEF Uses
    <3> QED
      BY <3>1, <3>2
  <2> QED
    BY <1>5, <1>9, <2>1 DEF Uses
<1> QED
  BY <1>8, <1>9 DEF OneQueue

\* The submission uses the buffer the list was prepared with.
LEMMA SubmitKeeps ==
    ASSUME BufferInv, LetGo, OneQueue, NEW t \in Threads, SubmitIoctl(t)
    PROVE  LetGo' /\ OneQueue'
<1> DEFINE j == th[t].cur
           q == th[t].q
           c == [th[t] EXCEPT !.pc = "next", !.cur = NoJob, !.done = @ \cup {j}]
<1>1. TypeOK
  BY DEF BufferInv
<1>2. th[t].pc = "ioctl" /\ j \in Jobs /\ q \in Queues /\ UNCHANGED queueBuf
  BY <1>1, ThreadType DEF SubmitIoctl, queueVars
<1>3. /\ run'[j].seen = FALSE /\ run'[j].q = q /\ run'[j].preempt = cb[j].preempt
      /\ \A i \in Jobs : i # j => run'[i] = run[i]
  BY <1>1, <1>2 DEF SubmitIoctl, TypeOK
<1>4. \A i \in Jobs : cb'[i].preempt = cb[i].preempt
  BY <1>1, <1>2, JobType DEF SubmitIoctl, TypeOK, CommandBuffer
<1>5. th'[t] = c /\ c.pc = "next" /\ \A s \in Threads : s # t => th'[s] = th[s]
  <2>1. th'[t] = c /\ \A s \in Threads : s # t => th'[s] = th[s]
    BY <1>1, BecomesFields DEF SubmitIoctl
  <2>2. c.pc = "next"
    BY <1>1, ThreadType DEF Call
  <2> QED
    BY <2>1, <2>2
<1>6. \A s \in Threads : Preparing(s)' <=> Preparing(s) /\ s # t
  BY <1>5 DEF Preparing
<1>7. LetGo'
  <2>1. ASSUME NEW i \in Jobs, run'[i].seen, \A s \in Threads : Preparing(s)' => th'[s].cur # i
        PROVE  cb'[i].preempt = NoBuf
    <3>1. i # j
      BY <1>3, <2>1
    <3>2. \A s \in Threads : Preparing(s) => th[s].cur # i
      BY <1>5, <1>6, <2>1, <3>1
    <3> QED
      BY <1>3, <1>4, <2>1, <3>1, <3>2 DEF LetGo
  <2>2. ASSUME NEW s \in Threads, th'[s].pc \in {"wait", "waited"}, NEW i \in th'[s].done
        PROVE  cb'[i].preempt = NoBuf
    <3>1. th'[s] = th[s]
      BY <1>5, <2>2
    <3>2. i \in Jobs
      BY <1>1, <2>2, <3>1, ThreadType
    <3> QED
      BY <1>4, <2>2, <3>1, <3>2 DEF LetGo
  <2> QED
    BY <2>1, <2>2 DEF LetGo
<1>8. ASSUME NEW b \in PreemptBufs, NEW p \in Queues, Uses(b, p)' PROVE Uses(b, p)
  <2>1. ASSUME NEW s \in Threads, Preparing(s)', th'[s].q = p, cb'[th'[s].cur].preempt = b
        PROVE  Uses(b, p)
    <3>1. Preparing(s) /\ th'[s] = th[s] /\ th[s].cur \in Jobs
      BY <1>1, <1>5, <1>6, <2>1, ThreadType DEF Preparing
    <3> QED
      BY <1>4, <2>1, <3>1 DEF Uses
  <2>2. ASSUME NEW i \in Jobs, run'[i].on, run'[i].q = p, run'[i].preempt = b
        PROVE  Uses(b, p)
    <3>1. CASE i = j
      BY <1>2, <1>3, <2>2, <3>1 DEF Uses, Preparing
    <3>2. CASE i # j
      BY <1>3, <2>2, <3>2 DEF Uses
    <3> QED
      BY <3>1, <3>2
  <2> QED
    BY <1>2, <1>8, <2>1, <2>2 DEF Uses
<1> QED
  BY <1>7, <1>8 DEF OneQueue

\* A list that is not in order stays as it is prepared.
LEMMA StripKeeps ==
    ASSUME BufferInv, LetGo, OneQueue, NEW t \in Threads, StripInOrder(t)
    PROVE  LetGo' /\ OneQueue'
<1>1. TypeOK /\ Held
  BY DEF BufferInv
<1>2. th[t].pc = "submit" /\ th[t].cur \in Jobs /\ UNCHANGED <<cb, run, queueBuf>>
  BY <1>1, ThreadType DEF StripInOrder, Held, queueVars
<1>3. th'[t] = [th[t] EXCEPT !.pc = "ioctl"] /\ \A s \in Threads : s # t => th'[s] = th[s]
  BY <1>1, BecomesFields DEF StripInOrder
<1>4. /\ th'[t].pc = "ioctl" /\ th'[t].cur = th[t].cur
      /\ th'[t].q = th[t].q /\ th'[t].done = th[t].done
  BY <1>1, <1>3, ThreadType DEF Call
<1>5. \A s \in Threads : /\ Preparing(s)' <=> Preparing(s)
                         /\ th'[s].cur = th[s].cur /\ th'[s].q = th[s].q
                         /\ th'[s].pc \in {"wait", "waited"} => th'[s] = th[s]
  BY <1>2, <1>3, <1>4 DEF Preparing
<1>6. OneQueue'
  BY <1>1, <1>2, <1>5, NoNewUse
<1>7. LetGo'
  BY <1>2, <1>5 DEF LetGo
<1> QED
  BY <1>6, <1>7

\* Every step keeps each preemption buffer with one queue.
LEMMA NextPreempt ==
    ASSUME BufferInv, LetGo, OneQueue, InOrder = {}, SubmitErrors = FALSE, [Next]_vars
    PROVE  LetGo' /\ OneQueue'
<1> USE DEF cacheVars, queueVars, fenceVars
<1>0. TypeOK /\ Shapes /\ Apart /\ Seen
  BY DEF BufferInv
<1>1. \A t \in Threads : \A r \in Result : Returning(t, r).pc = "ret"
  BY <1>0, ReturningKeeps
<1>2. ASSUME NEW t \in Threads, NEW c, Becomes(t, c), UNCHANGED <<queueBuf, cb, run>>,
             th[t].pc \notin {"submit", "ioctl"}, c.pc \notin {"submit", "ioctl"},
             c.pc \in {"wait", "waited"} =>
                c.done = {} \/ (th[t].pc \in {"wait", "waited"} /\ c.done = th[t].done)
      PROVE  LetGo' /\ OneQueue'
  <2>1. c.pc \in {"wait", "waited"} => \A j \in c.done : cb'[j].preempt = NoBuf
    BY <1>2 DEF LetGo
  <2> QED
    BY <1>0, <1>2, <2>1, NothingPrepared
<1>3. ASSUME NEW t \in Threads, NEW j \in Jobs, SkipEmpty(t, j) PROVE LetGo' /\ OneQueue'
  <2> DEFINE c == [th[t] EXCEPT !.todo = @ \ {j}]
  <2>1. c.pc = "next" /\ th[t].pc = "next"
    BY <1>0, <1>3, ThreadType DEF Call, SkipEmpty
  <2> QED
    BY <1>2, <1>3, <2>1 DEF SkipEmpty
<1>4. ASSUME NEW t \in Threads, NEW j \in Jobs, UpdateOnSubmit(t, j) PROVE LetGo' /\ OneQueue'
  <2> DEFINE c == [th[t] EXCEPT !.pc = "attach", !.cur = j, !.todo = @ \ {j}]
  <2>1. c.pc = "attach" /\ th[t].pc = "next" /\ UNCHANGED queueBuf
    BY <1>0, <1>4, ThreadType DEF Call, UpdateOnSubmit
  <2>2. \A i \in Jobs : cb'[i].preempt = cb[i].preempt
    <3>1. ASSUME NEW b \in ScratchBufs, NEW i \in Jobs,
                 cb' = [cb EXCEPT ![j] = [@ EXCEPT !.scratch = b, !.patched = b]]
          PROVE  cb'[i].preempt = cb[i].preempt
      BY <1>0, <3>1, JobType DEF TypeOK, CommandBuffer
    <3>2. ASSUME NEW i \in Jobs, cb' = [cb EXCEPT ![j].scratch = NoBuf]
          PROVE  cb'[i].preempt = cb[i].preempt
      BY <1>0, <3>2, JobType DEF TypeOK, CommandBuffer
    <3> QED
      BY <1>4, <3>1, <3>2 DEF UpdateOnSubmit
  <2>3. \A i \in Jobs : /\ run'[i].on = run[i].on /\ run'[i].q = run[i].q
                         /\ run'[i].preempt = run[i].preempt /\ run'[i].seen = run[i].seen
    <3>1. ASSUME NEW b \in ScratchBufs, NEW i \in Jobs,
                 run' = [run EXCEPT ![j].scratch = IF run[j].on THEN @ \cup {b} ELSE @]
          PROVE  /\ run'[i].on = run[i].on /\ run'[i].q = run[i].q
                 /\ run'[i].preempt = run[i].preempt /\ run'[i].seen = run[i].seen
      BY <1>0, <3>1, JobType DEF Submission, TypeOK
    <3> QED
      BY <1>4, <3>1 DEF UpdateOnSubmit
  <2>4. \E d : Becomes(t, d) /\ d.pc \in {"attach", "ret"}
    BY <1>1, <1>4, <2>1 DEF UpdateOnSubmit, Result
  <2> QED
    BY <1>0, <2>1, <2>2, <2>3, <2>4, NothingPrepared
<1>5. ASSUME NEW t \in Threads, TrackJobs(t) PROVE LetGo' /\ OneQueue'
  <2>1. [th[t] EXCEPT !.pc = "enter", !.done = {}].pc = "enter"
    BY <1>0, ThreadType DEF Call
  <2> QED
    BY <1>1, <1>2, <1>5, <2>1 DEF TrackJobs, Result
<1>6. ASSUME NEW t \in Threads, EnterSynchronize(t) PROVE LetGo' /\ OneQueue'
  <2>1. \A fs : [th[t] EXCEPT !.pc = "sync", !.fencesLeft = fs].pc = "sync"
    BY <1>0, ThreadType DEF Call
  <2> QED
    BY <1>1, <1>2, <1>6, <2>1 DEF EnterSynchronize, Result
<1>7. ASSUME NEW t \in Threads, NEW f \in Fences, NextFence(t, f) PROVE LetGo' /\ OneQueue'
  <2> DEFINE c == [th[t] EXCEPT !.fencesLeft = @ \ {f}]
             d == [th[t] EXCEPT !.fencesLeft = @ \ {f}, !.pc = "wait", !.f = f,
                                !.waitLeft = fenceJobs[f]]
  <2>1. th[t].pc = "sync" /\ th[t].done = {}
    BY <1>0, <1>7 DEF NextFence, Shapes, Shape
  <2>2. c.pc = "sync"
    BY <1>0, <2>1, ThreadType DEF Call
  <2>3. d.pc = "wait" /\ d.done = {}
    BY <1>0, <2>1, ThreadType DEF Call
  <2> QED
    BY <1>2, <1>7, <2>1, <2>2, <2>3 DEF NextFence
<1>8. ASSUME NEW t \in Threads, NextTracked(t) PROVE LetGo' /\ OneQueue'
  <2> DEFINE d == [th[t] EXCEPT !.pc = "wait", !.f = NoFence, !.waitLeft = tracked[th[t].q]]
  <2>1. th[t].pc = "sync" /\ th[t].done = {}
    BY <1>0, <1>8 DEF NextTracked, Shapes, Shape
  <2>2. d.pc = "wait" /\ d.done = {}
    BY <1>0, <2>1, ThreadType DEF Call
  <2> QED
    BY <1>2, <1>8, <2>1, <2>2 DEF NextTracked
<1>9. ASSUME NEW t \in Threads, NEW j \in Jobs, WaitForCompletion(t, j) PROVE LetGo' /\ OneQueue'
  <2> DEFINE c == [th[t] EXCEPT !.waitLeft = @ \ {j}, !.done = @ \cup {j}]
  <2>1. th[t].pc = "wait" /\ Becomes(t, c) /\ UNCHANGED <<queueBuf, run>>
    BY <1>9 DEF WaitForCompletion
  <2>2. c.pc = "wait" /\ c.done = th[t].done \cup {j}
    BY <1>0, <2>1, ThreadType DEF Call
  <2>3. cb'[j].preempt = NoBuf
    BY <1>0, <1>9, JobType DEF WaitForCompletion, Completed, TypeOK, CommandBuffer
  <2>4. \A i \in Jobs : i # j => cb'[i] = cb[i]
    BY <1>0, <1>9 DEF WaitForCompletion, TypeOK
  <2>5. \A i \in c.done : cb'[i].preempt = NoBuf
    BY <1>0, <2>1, <2>2, <2>3, <2>4, ThreadType DEF LetGo
  <2> QED
    BY <1>0, <2>1, <2>2, <2>3, <2>4, <2>5, NothingPrepared
<1>10. ASSUME NEW t \in Threads, PutBackPreemptionBuffer(t) PROVE LetGo' /\ OneQueue'
  <2> DEFINE c == [th[t] EXCEPT !.pc = "waited"]
  <2>1. th[t].pc = "wait" /\ Becomes(t, c) /\ UNCHANGED <<cb, run>>
    BY <1>10 DEF PutBackPreemptionBuffer
  <2>2. c.pc = "waited" /\ c.done = th[t].done
    BY <1>0, ThreadType DEF Call
  <2>3. \A q \in Queues : queueBuf'[q] \in {queueBuf[q], NoBuf}
    BY <1>0, <1>10, ThreadType DEF PutBackPreemptionBuffer, TypeOK
  <2>4. \A j \in c.done : cb'[j].preempt = NoBuf
    BY <2>1, <2>2 DEF LetGo
  <2> QED
    BY <1>0, <2>1, <2>2, <2>3, <2>4, NothingPrepared
<1>11. ASSUME NEW t \in Threads, JobsWaited(t) PROVE LetGo' /\ OneQueue'
  <2>1. th[t].pc = "waited" /\ UNCHANGED <<queueBuf, cb>>
    BY <1>11 DEF JobsWaited
  <2>2. [th[t] EXCEPT !.pc = "sync", !.done = {}].pc = "sync"
    BY <1>0, ThreadType DEF Call
  <2>3. \E c : Becomes(t, c) /\ c.pc \in {"ret", "sync"}
    BY <1>1, <1>11, <2>2 DEF JobsWaited, Result
  <2>4. ASSUME NEW i \in Jobs
        PROVE  /\ run'[i].on = run[i].on /\ run'[i].q = run[i].q
               /\ run'[i].preempt = run[i].preempt
               /\ run'[i].seen => run[i].seen \/ cb[i].preempt = NoBuf
    <3>1. run'[i] = [run[i] EXCEPT !.seen = @ \/ i \in th[t].done]
      BY <1>11 DEF JobsWaited
    <3>2. i \in th[t].done => cb[i].preempt = NoBuf
      BY <2>1 DEF LetGo
    <3>3. run[i] \in Submission
      BY <1>0, JobType
    <3>4. run'[i].on = run[i].on /\ run'[i].q = run[i].q /\ run'[i].preempt = run[i].preempt
      BY <3>1, <3>3 DEF Submission
    <3>5. run'[i].seen = (run[i].seen \/ i \in th[t].done)
      BY <3>1, <3>3 DEF Submission
    <3> QED
      BY <3>2, <3>4, <3>5
  <2> QED
    BY <1>0, <2>1, <2>3, <2>4, NothingPrepared
<1>12. ASSUME NEW t \in Threads, QueueDestroyed(t) PROVE LetGo' /\ OneQueue'
  <2>1. th[t].pc = "ret" /\ Becomes(t, NoCall) /\ NoCall.pc = "idle" /\ UNCHANGED <<cb, run>>
    BY <1>12 DEF QueueDestroyed, NoCall
  <2>2. \A q \in Queues : queueBuf'[q] \in {queueBuf[q], NoBuf}
    BY <1>0, <1>12, ThreadType DEF QueueDestroyed, TypeOK
  <2> QED
    BY <1>0, <2>1, <2>2, NothingPrepared
<1>13. ASSUME NEW t \in Threads, Return(t) PROVE LetGo' /\ OneQueue'
  <2>1. NoCall.pc = "idle"
    BY DEF NoCall
  <2> QED
    BY <1>2, <1>13, <2>1 DEF Return
<1>14. ASSUME NEW t \in Threads, WaitTimesOut(t) PROVE LetGo' /\ OneQueue'
  BY <1>1, <1>2, <1>14 DEF WaitTimesOut, Result
<1>15. ASSUME NEW t \in Threads, NEW q \in Queues, Synchronize(t, q) \/ DestroyQueue(t, q)
       PROVE  LetGo' /\ OneQueue'
  <2>1. /\ [NoCall EXCEPT !.pc = "enter", !.op = "synchronize", !.q = q].pc = "enter"
        /\ [NoCall EXCEPT !.pc = "enter", !.op = "destroy", !.q = q].pc = "enter"
    BY EmptyRecords DEF NoCall
  <2> QED
    BY <1>2, <1>15, <2>1 DEF Synchronize, DestroyQueue
<1>16. ASSUME NEW t \in Threads, NEW f \in Fences, FenceSynchronize(t, f) PROVE LetGo' /\ OneQueue'
  <2> DEFINE call == [NoCall EXCEPT !.op = "fence", !.q = FenceQueue[f], !.f = f]
  <2>1. /\ [call EXCEPT !.pc = "ret"].pc = "ret"
        /\ [call EXCEPT !.pc = "ret", !.result = "NOT_READY"].pc = "ret"
    BY EmptyRecords DEF NoCall
  <2>2. /\ [call EXCEPT !.pc = "wait", !.waitLeft = fenceJobs[f]].pc = "wait"
        /\ [call EXCEPT !.pc = "wait", !.waitLeft = fenceJobs[f]].done = {}
    BY EmptyRecords DEF NoCall
  <2> QED
    BY <1>2, <1>16, <2>1, <2>2 DEF FenceSynchronize
<1>17. ASSUME NEW j \in Jobs, NEW status \in Outcomes, DeviceCompletes(j, status)
       PROVE  LetGo' /\ OneQueue'
  <2>1. /\ run'[j].on = FALSE /\ run'[j].seen = run[j].seen
        /\ \A i \in Jobs : i # j => run'[i] = run[i]
    BY <1>0, <1>17, EmptyRecords DEF DeviceCompletes, NoSubmission, TypeOK
  <2> QED
    BY <1>0, <1>17, <2>1, NoCallChanges DEF DeviceCompletes
<1>18. CASE Housekeeping
  <2>1. UNCHANGED <<th, cb, queueBuf, run>>
    BY <1>18 DEF Housekeeping, CreateQueue, CreateFence, DestroyFence, ResetFence, PreloadPrune,
       PreloadAcquire, UnloadGraph, ReleaseMemory
  <2> QED
    BY <1>0, <2>1, NoCallChanges
<1>19. CASE UNCHANGED vars
  BY <1>0, <1>19, NoCallChanges DEF vars
<1>20. ASSUME NEW t \in Threads, CallBegin(t) PROVE LetGo' /\ OneQueue'
  BY <1>15, <1>16, <1>20, ExecuteKeeps DEF CallBegin
<1>21. ASSUME NEW t \in Threads, CallStep(t) PROVE LetGo' /\ OneQueue'
  BY <1>3, <1>4, <1>5, <1>6, <1>7, <1>8, <1>9, <1>10, <1>11, <1>12, <1>13, <1>21,
     AddPreemptionKeeps, StripKeeps, SubmitKeeps DEF CallStep, MakeInOrder, SubmitFails
<1> QED
  BY <1>14, <1>17, <1>18, <1>19, <1>20, <1>21 DEF Next, Device

\* Jobs of different queues never run with the same preemption buffer, for any numbers
\* of threads, queues and jobs, as long as submissions do not fail for good: a failed
\* one leaves the buffer attached to its list, which may go to another queue next.
THEOREM PreemptionSafe ==
    InOrder = {} /\ SubmitErrors = FALSE => (Spec => []PreemptionPerQueue)
<1> SUFFICES ASSUME InOrder = {}, SubmitErrors = FALSE PROVE Spec => []PreemptionPerQueue
  OBVIOUS
<1>1. Init => LetGo /\ OneQueue
  <2> SUFFICES ASSUME Init PROVE LetGo /\ OneQueue
    OBVIOUS
  <2>1. \A t \in Threads : th[t].pc = "idle"
    BY DEF Init, NoCall
  <2>2. \A j \in Jobs : ~run[j].on /\ cb[j].preempt = NoBuf
    BY DEF Init, NoSubmission, NewCommandBuffer
  <2>3. \A q \in Queues : queueBuf[q] = NoBuf
    BY DEF Init
  <2>4. LetGo
    BY <2>1, <2>2 DEF LetGo
  <2>5. \A b \in PreemptBufs : \A q \in Queues : ~Uses(b, q)
    BY <2>1, <2>2, <2>3 DEF Uses, Preparing
  <2> QED
    BY <2>4, <2>5 DEF OneQueue
<1>2. BufferInv /\ LetGo /\ OneQueue /\ [Next]_vars => LetGo' /\ OneQueue'
  BY NextPreempt
<1>3. BufferInv /\ OneQueue => PreemptionPerQueue
  <2> SUFFICES ASSUME BufferInv, OneQueue, NEW i \in Jobs, NEW j \in Jobs, run[i].on, run[j].on,
                      run[i].preempt # NoBuf, run[i].preempt = run[j].preempt
               PROVE  run[i].q = run[j].q
    BY DEF PreemptionPerQueue
  <2>1. run[i] \in Submission /\ run[j] \in Submission
    BY JobType DEF BufferInv
  <2>2. run[i].preempt \in PreemptBufs /\ run[i].q \in Queues /\ run[j].q \in Queues
    BY <2>1 DEF Submission
  <2> QED
    BY <2>2 DEF OneQueue, Uses
<1> QED
  BY <1>1, <1>2, <1>3, BufferInvariant, PTL DEF Spec

-----------------------------------------------------------------------------
(***************************************************************************)
(* A wait on a command queue or a fence that returns SUCCESS was not       *)
(* early: the theorem WaitsAreNotEarly, for command queues without         *)
(* ModeFlags::IN_ORDER that are each used by one thread (fences may be     *)
(* waited for by any thread).                                              *)
(*                                                                         *)
(* The argument: an accepted job that has not completed is tracked by its  *)
(* queue or by a fence of it (Tracked); a wait visits all of what it owes  *)
(* (OwedKnown), and when it looks at the statuses it has waited for every  *)
(* tracked job and seen its last status (WaitKnows), because nobody adds a *)
(* job to a fence or a queue that is being waited for (FenceReady,         *)
(* FencesApart, and the one thread of the queue).                          *)
(***************************************************************************)

\* Every queue is used by at most one thread.
OneThreadPerQueue == \A s, t \in Threads : s # t => MayUse[s] \cap MayUse[t] = {}

-----------------------------------------------------------------------------
(* The inductive invariant.                                                *)

\* Phases of a call c: submitting lists, waiting for jobs; its fence is of its queue.
Executing(c) == c.pc \in {"next", "attach", "submit", "ioctl"}
Waits(c)     == c.pc \in {"wait", "waited"}
OwnFence(c)  == c.f \in Fences /\ FenceQueue[c.f] = c.q

\* A job that is unfinished or failed.
NotDone(j) == run[j].on \/ run[j].status = "FAILED"

\* What the calls of thread t look like.
CallBy(t, c) ==
    /\ c.pc # "idle" => c.op # "none"
    /\ c.pc # "idle" /\ c.op # "fence" => c.q \in MayUse[t]
    /\ c.op = "fence" => c.f \in Fences /\ c.pc \in {"wait", "waited", "ret"}
    /\ Executing(c) => c.op = "execute"
    /\ Waits(c) /\ c.f # NoFence => OwnFence(c)

\* A call that is to pass its lists to a fence of its queue still finds it unused.
FenceReady(c) ==
    Executing(c) /\ OwnFence(c) => c.f \in fences /\ ~signaled[c.f] /\ fenceJobs[c.f] = {}

\* No other call submits with, or waits for, that fence.
FencesApart ==
    \A t, s \in Threads : s # t /\ Executing(th[t]) /\ OwnFence(th[t]) /\ th[s].f = th[t].f
                                => ~Waits(th[s]) /\ ~Executing(th[s])

\* The jobs call c waits for, and what is left for synchronize after the current fence.
Awaited(c) == IF c.f = NoFence THEN tracked[c.q] ELSE fenceJobs[c.f]
Left(c, j) == j \in tracked[c.q] \/ \E f \in c.fencesLeft : j \in fenceJobs[f]

\* A wait covers what its queue or fence tracks; it has the status of each job it is
\* done with.
WaitKnows(c) ==
    /\ c.pc = "wait" => Awaited(c) \subseteq c.waitLeft \cup c.done
    /\ c.pc = "waited" => Awaited(c) \subseteq c.done
    /\ Waits(c) => \A j \in c.done : cb[j].status = run[j].status

\* What the wait of thread t owes is still ahead of it, and nothing when it succeeds.
OwedKnown(t, c) ==
    /\ \A j \in owed[t] : NotDone(j)
    /\ c.pc = "sync" => \A j \in owed[t] : Left(c, j)
    /\ Waits(c) => \A j \in owed[t] :
            j \in Awaited(c) \/ (c.f # NoFence /\ c.op # "fence" /\ Left(c, j))
    /\ c.pc = "ret" /\ c.op \in {"synchronize", "fence"} /\ c.result = "SUCCESS" => owed[t] = {}

Good(t, c) == CallBy(t, c) /\ FenceReady(c) /\ WaitKnows(c) /\ OwedKnown(t, c)

\* Accepted jobs are unfinished or failed, and tracked; fences that do not exist or
\* are signaled track nothing.
Tracked ==
    /\ \A f \in Fences : f \notin fences \/ signaled[f] => fenceJobs[f] = {}
    /\ \A q \in Queues : \A j \in accepted[q] :
            /\ NotDone(j)
            /\ j \in tracked[q] \/ \E f \in fences : FenceQueue[f] = q /\ j \in fenceJobs[f]

WaitParts == Tracked /\ FencesApart /\ \A t \in Threads : Good(t, th[t])

-----------------------------------------------------------------------------
(* Calls that a step leaves alone.                                         *)

\* A step that drops nothing a call waits for or owes keeps what the call knows.
LEMMA GoodKeeps ==
    ASSUME NEW u, NEW c, Good(u, c),
           owed'[u] \subseteq owed[u],
           \A j \in owed'[u] : NotDone(j)',
           FenceReady(c)',
           Waits(c) => Awaited(c)' \subseteq Awaited(c),
           Waits(c) => \A j \in c.done : cb'[j].status = run'[j].status,
           Waits(c) => \A j \in owed'[u] : j \in Awaited(c) => j \in Awaited(c)',
           c.pc = "sync" \/ (Waits(c) /\ c.f # NoFence /\ c.op # "fence")
                => \A j \in owed'[u] : Left(c, j) => Left(c, j)'
    PROVE  Good(u, c)'
<1>1. WaitKnows(c)'
  BY DEF Good, WaitKnows, Waits
<1>2. OwedKnown(u, c)'
  BY DEF Good, OwedKnown, Waits
<1>3. CallBy(u, c)'
  BY DEF Good, CallBy, Executing, Waits, OwnFence
<1> QED
  BY <1>1, <1>2, <1>3 DEF Good

\* What completion reports and tracking are is unchanged.
Quiet ==
    /\ UNCHANGED <<owed, tracked, fences, fenceJobs, signaled>>
    /\ \A j \in Jobs : /\ run'[j].on = run[j].on /\ run'[j].status = run[j].status
                       /\ cb'[j].status = cb[j].status

LEMMA QuietGood ==
    ASSUME Quiet, NEW u, NEW c, Good(u, c), c.done \subseteq Jobs, owed[u] \subseteq Jobs
    PROVE  Good(u, c)'
<1>1. FenceReady(c)'
  BY DEF Quiet, Good, FenceReady
<1>2. \A j \in owed'[u] : NotDone(j)'
  BY DEF Quiet, Good, OwedKnown, NotDone
<1>3. Waits(c) => \A j \in c.done : cb'[j].status = run'[j].status
  BY DEF Quiet, Good, WaitKnows
<1>4. Awaited(c)' = Awaited(c) /\ \A j : Left(c, j) => Left(c, j)'
  BY DEF Quiet, Awaited, Left
<1> QED
  BY <1>1, <1>2, <1>3, <1>4, GoodKeeps DEF Quiet

\* The state in which no call changes is the same for every thread.
LEMMA SameThreadsApart ==
    ASSUME FencesApart, UNCHANGED th
    PROVE  FencesApart'
BY DEF FencesApart, Executing, Waits, OwnFence

\* A call that begins neither to submit nor to wait for an unused fence.
LEMMA FencesStayApart ==
    ASSUME TypeOK, WaitParts, NEW t \in Threads, NEW c, Becomes(t, c),
           Executing(c) => Executing(th[t]) /\ c.f = th[t].f /\ c.q = th[t].q,
           Waits(c) => \/ Waits(th[t]) /\ c.f = th[t].f
                       \/ c.f = NoFence
                       \/ c.f \in Fences /\ fenceJobs[c.f] # {}
    PROVE  FencesApart'
<1>1. th'[t] = c /\ \A s \in Threads : s # t => th'[s] = th[s]
  BY BecomesFields
<1> SUFFICES ASSUME NEW s \in Threads, NEW u \in Threads, s # u, Executing(th'[u]), OwnFence(th'[u]),
                    th'[s].f = th'[u].f
             PROVE  ~Waits(th'[s]) /\ ~Executing(th'[s])
  BY DEF FencesApart, Executing, Waits, OwnFence
<1>2. Executing(th[u]) /\ OwnFence(th[u]) /\ th[u].f = th'[u].f
  BY <1>1 DEF OwnFence
<1>3. fenceJobs[th[u].f] = {} /\ th[u].f # NoFence
  BY <1>2 DEF WaitParts, Good, FenceReady, OwnFence
<1>4. CASE s # t
  BY <1>1, <1>2, <1>4 DEF WaitParts, FencesApart
<1>5. CASE s = t
  <2>1. u # t /\ th'[u] = th[u] /\ c.f = th[u].f /\ th'[s] = c
    BY <1>1, <1>5
  <2>2. ~Executing(c)
    BY <1>2, <1>5, <2>1 DEF WaitParts, FencesApart
  <2>3. ~Waits(c)
    BY <1>2, <1>3, <1>5, <2>1 DEF WaitParts, FencesApart
  <2> QED
    BY <2>1, <2>2, <2>3
<1> QED
  BY <1>4, <1>5

\* One call becomes another and nothing that counts changes.
LEMMA QuietStep ==
    ASSUME TypeOK, WaitParts, NEW t \in Threads, NEW c, Becomes(t, c), Quiet,
           UNCHANGED accepted, FencesApart', Good(t, c), c.done \subseteq Jobs
    PROVE  WaitParts'
<1>1. th'[t] = c /\ \A s \in Threads : s # t => th'[s] = th[s]
  BY BecomesFields
<1>2. ASSUME NEW u \in Threads PROVE Good(u, th[u])'
  <2>1. PICK d : d = th'[u]
    OBVIOUS
  <2>2. Good(u, d) /\ d.done \subseteq Jobs /\ owed[u] \subseteq Jobs
    BY <1>1, <2>1, ThreadType DEF WaitParts, TypeOK
  <2>3. Good(u, d)'
    BY <2>2, QuietGood
  <2> QED
    BY <2>1, <2>3
<1>3. Tracked'
  <2>1. \A j \in Jobs : NotDone(j) => NotDone(j)'
    BY DEF Quiet, NotDone
  <2>2. \A q \in Queues : accepted[q] \subseteq Jobs
    BY DEF TypeOK
  <2> QED
    BY <2>1, <2>2 DEF WaitParts, Tracked, Quiet
<1> QED
  BY <1>2, <1>3 DEF WaitParts

-----------------------------------------------------------------------------
(* Steps inside calls that change no job and nothing that is tracked.      *)

\* The fields of a call about to return.
LEMMA ReturningFields ==
    ASSUME TypeOK, NEW t \in Threads, NEW r \in Result
    PROVE  /\ Returning(t, r).pc = "ret" /\ Returning(t, r).result = r
           /\ Returning(t, r).op = th[t].op /\ Returning(t, r).q = th[t].q
           /\ Returning(t, r).f = th[t].f /\ Returning(t, r).done = {}
BY EmptyRecords DEF Returning, NoCall

\* A call may return at any time, but only with nothing owed when a wait succeeds.
LEMMA GoodReturning ==
    ASSUME TypeOK, NEW t \in Threads, NEW r \in Result, Good(t, th[t]), th[t].pc # "idle",
           r = "SUCCESS" /\ th[t].op \in {"synchronize", "fence"} => owed[t] = {}
    PROVE  Good(t, Returning(t, r)) /\ Returning(t, r).done \subseteq Jobs
<1> DEFINE c == Returning(t, r)
<1>1. /\ c.pc = "ret" /\ c.result = r /\ c.op = th[t].op
      /\ c.q = th[t].q /\ c.f = th[t].f /\ c.done = {}
  BY ReturningFields
<1> HIDE DEF c
<1>2. CallBy(t, c)
  BY <1>1 DEF Good, CallBy, Executing, Waits
<1>3. FenceReady(c) /\ WaitKnows(c) /\ OwedKnown(t, c)
  BY <1>1 DEF Good, FenceReady, WaitKnows, OwedKnown, Executing, Waits
<1> QED
  BY <1>1, <1>2, <1>3 DEF Good, c

\* A quiet step ends the call of t with an error, or with nothing owed.
LEMMA ReturnsQuietly ==
    ASSUME TypeOK, WaitParts, NEW t \in Threads, NEW r \in Result, Becomes(t, Returning(t, r)),
           th[t].pc # "idle", Quiet, UNCHANGED accepted,
           r = "SUCCESS" /\ th[t].op \in {"synchronize", "fence"} => owed[t] = {}
    PROVE  WaitParts'
<1> DEFINE c == Returning(t, r)
<1>1. Good(t, c) /\ c.done \subseteq Jobs
  BY GoodReturning DEF WaitParts
<1>2. ~Executing(c) /\ ~Waits(c)
  BY ReturningFields DEF Executing, Waits
<1> HIDE DEF c
<1>3. FencesApart'
  BY <1>2, FencesStayApart DEF c
<1> QED
  BY <1>1, <1>3, QuietStep DEF c

\* A quiet step of an execution of lists.
LEMMA ExecutesQuietly ==
    ASSUME TypeOK, WaitParts, NEW t \in Threads, NEW c, Becomes(t, c), Quiet, UNCHANGED accepted,
           Executing(th[t]), Executing(c), c.op = th[t].op, c.f = th[t].f, c.q = th[t].q,
           c.done \subseteq Jobs
    PROVE  WaitParts'
<1>1. Good(t, th[t])
  BY DEF WaitParts
<1>2. CallBy(t, c)
  BY <1>1 DEF Good, CallBy, Executing, Waits
<1>3. FenceReady(c)
  BY <1>1 DEF Good, FenceReady, OwnFence
<1>4. WaitKnows(c) /\ OwedKnown(t, c)
  BY <1>1 DEF Good, WaitKnows, OwedKnown, Executing, Waits
<1>5. ~Waits(c)
  BY DEF Executing, Waits
<1>6. FencesApart'
  BY <1>5, FencesStayApart
<1> QED
  BY <1>2, <1>3, <1>4, <1>6, QuietStep DEF Good

\* The steps of executeCommandLists up to the ioctl are quiet.
LEMMA LoopSteps ==
    ASSUME TypeOK, Held, WaitParts, NEW t \in Threads,
           \/ \E j \in Jobs : SkipEmpty(t, j) \/ UpdateOnSubmit(t, j)
           \/ AddPreemptionBuffer(t) \/ StripInOrder(t) \/ SubmitFails(t)
    PROVE  WaitParts'
<1> USE DEF cacheVars, queueVars, fenceVars
<1>0. th[t] \in Call /\ th[t].done \subseteq Jobs
  BY ThreadType
<1>1. ASSUME NEW j \in Jobs, SkipEmpty(t, j) PROVE WaitParts'
  <2> DEFINE c == [th[t] EXCEPT !.todo = @ \ {j}]
  <2>1. c.pc = "next" /\ c.op = th[t].op /\ c.f = th[t].f /\ c.q = th[t].q /\ c.done = th[t].done
    BY <1>0, <1>1 DEF Call, SkipEmpty
  <2>2. Becomes(t, c) /\ th[t].pc = "next" /\ Quiet /\ UNCHANGED accepted
    BY <1>1 DEF SkipEmpty, Quiet
  <2> HIDE DEF c
  <2> QED
    BY <1>0, <2>1, <2>2, ExecutesQuietly DEF Executing
<1>2. ASSUME NEW j \in Jobs, UpdateOnSubmit(t, j) PROVE WaitParts'
  <2> DEFINE c == [th[t] EXCEPT !.pc = "attach", !.cur = j, !.todo = @ \ {j}]
  <2>1. c.pc = "attach" /\ c.op = th[t].op /\ c.f = th[t].f /\ c.q = th[t].q /\ c.done = th[t].done
    BY <1>0 DEF Call
  <2>2. th[t].pc = "next" /\ UNCHANGED <<owed, tracked, fences, fenceJobs, signaled, accepted>>
    BY <1>2 DEF UpdateOnSubmit
  <2>3. \A i \in Jobs : cb'[i].status = cb[i].status
    <3>1. ASSUME NEW b \in ScratchBufs, NEW i \in Jobs,
                 cb' = [cb EXCEPT ![j] = [@ EXCEPT !.scratch = b, !.patched = b]]
          PROVE  cb'[i].status = cb[i].status
      BY <3>1, JobType DEF TypeOK, CommandBuffer
    <3>2. ASSUME NEW i \in Jobs, cb' = [cb EXCEPT ![j].scratch = NoBuf]
          PROVE  cb'[i].status = cb[i].status
      BY <3>2, JobType DEF TypeOK, CommandBuffer
    <3> QED
      BY <1>2, <3>1, <3>2 DEF UpdateOnSubmit
  <2>4. \A i \in Jobs : run'[i].on = run[i].on /\ run'[i].status = run[i].status
    <3>1. ASSUME NEW b \in ScratchBufs, NEW i \in Jobs,
                 run' = [run EXCEPT ![j].scratch = IF run[j].on THEN @ \cup {b} ELSE @]
          PROVE  run'[i].on = run[i].on /\ run'[i].status = run[i].status
      BY <3>1, JobType DEF Submission, TypeOK
    <3> QED
      BY <1>2, <3>1 DEF UpdateOnSubmit
  <2>5. Quiet
    BY <2>2, <2>3, <2>4 DEF Quiet
  <2>6. Becomes(t, c) \/ Becomes(t, Returning(t, "ERROR"))
    BY <1>2 DEF UpdateOnSubmit
  <2> HIDE DEF c
  <2> QED
    BY <1>0, <2>1, <2>2, <2>5, <2>6, ExecutesQuietly, ReturnsQuietly DEF Executing, Result
<1>3. ASSUME AddPreemptionBuffer(t) PROVE WaitParts'
  <2> DEFINE c == [th[t] EXCEPT !.pc = "submit"]
             j == th[t].cur
  <2>1. c.pc = "submit" /\ c.op = th[t].op /\ c.f = th[t].f /\ c.q = th[t].q /\ c.done = th[t].done
    BY <1>0 DEF Call
  <2>2. \A i \in Jobs : cb'[i].status = cb[i].status
    <3>1. ASSUME NEW i \in Jobs, NEW b, cb' = [cb EXCEPT ![j].preempt = b]
          PROVE  cb'[i].status = cb[i].status
      BY <3>1, JobType DEF TypeOK, CommandBuffer
    <3> QED
      BY <1>3, <3>1 DEF AddPreemptionBuffer
  <2>3. Becomes(t, c) /\ th[t].pc = "attach" /\ Quiet /\ UNCHANGED accepted
    BY <1>3, <2>2 DEF AddPreemptionBuffer, Quiet
  <2> HIDE DEF c
  <2> QED
    BY <1>0, <2>1, <2>3, ExecutesQuietly DEF Executing
<1>4. ASSUME StripInOrder(t) PROVE WaitParts'
  <2> DEFINE c == [th[t] EXCEPT !.pc = "ioctl"]
  <2>1. c.pc = "ioctl" /\ c.op = th[t].op /\ c.f = th[t].f /\ c.q = th[t].q /\ c.done = th[t].done
    BY <1>0 DEF Call
  <2>2. UNCHANGED cb
    BY <1>4, ThreadType DEF StripInOrder, Held
  <2>3. Becomes(t, c) /\ th[t].pc = "submit" /\ Quiet /\ UNCHANGED accepted
    BY <1>4, <2>2 DEF StripInOrder, Quiet
  <2> HIDE DEF c
  <2> QED
    BY <1>0, <2>1, <2>3, ExecutesQuietly DEF Executing
<1>5. ASSUME SubmitFails(t) PROVE WaitParts'
  BY <1>5, ReturnsQuietly DEF SubmitFails, Result, Quiet
<1> QED
  BY <1>1, <1>2, <1>3, <1>4, <1>5

\* The steps of the loop over fences, and waiting without success, are quiet as well.
LEMMA WaitSteps ==
    ASSUME TypeOK, Shapes, WaitParts, NEW t \in Threads,
           \/ \E f \in Fences : NextFence(t, f)
           \/ NextTracked(t) \/ WaitTimesOut(t) \/ PutBackPreemptionBuffer(t)
    PROVE  WaitParts'
<1> USE DEF cacheVars, queueVars, fenceVars
<1>0. th[t] \in Call /\ th[t].done \subseteq Jobs /\ Good(t, th[t]) /\ Shape(th[t])
  BY ThreadType DEF WaitParts, Shapes
<1>1. ASSUME NEW f \in Fences, NextFence(t, f), fenceJobs[f] = {} PROVE WaitParts'
  <2> DEFINE c == [th[t] EXCEPT !.fencesLeft = @ \ {f}]
  <2>1. /\ c.pc = "sync" /\ c.op = th[t].op /\ c.f = th[t].f /\ c.q = th[t].q
        /\ c.done = th[t].done /\ c.fencesLeft = th[t].fencesLeft \ {f}
    BY <1>0, <1>1 DEF Call, NextFence
  <2>2. Becomes(t, c) /\ th[t].pc = "sync" /\ Quiet /\ UNCHANGED accepted
    BY <1>1 DEF NextFence, Quiet
  <2> HIDE DEF c
  <2>3. \A j : Left(th[t], j) => Left(c, j)
    BY <1>1, <2>1 DEF Left
  <2>4. Good(t, c)
    BY <1>0, <2>1, <2>2, <2>3
    DEF Good, CallBy, FenceReady, WaitKnows, OwedKnown, Executing, Waits
  <2>5. FencesApart'
    BY <2>1, <2>2, FencesStayApart DEF Executing, Waits
  <2> QED
    BY <1>0, <2>1, <2>2, <2>4, <2>5, QuietStep
<1>2. ASSUME NEW f \in Fences, NextFence(t, f), fenceJobs[f] # {} PROVE WaitParts'
  <2> DEFINE c == [th[t] EXCEPT !.fencesLeft = @ \ {f}, !.pc = "wait", !.f = f,
                                !.waitLeft = fenceJobs[f]]
  <2>1. /\ c.pc = "wait" /\ c.op = th[t].op /\ c.f = f /\ c.q = th[t].q
        /\ c.done = th[t].done /\ c.fencesLeft = th[t].fencesLeft \ {f}
        /\ c.waitLeft = fenceJobs[f]
    BY <1>0 DEF Call
  <2>2. Becomes(t, c) /\ th[t].pc = "sync" /\ Quiet /\ UNCHANGED accepted
    BY <1>2 DEF NextFence, Quiet
  <2>3. FenceQueue[f] = th[t].q /\ th[t].done = {}
    BY <1>0, <1>2, <2>2 DEF NextFence, Shape
  <2> HIDE DEF c
  <2>4. f # NoFence
    OBVIOUS
  <2>5. th[t].op # "fence"
    BY <1>0, <2>2 DEF Good, CallBy
  <2>6. \A j : Left(th[t], j) => j \in Awaited(c) \/ Left(c, j)
    BY <2>1, <2>4 DEF Left, Awaited
  <2>7. CallBy(t, c)
    BY <1>0, <2>1, <2>2, <2>3, <2>5 DEF Good, CallBy, Executing, Waits, OwnFence
  <2>8. WaitKnows(c)
    BY <2>1, <2>3, <2>4 DEF WaitKnows, Awaited
  <2>9. FenceReady(c) /\ OwedKnown(t, c)
    BY <1>0, <2>1, <2>2, <2>4, <2>5, <2>6 DEF Good, FenceReady, OwedKnown, Executing, Waits
  <2>10. FencesApart'
    BY <1>2, <2>1, <2>2, FencesStayApart DEF Executing
  <2> QED
    BY <1>0, <2>1, <2>2, <2>7, <2>8, <2>9, <2>10, QuietStep DEF Good
<1>3. ASSUME NextTracked(t) PROVE WaitParts'
  <2> DEFINE c == [th[t] EXCEPT !.pc = "wait", !.f = NoFence, !.waitLeft = tracked[th[t].q]]
  <2>1. /\ c.pc = "wait" /\ c.op = th[t].op /\ c.f = NoFence /\ c.q = th[t].q
        /\ c.done = th[t].done /\ c.waitLeft = tracked[th[t].q]
    BY <1>0 DEF Call
  <2>2. Becomes(t, c) /\ th[t].pc = "sync" /\ th[t].fencesLeft = {} /\ Quiet /\ UNCHANGED accepted
    BY <1>3 DEF NextTracked, Quiet
  <2>3. th[t].done = {} /\ th[t].op # "fence"
    BY <1>0, <2>2 DEF Good, CallBy, Shape
  <2> HIDE DEF c
  <2>4. CallBy(t, c)
    BY <1>0, <2>1, <2>2, <2>3 DEF Good, CallBy, Executing, Waits
  <2>5. WaitKnows(c)
    BY <2>1, <2>3 DEF WaitKnows, Awaited
  <2>6. FenceReady(c) /\ OwedKnown(t, c)
    BY <1>0, <2>1, <2>2, <2>3 DEF Good, FenceReady, OwedKnown, Executing, Waits, Left, Awaited
  <2>7. FencesApart'
    BY <2>1, <2>2, FencesStayApart DEF Executing
  <2> QED
    BY <1>0, <2>1, <2>2, <2>4, <2>5, <2>6, <2>7, QuietStep DEF Good
<1>4. ASSUME WaitTimesOut(t) PROVE WaitParts'
  BY <1>4, ReturnsQuietly DEF WaitTimesOut, Result, Quiet
<1>5. ASSUME PutBackPreemptionBuffer(t) PROVE WaitParts'
  <2> DEFINE c == [th[t] EXCEPT !.pc = "waited"]
  <2>1. /\ c.pc = "waited" /\ c.op = th[t].op /\ c.f = th[t].f /\ c.q = th[t].q
        /\ c.done = th[t].done /\ c.fencesLeft = th[t].fencesLeft
    BY <1>0 DEF Call
  <2>2. Becomes(t, c) /\ th[t].pc = "wait" /\ th[t].waitLeft = {} /\ Quiet /\ UNCHANGED accepted
    BY <1>5 DEF PutBackPreemptionBuffer, Quiet
  <2> HIDE DEF c
  <2>3. Awaited(c) = Awaited(th[t]) /\ \A j : Left(c, j) <=> Left(th[t], j)
    BY <2>1 DEF Awaited, Left
  <2>4. CallBy(t, c)
    BY <1>0, <2>1, <2>2 DEF Good, CallBy, Executing, Waits, OwnFence
  <2>5. WaitKnows(c)
    BY <1>0, <2>1, <2>2, <2>3 DEF Good, WaitKnows, Waits
  <2>6. FenceReady(c) /\ OwedKnown(t, c)
    BY <1>0, <2>1, <2>2, <2>3 DEF Good, FenceReady, OwedKnown, Executing, Waits
  <2>7. FencesApart'
    BY <2>1, <2>2, FencesStayApart DEF Executing, Waits
  <2> QED
    BY <1>0, <2>1, <2>2, <2>4, <2>5, <2>6, <2>7, QuietStep DEF Good
<1> QED
  BY <1>1, <1>2, <1>3, <1>4, <1>5

-----------------------------------------------------------------------------
(* Calls that begin, and the entry of synchronize.                         *)

\* A call begins to submit: its fence, if any, is ready for it and used by no other.
LEMMA ExecuteGood ==
    ASSUME TypeOK, WaitParts, NEW t \in Threads, NEW q \in Queues, NEW lists \in SUBSET Jobs,
           NEW f \in Fences \cup {NoFence}, Execute(t, q, lists, f)
    PROVE  WaitParts'
<1> USE DEF cacheVars, queueVars, fenceVars
<1> DEFINE c == [NoCall EXCEPT !.pc = "next", !.op = "execute", !.q = q, !.f = f, !.todo = lists]
<1>1. c.pc = "next" /\ c.op = "execute" /\ c.q = q /\ c.f = f /\ c.done = {}
  BY EmptyRecords DEF NoCall
<1>2. /\ th[t].pc = "idle" /\ q \in MayUse[t] /\ Becomes(t, c) /\ Quiet /\ UNCHANGED accepted
      /\ f # NoFence => MayPassFence(f)
  BY DEF Execute, Quiet
<1> HIDE DEF c
<1>3. th'[t] = c /\ \A s \in Threads : s # t => th'[s] = th[s]
  BY <1>2, BecomesFields
<1>4. f \in Fences => /\ f \in fences /\ ~signaled[f] /\ fenceJobs[f] = {}
                      /\ \A s \in Threads : th[s].pc # "idle" => th[s].f # f
  BY <1>2 DEF MayPassFence
<1>5. CallBy(t, c) /\ FenceReady(c) /\ WaitKnows(c)
  BY <1>1, <1>2, <1>4 DEF CallBy, FenceReady, WaitKnows, Executing, Waits, OwnFence
<1>6. OwedKnown(t, c)
  BY <1>1 DEF WaitParts, Good, OwedKnown, Waits
<1>7. FencesApart'
  <2> SUFFICES ASSUME NEW s \in Threads, NEW u \in Threads, s # u, Executing(th'[u]),
                      OwnFence(th'[u]), th'[s].f = th'[u].f
               PROVE  ~Waits(th'[s]) /\ ~Executing(th'[s])
    BY DEF FencesApart, Executing, Waits, OwnFence
  <2>1. CASE u = t
    <3>1. f \in Fences /\ th[s].f = f /\ th'[s] = th[s]
      BY <1>1, <1>3, <2>1 DEF OwnFence
    <3> QED
      BY <1>4, <3>1 DEF Waits, Executing
  <2>2. CASE s = t
    <3>1. u # t /\ th'[u] = th[u] /\ th[u].f = f /\ f \in Fences /\ th[u].pc # "idle"
      BY <1>1, <1>3, <2>2 DEF OwnFence, Executing
    <3> QED
      BY <1>4, <3>1
  <2>3. CASE s # t /\ u # t
    BY <1>3, <2>3 DEF WaitParts, FencesApart
  <2> QED
    BY <2>1, <2>2, <2>3
<1> QED
  BY <1>1, <1>2, <1>5, <1>6, <1>7, QuietStep DEF Good

\* A wait begins for the queue, or its destructor does.
LEMMA EnterGood ==
    ASSUME TypeOK, WaitParts, NEW t \in Threads, NEW q \in Queues, Synchronize(t, q) \/ DestroyQueue(t, q)
    PROVE  WaitParts'
<1> USE DEF cacheVars, queueVars, fenceVars
<1> DEFINE c == [NoCall EXCEPT !.pc = "enter", !.op = "synchronize", !.q = q]
           d == [NoCall EXCEPT !.pc = "enter", !.op = "destroy", !.q = q]
<1>1. c.pc = "enter" /\ c.op = "synchronize" /\ c.q = q /\ c.done = {} /\ c.f = NoFence
  BY EmptyRecords DEF NoCall
<1>2. d.pc = "enter" /\ d.op = "destroy" /\ d.q = q /\ d.done = {} /\ d.f = NoFence
  BY EmptyRecords DEF NoCall
<1>3. q \in MayUse[t] /\ Quiet /\ UNCHANGED accepted /\ (Becomes(t, c) \/ Becomes(t, d))
  BY DEF Synchronize, DestroyQueue, Quiet
<1> HIDE DEF c, d
<1>4. PICK e \in {c, d} : Becomes(t, e)
  BY <1>3
<1>5. e.pc = "enter" /\ e.op \in {"synchronize", "destroy"} /\ e.q = q /\ e.done = {}
  BY <1>1, <1>2, <1>4
<1>6. CallBy(t, e) /\ FenceReady(e) /\ WaitKnows(e)
  BY <1>3, <1>5 DEF CallBy, FenceReady, WaitKnows, Executing, Waits
<1>7. OwedKnown(t, e)
  BY <1>5 DEF WaitParts, Good, OwedKnown, Waits
<1>8. FencesApart'
  BY <1>4, <1>5, FencesStayApart DEF Executing, Waits
<1> QED
  BY <1>3, <1>4, <1>5, <1>6, <1>7, <1>8, QuietStep DEF Good

\* Only the thread's own call and what it owes change.
LEMMA OwedStep ==
    ASSUME TypeOK, WaitParts, NEW t \in Threads, NEW c, Becomes(t, c),
           UNCHANGED <<tracked, fences, fenceJobs, signaled, accepted, cb, run>>,
           \A u \in Threads : u # t => owed'[u] = owed[u],
           ~Executing(c), c.f # NoFence /\ Waits(c) => c.f \in Fences /\ fenceJobs[c.f] # {},
           Good(t, c)'
    PROVE  WaitParts'
<1>1. th'[t] = c /\ \A s \in Threads : s # t => th'[s] = th[s]
  BY BecomesFields
<1>2. FencesApart'
  BY FencesStayApart
<1>3. ASSUME NEW u \in Threads, u # t PROVE Good(u, th[u])'
  <2>1. PICK d : d = th'[u]
    OBVIOUS
  <2>2. Good(u, d) /\ owed'[u] = owed[u]
    BY <1>1, <1>3, <2>1 DEF WaitParts
  <2>3. CallBy(u, d)' /\ FenceReady(d)' /\ WaitKnows(d)'
    BY <2>2 DEF Good, CallBy, FenceReady, WaitKnows, Awaited, Executing, Waits, OwnFence
  <2>4. OwedKnown(u, d)'
    BY <2>2 DEF Good, OwedKnown, Awaited, Left, Waits, NotDone
  <2> QED
    BY <2>1, <2>3, <2>4 DEF Good
<1>4. Good(t, th[t])'
  BY <1>1
<1>5. Tracked'
  BY DEF WaitParts, Tracked, NotDone
<1> QED
  BY <1>2, <1>3, <1>4, <1>5 DEF WaitParts

\* synchronize owes the accepted jobs of its queue: its fences and the queue track them.
LEMMA EnterSynchronizeGood ==
    ASSUME TypeOK, Shapes, WaitParts, NEW t \in Threads, EnterSynchronize(t)
    PROVE  WaitParts'
<1> USE DEF cacheVars, queueVars, fenceVars
<1> DEFINE q  == th[t].q
           fs == {f \in fences : FenceQueue[f] = q}
           c  == [th[t] EXCEPT !.pc = "sync", !.fencesLeft = fs]
           d  == Returning(t, "SUCCESS")
<1>0. th[t] \in Call /\ Good(t, th[t]) /\ th[t].pc = "enter" /\ th[t].done = {} /\ q \in Queues
  BY ThreadType DEF WaitParts, Shapes, Shape, EnterSynchronize
<1>1. /\ owed' = [owed EXCEPT ![t] = accepted[q]]
      /\ UNCHANGED <<tracked, fences, fenceJobs, signaled, accepted, cb, run>>
  BY DEF EnterSynchronize
<1>2. owed'[t] = accepted[q] /\ \A u \in Threads : u # t => owed'[u] = owed[u]
  BY <1>1 DEF TypeOK
<1>3. \A j \in accepted[q] : NotDone(j) /\ NotDone(j)'
  BY <1>0, <1>1 DEF WaitParts, Tracked, NotDone
<1>4. ASSUME tracked[q] = {}, fs = {}, Becomes(t, d) PROVE WaitParts'
  <2>1. accepted[q] = {}
    BY <1>0, <1>4 DEF WaitParts, Tracked
  <2>2. PICK e : e = d
    OBVIOUS
  <2>3. e.pc = "ret" /\ e.op = th[t].op /\ e.q = q /\ e.f = th[t].f
    BY <2>2, ReturningFields DEF Result
  <2> HIDE DEF d
  <2>4. CallBy(t, e)' /\ FenceReady(e)' /\ WaitKnows(e)'
    BY <1>0, <2>3 DEF Good, CallBy, FenceReady, WaitKnows, Executing, Waits
  <2>5. OwedKnown(t, e)'
    BY <1>2, <2>1, <2>3 DEF OwedKnown, Waits
  <2> QED
    BY <1>1, <1>2, <1>4, <2>2, <2>3, <2>4, <2>5, OwedStep DEF Good, Executing, Waits
<1>5. ASSUME Becomes(t, c) PROVE WaitParts'
  <2>1. PICK e : e = c
    OBVIOUS
  <2>2. e.pc = "sync" /\ e.op = th[t].op /\ e.q = q /\ e.f = th[t].f /\ e.fencesLeft = fs
    BY <1>0, <2>1 DEF Call
  <2> HIDE DEF c
  <2>3. \A j \in accepted[q] : Left(e, j)
    BY <1>0, <2>2 DEF WaitParts, Tracked, Left
  <2>4. \A j \in accepted[q] : Left(e, j)'
    BY <1>1, <2>3 DEF Left
  <2>5. CallBy(t, e)' /\ FenceReady(e)' /\ WaitKnows(e)'
    BY <1>0, <2>2 DEF Good, CallBy, FenceReady, WaitKnows, Executing, Waits
  <2>6. OwedKnown(t, e)'
    BY <1>2, <1>3, <2>2, <2>4 DEF OwedKnown, Waits
  <2> QED
    BY <1>1, <1>2, <1>5, <2>1, <2>2, <2>5, <2>6, OwedStep DEF Good, Executing, Waits
<1> QED
  BY <1>4, <1>5 DEF EnterSynchronize

\* Fence::synchronize owes the accepted jobs of its fence.
LEMMA FenceSynchronizeGood ==
    ASSUME TypeOK, WaitParts, NEW t \in Threads, NEW f \in Fences, FenceSynchronize(t, f)
    PROVE  WaitParts'
<1> USE DEF cacheVars, queueVars, fenceVars
<1> DEFINE q == FenceQueue[f]
           call == [NoCall EXCEPT !.op = "fence", !.q = q, !.f = f]
           c == [call EXCEPT !.pc = "ret"]
           d == [call EXCEPT !.pc = "ret", !.result = "NOT_READY"]
           e == [call EXCEPT !.pc = "wait", !.waitLeft = fenceJobs[f]]
<1>0. q \in Queues /\ f # NoFence /\ f \in fences
  BY DEF FenceSynchronize
<1>1. /\ owed' = [owed EXCEPT ![t] = fenceJobs[f] \cap accepted[q]]
      /\ UNCHANGED <<tracked, fences, fenceJobs, signaled, accepted, cb, run>>
  BY DEF FenceSynchronize
<1>2. /\ owed'[t] = fenceJobs[f] \cap accepted[q]
      /\ \A u \in Threads : u # t => owed'[u] = owed[u]
  BY <1>1 DEF TypeOK
<1>3. \A j \in accepted[q] : NotDone(j)'
  BY <1>0, <1>1 DEF WaitParts, Tracked, NotDone
<1>4. signaled[f] => fenceJobs[f] = {}
  BY DEF WaitParts, Tracked
<1>5. c.pc = "ret" /\ c.op = "fence" /\ c.q = q /\ c.f = f
  BY EmptyRecords DEF NoCall
<1>6. d.pc = "ret" /\ d.op = "fence" /\ d.q = q /\ d.f = f /\ d.result = "NOT_READY"
  BY EmptyRecords DEF NoCall
<1>7. /\ e.pc = "wait" /\ e.op = "fence" /\ e.q = q /\ e.f = f /\ e.done = {}
      /\ e.waitLeft = fenceJobs[f]
  BY EmptyRecords DEF NoCall
<1>8. \/ signaled[f] /\ Becomes(t, c)
      \/ Becomes(t, d)
      \/ fenceJobs[f] # {} /\ Becomes(t, e)
  BY DEF FenceSynchronize
<1> HIDE DEF c, d, e
<1>9. ASSUME signaled[f], Becomes(t, c) PROVE WaitParts'
  <2>1. Good(t, c)'
    BY <1>2, <1>4, <1>5, <1>9 DEF Good, CallBy, FenceReady, WaitKnows, OwedKnown, Executing, Waits
  <2> QED
    BY <1>1, <1>2, <1>5, <1>9, <2>1, OwedStep DEF Executing, Waits
<1>10. ASSUME Becomes(t, d) PROVE WaitParts'
  <2>1. Good(t, d)'
    BY <1>2, <1>3, <1>6 DEF Good, CallBy, FenceReady, WaitKnows, OwedKnown, Executing, Waits
  <2> QED
    BY <1>1, <1>2, <1>6, <1>10, <2>1, OwedStep DEF Executing, Waits
<1>11. ASSUME fenceJobs[f] # {}, Becomes(t, e) PROVE WaitParts'
  <2>1. PICK k : k = e
    OBVIOUS
  <2>2. Awaited(k)' = fenceJobs[f]
    BY <1>0, <1>1, <1>7, <2>1 DEF Awaited
  <2>3. CallBy(t, k)' /\ FenceReady(k)'
    BY <1>7, <2>1 DEF CallBy, FenceReady, Executing, Waits, OwnFence
  <2>4. WaitKnows(k)' /\ OwedKnown(t, k)'
    BY <1>2, <1>3, <1>7, <2>1, <2>2 DEF WaitKnows, OwedKnown, Waits
  <2> QED
    BY <1>1, <1>2, <1>7, <1>11, <2>1, <2>3, <2>4, OwedStep DEF Good, Executing, Waits
<1> QED
  BY <1>8, <1>9, <1>10, <1>11

-----------------------------------------------------------------------------
(* Submissions, completions and their tracking.                            *)

\* A submitted job is owed by nobody, and nobody has waited for its new end.
LEMMA SubmitGood ==
    ASSUME TypeOK, Apart, WaitParts, NEW t \in Threads, SubmitIoctl(t)
    PROVE  WaitParts'
<1> USE DEF cacheVars, queueVars, fenceVars
<1> DEFINE j == th[t].cur
           c == [th[t] EXCEPT !.pc = "next", !.cur = NoJob, !.done = @ \cup {j}]
<1>1. /\ th[t].pc = "ioctl" /\ j \in Jobs /\ j \in InHand(t) /\ Becomes(t, c)
      /\ UNCHANGED <<tracked, fences, fenceJobs, signaled>>
  BY ThreadType DEF SubmitIoctl, InHand
<1>2. /\ c.pc = "next" /\ c.op = th[t].op /\ c.q = th[t].q /\ c.f = th[t].f
  BY ThreadType DEF Call
<1>3. \A i \in Jobs : i # j => run'[i] = run[i]
  BY DEF SubmitIoctl, TypeOK
<1>4. \A i \in Jobs : cb'[i].status = cb[i].status
  BY <1>1, JobType DEF SubmitIoctl, TypeOK, CommandBuffer
<1>5. /\ \A u \in Threads : owed'[u] = owed[u] \ {j}
      /\ \A p \in Queues : accepted'[p] = accepted[p] \ {j}
  BY DEF SubmitIoctl
<1>6. \A i \in Jobs \ {j} : NotDone(i) => NotDone(i)'
  BY <1>3 DEF NotDone
<1> HIDE DEF c
<1>7. th'[t] = c /\ \A s \in Threads : s # t => th'[s] = th[s]
  BY <1>1, BecomesFields
<1>8. Tracked'
  <2>1. \A p \in Queues : accepted[p] \subseteq Jobs
    BY DEF TypeOK
  <2> QED
    BY <1>1, <1>5, <1>6, <2>1 DEF WaitParts, Tracked
<1>9. FencesApart'
  BY <1>1, <1>2, FencesStayApart DEF Executing, Waits
<1>10. ASSUME NEW u \in Threads PROVE Good(u, th[u])'
  <2>1. PICK d : d = th'[u]
    OBVIOUS
  <2>2. \A i \in owed'[u] : NotDone(i)'
    BY <1>5, <1>6 DEF WaitParts, Good, OwedKnown, TypeOK
  <2>3. CASE u # t
    <3>1. Good(u, d) /\ d = th[u] /\ d.done \subseteq Jobs
      BY <1>7, <2>1, <2>3, ThreadType DEF WaitParts
    <3>2. j \notin d.done
      BY <1>1, <2>3, <3>1 DEF Apart, Reach
    <3>3. FenceReady(d)'
      BY <1>1, <3>1 DEF Good, FenceReady
    <3>4. Waits(d) => \A i \in d.done : cb'[i].status = run'[i].status
      BY <1>3, <1>4, <3>1, <3>2 DEF Good, WaitKnows
    <3>5. Awaited(d)' = Awaited(d) /\ \A i : Left(d, i) => Left(d, i)'
      BY <1>1 DEF Awaited, Left
    <3> QED
      BY <1>5, <2>1, <2>2, <3>1, <3>3, <3>4, <3>5, GoodKeeps
  <2>4. CASE u = t
    <3>1. Good(t, th[t]) /\ d.pc = "next" /\ d.op = th[t].op /\ d.q = th[t].q /\ d.f = th[t].f
      BY <1>2, <1>7, <2>1, <2>4 DEF WaitParts
    <3>2. CallBy(t, d)' /\ WaitKnows(d)'
      BY <1>1, <3>1 DEF Good, CallBy, WaitKnows, Executing, Waits
    <3>3. FenceReady(d)'
      BY <1>1, <3>1 DEF Good, FenceReady, Executing, OwnFence
    <3>4. OwedKnown(t, d)'
      BY <2>2, <2>4, <3>1 DEF OwedKnown, Waits
    <3> QED
      BY <2>1, <2>4, <3>2, <3>3, <3>4 DEF Good
  <2> QED
    BY <2>3, <2>4
<1> QED
  BY <1>8, <1>9, <1>10 DEF WaitParts

\* A job that completes well is owed no longer; one that fails still is.
LEMMA CompletesGood ==
    ASSUME TypeOK, Seen, WaitParts, NEW j \in Jobs, NEW status \in Outcomes, DeviceCompletes(j, status)
    PROVE  WaitParts'
<1> USE DEF cacheVars, queueVars, fenceVars
<1>1. UNCHANGED <<tracked, fences, fenceJobs, signaled, th, cb>> /\ run[j].on
  BY DEF DeviceCompletes
<1>2. run'[j].status = status /\ \A i \in Jobs : i # j => run'[i] = run[i]
  BY EmptyRecords DEF DeviceCompletes, NoSubmission, TypeOK
<1>3. status \in {"OK", "FAILED"}
  BY DEF Outcomes
<1>4. \A u \in Threads : owed'[u] \subseteq owed[u] /\ (status = "OK" => j \notin owed'[u])
  BY DEF DeviceCompletes
<1>5. \A p \in Queues : accepted'[p] \subseteq accepted[p] /\ (status = "OK" => j \notin accepted'[p])
  BY DEF DeviceCompletes
<1>6. ASSUME NEW i \in Jobs, NotDone(i), status = "OK" => i # j PROVE NotDone(i)'
  BY <1>2, <1>3, <1>6 DEF NotDone
<1>7. Tracked'
  <2>1. \A p \in Queues : accepted[p] \subseteq Jobs
    BY DEF TypeOK
  <2> QED
    BY <1>1, <1>5, <1>6, <2>1 DEF WaitParts, Tracked
<1>8. FencesApart'
  BY <1>1, SameThreadsApart DEF WaitParts
<1>9. ASSUME NEW u \in Threads PROVE Good(u, th[u])'
  <2>1. PICK d : d = th'[u]
    OBVIOUS
  <2>2. Good(u, d) /\ d = th[u] /\ d.done \subseteq Jobs /\ owed[u] \subseteq Jobs
    BY <1>1, <2>1, ThreadType DEF WaitParts, TypeOK
  <2>3. \A i \in owed'[u] : NotDone(i)'
    BY <1>4, <1>6, <2>2 DEF Good, OwedKnown
  <2>4. Waits(d) => j \notin d.done
    BY <1>1, <2>2 DEF Seen, Waits
  <2>5. Waits(d) => \A i \in d.done : cb'[i].status = run'[i].status
    BY <1>1, <1>2, <2>2, <2>4 DEF Good, WaitKnows
  <2>6. FenceReady(d)'
    BY <1>1, <2>2 DEF Good, FenceReady
  <2>7. Awaited(d)' = Awaited(d) /\ \A i : Left(d, i) => Left(d, i)'
    BY <1>1 DEF Awaited, Left
  <2> QED
    BY <1>4, <2>1, <2>2, <2>3, <2>5, <2>6, <2>7, GoodKeeps
<1> QED
  BY <1>7, <1>8, <1>9 DEF WaitParts

\* Waiting for a job takes over its last status.
LEMMA WaitForCompletionGood ==
    ASSUME TypeOK, WaitParts, NEW t \in Threads, NEW j \in Jobs, WaitForCompletion(t, j)
    PROVE  WaitParts'
<1> USE DEF cacheVars, queueVars, fenceVars
<1> DEFINE c == [th[t] EXCEPT !.waitLeft = @ \ {j}, !.done = @ \cup {j}]
<1>1. /\ th[t].pc = "wait" /\ j \in th[t].waitLeft /\ Becomes(t, c)
      /\ UNCHANGED <<tracked, fences, fenceJobs, signaled, run, accepted, owed>>
  BY DEF WaitForCompletion
<1>2. /\ c.pc = "wait" /\ c.op = th[t].op /\ c.q = th[t].q /\ c.f = th[t].f
      /\ c.fencesLeft = th[t].fencesLeft /\ c.waitLeft = th[t].waitLeft \ {j}
      /\ c.done = th[t].done \cup {j}
  BY <1>1, ThreadType DEF Call
<1>3. cb'[j].status = run[j].status /\ \A i \in Jobs : i # j => cb'[i] = cb[i]
  BY JobType DEF WaitForCompletion, Completed, TypeOK, CommandBuffer
<1> HIDE DEF c
<1>4. th'[t] = c /\ \A s \in Threads : s # t => th'[s] = th[s]
  BY <1>1, BecomesFields
<1>5. Tracked'
  BY <1>1 DEF WaitParts, Tracked, NotDone
<1>6. FencesApart'
  BY <1>1, <1>2, FencesStayApart DEF Executing, Waits
<1>7. ASSUME NEW u \in Threads PROVE Good(u, th[u])'
  <2>1. PICK d : d = th'[u]
    OBVIOUS
  <2>2. Good(u, th[u]) /\ th[u].done \subseteq Jobs
    BY ThreadType DEF WaitParts
  <2>3. /\ d.pc = th[u].pc /\ d.op = th[u].op /\ d.q = th[u].q /\ d.f = th[u].f
        /\ d.fencesLeft = th[u].fencesLeft /\ d.done \subseteq th[u].done \cup {j}
        /\ th[u].waitLeft \cup th[u].done \subseteq d.waitLeft \cup d.done
        /\ th[u].done \subseteq d.done /\ d.result = th[u].result
    <3>1. c.result = th[t].result
      BY ThreadType DEF Call, c
    <3> QED
      BY <1>1, <1>2, <1>4, <2>1, <3>1
  <2>4. Awaited(d)' = Awaited(th[u]) /\ \A i : Left(th[u], i) => Left(d, i)'
    BY <1>1, <2>3 DEF Awaited, Left
  <2>5. CallBy(u, d)' /\ FenceReady(d)'
    BY <1>1, <2>2, <2>3 DEF Good, CallBy, FenceReady, Executing, Waits, OwnFence
  <2>6. Waits(d) => \A i \in d.done : cb'[i].status = run'[i].status
    BY <1>1, <1>3, <2>2, <2>3 DEF Good, WaitKnows, Waits
  <2>7. WaitKnows(d)'
    BY <2>2, <2>3, <2>4, <2>6 DEF Good, WaitKnows, Waits
  <2>8. OwedKnown(u, d)'
    BY <1>1, <2>2, <2>3, <2>4 DEF Good, OwedKnown, Waits, NotDone
  <2> QED
    BY <2>1, <2>5, <2>7, <2>8 DEF Good
<1> QED
  BY <1>5, <1>6, <1>7 DEF WaitParts

\* Lists are tracked where no wait is under way: by a fence that is ready for them, or
\* by a queue that no other thread uses.
LEMMA TrackJobsGood ==
    ASSUME TypeOK, Shapes, WaitParts, OneThreadPerQueue, NEW t \in Threads, TrackJobs(t)
    PROVE  WaitParts'
<1> USE DEF cacheVars, queueVars, fenceVars
<1> DEFINE q == th[t].q
           f == th[t].f
           foreign == f # NoFence /\ (f \notin fences \/ FenceQueue[f] # q)
           c == [th[t] EXCEPT !.pc = "enter", !.done = {}]
           d == Returning(t, "SUCCESS")
<1>0. th[t] \in Call /\ Good(t, th[t]) /\ th[t].pc = "next" /\ q \in Queues /\ f \in Fences \cup {NoFence}
  BY ThreadType DEF WaitParts, TrackJobs
<1>1. UNCHANGED <<fences, cb, run, owed>> /\ th[t].op = "execute" /\ q \in MayUse[t]
  BY <1>0 DEF TrackJobs, Good, CallBy, Executing
<1>2. CASE foreign
  BY <1>0, <1>1, <1>2, ReturnsQuietly DEF TrackJobs, Result, Quiet
<1>3. CASE ~foreign
  <2>1. PICK k : k = th'[t]
    OBVIOUS
  <2>2. Becomes(t, k) /\ k.pc \in {"enter", "ret"} /\ k.op = "execute" /\ k.q = q
    <3>1. c.pc = "enter" /\ c.op = th[t].op /\ c.q = q
      BY <1>0 DEF Call
    <3>2. d.pc = "ret" /\ d.op = th[t].op /\ d.q = q
      BY ReturningFields DEF Result
    <3>3. Becomes(t, c) \/ Becomes(t, d)
      BY <1>3 DEF TrackJobs
    <3> HIDE DEF c, d
    <3>4. \A e : Becomes(t, e) => th'[t] = e
      BY BecomesFields
    <3> QED
      BY <1>1, <2>1, <3>1, <3>2, <3>3, <3>4
  <2>3. \A s \in Threads : s # t => th'[s] = th[s]
    BY <2>2, BecomesFields
  <2>4. ASSUME f # NoFence
        PROVE  /\ f \in fences /\ FenceQueue[f] = q /\ ~signaled[f] /\ fenceJobs[f] = {}
               /\ UNCHANGED tracked
               /\ signaled' = [signaled EXCEPT ![f] = @ \/ th[t].done = {}]
               /\ fenceJobs' = [fenceJobs EXCEPT ![f] = th[t].done]
    BY <1>0, <1>3, <2>4 DEF TrackJobs, Good, FenceReady, Executing, OwnFence
  <2>5. ASSUME f = NoFence
        PROVE  /\ UNCHANGED <<signaled, fenceJobs>>
               /\ tracked' = [tracked EXCEPT ![q] = @ \cup th[t].done]
    BY <1>3, <2>5 DEF TrackJobs
  <2>6. /\ \A g \in Fences : g # f => fenceJobs'[g] = fenceJobs[g] /\ signaled'[g] = signaled[g]
        /\ \A p \in Queues : tracked[p] \subseteq tracked'[p]
        /\ \A p \in Queues : p # q \/ f # NoFence => tracked'[p] = tracked[p]
        /\ \A g \in Fences : fenceJobs[g] \subseteq fenceJobs'[g]
        /\ f # NoFence => fenceJobs'[f] = th[t].done
        /\ f = NoFence => th[t].done \subseteq tracked'[q]
    BY SMTT(20), <1>0, <2>4, <2>5 DEF TypeOK
  <2>7. Tracked'
    <3>1. ASSUME NEW g \in Fences, g \notin fences' \/ signaled'[g] PROVE fenceJobs'[g] = {}
      <4>1. CASE g = f
        <5>1. /\ signaled'[f] = (signaled[f] \/ th[t].done = {}) /\ f # NoFence
              /\ f \in fences' /\ ~signaled[f]
          BY <1>1, <2>4, <3>1, <4>1 DEF TypeOK
        <5> QED
          BY <2>6, <3>1, <4>1, <5>1
      <4>2. CASE g # f
        BY <1>1, <2>6, <3>1, <4>2 DEF WaitParts, Tracked
      <4> QED
        BY <4>1, <4>2
    <3>2. /\ \A p \in Queues : p # q => accepted'[p] = accepted[p]
          /\ accepted'[q] = accepted[q] \cup {j \in th[t].done : NotDone(j)}
      BY <1>0, <1>3 DEF TrackJobs, TypeOK, NotDone
    <3>3. ASSUME NEW p \in Queues, NEW j \in accepted'[p]
          PROVE  /\ NotDone(j)'
                 /\ j \in tracked'[p] \/ \E g \in fences' : FenceQueue[g] = p /\ j \in fenceJobs'[g]
      <4>1. CASE j \in accepted[p]
        BY <1>1, <2>6, <4>1 DEF WaitParts, Tracked, NotDone, TypeOK
      <4>2. CASE p = q /\ j \in th[t].done /\ NotDone(j)
        BY <1>1, <2>4, <2>6, <4>2 DEF NotDone
      <4> QED
        BY <3>2, <3>3, <4>1, <4>2
    <3> QED
      BY <3>1, <3>3 DEF Tracked
  <2>8. FencesApart'
    BY <2>2, FencesStayApart DEF Executing, Waits
  <2>9. Good(t, k)'
    BY <1>0, <1>1, <2>2
    DEF Good, CallBy, FenceReady, WaitKnows, OwedKnown, NotDone, Executing, Waits
  <2>10. ASSUME NEW u \in Threads, u # t PROVE Good(u, th[u])'
    <3>1. PICK e : e = th'[u]
      OBVIOUS
    <3>2. Good(u, e) /\ e = th[u] /\ Shape(e)
      BY <2>3, <2>10, <3>1 DEF WaitParts, Shapes
    <3>3. /\ e.q \in Queues /\ e.f \in Fences \cup {NoFence} /\ e.fencesLeft \subseteq Fences
          /\ e.done \subseteq Jobs
      BY <3>2, ThreadType
    <3>4. f # NoFence /\ e.f = f => ~Waits(e) /\ ~Executing(e)
      BY <1>0, <2>4, <2>10, <3>2 DEF WaitParts, FencesApart, Executing, OwnFence
    <3>5. FenceReady(e)'
      BY <1>1, <2>6, <3>2, <3>3, <3>4 DEF Good, FenceReady, OwnFence
    <3>6. ASSUME Waits(e) PROVE Awaited(e)' = Awaited(e)
      <4>1. CASE e.f = NoFence
        <5>1. e.q \in MayUse[u]
          BY <3>2, <3>6, <4>1 DEF Good, CallBy, Waits
        <5>2. e.q # q
          BY <1>1, <2>10, <5>1 DEF OneThreadPerQueue
        <5> QED
          BY <2>6, <3>3, <4>1, <5>2 DEF Awaited
      <4>2. CASE e.f # NoFence
        BY <2>6, <3>3, <3>4, <3>6, <4>2 DEF Awaited
      <4> QED
        BY <4>1, <4>2
    <3>7. \A j : Left(e, j) => Left(e, j)'
      BY <2>6, <3>3 DEF Left
    <3>8. \A j \in owed'[u] : NotDone(j)'
      BY <1>1, <3>2 DEF Good, OwedKnown, NotDone
    <3>9. Waits(e) => \A j \in e.done : cb'[j].status = run'[j].status
      BY <1>1, <3>2 DEF Good, WaitKnows
    <3> QED
      BY <1>1, <3>1, <3>2, <3>5, <3>6, <3>7, <3>8, <3>9, GoodKeeps
  <2> QED
    BY <2>1, <2>7, <2>8, <2>9, <2>10 DEF WaitParts
<1> QED
  BY <1>2, <1>3

\* A wait that clears what is tracked has seen all of it end without error.
LEMMA JobsWaitedGood ==
    ASSUME TypeOK, Seen, WaitParts, NEW t \in Threads, JobsWaited(t)
    PROVE  WaitParts'
<1> USE DEF cacheVars, queueVars, fenceVars
<1> DEFINE q == th[t].q
           f == th[t].f
           jobs == IF f = NoFence THEN tracked[q] ELSE fenceJobs[f]
           c == [th[t] EXCEPT !.pc = "sync", !.done = {}]
<1>0. /\ th[t] \in Call /\ Good(t, th[t]) /\ th[t].pc = "waited" /\ q \in Queues
      /\ f \in Fences \cup {NoFence} /\ th[t].done \subseteq Jobs
  BY ThreadType DEF WaitParts, JobsWaited
<1>1. UNCHANGED <<fences, cb, accepted, owed>>
  BY DEF JobsWaited
<1>2. \A j \in Jobs : run'[j].on = run[j].on /\ run'[j].status = run[j].status
  <2> SUFFICES ASSUME NEW j \in Jobs PROVE run'[j].on = run[j].on /\ run'[j].status = run[j].status
    OBVIOUS
  <2>1. run'[j] = [run[j] EXCEPT !.seen = @ \/ j \in th[t].done]
    BY DEF JobsWaited
  <2> QED
    BY <2>1, JobType DEF Submission
<1>3. CASE \E j \in jobs : cb[j].status # "OK"
  <2>1. UNCHANGED <<signaled, fenceJobs, tracked>> /\ Becomes(t, Returning(t, "ERROR"))
    BY <1>3 DEF JobsWaited
  <2>2. Quiet
    BY <1>1, <1>2, <2>1 DEF Quiet
  <2> QED
    BY <1>0, <1>1, <2>1, <2>2, ReturnsQuietly DEF Result
<1>4. CASE \A j \in jobs : cb[j].status = "OK"
  <2>1. jobs = Awaited(th[t])
    BY DEF Awaited
  <2>2. \A j \in jobs : ~NotDone(j)
    <3>1. jobs \subseteq th[t].done
      BY <1>0, <2>1 DEF Good, WaitKnows
    <3>2. \A j \in th[t].done : ~run[j].on /\ run[j].status = cb[j].status
      BY <1>0 DEF Seen, Good, WaitKnows, Waits
    <3> QED
      BY <1>4, <3>1, <3>2 DEF NotDone
  <2>3. /\ \A p \in Queues : f # NoFence \/ p # q => tracked'[p] = tracked[p]
        /\ \A g \in Fences : g # f => fenceJobs'[g] = fenceJobs[g] /\ signaled'[g] = signaled[g]
        /\ f = NoFence => tracked'[q] = {} /\ UNCHANGED <<fenceJobs, signaled>>
        /\ f # NoFence => fenceJobs'[f] = {}
    BY <1>0, <1>4 DEF JobsWaited, TypeOK
  <2>4. /\ \A p \in Queues : \A j : NotDone(j) /\ j \in tracked[p] => j \in tracked'[p]
        /\ \A g \in Fences : \A j : NotDone(j) /\ j \in fenceJobs[g] => j \in fenceJobs'[g]
    BY <1>0, <2>2, <2>3
  <2>5. PICK k : k = th'[t]
    OBVIOUS
  <2>6. /\ Becomes(t, k) /\ k.op = th[t].op /\ k.q = q /\ k.f = f
        /\ \/ k.pc = "ret" /\ (f = NoFence \/ th[t].op = "fence")
           \/ k.pc = "sync" /\ f # NoFence /\ th[t].op # "fence" /\ k.fencesLeft = th[t].fencesLeft
    <3> DEFINE r == Returning(t, "SUCCESS")
    <3>1. c.pc = "sync" /\ c.op = th[t].op /\ c.q = q /\ c.f = f /\ c.fencesLeft = th[t].fencesLeft
      BY <1>0 DEF Call
    <3>2. r.pc = "ret" /\ r.op = th[t].op /\ r.q = q /\ r.f = f
      BY ReturningFields DEF Result
    <3>3. \/ Becomes(t, r) /\ (f = NoFence \/ th[t].op = "fence")
          \/ Becomes(t, c) /\ f # NoFence /\ th[t].op # "fence"
      BY <1>4 DEF JobsWaited
    <3> HIDE DEF c, r
    <3>4. \A e : Becomes(t, e) => th'[t] = e
      BY BecomesFields
    <3> QED
      BY <2>5, <3>1, <3>2, <3>3, <3>4
  <2>7. \A s \in Threads : s # t => th'[s] = th[s]
    BY <2>6, BecomesFields
  <2>8. \A u \in Threads : owed[u] \subseteq Jobs /\ \A j \in owed[u] : NotDone(j) /\ NotDone(j)'
    BY <1>2 DEF WaitParts, Good, OwedKnown, NotDone, TypeOK
  <2>9. Tracked'
    <3>1. \A g \in Fences : g \notin fences' \/ signaled'[g] => fenceJobs'[g] = {}
      BY <1>0, <1>1, <2>3 DEF WaitParts, Tracked
    <3>2. ASSUME NEW p \in Queues, NEW j \in accepted'[p]
          PROVE  /\ NotDone(j)'
                 /\ j \in tracked'[p] \/ \E g \in fences' : FenceQueue[g] = p /\ j \in fenceJobs'[g]
      <4>1. j \in accepted[p] /\ j \in Jobs /\ NotDone(j) /\ fences \subseteq Fences
        BY <1>1, <3>2 DEF WaitParts, Tracked, TypeOK
      <4> QED
        BY <1>1, <1>2, <2>4, <4>1 DEF WaitParts, Tracked, NotDone
    <3> QED
      BY <3>1, <3>2 DEF Tracked
  <2>10. FencesApart'
    BY <2>6, FencesStayApart DEF Executing, Waits
  <2>11. Good(t, k)'
    <3>1. CallBy(t, k)' /\ FenceReady(k)' /\ WaitKnows(k)'
      BY <1>0, <2>6 DEF Good, CallBy, FenceReady, WaitKnows, Executing, Waits
    <3>2. CASE k.pc = "ret" /\ (f = NoFence \/ th[t].op = "fence")
      <4>1. \A j \in owed[t] : j \in jobs
        BY <1>0, <2>1, <3>2 DEF Good, OwedKnown, Waits
      <4>2. owed[t] = {}
        BY <2>2, <2>8, <4>1
      <4> QED
        BY <1>1, <2>8, <3>1, <3>2, <4>2 DEF Good, OwedKnown, Waits
    <3>3. CASE /\ k.pc = "sync" /\ f # NoFence /\ th[t].op # "fence"
               /\ k.fencesLeft = th[t].fencesLeft
      <4>1. \A j \in owed[t] : Left(th[t], j)
        BY <1>0, <2>1, <2>2, <2>8 DEF Good, OwedKnown, Waits
      <4>2. th[t].fencesLeft \subseteq Fences
        BY ThreadType
      <4>3. \A j \in owed[t] : Left(k, j)'
        BY <1>0, <2>4, <2>6, <2>8, <3>3, <4>1, <4>2 DEF Left
      <4> QED
        BY <1>1, <2>8, <3>1, <3>3, <4>3 DEF Good, OwedKnown, Waits
    <3> QED
      BY <2>6, <3>2, <3>3
  <2>12. ASSUME NEW u \in Threads, u # t PROVE Good(u, th[u])'
    <3>1. PICK e : e = th'[u]
      OBVIOUS
    <3>2. Good(u, e) /\ e = th[u]
      BY <2>7, <2>12, <3>1 DEF WaitParts
    <3>3. /\ e.q \in Queues /\ e.f \in Fences \cup {NoFence} /\ e.fencesLeft \subseteq Fences
          /\ e.done \subseteq Jobs
      BY <3>2, ThreadType
    <3>4. FenceReady(e)'
      <4>1. Executing(e) /\ OwnFence(e) => e.f # f
        BY <1>0, <2>12, <3>2 DEF WaitParts, FencesApart, Waits
      <4> QED
        BY <1>1, <2>3, <3>2, <3>3, <4>1 DEF Good, FenceReady, OwnFence
    <3>5. Awaited(e)' \subseteq Awaited(e)
      BY <1>0, <2>3, <3>3 DEF Awaited
    <3>6. \A j \in owed'[u] : NotDone(j) /\ NotDone(j)'
      BY <1>1, <2>8
    <3>7. \A j \in owed'[u] : /\ j \in Awaited(e) => j \in Awaited(e)'
                              /\ Left(e, j) => Left(e, j)'
      BY <2>4, <3>3, <3>6 DEF Awaited, Left
    <3>8. Waits(e) => \A j \in e.done : cb'[j].status = run'[j].status
      BY <1>1, <1>2, <3>2, <3>3 DEF Good, WaitKnows
    <3> QED
      BY <1>1, <3>1, <3>2, <3>4, <3>5, <3>6, <3>7, <3>8, GoodKeeps
  <2> QED
    BY <2>5, <2>9, <2>10, <2>11, <2>12 DEF WaitParts
<1> QED
  BY <1>3, <1>4

-----------------------------------------------------------------------------
(* Calls that end, and fences and queues that come and go.                 *)

\* The destructor of a queue takes its jobs and fences along; no other call uses them.
LEMMA QueueDestroyedGood ==
    ASSUME TypeOK, Shapes, CallsOnQueues, WaitParts, NEW t \in Threads, QueueDestroyed(t)
    PROVE  WaitParts'
<1> USE DEF cacheVars, queueVars, fenceVars
<1> DEFINE q == th[t].q
           mine == {f \in Fences : FenceQueue[f] = q}
<1>0. NoCall.pc = "idle" /\ NoCall.op = "none" /\ NoCall.f = NoFence
  BY DEF NoCall
<1>1. /\ th[t].op = "destroy" /\ q \in Queues /\ UNCHANGED <<signaled, cb, run>>
      /\ Becomes(t, NoCall) /\ fences' = fences \ mine
      /\ fenceJobs' = [f \in Fences |-> IF f \in mine THEN {} ELSE fenceJobs[f]]
  BY ThreadType DEF QueueDestroyed
<1>2. /\ tracked'[q] = {} /\ \A p \in Queues : p # q => tracked'[p] = tracked[p]
      /\ accepted'[q] = {} /\ \A p \in Queues : p # q => accepted'[p] = accepted[p]
      /\ owed'[t] = {} /\ \A u \in Threads : u # t => owed'[u] = owed[u]
  BY <1>1 DEF QueueDestroyed, TypeOK
<1>3. th'[t] = NoCall /\ \A s \in Threads : s # t => th'[s] = th[s]
  BY <1>1, BecomesFields
<1>4. Tracked'
  <2>1. \A f \in Fences : f \notin fences' \/ signaled'[f] => fenceJobs'[f] = {}
    BY <1>1 DEF WaitParts, Tracked
  <2>2. ASSUME NEW p \in Queues, NEW j \in accepted'[p]
        PROVE  /\ NotDone(j)'
               /\ j \in tracked'[p] \/ \E g \in fences' : FenceQueue[g] = p /\ j \in fenceJobs'[g]
    <3>1. p # q /\ j \in accepted[p] /\ fences \subseteq Fences
      BY <1>2, <2>2 DEF TypeOK
    <3>2. NotDone(j) /\ (j \in tracked[p] \/ \E g \in fences : FenceQueue[g] = p /\ j \in fenceJobs[g])
      BY <3>1 DEF WaitParts, Tracked
    <3>3. NotDone(j)'
      BY <1>1, <3>2 DEF NotDone
    <3>4. CASE j \in tracked[p]
      BY <1>2, <3>1, <3>3, <3>4
    <3>5. CASE \E g \in fences : FenceQueue[g] = p /\ j \in fenceJobs[g]
      <4>1. PICK g \in fences : FenceQueue[g] = p /\ j \in fenceJobs[g]
        BY <3>5
      <4>2. g \in Fences /\ g \notin mine
        BY <3>1, <4>1
      <4>3. g \in fences' /\ j \in fenceJobs'[g]
        BY <1>1, <4>1, <4>2
      <4> QED
        BY <3>3, <4>1, <4>3
    <3> QED
      BY <3>2, <3>4, <3>5
  <2> QED
    BY <2>1, <2>2 DEF Tracked
<1>5. FencesApart'
  BY <1>0, <1>1, FencesStayApart DEF Executing, Waits
<1>6. Good(t, th[t])'
  BY <1>0, <1>2, <1>3 DEF Good, CallBy, FenceReady, WaitKnows, OwedKnown, Executing, Waits
<1>7. ASSUME NEW u \in Threads, u # t PROVE Good(u, th[u])'
  <2>1. PICK e : e = th'[u]
    OBVIOUS
  <2>2. Good(u, e) /\ e = th[u] /\ Shape(e)
    BY <1>3, <1>7, <2>1 DEF WaitParts, Shapes
  <2>3. /\ e.q \in Queues /\ e.f \in Fences \cup {NoFence} /\ e.fencesLeft \subseteq Fences
        /\ e.done \subseteq Jobs
    BY <2>2, ThreadType
  <2>4. e.pc # "idle" => e.q # q
    BY <1>1, <1>7, <2>2 DEF CallsOnQueues
  <2>5. FenceReady(e)'
    BY <1>1, <2>2, <2>4 DEF Good, FenceReady, OwnFence, Executing
  <2>6. Waits(e) => Awaited(e)' = Awaited(e)
    BY <1>1, <1>2, <2>2, <2>3, <2>4 DEF Good, CallBy, Awaited, OwnFence, Waits
  <2>7. e.pc # "idle" => \A j : Left(e, j) => Left(e, j)'
    BY <1>1, <1>2, <2>2, <2>3, <2>4 DEF Left, Shape
  <2>8. \A j \in owed'[u] : NotDone(j)'
    BY <1>1, <1>2, <1>7, <2>2 DEF Good, OwedKnown, NotDone
  <2>9. Waits(e) => \A j \in e.done : cb'[j].status = run'[j].status
    BY <1>1, <2>2 DEF Good, WaitKnows
  <2> QED
    BY <1>2, <1>7, <2>1, <2>2, <2>5, <2>6, <2>7, <2>8, <2>9, GoodKeeps DEF Waits
<1> QED
  BY <1>4, <1>5, <1>6, <1>7 DEF WaitParts

\* Any other call that has returned owes nothing.
LEMMA ReturnGood ==
    ASSUME TypeOK, WaitParts, NEW t \in Threads, Return(t)
    PROVE  WaitParts'
<1> USE DEF cacheVars, queueVars, fenceVars
<1>1. NoCall.pc = "idle" /\ NoCall.op = "none" /\ NoCall.f = NoFence
  BY DEF NoCall
<1>2. /\ Becomes(t, NoCall) /\ UNCHANGED <<tracked, fences, fenceJobs, signaled, accepted, cb, run>>
      /\ owed'[t] = {} /\ \A u \in Threads : u # t => owed'[u] = owed[u]
  BY DEF Return, TypeOK
<1>3. Good(t, NoCall)'
  BY <1>1, <1>2 DEF Good, CallBy, FenceReady, WaitKnows, OwedKnown, Executing, Waits
<1> QED
  BY <1>1, <1>2, <1>3, OwedStep DEF Executing, Waits

\* A new fence tracks nothing.
LEMMA CreateFenceGood ==
    ASSUME TypeOK, WaitParts, NEW f \in Fences, NEW flag \in BOOLEAN, CreateFence(f, flag)
    PROVE  WaitParts'
<1> USE DEF cacheVars, queueVars, fenceVars
<1>1. /\ f \notin fences /\ fences' = fences \cup {f} /\ fenceJobs[f] = {}
      /\ UNCHANGED <<tracked, accepted, owed, th, cb, run>>
  BY DEF CreateFence, WaitParts, Tracked
<1>2. /\ \A g \in Fences : fenceJobs'[g] = fenceJobs[g]
      /\ \A g \in Fences : g # f => signaled'[g] = signaled[g]
  BY <1>1 DEF CreateFence, TypeOK
<1>3. Tracked'
  BY <1>1, <1>2 DEF WaitParts, Tracked, NotDone, TypeOK
<1>4. FencesApart'
  BY <1>1, SameThreadsApart DEF WaitParts
<1>5. ASSUME NEW u \in Threads PROVE Good(u, th[u])'
  <2>1. PICK e : e = th'[u]
    OBVIOUS
  <2>2. Good(u, e) /\ e = th[u] /\ e.f \in Fences \cup {NoFence} /\ e.fencesLeft \subseteq Fences
    BY <1>1, <2>1, ThreadType DEF WaitParts
  <2>3. FenceReady(e)'
    BY <1>1, <1>2, <2>2 DEF Good, FenceReady, OwnFence
  <2>4. Awaited(e)' = Awaited(e) /\ \A j : Left(e, j) => Left(e, j)'
    BY <1>1, <1>2, <2>2 DEF Awaited, Left
  <2> QED
    BY <1>1, <2>1, <2>2, <2>3, <2>4, GoodKeeps DEF Good, WaitKnows, OwedKnown, NotDone
<1> QED
  BY <1>3, <1>4, <1>5 DEF WaitParts

\* A reset fence is not signaled.
LEMMA ResetFenceGood ==
    ASSUME TypeOK, WaitParts, NEW f \in Fences, ResetFence(f)
    PROVE  WaitParts'
<1> USE DEF cacheVars, queueVars, fenceVars
<1>1. /\ UNCHANGED <<tracked, accepted, owed, th, cb, run, fences, fenceJobs>>
      /\ \A g \in Fences : signaled'[g] => signaled[g]
  BY DEF ResetFence, TypeOK
<1>2. Tracked'
  BY <1>1 DEF WaitParts, Tracked, NotDone
<1>3. FencesApart'
  BY <1>1, SameThreadsApart DEF WaitParts
<1>4. ASSUME NEW u \in Threads PROVE Good(u, th[u])'
  <2>1. PICK e : e = th'[u]
    OBVIOUS
  <2>2. Good(u, e) /\ e = th[u]
    BY <1>1, <2>1 DEF WaitParts
  <2>3. FenceReady(e)'
    BY <1>1, <2>2 DEF Good, FenceReady, OwnFence
  <2>4. Awaited(e)' = Awaited(e) /\ \A j : Left(e, j) => Left(e, j)'
    BY <1>1 DEF Awaited, Left
  <2> QED
    BY <1>1, <2>1, <2>2, <2>3, <2>4, GoodKeeps DEF Good, WaitKnows, OwedKnown, NotDone
<1> QED
  BY <1>2, <1>3, <1>4 DEF WaitParts

\* A destroyed fence is used by no call: not passed to one, nor about to be visited
\* by synchronize, which holds fenceMutex.
LEMMA DestroyFenceGood ==
    ASSUME TypeOK, Shapes, WaitParts, NEW f \in Fences, DestroyFence(f)
    PROVE  WaitParts'
<1> USE DEF cacheVars, queueVars, fenceVars
<1> DEFINE p == FenceQueue[f]
<1>1. /\ UNCHANGED <<tracked, owed, th, cb, run, signaled>> /\ fences' = fences \ {f}
      /\ p \in Queues
      /\ \A u \in Threads : /\ th[u].pc # "idle" => th[u].f # f
                            /\ ~HoldsFenceMutex(u, p)
  BY DEF DestroyFence, FenceIdle
<1>2. /\ fenceJobs'[f] = {} /\ \A g \in Fences : g # f => fenceJobs'[g] = fenceJobs[g]
      /\ accepted'[p] = accepted[p] \ fenceJobs[f]
      /\ \A q \in Queues : q # p => accepted'[q] = accepted[q]
  BY <1>1 DEF DestroyFence, TypeOK
<1>3. Tracked'
  <2>1. \A g \in Fences : g \notin fences' \/ signaled'[g] => fenceJobs'[g] = {}
    BY <1>1, <1>2 DEF WaitParts, Tracked
  <2>2. ASSUME NEW q \in Queues, NEW j \in accepted'[q]
        PROVE  /\ NotDone(j)'
               /\ j \in tracked'[q] \/ \E g \in fences' : FenceQueue[g] = q /\ j \in fenceJobs'[g]
    <3>1. j \in accepted[q] /\ fences \subseteq Fences /\ (q = p => j \notin fenceJobs[f])
      BY <1>2, <2>2 DEF TypeOK
    <3>2. j \in tracked[q] \/ \E g \in fences : FenceQueue[g] = q /\ j \in fenceJobs[g] /\ g # f
      BY <3>1 DEF WaitParts, Tracked
    <3> QED
      BY <1>1, <1>2, <3>1, <3>2 DEF WaitParts, Tracked, NotDone
  <2> QED
    BY <2>1, <2>2 DEF Tracked
<1>4. FencesApart'
  BY <1>1, SameThreadsApart DEF WaitParts
<1>5. ASSUME NEW u \in Threads PROVE Good(u, th[u])'
  <2>1. PICK e : e = th'[u]
    OBVIOUS
  <2>2. /\ Good(u, e) /\ e = th[u] /\ e.f \in Fences \cup {NoFence} /\ e.fencesLeft \subseteq Fences
        /\ Shape(e) /\ e \in Call
    BY <1>1, <2>1, ThreadType DEF WaitParts, Shapes
  <2>3. e.pc # "idle" => e.f # f
    BY <1>1, <2>2
  <2>4. FenceReady(e)'
    BY <1>1, <1>2, <2>2, <2>3 DEF Good, FenceReady, OwnFence, Executing
  <2>5. Waits(e) => Awaited(e)' = Awaited(e)
    BY <1>1, <1>2, <2>2, <2>3 DEF Awaited, Waits
  <2>6. ASSUME e.pc = "sync" \/ (Waits(e) /\ e.f # NoFence /\ e.op # "fence"), NEW j, Left(e, j)
        PROVE  Left(e, j)'
    <3>1. e.op \in {"execute", "synchronize", "destroy"}
      BY <2>2, <2>6 DEF Good, CallBy, Call, Waits
    <3>2. f \notin e.fencesLeft
      BY <1>1, <2>2, <2>6, <3>1 DEF Shape, HoldsFenceMutex, Waits
    <3> QED
      BY <1>1, <1>2, <2>2, <2>6, <3>2 DEF Left
  <2> QED
    BY <1>1, <2>1, <2>2, <2>4, <2>5, <2>6, GoodKeeps DEF Good, WaitKnows, OwedKnown, NotDone
<1> QED
  BY <1>3, <1>4, <1>5 DEF WaitParts

\* A step that touches no call, job or fence.
LEMMA NothingGood ==
    ASSUME TypeOK, WaitParts, UNCHANGED <<th, owed, accepted, tracked, fences, fenceJobs, signaled, cb, run>>
    PROVE  WaitParts'
<1>1. Tracked' /\ FencesApart'
  BY DEF WaitParts, Tracked, NotDone, FencesApart, Executing, Waits, OwnFence
<1>2. Quiet
  BY DEF Quiet
<1>3. ASSUME NEW u \in Threads PROVE Good(u, th[u])'
  <2>1. PICK e : e = th'[u]
    OBVIOUS
  <2>2. Good(u, e) /\ e.done \subseteq Jobs /\ owed[u] \subseteq Jobs
    BY <2>1, ThreadType DEF WaitParts, TypeOK
  <2> QED
    BY <1>2, <2>1, <2>2, QuietGood
<1> QED
  BY <1>1, <1>3 DEF WaitParts

-----------------------------------------------------------------------------
(* The theorem.                                                            *)

\* Every step keeps what waits know.
LEMMA NextWaitParts ==
    ASSUME BufferInv, CallsOnQueues, WaitParts, InOrder = {}, OneThreadPerQueue, [Next]_vars
    PROVE  WaitParts'
<1>1. TypeOK /\ Shapes /\ Apart /\ Seen /\ Held
  BY DEF BufferInv
<1>2. ASSUME NEW t \in Threads, CallBegin(t) PROVE WaitParts'
  BY <1>1, <1>2, ExecuteGood, EnterGood, FenceSynchronizeGood DEF CallBegin
<1>3. ASSUME NEW t \in Threads, CallStep(t) PROVE WaitParts'
  BY <1>1, <1>3, LoopSteps, WaitSteps, SubmitGood, TrackJobsGood, EnterSynchronizeGood,
     WaitForCompletionGood, JobsWaitedGood, QueueDestroyedGood, ReturnGood
  DEF CallStep, MakeInOrder
<1>4. ASSUME NEW t \in Threads, WaitTimesOut(t) PROVE WaitParts'
  BY <1>1, <1>4, WaitSteps
<1>5. CASE Device
  BY <1>1, <1>5, CompletesGood DEF Device
<1>6. CASE Housekeeping
  BY <1>1, <1>6, CreateFenceGood, DestroyFenceGood, ResetFenceGood, NothingGood
  DEF Housekeeping, CreateQueue, PreloadPrune, PreloadAcquire, UnloadGraph, ReleaseMemory,
      queueVars, fenceVars
<1>7. CASE UNCHANGED vars
  BY <1>1, <1>7, NothingGood DEF vars, queueVars, fenceVars
<1> QED
  BY <1>2, <1>3, <1>4, <1>5, <1>6, <1>7 DEF Next

\* Without in-order queues and with one thread per queue, zeCommandQueueSynchronize and
\* zeFenceHostSynchronize report SUCCESS only when every job that was accepted before
\* they began has completed without error: for any numbers of threads, queues, fences
\* and jobs, when submissions and jobs may fail and any thread may wait for any fence.
THEOREM WaitsAreNotEarly ==
    InOrder = {} /\ OneThreadPerQueue => (Spec => []SuccessMeansDone)
<1> SUFFICES ASSUME InOrder = {}, OneThreadPerQueue PROVE Spec => []SuccessMeansDone
  OBVIOUS
<1>1. Init => WaitParts
  <2> SUFFICES ASSUME Init PROVE WaitParts
    OBVIOUS
  <2>1. Tracked
    BY DEF Init, Tracked
  <2>2. FencesApart
    BY DEF Init, FencesApart, Executing, NoCall
  <2>3. ASSUME NEW t \in Threads PROVE Good(t, th[t])
    <3>1. th[t].pc = "idle" /\ th[t].op = "none" /\ owed[t] = {}
      BY DEF Init, NoCall
    <3> QED
      BY <3>1 DEF Good, CallBy, FenceReady, WaitKnows, OwedKnown, Executing, Waits
  <2> QED
    BY <2>1, <2>2, <2>3 DEF WaitParts
<1>2. BufferInv /\ QueueInv /\ WaitParts /\ [Next]_vars => WaitParts'
  BY NextWaitParts DEF QueueInv
<1>3. WaitParts => SuccessMeansDone
  BY DEF WaitParts, Good, OwedKnown, SuccessMeansDone
<1> QED
  BY <1>1, <1>2, <1>3, BufferInvariant, QueueInvariant, PTL DEF Spec

=============================================================================

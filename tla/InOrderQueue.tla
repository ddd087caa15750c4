---------------------------- MODULE InOrderQueue ----------------------------
(***************************************************************************)
(* How command queues in ModeFlags::IN_ORDER keep order: the driver patches *)
(* fence commands into the command buffers (VPUJob::makeInOrder and        *)
(* stripInOrder, createCommandBuffer, VPUCommandBuffer::addWaitAtHead,     *)
(* addSelfSignalAtTail, useBusyWait), and the device, which may work on    *)
(* several command buffers at a time, executes them.                       *)
(*                                                                         *)
(* A job is a closed command list; a list with a signal command before its *)
(* end is split into several command buffers.  Each has a fence word in    *)
(* its header.  The device reads the patched commands from memory, when it *)
(* comes to them.  A command queue has a second kernel queue for background *)
(* work, which setWorkloadType switches to and from while buffers are in   *)
(* flight.  Jobs end well here: failures are in CommandQueues.             *)
(***************************************************************************)
EXTENDS Naturals, Sequences, SequencesExt

CONSTANTS
    Jobs, Queues,
    NumBufs,           \* the number of command buffers of each job
    InOrder,           \* queues with ModeFlags::IN_ORDER
    Turbo,             \* queues with ModeFlags::TURBO
    Background,        \* queues whose workload type the application changes
    QueueDepth,        \* submissions a kernel queue holds before EBUSY
    SubmitErrors,      \* queues on which the submit ioctl may fail for good
    DispatchInOrder,   \* queues whose buffers the device comes to in order of submission
    Accepts,           \* the lists the application submits to each queue
    NoBuf,             \* no buffer object
    Lost               \* a buffer object that no command buffer has any more

ASSUME QueueConstants ==
    /\ Jobs # {} /\ Queues # {}
    /\ NumBufs \in [Jobs -> Nat \ {0}]
    /\ InOrder \subseteq Queues /\ Turbo \subseteq Queues \ InOrder
    /\ Background \subseteq Queues
    /\ QueueDepth \in Nat \ {0}
    /\ SubmitErrors \subseteq Queues /\ DispatchInOrder \subseteq Queues
    /\ Accepts \in [Queues -> SUBSET Jobs]

Bufs == UNION {{<<j, k>> : k \in 1..NumBufs[j]} : j \in Jobs}
FrontBuf(j) == <<j, 1>>
BackBuf(j) == <<j, NumBufs[j]>>

ASSUME NoBufAssumption == NoBuf \notin Bufs /\ Lost \notin Bufs /\ NoBuf # Lost

VARIABLES
    fenceValue,        \* CommandHeader::fenceValue of each command buffer
    header,            \* the fence commands patched into each command buffer
    inOrderJobs,       \* jobs with VPUJob::hasInOrderWorkload
    lastWaitBo,        \* VPUDeviceQueueManaged::lastWaitBo
    background,        \* queues with currentId = backgroundId # defaultId
    inflight,          \* per queue, the submitted command buffers, oldest first
    unreported,        \* jobs whose completion no wait has reported yet
    host               \* the call the submitting thread is in

vars == <<fenceValue, header, inOrderJobs, lastWaitBo, background, inflight, unreported, host>>

FenceValue == {"INITIAL", "DEVICE_RESET", "HOST_RESET", "DEVICE_SIGNAL"}

\* waitOn: the buffer whose fence the head waits for; reset: then resets it;
\* signal: the tail signals the buffer's own fence.
Header == [waitOn : Bufs \cup {NoBuf, Lost}, reset : BOOLEAN, signal : BOOLEAN]

Entry == [buf : Bufs, bg : BOOLEAN, st : {"queued", "resetting", "running"}]

\* Types of the state.
TypeOK ==
    /\ fenceValue \in [Bufs -> FenceValue]
    /\ header \in [Bufs -> Header]
    /\ inOrderJobs \subseteq Jobs
    /\ lastWaitBo \in [Queues -> Bufs \cup {NoBuf, Lost}]
    /\ background \subseteq Background
    /\ inflight \in [Queues -> Seq(Entry)]
    /\ unreported \subseteq Jobs
    /\ host \in [pc : {"idle", "patch", "submit"}, q : Queues, j : Jobs, k : Nat]

\* Mutant: the first buffer waits as well, for one before it.
NewHeaderOffByOne(b) == [waitOn |-> <<b[1], b[2] - 1>>, reset |-> FALSE,
                         signal |-> b[2] < NumBufs[b[1]]]

\* VPUJob::createCommandBuffer: every buffer but the first waits for the one before
\* it, without resetting its fence; every buffer but the last signals its fence.
NewHeader(b) ==
    [waitOn |-> IF b[2] = 1 THEN NoBuf ELSE <<b[1], b[2] - 1>>,
     reset  |-> FALSE,
     signal |-> b[2] < NumBufs[b[1]]]

AnyQueue == CHOOSE q \in Queues : TRUE
AnyJob == CHOOSE j \in Jobs : TRUE

Idle == [pc |-> "idle", q |-> AnyQueue, j |-> AnyJob, k |-> 1]

Init ==
    /\ fenceValue = [b \in Bufs |-> "INITIAL"]
    /\ header = [b \in Bufs |-> NewHeader(b)]
    /\ inOrderJobs = {}
    /\ lastWaitBo = [q \in Queues |-> NoBuf]
    /\ background = {}
    /\ inflight = [q \in Queues |-> <<>>]
    /\ unreported = {}
    /\ host = Idle

InFlight(b) == \E q \in Queues : \E i \in DOMAIN inflight[q] : inflight[q][i].buf = b

-----------------------------------------------------------------------------
(* The driver.                                                             *)

\* VPUDeviceQueueManaged::submit is called.  The application submits a list again
\* when a wait has reported its completion, or right after itself in order.
Submit(q, j) ==
    /\ host.pc = "idle"
    /\ j \in Accepts[q]
    /\ j \in unreported => q \in InOrder /\ lastWaitBo[q] = BackBuf(j)
    /\ host' = [pc |-> "patch", q |-> q, j |-> j, k |-> 1]
    /\ UNCHANGED <<fenceValue, header, inOrderJobs, lastWaitBo, background, inflight, unreported>>

\* CommandQueue::setWorkloadType: later buffers go to the other kernel queue.  When the
\* background queue cannot be created, nothing changes.
SetWorkloadType(q) ==
    /\ host.pc = "idle"
    /\ q \in Background
    /\ background' = IF q \in background THEN background \ {q} ELSE background \cup {q}
    /\ UNCHANGED <<fenceValue, header, inOrderJobs, lastWaitBo, inflight, unreported, host>>

\* VPUJob::makeInOrder: a job whose first buffer is the one to wait for is waited for
\* by the host, which resets its fence; any other waits on the device, which does
\* (reset); the last buffer signals its fence (signal).
MakeInOrderWith(reset, signal) ==
    LET q == host.q
        front == FrontBuf(host.j)
        again == lastWaitBo[q] = front
    IN  /\ host.pc = "patch" /\ q \in InOrder
        /\ again => ~InFlight(front)
        /\ fenceValue' = IF again THEN [fenceValue EXCEPT ![front] = "HOST_RESET"] ELSE fenceValue
        /\ header' = [header EXCEPT
                        ![front].waitOn = IF again THEN NoBuf ELSE lastWaitBo[q],
                        ![front].reset = reset,
                        ![BackBuf(host.j)].signal = signal]
        /\ lastWaitBo' = [lastWaitBo EXCEPT ![q] = BackBuf(host.j)]
        /\ inOrderJobs' = inOrderJobs \cup {host.j}
        /\ host' = [host EXCEPT !.pc = "submit"]
        /\ UNCHANGED <<background, inflight, unreported>>

\* Mutants: the fence waited for is not reset; the tail does not signal.
MakeInOrderNoReset == MakeInOrderWith(FALSE, TRUE)
MakeInOrderNoSignal == MakeInOrderWith(TRUE, FALSE)

MakeInOrder == MakeInOrderWith(TRUE, TRUE)

\* VPUJob::stripInOrder, on other queues: a job that was in order gets new buffers.
\* A queue or another buffer may still refer to an old one, signaled or never to be.
StripInOrder ==
    LET j == host.j
        mine == {b \in Bufs : b[1] = j}
        old(b) == IF b \notin mine THEN b
                  ELSE IF fenceValue[b] = "DEVICE_SIGNAL" THEN NoBuf ELSE Lost
    IN  /\ host.pc = "patch" /\ host.q \notin InOrder
        /\ IF j \in inOrderJobs
           THEN /\ fenceValue' = [b \in Bufs |-> IF b \in mine THEN "INITIAL" ELSE fenceValue[b]]
                /\ header' = [b \in Bufs |-> IF b \in mine THEN NewHeader(b)
                                             ELSE [header[b] EXCEPT !.waitOn = old(@)]]
                /\ lastWaitBo' = [q \in Queues |-> old(lastWaitBo[q])]
                /\ inOrderJobs' = inOrderJobs \ {j}
           ELSE UNCHANGED <<fenceValue, header, lastWaitBo, inOrderJobs>>
        /\ host' = [host EXCEPT !.pc = "submit"]
        /\ UNCHANGED <<background, inflight, unreported>>

\* Mutant: the fence is not reset.
UseBusyWaitNoReset(q, b) ==
    /\ header' = [header EXCEPT ![b].signal = @ \/ q \in Turbo]
    /\ UNCHANGED fenceValue

\* Before the ioctl, a turbo queue makes the buffer signal its fence, and resets it
\* (VPUCommandBuffer::useBusyWait).
UseBusyWait(q, b) ==
    IF q \in Turbo
    THEN /\ header' = [header EXCEPT ![b].signal = TRUE]
         /\ fenceValue' = [fenceValue EXCEPT ![b] = "HOST_RESET"]
    ELSE UNCHANGED <<header, fenceValue>>

\* The kernel queue that q submits to has room.
HasRoom(q) ==
    Len(SelectSeq(inflight[q], LAMBDA e : e.bg = (q \in background))) < QueueDepth

\* submitWithWait, one command buffer: the ioctl accepts it ...
SubmitCommandBuffer ==
    LET q == host.q
        b == <<host.j, host.k>>
    IN  /\ host.pc = "submit"
        /\ HasRoom(q)
        /\ UseBusyWait(q, b)
        /\ inflight' = [inflight EXCEPT ![q] =
                            Append(@, [buf |-> b, bg |-> q \in background, st |-> "queued"])]
        /\ unreported' = unreported \cup {host.j}
        /\ host' = IF b = BackBuf(host.j) THEN Idle ELSE [host EXCEPT !.k = @ + 1]
        /\ UNCHANGED <<inOrderJobs, lastWaitBo, background>>

\* ... or answers EBUSY and is tried again ...
SubmitBusy ==
    /\ host.pc = "submit"
    /\ ~HasRoom(host.q)
    /\ UseBusyWait(host.q, <<host.j, host.k>>)
    /\ UNCHANGED <<inOrderJobs, lastWaitBo, background, inflight, unreported, host>>

\* ... or fails; buffers of the job submitted before stay submitted.
SubmitFails ==
    /\ host.pc = "submit"
    /\ host.q \in SubmitErrors
    /\ UseBusyWait(host.q, <<host.j, host.k>>)
    /\ host' = Idle
    /\ UNCHANGED <<inOrderJobs, lastWaitBo, background, inflight, unreported>>

\* VPUJob::waitForCompletion succeeds.
WaitForCompletion(j) ==
    /\ host.pc = "idle"
    /\ j \in unreported
    /\ \A k \in 1..NumBufs[j] : ~InFlight(<<j, k>>)
    /\ unreported' = unreported \ {j}
    /\ UNCHANGED <<fenceValue, header, inOrderJobs, lastWaitBo, background, inflight, host>>

-----------------------------------------------------------------------------
(* The device (external): VPU_CMD_FENCE_WAIT, VPU_CMD_FENCE_SIGNAL.        *)

\* The wait at the head of entry i is over: its fence has the value DEVICE_SIGNAL.
PassWait(q, i) ==
    LET b == inflight[q][i].buf
        w == header[b].waitOn
    IN  /\ inflight[q][i].st = "queued"
        /\ q \in DispatchInOrder => \A h \in 1..i-1 :
                inflight[q][h].bg = inflight[q][i].bg => inflight[q][h].st # "queued"
        /\ w # Lost
        /\ w # NoBuf => fenceValue[w] = "DEVICE_SIGNAL"
        /\ inflight' = [inflight EXCEPT ![q][i].st =
                            IF w # NoBuf /\ header[b].reset THEN "resetting" ELSE "running"]
        /\ UNCHANGED <<fenceValue, header, inOrderJobs, lastWaitBo, background, unreported, host>>

\* The second command at the head resets the fence that was waited for.
ResetWaited(q, i) ==
    LET w == header[inflight[q][i].buf].waitOn
    IN  /\ inflight[q][i].st = "resetting"
        /\ inflight' = [inflight EXCEPT ![q][i].st = "running"]
        /\ fenceValue' = IF w \in Bufs THEN [fenceValue EXCEPT ![w] = "DEVICE_RESET"]
                         ELSE fenceValue
        /\ UNCHANGED <<header, inOrderJobs, lastWaitBo, background, unreported, host>>

\* The commands of the list are done; the tail signals the buffer's own fence.
Finish(q, i) ==
    LET b == inflight[q][i].buf
    IN  /\ inflight[q][i].st = "running"
        /\ inflight' = [inflight EXCEPT ![q] = RemoveAt(@, i)]
        /\ fenceValue' = IF header[b].signal THEN [fenceValue EXCEPT ![b] = "DEVICE_SIGNAL"]
                         ELSE fenceValue
        /\ UNCHANGED <<header, inOrderJobs, lastWaitBo, background, unreported, host>>

DeviceStep(q, i) == PassWait(q, i) \/ ResetWaited(q, i) \/ Finish(q, i)

HostStep == MakeInOrder \/ StripInOrder \/ SubmitCommandBuffer

Next ==
    \/ \E q \in Queues, j \in Jobs : Submit(q, j)
    \/ \E q \in Queues : SetWorkloadType(q)
    \/ \E j \in Jobs : WaitForCompletion(j)
    \/ HostStep \/ SubmitBusy \/ SubmitFails
    \/ \E q \in Queues : \E i \in DOMAIN inflight[q] : DeviceStep(q, i)

Spec == Init /\ [][Next]_vars

\* The thread inside a call keeps running, and the device gets on with every buffer
\* that is not waiting.
Fairness ==
    /\ WF_vars(HostStep)
    /\ \A q \in Queues, i \in 1..2*QueueDepth : WF_vars(i \in DOMAIN inflight[q] /\ DeviceStep(q, i))

FairSpec == Spec /\ Fairness

-----------------------------------------------------------------------------
(* Properties.                                                             *)

\* The queue as its user sees it: a buffer still at its head has not started.
Line(q) == [i \in DOMAIN inflight[q] |->
                [buf |-> inflight[q][i].buf,
                 st  |-> IF inflight[q][i].st = "running" THEN "running" ELSE "queued"]]

\* One in-order queue stands for all: they differ in nothing but their names.
TheQueue == CHOOSE q \in InOrder : TRUE

Fifo == INSTANCE FifoExecution WITH line <- Line(TheQueue)

\* In-order queues run their command buffers one at a time, in the order of
\* submission: the wait, reset and signal commands that makeInOrder patches never
\* let one start before the one before it has completed.
FifoOrder == Fifo!Spec

\* Every submitted command buffer runs: none waits for a signal that was reset by
\* another, is overwritten, or never comes.
FifoProgress == Fifo!Progress

\* The buffers of one command list never overlap and keep their order, on any queue:
\* createCommandBuffer makes each wait for the one before it.
ListInOrder ==
    \A q \in Queues : \A h, i \in DOMAIN inflight[q] :
        /\ h < i /\ inflight[q][h].buf[1] = inflight[q][i].buf[1]
        /\ inflight[q][h].buf[2] < inflight[q][i].buf[2]
        => inflight[q][i].st = "queued"
=============================================================================

--------------------------- MODULE CommandBuffers ---------------------------
(***************************************************************************)
(* The list of GEM handles a command buffer passes to the SUBMIT ioctl, and *)
(* how a closed, mutable command list with several inferences keeps that   *)
(* list in step with what the inferences are patched with: their arguments *)
(* (setUpdates / update), the scratch buffer of this submission, the       *)
(* queue's preemption buffer and the fence of the list before it on an     *)
(* in-order queue.                                                         *)
(*                                                                         *)
(* The list is one command buffer.  A handle is a number the kernel gives  *)
(* out, the lowest free one first, and may give out again once the buffer  *)
(* object is closed.  User memory is named by the handle of its buffer     *)
(* object; the buffer objects an inference owns for its whole life (its    *)
(* parsed inference) are left out, since their handles are never replaced. *)
(***************************************************************************)
EXTENDS Integers, Sequences, SequencesExt, FiniteSets, FiniteSetsExt

CONSTANTS
    NumCmds,          \* inferences in the command buffer
    NumArgs,          \* user arguments of each
    MaxHandle,        \* bound: handles the kernel gives out
    MaxHeld,          \* bound: buffers the application holds at a time
    MaxOthers,        \* bound: other lists of the in-order queue
    MaxSubmits,       \* bound: submissions of the list
    MaxCalls,         \* bound: buffers and other lists that come and go
    ScratchChoices,   \* sets of inferences that may need scratch memory
    PreemptionChoices,\* whether the device may want a preemption buffer
    SubmitErrors,     \* may the SUBMIT ioctl fail?
    Avoid             \* what the application refrains from, see below

Cmds    == 1 .. NumCmds
Args    == 1 .. NumArgs
Handles == 1 .. MaxHandle
NoBo    == 0

(***************************************************************************)
(* Uses of a list the handle bookkeeping does not survive.  With one of    *)
(* them left out of Avoid, a property below fails.                         *)
(*   share   two inferences get one buffer object as argument              *)
(*   retry   a list with a preemption buffer goes out again after a failed *)
(*           ioctl                                                         *)
(*   move    a list that needs scratch or preemption memory moves from an  *)
(*           in-order queue to another queue                               *)
(*   destroy a command buffer goes that this list once waited for: another *)
(*           list's, or its own from before it moved between queues        *)
(*   reuse   the handle of a released scratch buffer is given out again    *)
(*   forget  an inference whose update failed goes out without a new one   *)
(***************************************************************************)
Hazards == {"share", "retry", "move", "destroy", "reuse", "forget"}

ASSUME ParametersAssumption ==
    /\ NumCmds \in Nat \ {0} /\ NumArgs \in Nat \ {0} /\ MaxHandle \in Nat
    /\ MaxHeld \in Nat /\ MaxOthers \in Nat /\ MaxSubmits \in Nat /\ MaxCalls \in Nat
    /\ NumCmds * NumArgs <= MaxHeld /\ MaxHeld < MaxHandle
    /\ ScratchChoices \subseteq SUBSET Cmds /\ PreemptionChoices \subseteq BOOLEAN
    /\ SubmitErrors \in BOOLEAN
    /\ Avoid \subseteq Hazards

VARIABLES
    scratchCmds,    \* inferences with a shared scratch size, set by the model
    preemption,     \* isPreemptionBufferSupported
    held,           \* user buffers the context tracks
    inputs,         \* VPUInferenceExecute::inputs and outputs
    userArgs,       \* userArgHandles: what the parsed inference is patched with
    cmdNeedsUpdate, \* VPUInferenceExecute::cmdNeedsUpdate
    lastScratch,    \* VPUInferenceExecute::lastScratchBoHandle
    buf,            \* the VPUCommandBuffer
    inOrder,        \* VPUJob::hasInOrderWorkload
    lastWaitBo,     \* VPUDeviceQueueManaged::lastWaitBo of the in-order queue
    scratchCache,   \* buffers of the scratch cache
    preemptBo,      \* preemption buffer of the queue, once allocated
    others,         \* command buffers of other lists
    submits,        \* submissions so far
    calls,          \* buffers and other lists that came or went
    run             \* the last SUBMIT ioctl: is its job on the device, which handles
                    \* did it lack, which were closed, which buffer did it name for
                    \* preemption, and are the arguments the ones last set

vars == <<scratchCmds, preemption, held, inputs, userArgs, cmdNeedsUpdate, lastScratch, buf,
          inOrder, lastWaitBo, scratchCache, preemptBo, others, submits, calls, run>>

\* Mutant: commands do not hold the buffer objects of their arguments.
OpenWithoutArgs == (held \cup scratchCache \cup others
         \cup {buf.bo, buf.scratch, buf.preempt, buf.waitBo, lastWaitBo, preemptBo}) \ {NoBo}

\* What the kernel keeps open: buffer objects somebody holds.  A command holds the
\* ones of its arguments, a command buffer its fence, scratch and preemption memory.
Open == (held \cup (UNION {ToSet(userArgs[c]) : c \in Cmds}) \cup scratchCache \cup others
         \cup {buf.bo, buf.scratch, buf.preempt, buf.waitBo, lastWaitBo, preemptBo}) \ {NoBo}

\* The handle the kernel gives to a new buffer object.
NewHandle(open) == Min(Handles \ open)
MayAllocate(n)  == Cardinality(Handles \ Open) >= n

AddUniqueBoHandle(handles, h) ==
    IF h \in ToSet(handles) THEN handles ELSE Append(handles, h)

\* The handles with the ones of new after them, each once.
AddHandles(handles, new) ==
    LET added[i \in 0 .. Len(new)] ==
            IF i = 0 THEN handles ELSE AddUniqueBoHandle(added[i - 1], new[i])
    IN  added[Len(new)]

\* The handles without the ones of old, in their order.
RemoveHandles(handles, old) ==
    LET kept[i \in 0 .. Len(handles)] ==
            IF i = 0 THEN <<>>
            ELSE IF handles[i] \in ToSet(old) THEN kept[i - 1]
                                              ELSE Append(kept[i - 1], handles[i])
    IN  kept[Len(handles)]

ReplaceBufferHandles(handles, old, new) == AddHandles(RemoveHandles(handles, old), new)

\* first, then what the commands use.
CommandHandles(first, args) ==
    LET used[c \in 0 .. NumCmds] ==
            IF c = 0 THEN first ELSE AddHandles(used[c - 1], args[c])
    IN  used[NumCmds]

\* Mutant: the handles of the commands come first.
NewCommandBufferLast(bo, args) ==
    [bo |-> bo, handles |-> Append(CommandHandles(<<>>, args), bo),
     scratch |-> NoBo, preempt |-> NoBo, index |-> 0, waitBo |-> NoBo]

\* VPUCommandBuffer at the close of the list: itself, then what its commands use.
NewCommandBuffer(bo, args) ==
    [bo |-> bo, handles |-> CommandHandles(<<bo>>, args),
     scratch |-> NoBo, preempt |-> NoBo, index |-> 0, waitBo |-> NoBo]

-----------------------------------------------------------------------------
(***************************************************************************)
(* The steps of a submission, on the record st of what they change:        *)
(* the command buffer and the state of its inferences.                     *)
(***************************************************************************)

\* updateScratchBuffer of inference c.
UpdateScratchBuffer(st, c) ==
    IF c \notin scratchCmds THEN st
    ELSE [st EXCEPT !.buf.handles = ReplaceBufferHandles(@, <<st.last[c]>>, <<st.buf.scratch>>),
                    !.last[c] = st.buf.scratch]

\* applyInputOutputs looks up every argument, also the ones that did not change.
ArgumentsFound(c) == \A a \in Args : inputs[c][a] \in held

\* Mutants: the handle list is not updated; the flags of all inferences are cleared.
UpdateForgetsHandles(st, c) ==
    IF ~st.needs[c] THEN st
    ELSE LET cleared == [st EXCEPT !.needs[c] = FALSE]
         IN  IF ~ArgumentsFound(c) THEN [cleared EXCEPT !.ok = FALSE]
             ELSE [cleared EXCEPT !.args[c] = inputs[c]]

UpdateAllCleared(st, c) ==
    IF ~st.needs[c] THEN st
    ELSE LET cleared == [st EXCEPT !.needs = [d \in Cmds |-> FALSE]]
         IN  IF ~ArgumentsFound(c) THEN [cleared EXCEPT !.ok = FALSE]
             ELSE [cleared EXCEPT
                      !.buf.handles = ReplaceBufferHandles(@, st.args[c], inputs[c]),
                      !.args[c] = inputs[c]]

\* update of inference c: the flag is cleared before the arguments are looked up.
Update(st, c) ==
    IF ~st.needs[c] THEN st
    ELSE LET cleared == [st EXCEPT !.needs[c] = FALSE]
         IN  IF ~ArgumentsFound(c) THEN [cleared EXCEPT !.ok = FALSE]
             ELSE [cleared EXCEPT
                      !.buf.handles = ReplaceBufferHandles(@, st.args[c], inputs[c]),
                      !.args[c] = inputs[c]]

\* updateCommands, with scratch buffer s acquired: stops at the first failure.
UpdateCommands(st, s) ==
    LET updated[c \in 0 .. NumCmds] ==
            IF c = 0 THEN [st EXCEPT !.buf.scratch = s]
            ELSE LET t == updated[c - 1]
                 IN  IF t.ok THEN Update(UpdateScratchBuffer(t, c), c) ELSE t
    IN  updated[NumCmds]

\* Mutant: the index of the handle before it.
AddPreemptionBufferBefore(b, p) ==
    IF b.preempt # NoBo \/ p = NoBo THEN b
    ELSE [b EXCEPT !.preempt = p, !.index = Len(b.handles) - 1, !.handles = Append(@, p)]

\* addPreemptionBuffer: refused while one is set.
AddPreemptionBuffer(b, p) ==
    IF b.preempt # NoBo \/ p = NoBo THEN b
    ELSE [b EXCEPT !.preempt = p, !.index = Len(b.handles), !.handles = Append(@, p)]

\* What a successful waitForCompletion does: scratch memory goes back, and the
\* handle at the preemption index is erased.
WaitDone(b) ==
    LET freed == [b EXCEPT !.scratch = NoBo]
    IN  IF b.preempt = NoBo THEN freed
        ELSE [freed EXCEPT !.preempt = NoBo, !.index = 0,
                           !.handles = IF b.index < Len(@) THEN RemoveAt(@, b.index + 1) ELSE @]

\* addWaitAtHead: the fence of waitBo joins the handles for good.
AddWaitAtHead(b, waitBo) ==
    IF waitBo = NoBo THEN [b EXCEPT !.waitBo = NoBo]
    ELSE [b EXCEPT !.waitBo = waitBo, !.handles = AddUniqueBoHandle(@, waitBo)]

\* makeInOrder: a list that is its own predecessor is waited for first.
MakeInOrder(b) ==
    IF lastWaitBo = b.bo THEN AddWaitAtHead(WaitDone(b), NoBo)
    ELSE AddWaitAtHead(b, lastWaitBo)

\* stripInOrder builds the command buffer again, from what the commands use.
StripInOrder(b, args, open) == NewCommandBuffer(NewHandle(open), args)

-----------------------------------------------------------------------------
NoRun == [on |-> FALSE, missing |-> {}, closed |-> {}, preempt |-> {},
          applied |-> TRUE]

\* A closed list with arguments the application allocated before.
Init ==
    /\ scratchCmds \in ScratchChoices
    /\ preemption \in PreemptionChoices
    /\ held = 1 .. NumCmds * NumArgs
    /\ userArgs = [c \in Cmds |-> [a \in Args |-> (c - 1) * NumArgs + a]]
    /\ inputs = userArgs
    /\ cmdNeedsUpdate = [c \in Cmds |-> FALSE]
    /\ lastScratch = [c \in Cmds |-> NoBo]
    /\ buf = NewCommandBuffer(NumCmds * NumArgs + 1, userArgs)
    /\ inOrder = FALSE
    /\ lastWaitBo = NoBo /\ preemptBo = NoBo
    /\ scratchCache = {} /\ others = {}
    /\ submits = 0 /\ calls = 0
    /\ run = NoRun

-----------------------------------------------------------------------------
\* Bound on the calls that open or close a buffer object of somebody else.
Call == calls < MaxCalls /\ calls' = calls + 1

\* zeMemAlloc*.
Allocate ==
    /\ Call
    /\ MayAllocate(1) /\ Cardinality(held) < MaxHeld
    /\ held' = held \cup {NewHandle(Open)}
    /\ UNCHANGED <<scratchCmds, preemption, inputs, userArgs, cmdNeedsUpdate, lastScratch, buf,
                   inOrder, lastWaitBo, scratchCache, preemptBo, others, submits, run>>

\* zeMemFree: the context forgets the buffer; commands that use it keep it open.
Free(h) ==
    /\ Call
    /\ h \in held
    /\ held' = held \ {h}
    /\ UNCHANGED <<scratchCmds, preemption, inputs, userArgs, cmdNeedsUpdate, lastScratch, buf,
                   inOrder, lastWaitBo, scratchCache, preemptBo, others, submits, run>>

\* zeCommandListUpdateMutableCommandsExp for argument a of inference c, of a
\* list that is not executing.
SetUpdates(c, a, h) ==
    /\ ~run.on
    /\ h \in held
    /\ "share" \in Avoid => \A d \in Cmds \ {c} : h \notin ToSet(userArgs[d]) \cup ToSet(inputs[d])
    /\ inputs' = [inputs EXCEPT ![c][a] = h]
    /\ cmdNeedsUpdate' = [cmdNeedsUpdate EXCEPT ![c] = TRUE]
    /\ UNCHANGED <<scratchCmds, preemption, held, userArgs, lastScratch, buf, inOrder,
                   lastWaitBo, scratchCache, preemptBo, others, submits, calls, run>>

\* The preemption buffer executeCommandLists passes on: acquired by the first
\* submission of the queue.
PreemptionBuffer ==
    IF ~preemption THEN NoBo
    ELSE IF preemptBo # NoBo THEN preemptBo ELSE NewHandle(Open)

\* scratchCacheAcquire: a cached buffer nobody holds, or a new one.
ScratchAcquire(open) ==
    LET free == scratchCache \ {buf.scratch}
    IN  IF scratchCmds = {} THEN {NoBo}
        ELSE IF free # {} THEN free ELSE {NewHandle(open)}

\* Handles a submission may need from the kernel.
SubmitNeeds(queue) ==
      (IF preemption /\ preemptBo = NoBo THEN 1 ELSE 0)
    + (IF scratchCmds # {} /\ scratchCache \subseteq {buf.scratch} THEN 1 ELSE 0)
    + (IF queue # "inorder" /\ inOrder THEN 1 ELSE 0)

ScratchKept(s) == scratchCache \cup ({s} \ {NoBo})

\* What the application refrains from when it submits the list to a queue.
SubmitAllowed(queue) ==
    /\ "retry" \in Avoid => buf.preempt = NoBo
    /\ "move" \in Avoid /\ inOrder /\ queue # "inorder" => scratchCmds = {} /\ ~preemption
    /\ "destroy" \in Avoid /\ queue = "inorder" => lastWaitBo \in {NoBo, buf.bo} \cup others
    /\ "forget" \in Avoid => \A c \in Cmds : cmdNeedsUpdate[c] \/ inputs[c] = userArgs[c]

\* What the queue makes of the command buffer before the ioctl.
Prepared(b, args, queue, open) ==
    CASE queue = "inorder" -> MakeInOrder(b)
      [] queue # "inorder" /\ inOrder  -> StripInOrder(b, args, open \ ({b.bo, b.waitBo} \ ({lastWaitBo} \cup others)))
      [] queue # "inorder" /\ ~inOrder -> b

\* executeCommandLists for this list, up to its failure to update a command.
SubmitFailsUpdate(queue) ==
    /\ ~run.on /\ submits < MaxSubmits /\ MayAllocate(SubmitNeeds(queue)) /\ SubmitAllowed(queue)
    /\ submits' = submits + 1
    /\ LET p == PreemptionBuffer
       IN  \E s \in ScratchAcquire(Open \cup {p}) :
              LET st == UpdateCommands([buf |-> buf, args |-> userArgs, needs |-> cmdNeedsUpdate,
                                        last |-> lastScratch, ok |-> TRUE], s)
              IN  /\ ~st.ok
                  /\ preemptBo' = p
                  /\ scratchCache' = ScratchKept(s)
                  /\ buf' = st.buf
                  /\ userArgs' = st.args
                  /\ cmdNeedsUpdate' = st.needs
                  /\ lastScratch' = st.last
    /\ UNCHANGED <<scratchCmds, preemption, held, inputs, inOrder, lastWaitBo, others, calls, run>>

\* The SUBMIT ioctl: the kernel looks up every handle and fails when one names no
\* buffer object.
Ioctl(b, args, last) ==
    LET handles == ToSet(b.handles)
        uses    == ({b.bo, b.waitBo} \cup (UNION {ToSet(args[c]) : c \in Cmds})
                    \cup {last[c] : c \in scratchCmds}) \ {NoBo}
    IN  \E ok \in {handles \subseteq Open'} \cup (IF SubmitErrors THEN {FALSE} ELSE {}) :
           run' = [on      |-> ok,
                   missing |-> uses \ handles,
                   closed  |-> handles \ Open',
                   preempt |-> {b.handles[i] : i \in {b.index + 1} \cap (2 .. Len(b.handles))},
                   applied |-> args = inputs]

\* executeCommandLists for this list, with every update done.
Submit(queue) ==
    /\ ~run.on /\ submits < MaxSubmits /\ MayAllocate(SubmitNeeds(queue)) /\ SubmitAllowed(queue)
    /\ submits' = submits + 1
    /\ LET p == PreemptionBuffer
       IN  \E s \in ScratchAcquire(Open \cup {p}) :
              LET st == UpdateCommands([buf |-> buf, args |-> userArgs, needs |-> cmdNeedsUpdate,
                                        last |-> lastScratch, ok |-> TRUE], s)
                  b  == Prepared(AddPreemptionBuffer(st.buf, p), st.args, queue, Open \cup {p, s})
              IN  /\ st.ok
                  /\ preemptBo' = p
                  /\ scratchCache' = ScratchKept(s)
                  /\ buf' = b
                  /\ userArgs' = st.args
                  /\ cmdNeedsUpdate' = st.needs
                  /\ lastScratch' = st.last
                  /\ inOrder' = (queue = "inorder")
                  /\ lastWaitBo' = IF queue = "inorder" THEN b.bo ELSE lastWaitBo
                  /\ UNCHANGED <<scratchCmds, preemption, held, inputs, others, calls>>
                  /\ Ioctl(b, st.args, st.last)

\* The job ends and a wait of its queue, fence or event sees it.
WaitForCompletion ==
    /\ run.on
    /\ run' = NoRun
    /\ buf' = WaitDone(buf)
    /\ UNCHANGED <<scratchCmds, preemption, held, inputs, userArgs, cmdNeedsUpdate, lastScratch,
                   inOrder, lastWaitBo, scratchCache, preemptBo, others, submits, calls>>

\* The idle resource cleaner releases a scratch buffer nobody holds.
ScratchPrune(s) ==
    /\ Call
    /\ s \in scratchCache \ {buf.scratch}
    /\ "reuse" \in Avoid => \A c \in Cmds \ {1} : lastScratch[c] # s
    /\ scratchCache' = scratchCache \ {s}
    /\ UNCHANGED <<scratchCmds, preemption, held, inputs, userArgs, cmdNeedsUpdate, lastScratch,
                   buf, inOrder, lastWaitBo, preemptBo, others, submits, run>>

\* Another list is closed, submitted to the in-order queue, and destroyed.
CloseOther ==
    /\ Call
    /\ MayAllocate(1) /\ Cardinality(others) < MaxOthers
    /\ others' = others \cup {NewHandle(Open)}
    /\ UNCHANGED <<scratchCmds, preemption, held, inputs, userArgs, cmdNeedsUpdate, lastScratch,
                   buf, inOrder, lastWaitBo, scratchCache, preemptBo, submits, run>>

SubmitOther(o) ==
    /\ o \in others
    /\ lastWaitBo' = o
    /\ UNCHANGED <<scratchCmds, preemption, held, inputs, userArgs, cmdNeedsUpdate, lastScratch,
                   buf, inOrder, scratchCache, preemptBo, others, submits, calls, run>>

DestroyOther(o) ==
    /\ Call
    /\ o \in others
    /\ "destroy" \in Avoid => o \notin ToSet(buf.handles)
    /\ others' = others \ {o}
    /\ UNCHANGED <<scratchCmds, preemption, held, inputs, userArgs, cmdNeedsUpdate, lastScratch,
                   buf, inOrder, lastWaitBo, scratchCache, preemptBo, submits, run>>

Next ==
    \/ Allocate
    \/ \E h \in Handles : Free(h)
    \/ \E c \in Cmds, a \in Args, h \in Handles : SetUpdates(c, a, h)
    \/ \E queue \in {"default", "inorder"} : SubmitFailsUpdate(queue) \/ Submit(queue)
    \/ WaitForCompletion
    \/ \E s \in Handles : ScratchPrune(s)
    \/ CloseOther
    \/ \E o \in Handles : SubmitOther(o) \/ DestroyOther(o)

Spec == Init /\ [][Next]_vars

-----------------------------------------------------------------------------
\* The shape of the state; every list begins with its own command buffer, as the
\* ioctl demands.
TypeOK ==
    /\ scratchCmds \subseteq Cmds /\ preemption \in BOOLEAN
    /\ held \subseteq Handles /\ scratchCache \subseteq Handles /\ others \subseteq Handles
    /\ inputs \in [Cmds -> [Args -> Handles]]
    /\ userArgs \in [Cmds -> [Args -> Handles]]
    /\ cmdNeedsUpdate \in [Cmds -> BOOLEAN]
    /\ lastScratch \in [Cmds -> Handles \cup {NoBo}]
    /\ {buf.scratch, buf.preempt, buf.waitBo, lastWaitBo, preemptBo} \subseteq Handles \cup {NoBo}
    /\ ToSet(buf.handles) \subseteq Handles /\ buf.handles[1] = buf.bo
    /\ buf.index < Len(buf.handles)
    /\ inOrder \in BOOLEAN
    /\ submits \in 0 .. MaxSubmits /\ calls \in 0 .. MaxCalls

\* Every buffer object the device will touch for this submission is among the
\* handles the ioctl got: the kernel maps and pins no other.
HandlesComplete == run.missing = {}

\* Every handle the ioctl got named an open buffer object, so a submission is never
\* refused for a buffer object that is gone.
HandlesOpen == run.closed = {}

\* The preemption buffer index points at the preemption buffer, not at memory of the
\* application.
PreemptionIndexRight == run.preempt \subseteq {preemptBo}

\* The inferences run with the arguments the application set last.
ArgumentsApplied == run.applied
=============================================================================

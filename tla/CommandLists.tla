---------------------------- MODULE CommandLists ----------------------------
(***************************************************************************)
(* Command lists, immediate command lists and events: what an append call  *)
(* pushes to the list's job, what is left of one that failed, which job    *)
(* owns a command (and with it the parsed inference the command runs), how *)
(* events order work, and which command the id of a mutable command names. *)
(*                                                                         *)
(* Every list is used by one thread.  Regular lists are executed on one    *)
(* queue, an immediate list on the queue it owns.  The buffers of a job    *)
(* run in the order of the list (ListInOrder of module InOrderQueue), so a *)
(* submitted job is the sequence of its commands here.                     *)
(***************************************************************************)
EXTENDS Integers, Sequences, SequencesExt, FiniteSets, FiniteSetsExt, Functions

CONSTANTS
    RegularLists,    \* lists made by zeCommandListCreate
    MutableLists,    \* those with a mutable command list descriptor
    ImmediateLists,  \* lists made by zeCommandListCreateImmediate
    Events,          \* slots of the event pool
    MaxJobs,         \* bound: jobs alive at a time
    MaxAppends,      \* bound: append calls
    MaxWaits,        \* bound: events an append call waits for
    MaxEventOps,     \* bound: calls on events
    MaxSubmits,      \* bound: submissions
    Ops,             \* the append calls the application makes
    Errors,          \* may an allocation or the SUBMIT ioctl fail?
    Aborts,          \* may the kernel abort a job?
    Avoid            \* what does not happen, see below

Lists   == RegularLists \cup ImmediateLists
Queues  == ImmediateLists \cup {"main"}
Jobs    == 1 .. MaxJobs
None    == "none"
\* "copy" stands for every append of one command without an inference: copies,
\* barriers, fills done as copies, graph initialisation, metric queries.
AllOps  == {"copy", "region", "fill", "timestamp", "infer", "signal", "waits", "reset"}

(***************************************************************************)
(* What the bookkeeping does not survive.  With one of them left out of    *)
(* Avoid, a property below fails.                                          *)
(*   region   a copy of several rows that signals an event                 *)
(*   leftover a list goes on being used, without a reset, after an append  *)
(*            that failed                                                  *)
(*   remutate a mutable list is reset after an inference with wait events  *)
(*   midway   the kernel refuses a later buffer of a job after it took an  *)
(*            earlier one                                                  *)
(*   recreate an event goes that a list still names                        *)
(***************************************************************************)
Hazards == {"region", "leftover", "remutate", "midway", "recreate"}

ASSUME ParametersAssumption ==
    /\ MutableLists \subseteq RegularLists
    /\ RegularLists \cap ImmediateLists = {} /\ "main" \notin Lists
    /\ IsFiniteSet(Lists) /\ Cardinality(Lists) <= MaxJobs
    /\ None \notin Events /\ Ops \subseteq AllOps
    /\ MaxJobs \in Nat /\ MaxAppends \in Nat /\ MaxWaits \in Nat
    /\ MaxEventOps \in Nat /\ MaxSubmits \in Nat
    /\ Errors \in BOOLEAN /\ Aborts \in BOOLEAN
    /\ Avoid \subseteq Hazards

VARIABLES
    vpuJob,       \* list -> its job
    commandIdMap, \* list -> what the id of an inference with waits stands for
    commands,     \* job -> its commands
    phase,        \* job -> open, closed, or dirty: a command buffer could not be made
    jobStatus,    \* job -> what the kernel reports of its last submission
    trackedJobs,  \* queue -> jobs it waits for
    events,       \* slots of the pool in use
    eventState,   \* slot -> the word in the pool
    associated,   \* event -> jobs that signal it
    call,         \* list -> the append call under way
    device,       \* job -> the commands submitted, and those completed
    outcome,      \* what each append call returned
    handed,       \* mutable list -> ids given out, with the append they are for
    budget        \* bounds: calls on events and submissions made

vars == <<vpuJob, commandIdMap, commands, phase, jobStatus, trackedJobs, events,
          eventState, associated, call, device, outcome, handed, budget>>

QueueOf(l) == IF l \in ImmediateLists THEN l ELSE "main"

EventStates == {"initial", "device_reset", "host_reset", "device_signal", "host_signal"}
Signalled(e) == eventState[e] \in {"device_signal", "host_signal"}

Appends == 1 .. MaxAppends
Kinds   == {"work", "infer", "wait", "signal", "reset"}
Cmd(kind, e, app, hpi) == [kind |-> kind, event |-> e, app |-> app, hpi |-> hpi]
Fences(cmds) == {i \in DOMAIN cmds : cmds[i].kind \in {"wait", "signal", "reset"}}

NoCall  == [op |-> None]
NoRun   == [list |-> None, cmds |-> <<>>, done |-> {}]
Running == {j \in Jobs : device[j] # NoRun}

(***************************************************************************)
(* A job lives while a list or the tracked jobs of a queue point to it;    *)
(* its commands go with it, and the weak pointers of events expire.        *)
(***************************************************************************)
Held(lists, queues) == Range(lists) \cup UNION Range(queues)
HeldJobs == Held(vpuJob, trackedJobs)

Keep(H) ==
    /\ commands'   = [j \in Jobs |-> IF j \in H THEN commands[j] ELSE <<>>]
    /\ phase'      = [j \in Jobs |-> IF j \in H THEN phase[j] ELSE "open"]
    /\ jobStatus'  = [j \in Jobs |-> IF j \in H THEN jobStatus[j] ELSE "idle"]
    /\ associated' = [e \in Events |-> associated[e] \cap H]

\* std::make_shared<VPUJob>: an object no list, queue or submission knows.
FreeJobs == Jobs \ (HeldJobs \cup Running)

\* Mutant: the job object is one that only a list holds.
NewJobOfList == Min(Jobs \ ((UNION Range(trackedJobs)) \cup Running))

NewJob == Min(FreeJobs)

Init ==
    /\ vpuJob = CHOOSE f \in [Lists -> 1 .. Cardinality(Lists)] : IsInjective(f)
    /\ commandIdMap = [l \in MutableLists |-> <<>>]
    /\ commands = [j \in Jobs |-> <<>>]
    /\ phase = [j \in Jobs |-> "open"]
    /\ jobStatus = [j \in Jobs |-> "idle"]
    /\ trackedJobs = [q \in Queues |-> {}]
    /\ events = {}
    /\ eventState = [e \in Events |-> "initial"]
    /\ associated = [e \in Events |-> {}]
    /\ call = [l \in Lists |-> NoCall]
    /\ device = [j \in Jobs |-> NoRun]
    /\ outcome = <<>>
    /\ handed = [l \in MutableLists |-> {}]
    /\ budget = [events |-> 0, submits |-> 0]

-----------------------------------------------------------------------------
(***************************************************************************)
(* What one round of an append call pushes: the wait events, the commands  *)
(* themselves and the signal event.  A fill above the size limit takes a   *)
(* round per chunk, with the waits in the first and the signal in the      *)
(* last; a region copy takes a round per row, each with waits and signal.  *)
(***************************************************************************)
Rounds(op) == IF op \in {"region", "fill"} THEN 2 ELSE 1

\* Mutant: what only a queue holds counts as free.
HeldHpisOfLists == UNION {{c.hpi : c \in Range(commands[j])} : j \in Range(vpuJob)}

HeldHpis == UNION {{c.hpi : c \in Range(commands[j])} : j \in HeldJobs}

\* HostParsedInferenceManager::acquire: the first one no command holds, or a copy.
acquire == Min((1 .. Cardinality(HeldHpis) + 1) \ HeldHpis)

RoundWaits(c) ==
    IF c.op = "fill" /\ c.round > 1 THEN <<>>
    ELSE [i \in DOMAIN c.waits |-> Cmd("wait", c.waits[i], c.app, 0)]

RoundWork(c) ==
    CASE c.op = "timestamp"           -> <<Cmd("work", None, c.app, 0), Cmd("work", None, c.app, 0)>>
      [] c.op = "infer"               -> <<Cmd("infer", None, c.app, acquire)>>
      [] c.op = "reset"               -> <<Cmd("reset", c.event, c.app, 0)>>
      [] c.op \in {"signal", "waits"} -> <<>>
      [] OTHER                        -> <<Cmd("work", None, c.app, 0)>>

\* Mutant: every chunk of a fill signals the event.
RoundSignalEvery(c) ==
    IF c.op = "reset" \/ c.event = None THEN <<>> ELSE <<Cmd("signal", c.event, c.app, 0)>>

RoundSignal(c) ==
    IF c.op = "reset" \/ c.event = None \/ (c.op = "fill" /\ c.round < Rounds("fill")) THEN <<>>
    ELSE <<Cmd("signal", c.event, c.app, 0)>>

\* Commands of an append that failed, still in the list.
Leftover(l) ==
    /\ l \in ImmediateLists => phase[vpuJob[l]] # "closed"
    /\ \E c \in Range(commands[vpuJob[l]]) : outcome[c.app] = "error"

InUse(l) == "leftover" \in Avoid => ~Leftover(l)

\* The round is over: the next one starts, or the call returns.
EndRound(l, ok) ==
    LET c == call[l] IN
    IF ok /\ c.round < Rounds(c.op)
    THEN /\ call' = [call EXCEPT ![l].round = @ + 1, ![l].pc = "check"]
         /\ UNCHANGED <<outcome, handed>>
    ELSE /\ call' = [call EXCEPT ![l] = NoCall]
         /\ outcome' = [outcome EXCEPT ![c.app] = IF ok THEN "ok" ELSE "error"]
         /\ handed' = IF ok /\ c.op = "infer" /\ l \in MutableLists
                      THEN [handed EXCEPT ![l] = @ \cup {[id |-> c.id, app |-> c.app]}]
                      ELSE handed

(***************************************************************************)
(* The application makes an append call; before it appends an inference to *)
(* a mutable list it asks for the id of the next command.  Wait and signal *)
(* calls on an immediate list are left out: they fail and change nothing.  *)
(***************************************************************************)
getNextCommandId(l) == Len(commands[vpuJob[l]])

AppendCall(l, op, waits, e) ==
    /\ call[l] = NoCall /\ Len(outcome) < MaxAppends /\ InUse(l)
    /\ op \in {"signal", "waits"} => l \in RegularLists
    /\ op \in {"signal", "reset"} => e # None /\ waits = <<>>
    /\ op = "waits" => e = None /\ waits # <<>>
    /\ "region" \in Avoid => op # "region" \/ e = None
    /\ outcome' = Append(outcome, "open")
    /\ call' = [call EXCEPT ![l] = [op |-> op, app |-> Len(outcome) + 1, waits |-> waits,
                                    event |-> e, round |-> 1, pc |-> "check",
                                    id |-> getNextCommandId(l)]]
    /\ UNCHANGED <<vpuJob, commandIdMap, commands, phase, jobStatus, trackedJobs, events,
                   eventState, associated, device, handed, budget>>

(***************************************************************************)
(* A round of an append to a regular list.  The k-th of its commands may   *)
(* fail to be made, which leaves what was pushed before it.  A job whose   *)
(* command buffers exist takes no commands.                                *)
(***************************************************************************)
\* unordered_map::emplace: an id that is there keeps its index.
Emplaced(map, id, index) ==
    [i \in DOMAIN map \cup {id} |-> IF i \in DOMAIN map THEN map[i] ELSE index]

\* Mutant: the id is taken to be the place of the command.
emplaceId(l, id, index) == [commandIdMap EXCEPT ![l] = Emplaced(@, id, id)]

emplace(l, id, index) == [commandIdMap EXCEPT ![l] = Emplaced(@, id, index)]

\* Mutant: a closed job takes commands.
PushedToClosed(j, c, k) ==
    RoundWaits(c) \o SubSeq(RoundWork(c), 1, k)
        \o (IF k = Len(RoundWork(c)) THEN RoundSignal(c) ELSE <<>>)

Pushed(j, c, k) ==
    IF phase[j] # "open" THEN <<>>
    ELSE RoundWaits(c) \o SubSeq(RoundWork(c), 1, k)
             \o (IF k = Len(RoundWork(c)) THEN RoundSignal(c) ELSE <<>>)

AppendToList(l) ==
    LET c == call[l]
        j == vpuJob[l]
        size == Len(RoundWork(c))
    IN
    /\ l \in RegularLists /\ c # NoCall
    /\ \E k \in 0 .. size :
        LET pushed == Pushed(j, c, k) IN
        /\ k < size => Errors
        /\ commands' = [commands EXCEPT ![j] = @ \o pushed]
        /\ associated' = [e \in Events |->
               IF \E cmd \in Range(pushed) : cmd.kind = "signal" /\ cmd.event = e
               THEN associated[e] \cup {j} ELSE associated[e]]
        /\ commandIdMap' = IF c.op = "infer" /\ l \in MutableLists /\ phase[j] = "open"
                                /\ c.waits # <<>>
                           THEN emplace(l, Len(commands[j]), Len(commands[j]) + Len(c.waits))
                           ELSE commandIdMap
        /\ EndRound(l, phase[j] = "open" /\ k = size)
    /\ UNCHANGED <<vpuJob, phase, jobStatus, trackedJobs, events, eventState, device, budget>>

(***************************************************************************)
(* scheduleCommands cuts the job after every signal; a buffer whose ioctl  *)
(* fails ends the submission, with the buffers before it on the device.    *)
(***************************************************************************)
BufferEnds(cmds) == {i \in DOMAIN cmds : cmds[i].kind = "signal" \/ i = Len(cmds)}

Accepted(cmds) ==
    {Len(cmds)}
    \cup (IF Errors THEN {0} ELSE {})
    \cup (IF Errors /\ "midway" \notin Avoid THEN BufferEnds(cmds) ELSE {})

Submitted(l, j, cmds, n) ==
    /\ budget.submits < MaxSubmits
    /\ budget' = [budget EXCEPT !.submits = @ + 1]
    /\ device' = IF n = 0 THEN device
                 ELSE [device EXCEPT ![j] = [list |-> l, cmds |-> SubSeq(cmds, 1, n), done |-> {}]]

\* Mutant: the queue forgets the job.
TrackedNever(q, j, whole) == trackedJobs

\* executeCommandLists keeps a job that went out whole until synchronize succeeds.
Tracked(q, j, whole) ==
    IF whole THEN [trackedJobs EXCEPT ![q] = @ \cup {j}] ELSE trackedJobs

(***************************************************************************)
(* checkCommandAppendCondition of an immediate list: wait for the queue    *)
(* without a timeout and drop a job that is closed.  After a failed job    *)
(* synchronize keeps the tracked jobs and reports the error every time.    *)
(***************************************************************************)
AllSucceeded(q) == \A j \in trackedJobs[q] : jobStatus[j] = "success"

ImmediateCheck(l) ==
    /\ l \in ImmediateLists /\ call[l] # NoCall /\ call[l].pc = "check"
    /\ trackedJobs[l] \cap Running = {}
    /\ trackedJobs' = [trackedJobs EXCEPT ![l] = IF AllSucceeded(l) THEN {} ELSE @]
    /\ IF phase[vpuJob[l]] = "closed"
       THEN FreeJobs # {} /\ vpuJob' = [vpuJob EXCEPT ![l] = NewJob]
       ELSE UNCHANGED vpuJob
    /\ Keep(Held(vpuJob', trackedJobs'))
    /\ IF AllSucceeded(l)
       THEN call' = [call EXCEPT ![l].pc = "push"] /\ UNCHANGED <<outcome, handed>>
       ELSE EndRound(l, FALSE)
    /\ UNCHANGED <<commandIdMap, events, eventState, device, budget>>

(***************************************************************************)
(* The rest of the round: wait and signal commands cannot be made, since   *)
(* the event pool is not among the tracked buffers; then postAppend closes *)
(* the job, submits it and starts a new one.                               *)
(***************************************************************************)
ImmediateFails(l) ==
    LET c == call[l]
        j == vpuJob[l]
        work == RoundWork(c)
    IN
    /\ l \in ImmediateLists /\ c # NoCall /\ c.pc = "push"
    /\ \E k \in 0 .. Len(work) :
        /\ \/ RoundWaits(c) # <<>> /\ k = 0
           \/ RoundWaits(c) = <<>> /\ k < Len(work) /\ Errors
           \/ RoundWaits(c) = <<>> /\ k = Len(work) /\ (RoundSignal(c) # <<>> \/ Errors)
        /\ commands' = [commands EXCEPT ![j] = @ \o SubSeq(work, 1, k)]
    /\ EndRound(l, FALSE)
    /\ UNCHANGED <<vpuJob, commandIdMap, phase, jobStatus, trackedJobs, events, eventState,
                   associated, device, budget>>

ImmediateExecute(l) ==
    LET c == call[l]
        j == vpuJob[l]
        cmds == commands[j] \o RoundWork(c)
    IN
    /\ l \in ImmediateLists /\ c # NoCall /\ c.pc = "push" /\ FreeJobs # {}
    /\ RoundWaits(c) = <<>> /\ RoundSignal(c) = <<>>
    /\ commands' = [commands EXCEPT ![j] = cmds]
    /\ phase' = [phase EXCEPT ![j] = "closed"]
    /\ \E n \in Accepted(cmds) :
        /\ Submitted(l, j, cmds, n)
        /\ EndRound(l, n = Len(cmds))
        /\ jobStatus' = [jobStatus EXCEPT ![j] = IF n = 0 THEN "idle" ELSE "running"]
        /\ trackedJobs' = Tracked(l, j, n = Len(cmds))
        /\ vpuJob' = IF n = Len(cmds) THEN [vpuJob EXCEPT ![l] = NewJob] ELSE vpuJob
    /\ UNCHANGED <<commandIdMap, events, eventState, associated>>

-----------------------------------------------------------------------------
\* CommandList::close; a buffer that cannot be made leaves those before it.
Close(l) ==
    LET j == vpuJob[l] IN
    /\ l \in RegularLists /\ call[l] = NoCall /\ phase[j] = "open" /\ InUse(l)
    /\ \/ phase' = [phase EXCEPT ![j] = "closed"]
       \/ /\ Errors /\ Cardinality(BufferEnds(commands[j])) > 1
          /\ phase' = [phase EXCEPT ![j] = "dirty"]
    /\ UNCHANGED <<vpuJob, commandIdMap, commands, jobStatus, trackedJobs, events, eventState,
                   associated, call, device, outcome, handed, budget>>

\* CommandQueue::executeCommandLists with one list; it tracks a job that went out whole.
Execute(l) ==
    LET j == vpuJob[l] IN
    /\ l \in RegularLists /\ call[l] = NoCall
    /\ phase[j] = "closed" /\ commands[j] # <<>> /\ j \notin Running
    /\ \E n \in Accepted(commands[j]) :
        /\ Submitted(l, j, commands[j], n)
        /\ jobStatus' = [jobStatus EXCEPT ![j] = IF n = 0 THEN @ ELSE "running"]
        /\ trackedJobs' = Tracked("main", j, n = Len(commands[j]))
    /\ UNCHANGED <<vpuJob, commandIdMap, commands, phase, events, eventState, associated,
                   call, outcome, handed>>

\* CommandList::reset: a new job; commandIdMap stays.
Reset(l) ==
    /\ call[l] = NoCall /\ FreeJobs # {} /\ commands[vpuJob[l]] # <<>>
    /\ "remutate" \in Avoid /\ l \in MutableLists => DOMAIN commandIdMap[l] = {}
    /\ vpuJob' = [vpuJob EXCEPT ![l] = NewJob]
    /\ handed' = IF l \in MutableLists THEN [handed EXCEPT ![l] = {}] ELSE handed
    /\ Keep(Held(vpuJob', trackedJobs))
    /\ UNCHANGED <<commandIdMap, trackedJobs, events, eventState, call, device, outcome, budget>>

\* CommandQueue::synchronize of the queue of the regular lists, when it succeeds.
QueueSynchronize ==
    /\ trackedJobs["main"] # {} /\ trackedJobs["main"] \cap Running = {} /\ AllSucceeded("main")
    /\ trackedJobs' = [trackedJobs EXCEPT !["main"] = {}]
    /\ Keep(Held(vpuJob, trackedJobs'))
    /\ UNCHANGED <<vpuJob, commandIdMap, events, eventState, call, device, outcome, handed, budget>>

\* ImmediateCommandList::hostSynchronize, when it succeeds: the list is reset.
ImmediateSynchronize(l) ==
    /\ l \in ImmediateLists /\ call[l] = NoCall /\ FreeJobs # {}
    /\ trackedJobs[l] \cap Running = {} /\ AllSucceeded(l)
    /\ trackedJobs[l] # {} \/ commands[vpuJob[l]] # <<>>
    /\ trackedJobs' = [trackedJobs EXCEPT ![l] = {}]
    /\ vpuJob' = [vpuJob EXCEPT ![l] = NewJob]
    /\ Keep(Held(vpuJob', trackedJobs'))
    /\ UNCHANGED <<commandIdMap, events, eventState, call, device, outcome, handed, budget>>

-----------------------------------------------------------------------------
(***************************************************************************)
(* Events.  A slot of the pool is created once until it is destroyed; the  *)
(* event word is written by the host and by the device.                    *)
(***************************************************************************)
Names(cmds, e) == \E c \in Range(cmds) : c.event = e
NamedBy(e) == {j \in Jobs : Names(commands[j], e) \/ Names(device[j].cmds, e)}
InCall(e) == \E l \in Lists : call[l] # NoCall /\ e \in Range(call[l].waits) \cup {call[l].event}

EventCall ==
    /\ budget.events < MaxEventOps
    /\ budget' = [budget EXCEPT !.events = @ + 1]
    /\ UNCHANGED <<vpuJob, commandIdMap, commands, phase, jobStatus, trackedJobs, call,
                   device, outcome, handed>>

CreateEvent(e) ==
    /\ e \notin events
    /\ events' = events \cup {e}
    /\ eventState' = [eventState EXCEPT ![e] = "initial"]
    /\ associated' = [associated EXCEPT ![e] = {}]
    /\ EventCall

DestroyEvent(e) ==
    /\ e \in events /\ ~InCall(e)
    /\ "recreate" \in Avoid => NamedBy(e) = {}
    /\ events' = events \ {e}
    /\ UNCHANGED <<eventState, associated>>
    /\ EventCall

HostSetEvent(e, state) ==
    /\ e \in events
    /\ eventState' = [eventState EXCEPT ![e] = state]
    /\ UNCHANGED <<events, associated>>
    /\ EventCall

hostSignal(e) == HostSetEvent(e, "host_signal")
hostReset(e)  == HostSetEvent(e, "host_reset")

\* Mutant: a job only a queue holds counts as gone.
WaitedForOfLists(e) == associated[e] \cap Range(vpuJob)

\* Event::hostSynchronize waits for these before it looks at the event word.
WaitedFor(e) == associated[e] \cap HeldJobs

(***************************************************************************)
(* The device.  A wait stops the job until the event is signalled, a       *)
(* signal or reset completes after all commands before it; other commands  *)
(* may overlap.                                                            *)
(***************************************************************************)
DeviceStep(j, i) ==
    LET cmds == device[j].cmds
        cmd  == cmds[i]
        done == device[j].done \cup {i}
    IN
    /\ i \notin device[j].done
    /\ (IF cmd.kind \in {"signal", "reset"} THEN 1 .. i - 1 ELSE Fences(cmds) \cap (1 .. i - 1))
           \subseteq device[j].done
    /\ cmd.kind = "wait" => Signalled(cmd.event)
    /\ eventState' = CASE cmd.kind = "signal" -> [eventState EXCEPT ![cmd.event] = "device_signal"]
                       [] cmd.kind = "reset"  -> [eventState EXCEPT ![cmd.event] = "device_reset"]
                       [] OTHER               -> eventState
    /\ IF done = DOMAIN cmds
       THEN /\ device' = [device EXCEPT ![j] = NoRun]
            /\ jobStatus' = [jobStatus EXCEPT ![j] = IF j \in HeldJobs THEN "success" ELSE @]
       ELSE device' = [device EXCEPT ![j].done = done] /\ UNCHANGED jobStatus
    /\ UNCHANGED <<vpuJob, commandIdMap, commands, phase, trackedJobs, events, associated,
                   call, outcome, handed, budget>>

\* The kernel aborts a job: the commands that are left never run.
Abort(j) ==
    /\ Aborts /\ j \in Running
    /\ device' = [device EXCEPT ![j] = NoRun]
    /\ jobStatus' = [jobStatus EXCEPT ![j] = IF j \in HeldJobs THEN "failed" ELSE @]
    /\ UNCHANGED <<vpuJob, commandIdMap, commands, phase, trackedJobs, events, eventState,
                   associated, call, outcome, handed, budget>>

WaitLists == BoundedSeq(events, MaxWaits)

Next ==
    \/ \E l \in Lists :
        \/ \E op \in Ops, waits \in WaitLists, e \in events \cup {None} :
               AppendCall(l, op, waits, e)
        \/ AppendToList(l) \/ ImmediateCheck(l) \/ ImmediateFails(l) \/ ImmediateExecute(l)
        \/ Close(l) \/ Execute(l) \/ Reset(l) \/ ImmediateSynchronize(l)
    \/ QueueSynchronize
    \/ \E e \in Events : CreateEvent(e) \/ DestroyEvent(e) \/ hostSignal(e) \/ hostReset(e)
    \/ \E j \in Running : (\E i \in DOMAIN device[j].cmds : DeviceStep(j, i)) \/ Abort(j)

Spec == Init /\ [][Next]_vars

-----------------------------------------------------------------------------
CommandSet == [kind : Kinds, event : Events \cup {None}, app : Appends,
               hpi : 0 .. MaxAppends]

\* Types of the state: every list has a job of its own, and every command was
\* pushed by an append call.
TypeOK ==
    /\ vpuJob \in [Lists -> Jobs] /\ IsInjective(vpuJob)
    /\ \A j \in Jobs : Range(commands[j]) \subseteq CommandSet
    /\ phase \in [Jobs -> {"open", "dirty", "closed"}]
    /\ jobStatus \in [Jobs -> {"idle", "running", "success", "failed"}]
    /\ trackedJobs \in [Queues -> SUBSET Jobs]
    /\ events \subseteq Events /\ eventState \in [Events -> EventStates]
    /\ associated \in [Events -> SUBSET Jobs]
    /\ Range(outcome) \subseteq {"open", "ok", "error"} /\ Len(outcome) <= MaxAppends
    /\ \A j \in Jobs : device[j].done \subseteq DOMAIN device[j].cmds
    /\ \A l \in MutableLists : DOMAIN commandIdMap[l] \subseteq Nat

\* An event orders the whole append call that names it: when the device signals
\* the event of a call, every command of the call has completed, and no other command
\* of a call completes before the waits of that call.
EventsOrderWork ==
    \A j \in Running : \A i \in device[j].done :
        LET cmds == device[j].cmds
            mine == {k \in DOMAIN cmds : cmds[k].app = cmds[i].app}
        IN  /\ cmds[i].kind = "signal" => mine \subseteq device[j].done
            /\ cmds[i].kind # "wait" => \A k \in mine : cmds[k].kind = "wait" =>
                   \E w \in mine \cap device[j].done : cmds[w] = cmds[k]

\* updateMutableCommands: the command an id stands for.
Resolve(l, id) == IF id \in DOMAIN commandIdMap[l] THEN commandIdMap[l][id] ELSE id

\* The id getNextCommandId gave out for an inference leads updateMutableCommands
\* to the command of that inference, whatever wait events it was appended with.
IdNamesItsCommand ==
    \A l \in MutableLists : \A h \in handed[l] :
        LET k == Resolve(l, h.id) + 1
            cmds == commands[vpuJob[l]]
        IN  k \in DOMAIN cmds /\ cmds[k].kind = "infer" /\ cmds[k].app = h.app

\* A parsed inference belongs to one command: acquire never gives out one that a
\* command of a list, of a tracked job or on the device still uses.
HpiExclusive ==
    LET users(h) == (UNION {{<<j, i>> : i \in {k \in DOMAIN commands[j] : commands[j][k].hpi = h}}
                                : j \in HeldJobs})
                    \cup (UNION {{<<j, i>> : i \in {k \in DOMAIN device[j].cmds \ device[j].done :
                                                        device[j].cmds[k].hpi = h}} : j \in Running})
    IN  \A h \in 1 .. MaxAppends : Cardinality(users(h)) <= 1

\* No command goes to the device after its append call returned an error.
RejectedNeverSubmitted ==
    [][\A j \in Jobs : j \notin Running =>
          \A c \in Range(device'[j].cmds) : outcome[c.app] # "error"]_vars

\* The append calls of an immediate list run one after the other, and one that
\* returned success is on its way to the device: hostSynchronize drops no command
\* that was accepted.
ImmediateInOrder ==
    \A l \in ImmediateLists :
        /\ Cardinality({j \in Running : device[j].list = l}) <= 1
        /\ \A c \in Range(commands[vpuJob[l]]) : outcome[c.app] # "ok"

\* The wait of Event::hostSynchronize covers every job that will still signal the
\* event.
EventKnowsItsJobs ==
    \A e \in events, j \in Running :
        (\E i \in DOMAIN device[j].cmds \ device[j].done :
            device[j].cmds[i].kind = "signal" /\ device[j].cmds[i].event = e)
        => j \in WaitedFor(e)
=============================================================================

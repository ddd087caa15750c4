------------------------------ MODULE Metrics -------------------------------
(***************************************************************************)
(* Metric groups, query pools and streamers.  The activated groups belong  *)
(* to the device and are shared by all contexts of the process; an entry   *)
(* names the file descriptor of the context that activated the group.  No  *)
(* lock protects them.  The kernel runs one streamer per descriptor and    *)
(* group, and gives a closed descriptor's number to the next context.      *)
(***************************************************************************)
EXTENDS Integers, Sequences, SequencesExt, FiniteSets, FiniteSetsExt, Functions

CONSTANTS
    Contexts,   \* contexts of the process
    Groups,     \* metric groups of the device
    Domain,     \* group -> its domain
    PoolSize,   \* queries of a pool
    MaxReady,   \* bound: samples the kernel keeps for a streamer
    MaxCalls,   \* bound: calls of the application
    Avoid       \* what the application refrains from, see below

(***************************************************************************)
(* Uses the bookkeeping does not survive.  With one of them left out of    *)
(* Avoid, a property below fails.                                          *)
(*   race    two contexts activate groups at the same time                 *)
(*   destroy a context goes without a last activateMetricGroups of none    *)
(*   notify  the event of a closed streamer is looked at                   *)
(***************************************************************************)
Hazards == {"race", "destroy", "notify"}

ASSUME ParametersAssumption ==
    /\ Domain \in [Groups -> Nat] /\ PoolSize \in Nat \ {0}
    /\ MaxReady \in Nat /\ MaxCalls \in Nat /\ Avoid \subseteq Hazards
    /\ IsFiniteSet(Contexts) /\ IsFiniteSet(Groups)

Fds   == 1 .. Cardinality(Contexts)
NoFd  == 0
None  == "none"
Slots == 0 .. PoolSize - 1

VARIABLES
    fd,         \* context -> its descriptor, NoFd if there is no context
    activated,  \* groups with the activated flag
    entries,    \* activatedMetricGroups
    call,       \* context -> what is left of an activateMetricGroups call
    asked,      \* contexts whose last activateMetricGroups named groups (history)
    pool,       \* context -> group of its query pool, None if there is none
    queries,    \* context -> slots of the pool in use
    streamer,   \* context -> group -> actualBufferSize of its streamer, -1 if none
    stream,     \* descriptor -> group -> samples ready in the kernel, -1 if stopped
    event,      \* context -> group and amount its event tracks, whether it is
                \* signalled, and the streamer it was given to (history)
    opened,     \* context -> group -> streamers opened so far (history)
    calls       \* bound: calls made

groupVars  == <<activated, entries, call, asked>>
queryVars  == <<pool, queries>>
streamVars == <<streamer, stream, event, opened>>
vars == <<fd, groupVars, queryVars, streamVars, calls>>

Idle == [todo |-> <<>>, pc |-> "idle"]
NoStreamer == [group |-> None, opening |-> 0]
NoTrack == [group |-> None, expected |-> 0, for |-> NoStreamer, signalled |-> FALSE]

Init ==
    /\ fd = [c \in Contexts |-> NoFd]
    /\ activated = {} /\ entries = {}
    /\ call = [c \in Contexts |-> Idle]
    /\ asked = {}
    /\ pool = [c \in Contexts |-> None]
    /\ queries = [c \in Contexts |-> {}]
    /\ streamer = [c \in Contexts |-> [g \in Groups |-> -1]]
    /\ stream = [f \in Fds |-> [g \in Groups |-> -1]]
    /\ event = [c \in Contexts |-> NoTrack]
    /\ opened = [c \in Contexts |-> [g \in Groups |-> 0]]
    /\ calls = 0

Call(c) ==
    /\ calls < MaxCalls /\ fd[c] # NoFd /\ call[c] = Idle
    /\ calls' = calls + 1

-----------------------------------------------------------------------------
(***************************************************************************)
(* Contexts.  ~Context destroys its objects, which stops the streamers,    *)
(* and closes the descriptor; the activated groups stay.                   *)
(***************************************************************************)
CreateContext(c) ==
    /\ fd[c] = NoFd /\ calls < MaxCalls
    /\ calls' = calls + 1
    /\ fd' = [fd EXCEPT ![c] = Min(Fds \ Range(fd))]
    /\ UNCHANGED <<groupVars, queryVars, streamVars>>

DestroyContext(c) ==
    /\ Call(c)
    /\ "destroy" \in Avoid => c \notin asked
    /\ asked' = asked \ {c}
    /\ fd' = [fd EXCEPT ![c] = NoFd]
    /\ pool' = [pool EXCEPT ![c] = None]
    /\ queries' = [queries EXCEPT ![c] = {}]
    /\ streamer' = [streamer EXCEPT ![c] = [g \in Groups |-> -1]]
    /\ stream' = [stream EXCEPT ![fd[c]] = [g \in Groups |-> -1]]
    /\ event' = [event EXCEPT ![c] = NoTrack]
    /\ UNCHANGED <<activated, entries, call, opened>>

-----------------------------------------------------------------------------
(***************************************************************************)
(* activateMetricGroups: deactivate what this descriptor has activated,    *)
(* then look at each group and activate it.  A group that cannot be        *)
(* activated is skipped.                                                   *)
(***************************************************************************)
Others(f) == {x \in entries : x.fd # f}

\* Mutant: one group of the context is deactivated, the others stay.
deactivateFirst(f) ==
    /\ entries' = IF entries = Others(f) THEN entries
                  ELSE Others(f) \cup ((entries \ Others(f)) \ {CHOOSE x \in entries : x.fd = f})
    /\ activated' = {x.group : x \in entries'}

deactivateMetricGroups(f) ==
    /\ entries' = Others(f)
    /\ activated' = activated \ {x.group : x \in entries \ Others(f)}

ActivateMetricGroups(c, groups) ==
    /\ Call(c)
    /\ "race" \in Avoid => \A d \in Contexts : call[d] = Idle
    /\ deactivateMetricGroups(fd[c])
    /\ call' = IF groups = <<>> THEN call
               ELSE [call EXCEPT ![c] = [todo |-> groups, pc |-> "check"]]
    /\ asked' = IF groups = <<>> THEN asked \ {c} ELSE asked \cup {c}
    /\ UNCHANGED <<fd, queryVars, streamVars>>

NextGroup(c) == IF Len(call[c].todo) = 1 THEN Idle
                ELSE [todo |-> Tail(call[c].todo), pc |-> "check"]

\* Mutant: only the groups of this context count for a domain.
MayActivateOfContext(c, g) ==
    /\ g \notin activated
    /\ \A x \in entries \ Others(fd[c]) : Domain[x.group] # Domain[g]

MayActivate(c, g) ==
    /\ g \notin activated
    /\ \A x \in entries : Domain[x.group] # Domain[g]

CheckGroup(c) ==
    /\ call[c].pc = "check"
    /\ call' = [call EXCEPT ![c] = IF MayActivate(c, Head(@.todo)) THEN [@ EXCEPT !.pc = "commit"]
                                   ELSE NextGroup(c)]
    /\ UNCHANGED <<fd, activated, entries, asked, queryVars, streamVars, calls>>

CommitGroup(c) ==
    LET g == Head(call[c].todo) IN
    /\ call[c].pc = "commit"
    /\ activated' = activated \cup {g}
    /\ entries' = entries \cup {[group |-> g, fd |-> fd[c], by |-> c]}
    /\ call' = [call EXCEPT ![c] = NextGroup(c)]
    /\ UNCHANGED <<fd, asked, queryVars, streamVars, calls>>

-----------------------------------------------------------------------------
(***************************************************************************)
(* Query pools.  Any activated group will do, whoever activated it.        *)
(***************************************************************************)
CreateMetricQueryPool(c, g) ==
    /\ Call(c) /\ pool[c] = None /\ g \in activated
    /\ pool' = [pool EXCEPT ![c] = g]
    /\ UNCHANGED <<fd, groupVars, queries, streamVars>>

\* Mutant: one index too many.
SlotFreeOffByOne(c, index) == index <= PoolSize /\ index \notin queries[c]

SlotFree(c, index) == index < PoolSize /\ index \notin queries[c]

CreateMetricQuery(c, index) ==
    /\ Call(c) /\ pool[c] \in activated /\ SlotFree(c, index)
    /\ queries' = [queries EXCEPT ![c] = @ \cup {index}]
    /\ UNCHANGED <<fd, groupVars, pool, streamVars>>

DestroyMetricQuery(c, index) ==
    /\ Call(c) /\ index \in queries[c]
    /\ queries' = [queries EXCEPT ![c] = @ \ {index}]
    /\ UNCHANGED <<fd, groupVars, pool, streamVars>>

DestroyMetricQueryPool(c) ==
    /\ Call(c) /\ pool[c] # None /\ queries[c] = {}
    /\ pool' = [pool EXCEPT ![c] = None]
    /\ UNCHANGED <<fd, groupVars, queries, streamVars>>

-----------------------------------------------------------------------------
(***************************************************************************)
(* Streamers.  The constructor starts the kernel's streamer, which fails   *)
(* if it runs, and may have an event track the amount of data; close and   *)
(* ~Context stop it.  The event goes on tracking the group.                *)
(***************************************************************************)
\* Mutant: an event keeps the group it tracks.
MetricTrackDataOnce(e, g, expected) ==
    IF e.group = None THEN [e EXCEPT !.group = g, !.expected = expected]
    ELSE [e EXCEPT !.expected = expected]

setMetricTrackData(e, g, expected) == [e EXCEPT !.group = g, !.expected = expected]

MetricStreamerOpen(c, g, expected) ==
    /\ Call(c) /\ g \in activated /\ stream[fd[c]][g] = -1
    /\ stream' = [stream EXCEPT ![fd[c]][g] = 0]
    /\ streamer' = [streamer EXCEPT ![c][g] = 0]
    /\ opened' = [opened EXCEPT ![c][g] = @ + 1]
    /\ event' = IF expected = 0 THEN event
                ELSE [event EXCEPT ![c] = [setMetricTrackData(@, g, expected) EXCEPT
                                              !.for = [group |-> g, opening |-> opened'[c][g]]]]
    /\ UNCHANGED <<fd, groupVars, queryVars>>

\* Mutant: the kernel's streamer goes on.
StreamerCloseOnly(c, g) ==
    /\ Call(c) /\ streamer[c][g] # -1
    /\ streamer' = [streamer EXCEPT ![c][g] = -1]
    /\ UNCHANGED <<fd, groupVars, queryVars, stream, event, opened>>

MetricStreamerClose(c, g) ==
    /\ Call(c) /\ streamer[c][g] # -1
    /\ streamer' = [streamer EXCEPT ![c][g] = -1]
    /\ stream' = [stream EXCEPT ![fd[c]][g] = -1]
    /\ UNCHANGED <<fd, groupVars, queryVars, event, opened>>

\* The kernel collects a sample.
Sample(f, g) ==
    /\ stream[f][g] \in 0 .. MaxReady - 1
    /\ stream' = [stream EXCEPT ![f][g] = @ + 1]
    /\ UNCHANGED <<fd, groupVars, queryVars, streamer, event, opened, calls>>

(***************************************************************************)
(* MetricStreamer::getData.  The ioctl copies no more than the buffer      *)
(* takes; for a size of 0 it copies nothing and returns what is ready.     *)
(***************************************************************************)
getData(f, g, size) ==
    LET copied == Min({size, stream[f][g]})
    IN  [size |-> IF size = 0 THEN stream[f][g] ELSE copied, copied |-> copied]

\* readData with *pRawDataSize = 0: how much is there?
ReadSize(c, g) ==
    /\ Call(c) /\ streamer[c][g] # -1
    /\ streamer' = [streamer EXCEPT ![c][g] = getData(fd[c], g, 0).size]
    /\ UNCHANGED <<fd, groupVars, queryVars, stream, event, opened>>

\* readData otherwise: no more than was there when the caller asked, and no more
\* reports than it wants.
ReadData(c, g, size, maxReports) ==
    LET data == getData(fd[c], g, Min({size, streamer[c][g], maxReports})) IN
    /\ Call(c) /\ streamer[c][g] # -1
    /\ stream' = [stream EXCEPT ![fd[c]][g] = @ - data.copied]
    /\ UNCHANGED <<fd, groupVars, queryVars, streamer, event, opened>>

(***************************************************************************)
(* Event::queryStatus of an event given to a streamer asks the kernel for  *)
(* the amount of data of its group, and signals the event itself.          *)
(***************************************************************************)
StreamerOpen(c, s) == streamer[c][s.group] # -1 /\ opened[c][s.group] = s.opening

EventQuery(c) ==
    LET e == event[c] IN
    /\ Call(c) /\ e.group # None /\ ~e.signalled
    /\ "notify" \in Avoid => StreamerOpen(c, e.for)
    /\ stream[fd[c]][e.group] # -1 /\ getData(fd[c], e.group, 0).size >= e.expected
    /\ event' = [event EXCEPT ![c].signalled = TRUE]
    /\ UNCHANGED <<fd, groupVars, queryVars, streamer, stream, opened>>

EventReset(c) ==
    /\ Call(c) /\ event[c].signalled
    /\ event' = [event EXCEPT ![c].signalled = FALSE]
    /\ UNCHANGED <<fd, groupVars, queryVars, streamer, stream, opened>>

-----------------------------------------------------------------------------
\* The groups of one call: any two of them, the same one twice included.
GroupLists == BoundedSeq(Groups, 2)

Next ==
    \/ \E c \in Contexts :
        \/ CreateContext(c)
        \/ DestroyContext(c)
        \/ \E groups \in GroupLists : ActivateMetricGroups(c, groups)
        \/ CheckGroup(c)
        \/ CommitGroup(c)
        \/ DestroyMetricQueryPool(c)
        \/ \E index \in 0 .. PoolSize : CreateMetricQuery(c, index) \/ DestroyMetricQuery(c, index)
        \/ EventQuery(c)
        \/ EventReset(c)
        \/ \E g \in Groups :
            \/ CreateMetricQueryPool(c, g)
            \/ \E expected \in 0 .. MaxReady : MetricStreamerOpen(c, g, expected)
            \/ MetricStreamerClose(c, g)
            \/ ReadSize(c, g)
            \/ \E size \in 1 .. MaxReady, maxReports \in 0 .. MaxReady :
                ReadData(c, g, size, maxReports)
    \/ \E f \in Fds, g \in Groups : Sample(f, g)

Spec == Init /\ [][Next]_vars

-----------------------------------------------------------------------------
(***************************************************************************)
(* Properties.                                                             *)
(***************************************************************************)
\* Types of the state; no query lies outside its pool.
TypeOK ==
    /\ fd \in [Contexts -> Fds \cup {NoFd}]
    /\ activated \subseteq Groups
    /\ entries \subseteq [group : Groups, fd : Fds, by : Contexts]
    /\ call \in [Contexts -> [todo : Seq(Groups), pc : {"idle", "check", "commit"}]]
    /\ asked \subseteq Contexts
    /\ pool \in [Contexts -> Groups \cup {None}]
    /\ queries \in [Contexts -> SUBSET Slots]
    /\ streamer \in [Contexts -> [Groups -> -1 .. MaxReady]]
    /\ stream \in [Fds -> [Groups -> -1 .. MaxReady]]
    /\ event \in [Contexts -> [group : Groups \cup {None}, expected : Nat, signalled : BOOLEAN,
                               for : [group : Groups \cup {None}, opening : Nat]]]
    /\ opened \in [Contexts -> [Groups -> Nat]]
    /\ calls \in 0 .. MaxCalls

\* The flag of a group and the device's list of activated groups agree, whichever
\* contexts came and went, and of each domain one group at most is activated:
\* activateMetricGroups and deactivateMetricGroups keep two records of one fact.
ActivationConsistent ==
    /\ activated = {x.group : x \in entries}
    /\ \A x, y \in entries : Domain[x.group] = Domain[y.group] => x = y

\* An activated group belongs to the context that activated it, which is still
\* there: an entry names a descriptor, and descriptors are used again.
ActivatorAlive == \A x \in entries : fd[x.by] = x.fd

\* A context has a streamer for a group exactly while the kernel runs one for its
\* descriptor, and nothing runs for a closed descriptor: constructor and
\* destructor of MetricStreamer, and ~Context, start and stop in pairs.
StreamersMatchKernel ==
    /\ \A c \in Contexts, g \in Groups :
        fd[c] # NoFd => (streamer[c][g] # -1 <=> stream[fd[c]][g] # -1)
    /\ \A f \in Fds \ Range(fd), g \in Groups : stream[f][g] = -1

\* An event a query signals was given to a streamer that is still open and has
\* the data the event stands for.
NotifyMeansData ==
    [][\A c \in Contexts : ~event[c].signalled /\ event'[c].signalled =>
           /\ StreamerOpen(c, event[c].for)
           /\ stream[fd[c]][event[c].for.group] >= event[c].expected]_vars
=============================================================================

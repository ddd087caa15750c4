-------------------------- MODULE CommandLists_proofs --------------------------
(***************************************************************************)
(* Command lists and events, for any number of lists, events, calls and    *)
(* submissions.                                                            *)
(***************************************************************************)
EXTENDS CommandLists, FiniteSetTheorems, SequenceTheorems, WellFoundedInduction, TLAPS

-----------------------------------------------------------------------------
(* The inductive invariant.                                                *)

\* Calls under way.
CallSet == [op : AllOps, app : Appends, waits : Seq(Events), event : Events \cup {None},
            round : {1, 2}, pc : {"check", "push"}, id : Nat]
InCallOf(l) == call[l] # NoCall

\* The parts of the state have their types.
Shape ==
    /\ vpuJob \in [Lists -> Jobs] /\ IsInjective(vpuJob)
    /\ DOMAIN commandIdMap = MutableLists
    /\ \A l \in MutableLists : DOMAIN commandIdMap[l] \subseteq Nat
    /\ commands \in [Jobs -> Seq(CommandSet)]
    /\ phase \in [Jobs -> {"open", "dirty", "closed"}]
    /\ jobStatus \in [Jobs -> {"idle", "running", "success", "failed"}]
    /\ trackedJobs \in [Queues -> SUBSET Jobs]
    /\ events \subseteq Events /\ eventState \in [Events -> EventStates]
    /\ associated \in [Events -> SUBSET Jobs]
    /\ call \in [Lists -> CallSet \cup {NoCall}]
    /\ device \in [Jobs -> [list : Lists \cup {None}, cmds : Seq(CommandSet), done : SUBSET Nat]]
    /\ \A j \in Jobs : device[j].done \subseteq DOMAIN device[j].cmds
    /\ outcome \in Seq({"open", "ok", "error"}) /\ Len(outcome) <= MaxAppends
    /\ handed \in [MutableLists -> SUBSET [id : Nat, app : Appends]]

\* What nobody holds is as good as new; what is held and runs is closed.
JobsHeld ==
    /\ \A j \in Jobs \ HeldJobs : /\ commands[j] = <<>> /\ phase[j] = "open"
                                  /\ \A e \in Events : j \notin associated[e]
    /\ \A j \in Running \cap HeldJobs : phase[j] = "closed"

\* The call of list l.
CallBy(l, c) ==
    /\ c.app \in 1 .. Len(outcome) /\ outcome[c.app] = "open"
    /\ c.op \in Ops /\ c.round <= Rounds(c.op)
    /\ c.op \in {"signal", "waits"} => l \in RegularLists
    /\ c.op \in {"signal", "reset"} => c.waits = <<>> /\ c.event # None
    /\ c.op = "waits" => c.event = None
    /\ "region" \in Avoid /\ c.op = "region" => c.event = None
    /\ l \in RegularLists /\ c.round = 2 => phase[vpuJob[l]] # "closed"
    /\ c.pc = "push" => phase[vpuJob[l]] = "open"
    /\ l \in MutableLists /\ c.op = "infer" => c.id = Len(commands[vpuJob[l]])

Calls ==
    /\ \A l \in Lists : InCallOf(l) => CallBy(l, call[l])
    /\ \A l, m \in Lists : InCallOf(l) /\ InCallOf(m) /\ call[l].app = call[m].app => l = m

\* Commands belong to calls made; those of a call under way are of an earlier round.
Apps ==
    /\ \A j \in Jobs : \A i \in DOMAIN commands[j] : commands[j][i].app <= Len(outcome)
    /\ \A j \in Jobs : \A i \in DOMAIN commands[j] : \A l \in Lists :
            InCallOf(l) /\ commands[j][i].app = call[l].app
                => call[l].round = 2 /\ (j \in Range(vpuJob) => j = vpuJob[l])

\* One command for each parsed inference, and one inference for each call.
Hpis ==
    \A j, k \in Jobs : \A i \in DOMAIN commands[j], m \in DOMAIN commands[k] :
        /\ commands[j][i].hpi # 0 /\ commands[k][m].hpi # 0
        /\ commands[j][i].hpi = commands[k][m].hpi \/ commands[j][i].app = commands[k][m].app
        => j = k /\ i = m

\* In the order of a list: the signal of a call is its last command, and the others
\* come after the waits of the call.
SignalsLast(cmds) ==
    \A i, k \in DOMAIN cmds : cmds[i].kind = "signal" /\ cmds[k].app = cmds[i].app => k <= i

WaitsFirst(cmds) ==
    \A i, k \in DOMAIN cmds : cmds[k].kind = "wait" /\ cmds[i].kind # "wait"
                                  /\ cmds[k].app = cmds[i].app
        => \E w \in DOMAIN cmds : w <= i /\ cmds[w] = cmds[k]

Ordered(cmds) == WaitsFirst(cmds) /\ ("region" \in Avoid => SignalsLast(cmds))

\* What the rounds before have left in the list.
RoundsBefore(l, c, cmds) ==
    LET mine == {i \in DOMAIN cmds : cmds[i].app = c.app}
    IN  /\ l \in ImmediateLists => mine = {}
        /\ "region" \in Avoid => \A i \in mine : cmds[i].kind # "signal"
        /\ \A i \in mine : cmds[i].kind # "wait" => \A x \in DOMAIN c.waits :
               \E w \in DOMAIN cmds : w <= i /\ cmds[w] = Cmd("wait", c.waits[x], c.app, 0)

Order ==
    /\ \A j \in Jobs : Ordered(commands[j]) /\ Ordered(device[j].cmds)
    /\ \A l \in Lists : InCallOf(l) => RoundsBefore(l, call[l], commands[vpuJob[l]])
    /\ \A j \in Jobs : \A i \in device[j].done :
        LET cmds == device[j].cmds IN
        (IF cmds[i].kind \in {"signal", "reset"} THEN 1 .. i - 1 ELSE Fences(cmds) \cap (1 .. i - 1))
           \subseteq device[j].done

\* A submission is tracked whole.
Device == "midway" \in Avoid =>
    /\ \A j \in Running : /\ device[j].list \in Lists
                          /\ j \in trackedJobs[QueueOf(device[j].list)]
                          /\ device[j].cmds = commands[j]
    /\ \A j, k \in Running : device[j].list = device[k].list /\ device[j].list \in ImmediateLists
                                => j = k
    /\ \A l \in ImmediateLists, j \in Running :
            InCallOf(l) /\ call[l].pc = "push" => device[j].list # l

Outcomes ==
    /\ \A l \in ImmediateLists : \A i \in DOMAIN commands[vpuJob[l]] :
            outcome[commands[vpuJob[l]][i].app] # "ok"
    /\ "leftover" \in Avoid => \A l \in Lists :
            (IF l \in ImmediateLists THEN InCallOf(l) /\ phase[vpuJob[l]] # "closed"
             ELSE phase[vpuJob[l]] = "closed")
            => \A i \in DOMAIN commands[vpuJob[l]] : outcome[commands[vpuJob[l]][i].app] # "error"

EventsNamed == "recreate" \in Avoid =>
    /\ \A j \in Jobs : \A i \in DOMAIN commands[j] :
        /\ commands[j][i].event \in events \cup {None}
        /\ commands[j][i].kind = "signal" => /\ commands[j][i].event # None
                                             /\ j \in associated[commands[j][i].event]
    /\ \A l \in Lists : InCallOf(l) => /\ call[l].event \in events \cup {None}
                                       /\ Range(call[l].waits) \subseteq events

\* The ids given out name inferences, and none is that of a command to come.
IdsOf(map, cmds, ids) ==
    /\ \A id \in DOMAIN map : id < Len(cmds)
    /\ \A h \in ids :
        LET k == (IF h.id \in DOMAIN map THEN map[h.id] ELSE h.id) + 1
        IN  /\ h.id < Len(cmds)
            /\ k \in DOMAIN cmds /\ cmds[k].kind = "infer" /\ cmds[k].app = h.app

Ids == "remutate" \in Avoid =>
    \A l \in MutableLists : IdsOf(commandIdMap[l], commands[vpuJob[l]], handed[l])

ListsInv == /\ Shape /\ JobsHeld /\ Calls /\ Apps /\ Hpis
            /\ Order /\ Device /\ Outcomes /\ EventsNamed /\ Ids

-----------------------------------------------------------------------------
(* Numbers, jobs and parsed inferences that nobody has.                    *)

USE ParametersAssumption

\* A set of numbers has a least one.
LEMMA LeastNatural ==
  ASSUME NEW S \in SUBSET Nat, S # {}
  PROVE  Min(S) \in S /\ \A x \in S : Min(S) <= x
  <1> DEFINE T == {1..n : n \in S}
  <1>1. T \subseteq FiniteSubsetsOf(Nat)
    BY FS_Interval DEF FiniteSubsetsOf
  <1>2. PICK t \in T : \A u \in T : <<u, t>> \notin StrictSubsetOrdering(Nat)
    <2>1. T # {}
      OBVIOUS
    <2> HIDE DEF T
    <2> QED
      BY WFMin, FS_StrictSubsetOrderingWellFounded, <1>1, <2>1
  <1>3. PICK x \in S : t = 1..x
    OBVIOUS
  <1>4. \A y \in S : x <= y
    <2> SUFFICES ASSUME NEW y \in S, y < x PROVE FALSE
      OBVIOUS
    <2>1. 1..y \subseteq 1..x /\ x \in 1..x /\ x \notin 1..y
      OBVIOUS
    <2>2. <<1..y, 1..x>> \in StrictSubsetOrdering(Nat)
      BY <2>1 DEF StrictSubsetOrdering
    <2> QED
      BY <1>2, <1>3, <2>2
  <1> QED
    BY <1>4 DEF Min

\* Who holds a job.
LEMMA HoldersOf ==
  ASSUME NEW v, NEW w, DOMAIN v = Lists, DOMAIN w = Queues
  PROVE  \A j : j \in Held(v, w) <=> \/ \E l \in Lists : v[l] = j
                                     \/ \E q \in Queues : j \in w[q]
  BY DEF Held, Range

\* Every list has a job of its own, which is held.
LEMMA JobsOfLists ==
  ASSUME Shape
  PROVE  /\ HeldJobs \subseteq Jobs /\ Running \subseteq Jobs
         /\ \A j : j \in HeldJobs <=> \/ \E l \in Lists : vpuJob[l] = j
                                      \/ \E q \in Queues : j \in trackedJobs[q]
         /\ \A l \in Lists : vpuJob[l] \in HeldJobs /\ vpuJob[l] \in Jobs
         /\ \A l, m \in Lists : vpuJob[l] = vpuJob[m] => l = m
  <1>1. /\ vpuJob \in [Lists -> Jobs] /\ trackedJobs \in [Queues -> SUBSET Jobs]
        /\ IsInjective(vpuJob)
    BY DEF Shape
  <1>2. \A j : j \in HeldJobs <=> \/ \E l \in Lists : vpuJob[l] = j
                                 \/ \E q \in Queues : j \in trackedJobs[q]
    BY <1>1, HoldersOf DEF HeldJobs
  <1> QED
    BY <1>1, <1>2 DEF Running, IsInjective

\* The commands of a job and those of its submission are sequences of commands.
LEMMA CommandsOf ==
  ASSUME Shape, NEW j \in Jobs
  PROVE  /\ commands[j] \in Seq(CommandSet) /\ Len(commands[j]) \in Nat
         /\ DOMAIN commands[j] = 1 .. Len(commands[j])
         /\ \A i \in DOMAIN commands[j] : commands[j][i] \in CommandSet
         /\ device[j].cmds \in Seq(CommandSet) /\ Len(device[j].cmds) \in Nat
         /\ DOMAIN device[j].cmds = 1 .. Len(device[j].cmds)
         /\ \A i \in DOMAIN device[j].cmds : device[j].cmds[i] \in CommandSet
  <1>1. commands[j] \in Seq(CommandSet) /\ device[j].cmds \in Seq(CommandSet)
    BY DEF Shape
  <1> QED
    BY <1>1, LenProperties, ElementOfSeq

\* A new job is one that no list, queue or submission has.
LEMMA NewJobIsFree ==
  ASSUME Shape, FreeJobs # {}
  PROVE  /\ NewJob \in Jobs /\ NewJob \notin HeldJobs /\ NewJob \notin Running
  <1>1. FreeJobs \subseteq Nat
    BY DEF FreeJobs, Jobs
  <1> QED
    BY <1>1, LeastNatural DEF NewJob, FreeJobs

\* acquire gives out a parsed inference that no command holds, and there is one.
LEMMA AcquireIsFree ==
  ASSUME Shape, JobsHeld
  PROVE  /\ HeldHpis \subseteq 0 .. MaxAppends
         /\ acquire \in Nat \ {0} /\ acquire \notin HeldHpis
         /\ \A x \in Nat \ {0} : x \notin HeldHpis => acquire <= x
         /\ \A j \in Jobs : \A i \in DOMAIN commands[j] : commands[j][i].hpi \in HeldHpis
  <1> DEFINE n == Cardinality(HeldHpis)
             free == (1 .. n + 1) \ HeldHpis
  <1>1. HeldHpis \subseteq 0 .. MaxAppends
    <2> SUFFICES ASSUME NEW j \in HeldJobs, NEW c \in Range(commands[j])
                 PROVE  c.hpi \in 0 .. MaxAppends
      BY DEF HeldHpis
    <2>1. j \in Jobs
      BY JobsOfLists
    <2> QED
      BY <2>1, CommandsOf DEF Range, CommandSet
  <1>2. n \in Nat /\ IsFiniteSet(HeldHpis)
    <2>1. IsFiniteSet(0 .. MaxAppends)
      BY FS_Interval
    <2>2. IsFiniteSet(HeldHpis)
      BY <1>1, <2>1, FS_Subset
    <2> QED
      BY <2>2, FS_CardinalityType
  <1> HIDE DEF n
  <1>3. free # {}
    <2> SUFFICES ASSUME 1 .. n + 1 \subseteq HeldHpis PROVE FALSE
      OBVIOUS
    <2>1. Cardinality(1 .. n + 1) <= n
      BY <1>2, FS_Subset DEF n
    <2>2. Cardinality(1 .. n + 1) = n + 1
      BY <1>2, FS_Interval
    <2> QED
      BY <1>2, <2>1, <2>2
  <1>4. acquire = Min(free)
    BY DEF acquire, n
  <1>5. acquire \in free /\ \A x \in free : acquire <= x
    <2>1. free \in SUBSET Nat
      BY <1>2
    <2> HIDE DEF free
    <2> QED
      BY <1>3, <1>4, <2>1, LeastNatural
  <1>6. \A x \in Nat \ {0} : x \notin HeldHpis => acquire <= x
    BY <1>2, <1>5
  <1>7. \A j \in Jobs : \A i \in DOMAIN commands[j] : commands[j][i].hpi \in HeldHpis
    <2> SUFFICES ASSUME NEW j \in Jobs, NEW i \in DOMAIN commands[j]
                 PROVE  commands[j][i].hpi \in HeldHpis
      OBVIOUS
    <2>1. j \in HeldJobs
      BY EmptySeq DEF JobsHeld
    <2> QED
      BY <2>1 DEF HeldHpis, Range
  <1> QED
    BY <1>1, <1>2, <1>5, <1>6, <1>7

\* There are no more parsed inferences than calls.
LEMMA AcquireIsBounded ==
  ASSUME Shape, JobsHeld, Calls, Apps, Hpis, NEW l \in Lists, InCallOf(l), call[l].op = "infer"
  PROVE  acquire \in 1 .. MaxAppends
  <1> DEFINE a == call[l].app
             Uses(h, x) == \E j \in Jobs : \E i \in DOMAIN commands[j] :
                              commands[j][i].hpi = h /\ commands[j][i].app = x
             f == [h \in 1 .. MaxAppends |-> CHOOSE x \in Appends \ {a} : Uses(h, x)]
  <1>1. call[l] \in CallSet /\ a \in Appends /\ call[l].round = 1
    <2>1. call[l] \in CallSet /\ call[l].round <= Rounds("infer")
      BY DEF Shape, InCallOf, Calls, CallBy
    <2> QED
      BY <2>1 DEF CallSet, Rounds
  <1>2. \E x \in 1 .. MaxAppends : x \notin HeldHpis
    <2> SUFFICES ASSUME 1 .. MaxAppends \subseteq HeldHpis PROVE FALSE
      OBVIOUS
    <2>1. ASSUME NEW h \in 1 .. MaxAppends
          PROVE  \E x \in Appends \ {a} : Uses(h, x)
      <3>1. PICK j \in HeldJobs : \E c \in Range(commands[j]) : c.hpi = h
        BY DEF HeldHpis
      <3>2. j \in Jobs
        BY JobsOfLists
      <3>3. PICK i \in DOMAIN commands[j] : commands[j][i].hpi = h
        BY <3>1 DEF Range
      <3>4. commands[j][i] \in CommandSet
        BY <3>2, CommandsOf
      <3>5. commands[j][i].app # a
        BY <1>1, <3>2 DEF Apps
      <3> QED
        BY <3>2, <3>3, <3>4, <3>5 DEF CommandSet
    <2>2. f \in [1 .. MaxAppends -> Appends \ {a}]
          /\ \A h \in 1 .. MaxAppends : Uses(h, f[h])
      <3> HIDE DEF Uses
      <3> QED
        BY <2>1
    <2>3. \A h, k \in 1 .. MaxAppends : f[h] = f[k] => h = k
      <3> SUFFICES ASSUME NEW h \in 1 .. MaxAppends, NEW k \in 1 .. MaxAppends, f[h] = f[k]
                   PROVE  h = k
        OBVIOUS
      <3> HIDE DEF f, Uses
      <3>1. Uses(h, f[h]) /\ Uses(k, f[h])
        BY <2>2
      <3> USE DEF Uses
      <3> QED
        BY <3>1 DEF Hpis
    <2>4. f \in Injection(1 .. MaxAppends, Appends \ {a})
      <3> HIDE DEF f
      <3> QED
        BY <2>2, <2>3 DEF Injection, IsInjective
    <2>5. IsFiniteSet(Appends) /\ Cardinality(Appends) = MaxAppends
      BY FS_Interval DEF Appends
    <2>6. IsFiniteSet(Appends \ {a}) /\ Cardinality(Appends \ {a}) = MaxAppends - 1
      <3> HIDE DEF a, f, Uses
      <3> QED
        BY <1>1, <2>5, FS_RemoveElement, ZenonT(60)
    <2>7. Cardinality(1 .. MaxAppends) <= Cardinality(Appends \ {a})
      <3> HIDE DEF f
      <3> QED
        BY <2>4, <2>6, FS_Injection
    <2> QED
      BY <2>5, <2>6, <2>7 DEF Appends
  <1>3. PICK x \in 1 .. MaxAppends : x \notin HeldHpis
    BY <1>2
  <1> QED
    BY <1>3, AcquireIsFree

-----------------------------------------------------------------------------
(* What a round pushes.                                                    *)

\* A function on 1 .. n is a sequence.
LEMMA FunctionIsSeq ==
  ASSUME NEW S, NEW n \in Nat, NEW f \in [1 .. n -> S]
  PROVE  f \in Seq(S) /\ Len(f) = n
  <1>1. f \in Seq(S)
    BY SeqDef
  <1>2. Len(f) \in Nat /\ 1 .. n = 1 .. Len(f)
    BY <1>1, LenProperties
  <1> QED
    BY <1>1, <1>2

\* The parts of a concatenation.
LEMMA Concatenation ==
  ASSUME NEW S, NEW s \in Seq(S), NEW t \in Seq(S)
  PROVE  /\ s \o t \in Seq(S) /\ Len(s) \in Nat /\ Len(t) \in Nat
         /\ DOMAIN s = 1 .. Len(s) /\ DOMAIN t = 1 .. Len(t)
         /\ Len(s \o t) = Len(s) + Len(t) /\ DOMAIN (s \o t) = 1 .. Len(s) + Len(t)
         /\ \A i \in DOMAIN s : (s \o t)[i] = s[i]
         /\ \A i \in DOMAIN t : (s \o t)[Len(s) + i] = t[i]
         /\ \A i \in DOMAIN (s \o t) : i \in DOMAIN s \/ \E k \in DOMAIN t : i = Len(s) + k
  <1>1. /\ s \o t \in Seq(S) /\ Len(s \o t) = Len(s) + Len(t)
        /\ \A i \in 1 .. Len(s) + Len(t) : (s \o t)[i] = IF i <= Len(s) THEN s[i] ELSE t[i - Len(s)]
    BY ConcatProperties
  <1>2. /\ Len(s) \in Nat /\ Len(t) \in Nat /\ DOMAIN s = 1 .. Len(s) /\ DOMAIN t = 1 .. Len(t)
        /\ DOMAIN (s \o t) = 1 .. Len(s) + Len(t)
    BY <1>1, LenProperties
  <1>3. \A i \in DOMAIN t : (s \o t)[Len(s) + i] = t[i]
    BY <1>1, <1>2
  <1>4. ASSUME NEW i \in DOMAIN (s \o t) PROVE i \in DOMAIN s \/ \E k \in DOMAIN t : i = Len(s) + k
    <2>1. CASE i <= Len(s)
      BY <1>2, <2>1
    <2>2. CASE ~ i <= Len(s)
      <3>1. i - Len(s) \in DOMAIN t /\ i = Len(s) + (i - Len(s))
        BY <1>2, <1>4, <2>2
      <3> QED
        BY <3>1
    <2> QED
      BY <2>1, <2>2
  <1> QED
    BY <1>1, <1>2, <1>3, <1>4

\* The first n elements of a sequence.
LEMMA Prefix ==
  ASSUME NEW S, NEW s \in Seq(S), NEW n \in 0 .. Len(s)
  PROVE  /\ SubSeq(s, 1, n) \in Seq(S) /\ Len(SubSeq(s, 1, n)) = n /\ DOMAIN SubSeq(s, 1, n) = 1 .. n
         /\ 1 .. n \subseteq DOMAIN s /\ DOMAIN s = 1 .. Len(s) /\ Len(s) \in Nat
         /\ \A i \in 1 .. n : SubSeq(s, 1, n)[i] = s[i]
  <1>1. Len(s) \in Nat /\ DOMAIN s = 1 .. Len(s) /\ 1 .. n \subseteq DOMAIN s
    BY LenProperties
  <1>2. \A i \in 1 .. n : s[i] \in S
    BY <1>1, ElementOfSeq
  <1>3. /\ SubSeq(s, 1, n) \in Seq(S) /\ Len(SubSeq(s, 1, n)) = IF 1 <= n THEN n - 1 + 1 ELSE 0
        /\ \A i \in 1 .. n - 1 + 1 : SubSeq(s, 1, n)[i] = s[1 + i - 1]
    BY <1>1, <1>2, SubSeqProperties
  <1>4. Len(SubSeq(s, 1, n)) = n
    BY <1>1, <1>3
  <1>5. \A i \in 1 .. n : SubSeq(s, 1, n)[i] = s[i]
    BY <1>1, <1>3
  <1> QED
    BY <1>1, <1>3, <1>4, <1>5, LenProperties

\* The call of a list, by its fields.
LEMMA CallFields ==
  ASSUME Shape, Calls, NEW l \in Lists, InCallOf(l)
  PROVE  /\ call[l] \in CallSet /\ CallBy(l, call[l])
         /\ call[l].op \in AllOps /\ call[l].app \in Appends /\ call[l].waits \in Seq(Events)
         /\ call[l].event \in Events \cup {None} /\ call[l].round \in {1, 2}
         /\ call[l].pc \in {"check", "push"} /\ call[l].id \in Nat
         /\ Len(call[l].waits) \in Nat /\ DOMAIN call[l].waits = 1 .. Len(call[l].waits)
         /\ \A x \in DOMAIN call[l].waits : call[l].waits[x] \in Events
  <1>1. call[l] \in CallSet /\ CallBy(l, call[l])
    BY DEF Shape, InCallOf, Calls
  <1>2. /\ call[l].op \in AllOps /\ call[l].app \in Appends /\ call[l].waits \in Seq(Events)
        /\ call[l].event \in Events \cup {None} /\ call[l].round \in {1, 2}
        /\ call[l].pc \in {"check", "push"} /\ call[l].id \in Nat
    BY <1>1 DEF CallSet
  <1> QED
    BY <1>1, <1>2, LenProperties, ElementOfSeq

\* w is what call c does in a round, between the waits and the signal.
WorkFor(c, w) ==
    /\ w \in Seq(CommandSet) /\ Len(w) \in Nat /\ DOMAIN w = 1 .. Len(w)
    /\ \A i \in DOMAIN w :
           /\ w[i].app = c.app /\ w[i].event \in {c.event, None}
           /\ w[i].kind \in {"work", "infer", "reset"}
           /\ w[i].hpi # 0 => c.op = "infer" /\ w[i].hpi = acquire
    /\ c.op = "infer" => Len(w) = 1 /\ w[1].kind = "infer"
    /\ c.op \notin {"signal", "waits"} => Len(w) > 0

\* RoundWork does what its call asks for.
LEMMA WorkOf ==
  ASSUME Shape, JobsHeld, Calls, Apps, Hpis, NEW l \in Lists, InCallOf(l), NEW c, c = call[l]
  PROVE  WorkFor(c, RoundWork(c))
  <1> DEFINE w == RoundWork(c)
  <1>1. c.app \in Appends /\ c.op \in AllOps /\ c.event \in Events \cup {None}
    BY CallFields
  <1>2. \A kind \in Kinds, e \in {c.event, None}, h \in 0 .. MaxAppends :
            /\ Cmd(kind, e, c.app, h) \in CommandSet /\ Cmd(kind, e, c.app, h).kind = kind
            /\ Cmd(kind, e, c.app, h).event = e /\ Cmd(kind, e, c.app, h).app = c.app
            /\ Cmd(kind, e, c.app, h).hpi = h
    BY <1>1 DEF Cmd, CommandSet
  <1>3. MaxAppends \in Nat /\ {"work", "infer", "reset"} \subseteq Kinds
    BY DEF Kinds
  <1> HIDE DEF w, WorkFor
  <1>4. CASE c.op = "timestamp"
    <2>1. w = <<Cmd("work", None, c.app, 0), Cmd("work", None, c.app, 0)>>
      BY <1>4 DEF w, RoundWork
    <2>2. w \in Seq(CommandSet) /\ Len(w) = 2 /\ DOMAIN w = 1 .. 2 /\ \A i \in 1 .. 2 : w[i] = Cmd("work", None, c.app, 0)
      BY <1>2, <1>3, <2>1
    <2> QED
      BY <1>2, <1>3, <1>4, <2>2 DEF w, WorkFor
  <1>5. CASE c.op = "infer"
    <2>1. w = <<Cmd("infer", None, c.app, acquire)>>
      BY <1>5 DEF w, RoundWork
    <2>2. acquire \in 0 .. MaxAppends
      BY <1>3, <1>5, AcquireIsBounded
    <2>3. w \in Seq(CommandSet) /\ Len(w) = 1 /\ DOMAIN w = 1 .. 1 /\ w[1] = Cmd("infer", None, c.app, acquire)
      BY <1>2, <1>3, <2>1, <2>2
    <2> QED
      BY <1>2, <1>3, <1>5, <2>2, <2>3 DEF w, WorkFor
  <1>6. CASE c.op = "reset"
    <2>1. w = <<Cmd("reset", c.event, c.app, 0)>>
      BY <1>6 DEF w, RoundWork
    <2>2. w \in Seq(CommandSet) /\ Len(w) = 1 /\ DOMAIN w = 1 .. 1 /\ w[1] = Cmd("reset", c.event, c.app, 0)
      BY <1>2, <1>3, <2>1
    <2> QED
      BY <1>2, <1>3, <1>6, <2>2 DEF w, WorkFor
  <1>7. CASE c.op \in {"signal", "waits"}
    <2>1. w = <<>>
      BY <1>7 DEF w, RoundWork
    <2> QED
      BY <1>7, <2>1 DEF w, WorkFor
  <1>8. CASE c.op \notin {"timestamp", "infer", "reset", "signal", "waits"}
    <2>1. w = <<Cmd("work", None, c.app, 0)>>
      BY <1>8 DEF w, RoundWork
    <2>2. w \in Seq(CommandSet) /\ Len(w) = 1 /\ DOMAIN w = 1 .. 1 /\ w[1] = Cmd("work", None, c.app, 0)
      BY <1>2, <1>3, <2>1
    <2> QED
      BY <1>2, <1>3, <1>8, <2>2 DEF w, WorkFor
  <1> QED
    BY <1>4, <1>5, <1>6, <1>7, <1>8

\* p is what a round of call c of list l may push.
PushOf(l, c, p) ==
    /\ p \in Seq(CommandSet) /\ Len(p) \in Nat /\ DOMAIN p = 1 .. Len(p)
    /\ \A i \in DOMAIN p :
        /\ p[i].app = c.app /\ p[i].event \in Range(c.waits) \cup {c.event, None}
        /\ p[i].hpi # 0 => c.op = "infer" /\ p[i].hpi = acquire
        /\ p[i].kind = "signal" => /\ l \in RegularLists /\ i = Len(p)
                                   /\ c.event # None /\ p[i].event = c.event
                                   /\ c.op = "fill" => c.round = 2
        /\ p[i].kind = "wait" => /\ l \in RegularLists /\ (c.op = "fill" => c.round = 1)
                                 /\ \E x \in DOMAIN c.waits : p[i] = Cmd("wait", c.waits[x], c.app, 0)
        /\ p[i].kind # "wait" /\ l \in RegularLists /\ (c.op = "fill" => c.round = 1)
               => \A x \in DOMAIN c.waits :
                      x < i /\ x \in DOMAIN p /\ p[x] = Cmd("wait", c.waits[x], c.app, 0)
    /\ \A i, k \in DOMAIN p : p[i].hpi # 0 /\ p[k].hpi # 0 => i = k

\* A round may push nothing.
LEMMA EmptyPush == ASSUME NEW l, NEW c PROVE PushOf(l, c, <<>>)
  BY EmptySeq DEF PushOf

\* What postAppend or a failed append of an immediate list pushes.
LEMMA WorkPush ==
  ASSUME Shape, JobsHeld, Calls, Apps, Hpis, NEW l \in ImmediateLists, InCallOf(l),
         NEW c, c = call[l], NEW k \in 0 .. Len(RoundWork(c))
  PROVE  PushOf(l, c, SubSeq(RoundWork(c), 1, k)) /\ Len(SubSeq(RoundWork(c), 1, k)) = k
  <1> DEFINE w == RoundWork(c)
             p == SubSeq(w, 1, k)
  <1>1. l \in Lists /\ l \notin RegularLists
    BY ParametersAssumption DEF Lists
  <1>2. WorkFor(c, w)
    BY <1>1, WorkOf
  <1>3. k \in 0 .. Len(w)
    OBVIOUS
  <1> HIDE DEF w
  <1>4. k \in Nat
    BY <1>2, <1>3 DEF WorkFor
  <1>5. /\ p \in Seq(CommandSet) /\ Len(p) = k /\ DOMAIN p = 1 .. k /\ 1 .. k \subseteq DOMAIN w
        /\ \A i \in 1 .. k : p[i] = w[i]
    <2>1. w \in Seq(CommandSet)
      BY <1>2 DEF WorkFor
    <2> QED
      BY <1>3, <2>1, Prefix
  <1> HIDE DEF p
  <1>6. \A i, m \in 1 .. k : p[i].hpi # 0 /\ p[m].hpi # 0 => i = m
    BY <1>2, <1>3, <1>4, <1>5 DEF WorkFor
  <1>7. PushOf(l, c, p) /\ Len(p) = k
    BY <1>1, <1>2, <1>4, <1>5, <1>6 DEF PushOf, WorkFor
  <1> QED
    BY <1>7 DEF p, w

\* p is s, then t, then u.
Joined(S, s, t, u, p) ==
    /\ p \in Seq(S) /\ Len(s) \in Nat /\ Len(t) \in Nat /\ Len(u) \in Nat
    /\ Len(p) = Len(s) + Len(t) + Len(u) /\ DOMAIN p = 1 .. Len(p)
    /\ \A i \in DOMAIN s : p[i] = s[i]
    /\ \A i \in DOMAIN t : p[Len(s) + i] = t[i]
    /\ \A i \in DOMAIN u : p[Len(s) + Len(t) + i] = u[i]
    /\ \A i \in DOMAIN p : \/ i \in DOMAIN s
                           \/ \E k \in DOMAIN t : i = Len(s) + k
                           \/ \E k \in DOMAIN u : i = Len(s) + Len(t) + k

\* Waits, work and signal, one after the other.
LEMMA ThreeParts ==
  ASSUME NEW S, NEW s \in Seq(S), NEW t \in Seq(S), NEW u \in Seq(S)
  PROVE  Joined(S, s, t, u, (s \o t) \o u)
  <1> DEFINE r == s \o t
             p == r \o u
  <1>1. /\ r \in Seq(S) /\ Len(s) \in Nat /\ Len(t) \in Nat
        /\ DOMAIN s = 1 .. Len(s) /\ DOMAIN t = 1 .. Len(t)
        /\ Len(r) = Len(s) + Len(t) /\ DOMAIN r = 1 .. Len(s) + Len(t)
        /\ \A i \in DOMAIN s : r[i] = s[i]
        /\ \A i \in DOMAIN t : r[Len(s) + i] = t[i]
        /\ \A i \in DOMAIN r : i \in DOMAIN s \/ \E k \in DOMAIN t : i = Len(s) + k
    BY Concatenation
  <1>2. /\ r \o u \in Seq(S) /\ Len(u) \in Nat /\ DOMAIN u = 1 .. Len(u)
        /\ Len(r \o u) = Len(r) + Len(u) /\ DOMAIN (r \o u) = 1 .. Len(r) + Len(u)
        /\ \A i \in DOMAIN r : (r \o u)[i] = r[i]
        /\ \A i \in DOMAIN u : (r \o u)[Len(r) + i] = u[i]
        /\ \A i \in DOMAIN (r \o u) : i \in DOMAIN r \/ \E k \in DOMAIN u : i = Len(r) + k
    <2>1. r \in Seq(S)
      BY <1>1
    <2> HIDE DEF r
    <2> QED
      BY <2>1, Concatenation
  <1>3. /\ p \in Seq(S) /\ Len(u) \in Nat /\ DOMAIN u = 1 .. Len(u)
        /\ Len(p) = Len(r) + Len(u) /\ DOMAIN p = 1 .. Len(r) + Len(u)
        /\ \A i \in DOMAIN r : p[i] = r[i]
        /\ \A i \in DOMAIN u : p[Len(r) + i] = u[i]
        /\ \A i \in DOMAIN p : i \in DOMAIN r \/ \E k \in DOMAIN u : i = Len(r) + k
    BY <1>2
  <1> HIDE DEF r, p
  <1>4. \A i \in DOMAIN s : p[i] = s[i]
    BY <1>1, <1>3
  <1>5. \A i \in DOMAIN t : p[Len(s) + i] = t[i]
    <2> TAKE i \in DOMAIN t
    <2>1. Len(s) + i \in DOMAIN r
      BY <1>1
    <2> QED
      BY <1>1, <1>3, <2>1
  <1>6. /\ \A i \in DOMAIN u : p[Len(s) + Len(t) + i] = u[i]
        /\ Len(p) = Len(s) + Len(t) + Len(u) /\ DOMAIN p = 1 .. Len(p)
    BY <1>1, <1>3
  <1>7. \A i \in DOMAIN p : \/ i \in DOMAIN s
                            \/ \E k \in DOMAIN t : i = Len(s) + k
                            \/ \E k \in DOMAIN u : i = Len(s) + Len(t) + k
    BY <1>1, <1>3
  <1>8. Joined(S, s, t, u, p)
    BY <1>1, <1>3, <1>4, <1>5, <1>6, <1>7 DEF Joined
  <1> QED
    BY <1>8 DEF p, r

\* p is n waits, the first k commands of the work w, and m signals.
Parts(c, w, k, n, m, p) ==
    /\ WorkFor(c, w) /\ k \in Nat /\ n \in Nat /\ m \in {0, 1} /\ k <= Len(w)
    /\ p \in Seq(CommandSet) /\ DOMAIN p = 1 .. Len(p) /\ Len(p) = n + k + m
    /\ Len(c.waits) \in Nat /\ DOMAIN c.waits = 1 .. Len(c.waits) /\ c.round \in {1, 2}
    /\ n = IF c.op = "fill" /\ c.round > 1 THEN 0 ELSE Len(c.waits)
    /\ \A i \in 1 .. n : p[i] = Cmd("wait", c.waits[i], c.app, 0)
    /\ \A i \in 1 .. k : p[n + i] = w[i]
    /\ \A i \in 1 .. m : /\ p[n + k + i] = Cmd("signal", c.event, c.app, 0) /\ c.event # None
                         /\ c.op = "fill" => c.round = 2

\* Waits, some of the work, and a signal after all of it, are what a round may push.
LEMMA PartsPush ==
  ASSUME NEW l \in RegularLists, NEW c, NEW w, NEW k, NEW n, NEW m, NEW p,
         Parts(c, w, k, n, m, p)
  PROVE  /\ PushOf(l, c, p)
         /\ c.op = "infer" =>
                /\ Len(c.waits) <= Len(p)
                /\ k = 1 => Len(c.waits) + 1 \in DOMAIN p /\ p[Len(c.waits) + 1].kind = "infer"
  <1>1. \A kind, e : /\ Cmd(kind, e, c.app, 0).kind = kind /\ Cmd(kind, e, c.app, 0).event = e
                     /\ Cmd(kind, e, c.app, 0).app = c.app /\ Cmd(kind, e, c.app, 0).hpi = 0
    BY DEF Cmd
  <1>2. /\ k \in Nat /\ n \in Nat /\ m \in {0, 1} /\ DOMAIN p = 1 .. Len(p) /\ Len(p) = n + k + m
        /\ Len(c.waits) \in Nat /\ n \in {0, Len(c.waits)}
    BY DEF Parts
  <1>3. \A i \in 1 .. k : p[n + i] = w[i] /\ i \in DOMAIN w
    <2>1. DOMAIN w = 1 .. Len(w) /\ Len(w) \in Nat /\ k <= Len(w)
      BY DEF Parts, WorkFor
    <2> QED
      BY <1>2, <2>1 DEF Parts
  <1>4. \A i \in 1 .. k :
            /\ p[n + i].app = c.app /\ p[n + i].event \in {c.event, None}
            /\ p[n + i].kind \notin {"wait", "signal"}
            /\ p[n + i].hpi # 0 => c.op = "infer" /\ p[n + i].hpi = acquire
    <2>1. \A i \in DOMAIN w :
              /\ w[i].app = c.app /\ w[i].event \in {c.event, None}
              /\ w[i].kind \in {"work", "infer", "reset"}
              /\ w[i].hpi # 0 => c.op = "infer" /\ w[i].hpi = acquire
      BY DEF Parts, WorkFor
    <2> QED
      BY <1>3, <2>1
  <1>5. ASSUME NEW i \in 1 .. n
        PROVE  /\ p[i] = Cmd("wait", c.waits[i], c.app, 0) /\ i \in DOMAIN c.waits
               /\ ~ (c.op = "fill" /\ c.round > 1)
    <2>1. p[i] = Cmd("wait", c.waits[i], c.app, 0)
      BY <1>5 DEF Parts
    <2>2. /\ n = IF c.op = "fill" /\ c.round > 1 THEN 0 ELSE Len(c.waits)
          /\ DOMAIN c.waits = 1 .. Len(c.waits)
      BY DEF Parts
    <2>3. n # 0
      BY <1>2, <1>5
    <2> QED
      BY <1>5, <2>1, <2>2, <2>3
  <1> DEFINE At(i) ==
        /\ p[i].app = c.app /\ p[i].event \in Range(c.waits) \cup {c.event, None}
        /\ p[i].hpi # 0 => c.op = "infer" /\ p[i].hpi = acquire /\ i - n \in 1 .. k
        /\ p[i].kind = "signal" => /\ i = Len(p) /\ c.event # None /\ p[i].event = c.event
                                   /\ c.op = "fill" => c.round = 2
        /\ p[i].kind = "wait" => i \in 1 .. n
        /\ p[i].kind # "wait" => i > n
  <1>6. ASSUME NEW i \in DOMAIN p PROVE At(i)
    <2>1. CASE i \in 1 .. n
      <3>1. c.waits[i] \in Range(c.waits)
        BY <1>5, <2>1 DEF Range
      <3>2. /\ p[i].kind = "wait" /\ p[i].event = c.waits[i] /\ p[i].app = c.app /\ p[i].hpi = 0
        BY <1>1, <1>5, <2>1
      <3> QED
        BY <2>1, <3>1, <3>2
    <2>2. CASE i - n \in 1 .. k
      <3>1. i = n + (i - n) /\ i > n
        BY <1>2, <1>6, <2>2
      <3>2. /\ p[i].app = c.app /\ p[i].event \in {c.event, None}
            /\ p[i].kind \notin {"wait", "signal"}
            /\ p[i].hpi # 0 => c.op = "infer" /\ p[i].hpi = acquire
        BY <1>4, <2>2, <3>1
      <3> QED
        BY <2>2, <3>1, <3>2
    <2>3. CASE i = n + k + 1 /\ m = 1
      <3>1. /\ p[n + k + 1] = Cmd("signal", c.event, c.app, 0) /\ c.event # None
            /\ c.op = "fill" => c.round = 2
        BY <2>3 DEF Parts
      <3>2. /\ p[i].kind = "signal" /\ p[i].event = c.event /\ p[i].app = c.app /\ p[i].hpi = 0
        BY <1>1, <2>3, <3>1
      <3>3. i > n /\ i = Len(p)
        BY <1>2, <2>3
      <3> QED
        BY <3>1, <3>2, <3>3
    <2>4. i \in 1 .. n \/ i - n \in 1 .. k \/ (i = n + k + 1 /\ m = 1)
      BY <1>2, <1>6
    <2> QED
      BY <2>1, <2>2, <2>3, <2>4
  <1>7. ASSUME NEW i \in DOMAIN p, NEW j \in DOMAIN p, p[i].hpi # 0, p[j].hpi # 0 PROVE i = j
    <2>1. c.op = "infer" /\ i - n \in 1 .. k /\ j - n \in 1 .. k
      BY <1>6, <1>7
    <2>2. k <= 1
      BY <2>1 DEF WorkFor, Parts
    <2>3. i \in Int /\ j \in Int
      BY <1>2, <1>7
    <2> QED
      BY <1>2, <2>1, <2>2, <2>3
  <1>8. ASSUME NEW i \in DOMAIN p, p[i].kind # "wait", c.op = "fill" => c.round = 1,
               NEW x \in DOMAIN c.waits
        PROVE  x < i /\ x \in DOMAIN p /\ p[x] = Cmd("wait", c.waits[x], c.app, 0)
    <2>1. n = Len(c.waits) /\ x \in 1 .. n
      BY <1>8 DEF Parts
    <2>2. i > n /\ i \in Int
      BY <1>2, <1>6, <1>8
    <2>3. x < i /\ x \in 1 .. Len(p)
      BY <1>2, <2>1, <2>2
    <2> QED
      BY <1>2, <1>5, <2>1, <2>3
  <1>9. ASSUME NEW i \in DOMAIN p, p[i].kind = "wait"
        PROVE  /\ c.op = "fill" => c.round = 1
               /\ \E x \in DOMAIN c.waits : p[i] = Cmd("wait", c.waits[x], c.app, 0)
    <2>1. i \in 1 .. n
      BY <1>6, <1>9
    <2>2. c.round \in {1, 2}
      BY DEF Parts
    <2> QED
      BY <1>5, <2>1, <2>2
  <1>10. PushOf(l, c, p)
    <2>1. p \in Seq(CommandSet) /\ Len(p) \in Nat /\ DOMAIN p = 1 .. Len(p)
      BY <1>2 DEF Parts
    <2> QED
      BY <2>1, <1>6, <1>7, <1>8, <1>9 DEF PushOf
  <1>11. ASSUME c.op = "infer"
         PROVE  /\ Len(c.waits) <= Len(p)
                /\ k = 1 => Len(c.waits) + 1 \in DOMAIN p /\ p[Len(c.waits) + 1].kind = "infer"
    <2>1. n = Len(c.waits)
      BY <1>11 DEF Parts
    <2>2. n <= Len(p) /\ (k = 1 => n + 1 \in 1 .. Len(p) /\ 1 \in 1 .. k)
      BY <1>2
    <2>3. w[1].kind = "infer"
      BY <1>11 DEF Parts, WorkFor
    <2> QED
      BY <1>2, <1>3, <2>1, <2>2, <2>3
  <1> QED
    BY <1>10, <1>11

\* A round of a regular list pushes waits, the first k commands of its work, and, when
\* these are all, the signal.
LEMMA ListPush ==
  ASSUME Shape, JobsHeld, Calls, Apps, Hpis, NEW l \in RegularLists, InCallOf(l),
         NEW c, c = call[l], NEW k \in 0 .. Len(RoundWork(c)), NEW p, p = Pushed(vpuJob[l], c, k)
  PROVE  /\ PushOf(l, c, p)
         /\ phase[vpuJob[l]] = "open" /\ c.op = "infer" =>
                /\ Len(c.waits) <= Len(p)
                /\ k = 1 => Len(c.waits) + 1 \in DOMAIN p /\ p[Len(c.waits) + 1].kind = "infer"
  <1> DEFINE w == RoundWork(c)
             a == RoundWaits(c)
             b == SubSeq(w, 1, k)
             d == IF k = Len(w) THEN RoundSignal(c) ELSE <<>>
  <1>1. l \in Lists
    BY DEF Lists
  <1>2. CASE phase[vpuJob[l]] # "open"
    <2>1. p = <<>>
      BY <1>2 DEF Pushed
    <2> QED
      BY <1>2, <2>1, EmptyPush
  <1>3. CASE phase[vpuJob[l]] = "open"
    <2>1. p = (a \o b) \o d
      BY <1>3 DEF Pushed
    <2>2. /\ c.app \in Appends /\ c.event \in Events \cup {None} /\ c.round \in {1, 2}
          /\ c.waits \in Seq(Events) /\ Len(c.waits) \in Nat /\ DOMAIN c.waits = 1 .. Len(c.waits)
          /\ \A x \in DOMAIN c.waits : c.waits[x] \in Events
      BY <1>1, CallFields
    <2>3. WorkFor(c, w)
      BY <1>1, WorkOf
    <2>4. k \in 0 .. Len(w)
      OBVIOUS
    <2>5. /\ d = <<>> \/ (d = <<Cmd("signal", c.event, c.app, 0)>> /\ c.event # None)
          /\ d # <<>> => (c.op = "fill" => c.round = 2)
      BY <2>2 DEF RoundSignal, Rounds
    <2> HIDE DEF w, d
    <2>6. k \in Nat /\ k <= Len(w) /\ w \in Seq(CommandSet)
      BY <2>3, <2>4 DEF WorkFor
    <2>7. /\ b \in Seq(CommandSet) /\ Len(b) = k /\ DOMAIN b = 1 .. k /\ \A i \in 1 .. k : b[i] = w[i]
      BY <2>4, <2>6, Prefix
    <2> HIDE DEF b
    <2>8. \A kind \in {"wait", "signal"}, e \in Events \cup {None} : Cmd(kind, e, c.app, 0) \in CommandSet
      BY <2>2, ParametersAssumption DEF Cmd, CommandSet, Kinds
    <2>9. /\ a \in Seq(CommandSet) /\ DOMAIN a = 1 .. Len(a)
          /\ Len(a) = IF c.op = "fill" /\ c.round > 1 THEN 0 ELSE Len(c.waits)
          /\ \A i \in 1 .. Len(a) : a[i] = Cmd("wait", c.waits[i], c.app, 0)
      <3>1. CASE c.op = "fill" /\ c.round > 1
        <4>1. a = <<>>
          BY <3>1 DEF RoundWaits
        <4>2. a \in Seq(CommandSet) /\ Len(a) = 0
          BY <4>1, EmptySeq
        <4> HIDE DEF a
        <4> QED
          BY <3>1, <4>2, LenProperties
      <3>2. CASE ~ (c.op = "fill" /\ c.round > 1)
        <4>1. a = [i \in 1 .. Len(c.waits) |-> Cmd("wait", c.waits[i], c.app, 0)]
          BY <2>2, <3>2 DEF RoundWaits
        <4> HIDE DEF a
        <4>2. a \in [1 .. Len(c.waits) -> CommandSet]
          BY <2>2, <2>8, <4>1
        <4>3. a \in Seq(CommandSet) /\ Len(a) = Len(c.waits)
          BY <2>2, <4>2, FunctionIsSeq
        <4> QED
          BY <2>2, <3>2, <4>1, <4>3
      <3> QED
        BY <3>1, <3>2
    <2>10. /\ d \in Seq(CommandSet) /\ DOMAIN d = 1 .. Len(d) /\ Len(d) \in 0 .. 1
           /\ \A i \in 1 .. Len(d) : /\ d[i] = Cmd("signal", c.event, c.app, 0) /\ c.event # None
                                     /\ c.op = "fill" => c.round = 2
      <3>1. CASE d = <<>>
        <4>1. d \in Seq(CommandSet) /\ Len(d) = 0
          BY <3>1, EmptySeq
        <4> QED
          BY <4>1, LenProperties
      <3>2. CASE d # <<>>
        <4>1. d = <<Cmd("signal", c.event, c.app, 0)>> /\ Cmd("signal", c.event, c.app, 0) \in CommandSet
          BY <2>2, <2>5, <2>8, <3>2
        <4>2. d \in Seq(CommandSet) /\ Len(d) = 1 /\ d[1] = Cmd("signal", c.event, c.app, 0)
          BY <4>1
        <4>3. DOMAIN d = 1 .. Len(d)
          BY <4>2, LenProperties
        <4> QED
          BY <2>5, <3>2, <4>2, <4>3
      <3> QED
        BY <3>1, <3>2
    <2> HIDE DEF a
    <2>11. /\ p \in Seq(CommandSet) /\ Len(a) \in Nat /\ Len(b) \in Nat /\ Len(d) \in Nat
           /\ Len(p) = Len(a) + Len(b) + Len(d) /\ DOMAIN p = 1 .. Len(p)
           /\ \A i \in DOMAIN a : p[i] = a[i]
           /\ \A i \in DOMAIN b : p[Len(a) + i] = b[i]
           /\ \A i \in DOMAIN d : p[Len(a) + Len(b) + i] = d[i]
      <3>1. a \in Seq(CommandSet) /\ b \in Seq(CommandSet) /\ d \in Seq(CommandSet)
        BY <2>7, <2>9, <2>10
      <3> HIDE DEF a
      <3>2. Joined(CommandSet, a, b, d, p)
        BY <2>1, <3>1, ThreeParts
      <3> QED
        BY <3>2 DEF Joined
    <2> DEFINE n == Len(a)
               m == Len(d)
    <2>12. Len(p) = n + k + m /\ m \in {0, 1} /\ n \in Nat
           /\ DOMAIN a = 1 .. n /\ DOMAIN b = 1 .. k /\ DOMAIN d = 1 .. m
           /\ n = IF c.op = "fill" /\ c.round > 1 THEN 0 ELSE Len(c.waits)
      BY <2>7, <2>9, <2>10, <2>11
    <2>13. /\ \A i \in 1 .. n : p[i] = Cmd("wait", c.waits[i], c.app, 0)
           /\ \A i \in 1 .. k : p[n + i] = w[i]
           /\ \A i \in 1 .. m : /\ p[n + k + i] = Cmd("signal", c.event, c.app, 0) /\ c.event # None
                                /\ c.op = "fill" => c.round = 2
      <3>1. \A i \in 1 .. n : p[i] = Cmd("wait", c.waits[i], c.app, 0)
        BY <2>9, <2>11, <2>12
      <3>2. \A i \in 1 .. k : p[n + i] = w[i]
        BY <2>7, <2>11, <2>12
      <3>3. \A i \in 1 .. m : /\ p[n + k + i] = d[i]
                              /\ d[i] = Cmd("signal", c.event, c.app, 0) /\ c.event # None
                              /\ c.op = "fill" => c.round = 2
        BY <2>7, <2>10, <2>11, <2>12
      <3> QED
        BY <3>1, <3>2, <3>3
    <2> HIDE DEF n, m
    <2>14. Parts(c, w, k, n, m, p)
      BY <2>2, <2>3, <2>6, <2>11, <2>12, <2>13 DEF Parts
    <2> QED
      BY <2>14, PartsPush
  <1> QED
    BY <1>2, <1>3

-----------------------------------------------------------------------------
(* The end of a round.                                                     *)

\* The call of list l goes on to its second round.
Continues(l) ==
    /\ call[l].round = 1 /\ call[l].op \in {"region", "fill"}
    /\ InCallOf(l)' /\ call'[l].round = 2 /\ call'[l].pc = "check"
    /\ call'[l].op = call[l].op /\ call'[l].app = call[l].app /\ call'[l].waits = call[l].waits
    /\ call'[l].event = call[l].event /\ call'[l].id = call[l].id
    /\ outcome' = outcome /\ handed' = handed

\* The call of list l returns.
Returns(l, ok) ==
    /\ call'[l] = NoCall
    /\ outcome'[call[l].app] = IF ok THEN "ok" ELSE "error"
    /\ \A m \in MutableLists :
           \/ handed'[m] = handed[m]
           \/ /\ m = l /\ ok /\ call[l].op = "infer"
              /\ handed'[m] = handed[m] \cup {[id |-> call[l].id, app |-> call[l].app]}

Ends(l, ok) ==
    /\ call' \in [Lists -> CallSet \cup {NoCall}]
    /\ \A m \in Lists : m # l => call'[m] = call[m]
    /\ outcome' \in Seq({"open", "ok", "error"}) /\ Len(outcome') = Len(outcome)
    /\ \A a \in 1 .. Len(outcome) : a # call[l].app => outcome'[a] = outcome[a]
    /\ handed' \in [MutableLists -> SUBSET [id : Nat, app : Appends]]
    /\ (ok /\ Continues(l)) \/ Returns(l, ok)

\* EndRound starts the next round or returns from the call.
LEMMA RoundEnds ==
  ASSUME Shape, Calls, NEW l \in Lists, InCallOf(l), NEW ok \in BOOLEAN, EndRound(l, ok)
  PROVE  Ends(l, ok)
  <1>1. /\ call[l] \in CallSet /\ call[l].op \in AllOps /\ call[l].app \in Appends
        /\ call[l].round \in {1, 2} /\ call[l].id \in Nat
        /\ call[l].app \in 1 .. Len(outcome)
    BY CallFields DEF CallBy
  <1>2. /\ call \in [Lists -> CallSet \cup {NoCall}]
        /\ outcome \in Seq({"open", "ok", "error"})
        /\ handed \in [MutableLists -> SUBSET [id : Nat, app : Appends]]
    BY DEF Shape
  <1>3. Len(outcome) \in Nat /\ DOMAIN outcome = 1 .. Len(outcome)
    BY <1>2, LenProperties
  <1>4. CASE ok /\ call[l].round < Rounds(call[l].op)
    <2>1. /\ call' = [call EXCEPT ![l] = [call[l] EXCEPT !.round = call[l].round + 1, !.pc = "check"]]
          /\ outcome' = outcome /\ handed' = handed
      BY <1>1, <1>2, <1>4 DEF EndRound, CallSet
    <2>2. call[l].round = 1 /\ call[l].op \in {"region", "fill"}
      BY <1>1, <1>4 DEF Rounds
    <2>3. /\ [call[l] EXCEPT !.round = call[l].round + 1, !.pc = "check"] \in CallSet
          /\ [call[l] EXCEPT !.round = call[l].round + 1, !.pc = "check"].round = 2
          /\ [call[l] EXCEPT !.round = call[l].round + 1, !.pc = "check"].pc = "check"
          /\ [call[l] EXCEPT !.round = call[l].round + 1, !.pc = "check"].op = call[l].op
          /\ [call[l] EXCEPT !.round = call[l].round + 1, !.pc = "check"].app = call[l].app
          /\ [call[l] EXCEPT !.round = call[l].round + 1, !.pc = "check"].waits = call[l].waits
          /\ [call[l] EXCEPT !.round = call[l].round + 1, !.pc = "check"].event = call[l].event
          /\ [call[l] EXCEPT !.round = call[l].round + 1, !.pc = "check"].id = call[l].id
      <3> DEFINE c == call[l]
      <3>1. c \in CallSet /\ c.round = 1
        BY <1>1, <2>2
      <3> HIDE DEF c
      <3>2. c.round + 1 = 2
        BY <3>1
      <3>3. \A d \in CallSet :
                /\ [d EXCEPT !.round = 2, !.pc = "check"] \in CallSet
                /\ [d EXCEPT !.round = 2, !.pc = "check"].round = 2
                /\ [d EXCEPT !.round = 2, !.pc = "check"].pc = "check"
                /\ [d EXCEPT !.round = 2, !.pc = "check"].op = d.op
                /\ [d EXCEPT !.round = 2, !.pc = "check"].app = d.app
                /\ [d EXCEPT !.round = 2, !.pc = "check"].waits = d.waits
                /\ [d EXCEPT !.round = 2, !.pc = "check"].event = d.event
                /\ [d EXCEPT !.round = 2, !.pc = "check"].id = d.id
        BY DEF CallSet
      <3> QED
        BY <3>1, <3>2, <3>3 DEF c
    <2>4. call' \in [Lists -> CallSet \cup {NoCall}] /\ call'[l] \in CallSet
      BY <1>2, <2>1, <2>3
    <2>5. NoCall \notin CallSet
      BY DEF NoCall, CallSet, None, AllOps
    <2>6. Continues(l)
      BY <1>2, <2>1, <2>2, <2>3, <2>4, <2>5 DEF Continues, InCallOf
    <2> QED
      BY <1>2, <1>4, <2>1, <2>4, <2>6 DEF Ends
  <1>5. CASE ~ (ok /\ call[l].round < Rounds(call[l].op))
    <2>1. /\ call' = [call EXCEPT ![l] = NoCall]
          /\ outcome' = [outcome EXCEPT ![call[l].app] = IF ok THEN "ok" ELSE "error"]
          /\ handed' = IF ok /\ call[l].op = "infer" /\ l \in MutableLists
                       THEN [handed EXCEPT ![l] = handed[l] \cup {[id |-> call[l].id, app |-> call[l].app]}]
                       ELSE handed
      BY <1>5 DEF EndRound
    <2>2. call' \in [Lists -> CallSet \cup {NoCall}] /\ \A m \in Lists : m # l => call'[m] = call[m]
      BY <1>2, <2>1
    <2>3. /\ outcome' \in Seq({"open", "ok", "error"}) /\ Len(outcome') = Len(outcome)
          /\ \A a \in 1 .. Len(outcome) : a # call[l].app => outcome'[a] = outcome[a]
          /\ outcome'[call[l].app] = IF ok THEN "ok" ELSE "error"
      BY <1>1, <1>2, <1>3, <2>1, ExceptSeq
    <2>4. /\ handed' \in [MutableLists -> SUBSET [id : Nat, app : Appends]]
          /\ \A m \in MutableLists :
                 \/ handed'[m] = handed[m]
                 \/ /\ m = l /\ ok /\ call[l].op = "infer"
                    /\ handed'[m] = handed[m] \cup {[id |-> call[l].id, app |-> call[l].app]}
      BY <1>1, <1>2, <2>1
    <2>5. Returns(l, ok)
      BY <1>2, <2>1, <2>3, <2>4 DEF Returns
    <2> QED
      BY <2>2, <2>3, <2>4, <2>5 DEF Ends
  <1> QED
    BY <1>4, <1>5

-----------------------------------------------------------------------------
(* A round pushes its commands.                                            *)

\* t is s, then p.
Extended(s, p, t) ==
    /\ Len(s) \in Nat /\ Len(p) \in Nat /\ Len(t) = Len(s) + Len(p)
    /\ DOMAIN s = 1 .. Len(s) /\ DOMAIN p = 1 .. Len(p) /\ DOMAIN t = 1 .. Len(t)
    /\ \A i \in DOMAIN s : i \in DOMAIN t /\ t[i] = s[i]
    /\ \A i \in DOMAIN p : Len(s) + i \in DOMAIN t /\ t[Len(s) + i] = p[i]
    /\ \A i \in DOMAIN t : i \in DOMAIN s \/ \E k \in DOMAIN p : i = Len(s) + k

PushStep(l, p) ==
    /\ l \in Lists /\ InCallOf(l) /\ PushOf(l, call[l], p)
    /\ phase[vpuJob[l]] = "open" \/ p = <<>>
    /\ commands' = [commands EXCEPT ![vpuJob[l]] = commands[vpuJob[l]] \o p]

Pushes(l, p) ==
    /\ commands' \in [Jobs -> Seq(CommandSet)]
    /\ \A j \in Jobs : j # vpuJob[l] => commands'[j] = commands[j]
    /\ Extended(commands[vpuJob[l]], p, commands'[vpuJob[l]])

\* The commands pushed come after those that were there.
LEMMA StepPushes ==
  ASSUME Shape, NEW l, NEW p, PushStep(l, p)
  PROVE  Pushes(l, p) /\ commands'[vpuJob[l]] = commands[vpuJob[l]] \o p
  <1> DEFINE j == vpuJob[l]
             s == commands[j]
  <1>1. /\ commands \in [Jobs -> Seq(CommandSet)] /\ j \in Jobs /\ s \in Seq(CommandSet)
        /\ p \in Seq(CommandSet)
    BY JobsOfLists DEF Shape, PushStep, PushOf
  <1>2. /\ s \o p \in Seq(CommandSet) /\ Len(s) \in Nat /\ Len(p) \in Nat
        /\ DOMAIN s = 1 .. Len(s) /\ DOMAIN p = 1 .. Len(p)
        /\ Len(s \o p) = Len(s) + Len(p) /\ DOMAIN (s \o p) = 1 .. Len(s) + Len(p)
        /\ \A i \in DOMAIN s : (s \o p)[i] = s[i]
        /\ \A i \in DOMAIN p : (s \o p)[Len(s) + i] = p[i]
        /\ \A i \in DOMAIN (s \o p) : i \in DOMAIN s \/ \E k \in DOMAIN p : i = Len(s) + k
    <2> HIDE DEF s
    <2> QED
      BY <1>1, Concatenation
  <1>3. Extended(s, p, s \o p)
    <2> DEFINE t == s \o p
    <2>1. /\ Len(s) \in Nat /\ Len(p) \in Nat /\ DOMAIN s = 1 .. Len(s) /\ DOMAIN p = 1 .. Len(p)
          /\ Len(t) = Len(s) + Len(p) /\ DOMAIN t = 1 .. Len(s) + Len(p)
      BY <1>2
    <2>2. /\ \A i \in DOMAIN s : t[i] = s[i]
          /\ \A i \in DOMAIN p : t[Len(s) + i] = p[i]
          /\ \A i \in DOMAIN t : i \in DOMAIN s \/ \E k \in DOMAIN p : i = Len(s) + k
      BY <1>2
    <2> HIDE DEF t, s
    <2>3. /\ \A i \in DOMAIN s : i \in DOMAIN t
          /\ \A i \in DOMAIN p : Len(s) + i \in DOMAIN t
      BY <2>1
    <2>4. Extended(s, p, t)
      BY <2>1, <2>2, <2>3 DEF Extended
    <2> QED
      BY <2>4 DEF t
  <1>4. commands' = [commands EXCEPT ![j] = s \o p]
    BY DEF PushStep
  <1> HIDE DEF s, j
  <1>5. /\ commands' \in [Jobs -> Seq(CommandSet)] /\ commands'[j] = s \o p
        /\ \A k \in Jobs : k # j => commands'[k] = commands[k]
    BY <1>1, <1>2, <1>4
  <1>6. Extended(s, p, commands'[j])
    BY <1>3, <1>5
  <1> QED
    BY <1>5, <1>6 DEF Pushes, j, s

\* A parsed inference still has one user, and a call one inference.
LEMMA PushHpis ==
  ASSUME Shape, JobsHeld, Calls, Apps, Hpis, NEW l, NEW p, PushStep(l, p)
  PROVE  Hpis'
  <1> DEFINE j == vpuJob[l]
             Old(k, i) == k \in Jobs /\ i \in DOMAIN commands[k]
                             /\ commands'[k][i] = commands[k][i]
             New(k, i) == k = j /\ \E x \in DOMAIN p : i = Len(commands[j]) + x
                                                      /\ commands'[k][i] = p[x]
  <1>1. Pushes(l, p) /\ PushOf(l, call[l], p) /\ l \in Lists /\ InCallOf(l)
    BY StepPushes DEF PushStep
  <1>2. \A k \in Jobs : \A i \in DOMAIN commands'[k] : Old(k, i) \/ New(k, i)
    <2> TAKE k \in Jobs
    <2> TAKE i \in DOMAIN commands'[k]
    <2>1. CASE k # j
      BY <1>1, <2>1 DEF Pushes
    <2>2. CASE k = j
      <3>1. Extended(commands[j], p, commands'[j])
        BY <1>1 DEF Pushes
      <3>2. i \in DOMAIN commands[j] \/ \E x \in DOMAIN p : i = Len(commands[j]) + x
        BY <2>2, <3>1 DEF Extended
      <3>3. CASE i \in DOMAIN commands[j]
        BY <2>2, <3>1, <3>3 DEF Extended
      <3>4. ASSUME NEW x \in DOMAIN p, i = Len(commands[j]) + x PROVE New(k, i)
        BY <2>2, <3>1, <3>4 DEF Extended
      <3> QED
        BY <3>2, <3>3, <3>4
    <2> QED
      BY <2>1, <2>2
  <1>3. ASSUME NEW k, NEW i, New(k, i), commands'[k][i].hpi # 0
        PROVE  /\ call[l].op = "infer" /\ commands'[k][i].hpi = acquire
               /\ commands'[k][i].app = call[l].app
    BY <1>1, <1>3 DEF PushOf
  <1>4. ASSUME NEW k, NEW i, Old(k, i), call[l].op = "infer"
        PROVE  commands'[k][i].hpi # acquire /\ commands'[k][i].app # call[l].app
    <2>1. commands[k][i].hpi \in HeldHpis /\ acquire \notin HeldHpis
      BY <1>4, AcquireIsFree
    <2>2. call[l].round # 2
      BY <1>1, <1>4, CallFields DEF CallBy, Rounds
    <2>3. commands[k][i].app # call[l].app
      BY <1>1, <1>4, <2>2 DEF Apps
    <2> QED
      BY <1>4, <2>1, <2>3
  <1>5. ASSUME NEW k, NEW i, New(k, i), NEW k2, NEW i2, New(k2, i2),
               commands'[k][i].hpi # 0, commands'[k2][i2].hpi # 0
        PROVE  k = k2 /\ i = i2
    BY <1>1, <1>5 DEF PushOf
  <1>6. ASSUME NEW k \in Jobs, NEW k2 \in Jobs,
               NEW i \in DOMAIN commands'[k], NEW i2 \in DOMAIN commands'[k2],
               commands'[k][i].hpi # 0, commands'[k2][i2].hpi # 0,
               commands'[k][i].hpi = commands'[k2][i2].hpi
                   \/ commands'[k][i].app = commands'[k2][i2].app
        PROVE  k = k2 /\ i = i2
    <2>1. CASE Old(k, i) /\ Old(k2, i2)
      BY <1>6, <2>1 DEF Hpis
    <2> HIDE DEF Old, New
    <2>2. CASE New(k, i) /\ New(k2, i2)
      BY <1>5, <1>6, <2>2
    <2>3. CASE Old(k, i) /\ New(k2, i2)
      BY <1>3, <1>4, <1>6, <2>3
    <2>4. CASE New(k, i) /\ Old(k2, i2)
      BY <1>3, <1>4, <1>6, <2>4
    <2> QED
      BY <1>2, <2>1, <2>2, <2>3, <2>4
  <1> QED
    BY <1>6 DEF Hpis

\* What a round appends keeps the order of the list.
LEMMA ExtendedOrdered ==
  ASSUME NEW l, NEW c, NEW s, NEW p, NEW t, Extended(s, p, t), Ordered(s), PushOf(l, c, p),
         RoundsBefore(l, c, s)
  PROVE  Ordered(t)
  <1> DEFINE n == Len(s)
  <1>1. /\ n \in Nat /\ Len(p) \in Nat /\ DOMAIN s = 1 .. n /\ DOMAIN p = 1 .. Len(p)
        /\ \A i \in DOMAIN s : i \in DOMAIN t /\ t[i] = s[i]
        /\ \A i \in DOMAIN p : n + i \in DOMAIN t /\ t[n + i] = p[i]
        /\ \A i \in DOMAIN t : i \in DOMAIN s \/ \E k \in DOMAIN p : i = n + k
    BY DEF Extended
  <1> HIDE DEF n
  <1>2. \A i \in DOMAIN p : p[i].app = c.app
    BY DEF PushOf
  <1>3. \A i \in DOMAIN s, k \in DOMAIN p : i <= n + k
    BY <1>1
  <1>4. ASSUME NEW i \in DOMAIN t, NEW k \in DOMAIN t, t[k].kind = "wait", t[i].kind # "wait",
               t[k].app = t[i].app
        PROVE  \E w \in DOMAIN t : w <= i /\ t[w] = t[k]
    <2>1. CASE i \in DOMAIN s /\ k \in DOMAIN s
      <3>1. PICK w \in DOMAIN s : w <= i /\ s[w] = s[k]
        BY <1>1, <1>4, <2>1 DEF Ordered, WaitsFirst
      <3> QED
        BY <1>1, <2>1, <3>1
    <2>2. ASSUME k \in DOMAIN s, NEW x \in DOMAIN p, i = n + x
          PROVE  \E w \in DOMAIN t : w <= i /\ t[w] = t[k]
      BY <1>3, <2>2
    <2>3. ASSUME i \in DOMAIN s, NEW y \in DOMAIN p, k = n + y
          PROVE  \E w \in DOMAIN t : w <= i /\ t[w] = t[k]
      <3>1. t[i] = s[i] /\ t[k] = p[y] /\ s[i].app = c.app /\ s[i].kind # "wait"
        BY <1>1, <1>2, <1>4, <2>3
      <3>2. PICK x \in DOMAIN c.waits : p[y] = Cmd("wait", c.waits[x], c.app, 0)
        BY <1>4, <3>1 DEF PushOf
      <3>3. PICK w \in DOMAIN s : w <= i /\ s[w] = Cmd("wait", c.waits[x], c.app, 0)
        BY <2>3, <3>1 DEF RoundsBefore
      <3> QED
        BY <1>1, <3>1, <3>2, <3>3
    <2>4. ASSUME NEW x \in DOMAIN p, i = n + x, NEW y \in DOMAIN p, k = n + y
          PROVE  \E w \in DOMAIN t : w <= i /\ t[w] = t[k]
      <3>1. t[i] = p[x] /\ t[k] = p[y]
        BY <1>1, <2>4
      <3>2. l \in RegularLists /\ (c.op = "fill" => c.round = 1)
            /\ \E z \in DOMAIN c.waits : p[y] = Cmd("wait", c.waits[z], c.app, 0)
        BY <1>4, <3>1 DEF PushOf
      <3>3. PICK z \in DOMAIN c.waits : p[y] = Cmd("wait", c.waits[z], c.app, 0)
        BY <3>2
      <3>4. z < x /\ z \in DOMAIN p /\ p[z] = p[y]
        BY <1>4, <3>1, <3>2, <3>3 DEF PushOf
      <3>5. n + z <= n + x /\ n + z \in DOMAIN t /\ t[n + z] = p[z]
        BY <1>1, <3>4
      <3> QED
        BY <2>4, <3>1, <3>4, <3>5
    <2> QED
      BY <1>1, <2>1, <2>2, <2>3, <2>4
  <1>5. ASSUME "region" \in Avoid, NEW i \in DOMAIN t, NEW k \in DOMAIN t,
               t[i].kind = "signal", t[k].app = t[i].app
        PROVE  k <= i
    <2>1. CASE i \in DOMAIN s /\ k \in DOMAIN s
      BY <1>1, <1>5, <2>1 DEF Ordered, SignalsLast
    <2>2. ASSUME k \in DOMAIN s, NEW x \in DOMAIN p, i = n + x
          PROVE  k <= i
      BY <1>3, <2>2
    <2>3. ASSUME i \in DOMAIN s, NEW y \in DOMAIN p, k = n + y PROVE FALSE
      <3>1. t[i] = s[i] /\ s[i].app = c.app /\ s[i].kind = "signal"
        BY <1>1, <1>2, <1>5, <2>3
      <3> QED
        BY <1>5, <2>3, <3>1 DEF RoundsBefore
    <2>4. ASSUME NEW x \in DOMAIN p, i = n + x, NEW y \in DOMAIN p, k = n + y
          PROVE  k <= i
      <3>1. x = Len(p)
        BY <1>1, <1>5, <2>4 DEF PushOf
      <3>2. y <= x
        BY <1>1, <2>4, <3>1
      <3> QED
        BY <1>1, <2>4, <3>2
    <2> QED
      BY <1>1, <2>1, <2>2, <2>3, <2>4
  <1> QED
    BY <1>4, <1>5 DEF Ordered, WaitsFirst, SignalsLast

\* A push keeps every list in order.
LEMMA PushOrdered ==
  ASSUME Shape, Order, NEW l, NEW p, PushStep(l, p)
  PROVE  \A j \in Jobs : Ordered(commands'[j])
  <1>1. Pushes(l, p) /\ PushOf(l, call[l], p) /\ l \in Lists /\ InCallOf(l) /\ vpuJob[l] \in Jobs
    BY StepPushes, JobsOfLists DEF PushStep
  <1>2. Ordered(commands[vpuJob[l]]) /\ RoundsBefore(l, call[l], commands[vpuJob[l]])
    BY <1>1 DEF Order
  <1>3. Ordered(commands'[vpuJob[l]])
    BY <1>1, <1>2, ExtendedOrdered DEF Pushes
  <1> QED
    BY <1>1, <1>3 DEF Order, Pushes

-----------------------------------------------------------------------------
(* A round of an append call: it pushes p, and ok tells whether it succeeded. *)

AppendStep(l, p, ok) ==
    /\ PushStep(l, p) /\ Ends(l, ok) /\ ok \in BOOLEAN /\ events' = events
    /\ vpuJob' \in [Lists -> Jobs]
    /\ \A m \in Lists : m # l => vpuJob'[m] = vpuJob[m]
    /\ vpuJob'[l] = vpuJob[l] \/ vpuJob'[l] \in FreeJobs
    /\ l \in RegularLists => /\ phase' = phase /\ vpuJob'[l] = vpuJob[l]
                             /\ ok => phase[vpuJob[l]] = "open"
    /\ l \in ImmediateLists => (ok <=> vpuJob'[l] \in FreeJobs)
    /\ \A j \in Jobs : j # vpuJob[l] => phase'[j] = phase[j]

\* In an append the other lists keep their jobs, and every list its own.
LEMMA AppendJobs ==
  ASSUME Shape, JobsHeld, NEW l, NEW p, NEW ok, AppendStep(l, p, ok)
  PROVE  /\ l \in Lists /\ InCallOf(l) /\ Pushes(l, p) /\ PushOf(l, call[l], p)
         /\ vpuJob[l] \in Jobs
         /\ \A m \in Lists : m # l => /\ vpuJob'[m] = vpuJob[m] /\ vpuJob[m] # vpuJob[l]
                                      /\ vpuJob[m] \in Jobs /\ vpuJob'[l] # vpuJob'[m]
                                      /\ commands'[vpuJob'[m]] = commands[vpuJob[m]]
                                      /\ phase'[vpuJob'[m]] = phase[vpuJob[m]]
                                      /\ call'[m] = call[m]
         /\ vpuJob'[l] \in FreeJobs => /\ commands'[vpuJob'[l]] = <<>> /\ vpuJob'[l] # vpuJob[l]
                                       /\ phase'[vpuJob'[l]] = "open"
  <1>1. l \in Lists /\ InCallOf(l) /\ Pushes(l, p) /\ PushOf(l, call[l], p)
    BY StepPushes DEF AppendStep, PushStep
  <1>2. \A m \in Lists : m # l => /\ vpuJob'[m] = vpuJob[m] /\ vpuJob[m] # vpuJob[l]
                                  /\ vpuJob[m] \in Jobs /\ vpuJob[m] \in HeldJobs
    BY <1>1, JobsOfLists DEF AppendStep
  <1>3. vpuJob[l] \in HeldJobs /\ vpuJob[l] \in Jobs
    BY <1>1, JobsOfLists
  <1>4. ASSUME vpuJob'[l] \in FreeJobs
        PROVE  /\ commands'[vpuJob'[l]] = <<>> /\ vpuJob'[l] # vpuJob[l]
               /\ phase'[vpuJob'[l]] = "open"
    <2>1. vpuJob'[l] \in Jobs \ HeldJobs
      BY <1>4 DEF FreeJobs
    <2>2. commands[vpuJob'[l]] = <<>> /\ phase[vpuJob'[l]] = "open"
      BY <2>1 DEF JobsHeld
    <2> QED
      BY <1>1, <1>3, <2>1, <2>2 DEF AppendStep, Pushes
  <1>5. \A m \in Lists : m # l => vpuJob'[l] # vpuJob'[m]
    BY <1>2 DEF AppendStep, FreeJobs
  <1>6. \A m \in Lists : m # l => /\ commands'[vpuJob'[m]] = commands[vpuJob[m]]
                                  /\ phase'[vpuJob'[m]] = phase[vpuJob[m]]
                                  /\ call'[m] = call[m]
    BY <1>1, <1>2 DEF AppendStep, Pushes, Ends
  <1> QED
    BY <1>1, <1>2, <1>3, <1>4, <1>5, <1>6

\* In an append the calls under way stay what they are.
LEMMA AppendCalls ==
  ASSUME Shape, JobsHeld, Calls, NEW l, NEW p, NEW ok, AppendStep(l, p, ok)
  PROVE  Calls'
  <1>1. l \in Lists /\ InCallOf(l) /\ Ends(l, ok)
    BY AppendJobs DEF AppendStep
  <1>2. ASSUME NEW m \in Lists, m # l, InCallOf(m)' PROVE CallBy(m, call[m])'
    <2>1. /\ vpuJob'[m] = vpuJob[m] /\ commands'[vpuJob'[m]] = commands[vpuJob[m]]
          /\ phase'[vpuJob'[m]] = phase[vpuJob[m]] /\ call'[m] = call[m]
      BY <1>2, AppendJobs
    <2>2. InCallOf(m) /\ CallBy(m, call[m])
      BY <1>2, <2>1 DEF InCallOf, Calls
    <2>3. call[m].app # call[l].app
      BY <1>1, <1>2, <2>2 DEF Calls
    <2>4. Len(outcome') = Len(outcome) /\ outcome'[call[m].app] = outcome[call[m].app]
      BY <1>1, <2>2, <2>3 DEF Ends, CallBy
    <2> QED
      BY <2>1, <2>2, <2>4 DEF CallBy
  <1>3. ASSUME InCallOf(l)' PROVE CallBy(l, call[l])'
    <2>1. ok /\ Continues(l)
      BY <1>1, <1>3 DEF Ends, Returns, InCallOf
    <2>2. CallBy(l, call[l])
      BY <1>1 DEF Calls
    <2>3. ASSUME l \in RegularLists PROVE phase'[vpuJob'[l]] = "open"
      BY <2>1, <2>3 DEF AppendStep
    <2> QED
      BY <2>1, <2>2, <2>3 DEF CallBy, Continues, Rounds
  <1>4. \A m, k \in Lists : InCallOf(m)' /\ InCallOf(k)' /\ call'[m].app = call'[k].app => m = k
    <2>1. \A m \in Lists : InCallOf(m)' => InCallOf(m) /\ call'[m].app = call[m].app
      BY <1>1 DEF Ends, Continues, Returns, InCallOf
    <2> QED
      BY <2>1 DEF Calls
  <1> QED
    BY <1>2, <1>3, <1>4 DEF Calls

\* In an append the commands still belong to calls made.
LEMMA AppendApps ==
  ASSUME Shape, JobsHeld, Calls, Apps, NEW l, NEW p, NEW ok, AppendStep(l, p, ok)
  PROVE  Apps'
  <1>1. /\ l \in Lists /\ InCallOf(l) /\ Ends(l, ok) /\ Pushes(l, p) /\ PushOf(l, call[l], p)
        /\ vpuJob[l] \in Jobs
    BY AppendJobs DEF AppendStep
  <1>2. call[l].app \in 1 .. Len(outcome) /\ Len(outcome') = Len(outcome)
    BY <1>1 DEF Calls, CallBy, Ends
  <1>3. ASSUME NEW j \in Jobs, NEW i \in DOMAIN commands'[j]
        PROVE  \/ i \in DOMAIN commands[j] /\ commands'[j][i] = commands[j][i]
               \/ j = vpuJob[l] /\ commands'[j][i].app = call[l].app
    <2>1. CASE j # vpuJob[l]
      BY <1>1, <1>3, <2>1 DEF Pushes
    <2>2. CASE j = vpuJob[l]
      <3>1. Extended(commands[j], p, commands'[j])
        BY <1>1, <2>2 DEF Pushes
      <3>2. i \in DOMAIN commands[j] \/ \E x \in DOMAIN p : i = Len(commands[j]) + x
        BY <1>3, <3>1 DEF Extended
      <3>3. ASSUME NEW x \in DOMAIN p, i = Len(commands[j]) + x
            PROVE  commands'[j][i].app = call[l].app
        BY <1>1, <3>1, <3>3 DEF Extended, PushOf
      <3> QED
        BY <2>2, <3>1, <3>2, <3>3 DEF Extended
    <2> QED
      BY <2>1, <2>2
  <1>4. \A j \in Jobs : \A i \in DOMAIN commands'[j] : commands'[j][i].app <= Len(outcome')
    BY <1>2, <1>3 DEF Apps
  <1>5. ASSUME NEW j \in Jobs, NEW i \in DOMAIN commands'[j], NEW m \in Lists,
               InCallOf(m)', commands'[j][i].app = call'[m].app
        PROVE  call'[m].round = 2 /\ (j \in Range(vpuJob') => j = vpuJob'[m])
    <2>1. InCallOf(m) /\ call'[m].app = call[m].app
      BY <1>1, <1>5 DEF Ends, Continues, Returns, InCallOf
    <2>2. CASE m # l
      <3>1. call'[m] = call[m] /\ vpuJob'[m] = vpuJob[m] /\ call[m].app # call[l].app
        BY <1>1, <2>1, <2>2 DEF Ends, AppendStep, Calls
      <3>2. i \in DOMAIN commands[j] /\ commands[j][i].app = call[m].app
        BY <1>3, <1>5, <2>1, <3>1
      <3>3. call[m].round = 2 /\ (j \in Range(vpuJob) => j = vpuJob[m])
        BY <2>1, <3>2 DEF Apps
      <3>4. ASSUME j \in Range(vpuJob') PROVE j \in Range(vpuJob)
        <4>1. PICK x \in Lists : j = vpuJob'[x]
          BY <3>4 DEF Range, AppendStep
        <4>2. CASE x = l /\ vpuJob'[l] \in FreeJobs
          <5>1. commands'[j] = <<>>
            BY <4>1, <4>2, AppendJobs
          <5> QED
            BY <1>5, <5>1, EmptySeq
        <4>3. CASE ~ (x = l /\ vpuJob'[l] \in FreeJobs)
          <5>1. j = vpuJob[x]
            BY <4>1, <4>3 DEF AppendStep
          <5> QED
            BY <5>1 DEF Range, Shape
        <4> QED
          BY <4>2, <4>3
      <3> QED
        BY <3>1, <3>3, <3>4
    <2>3. CASE m = l
      <3>1. ok /\ Continues(l)
        BY <1>1, <1>5, <2>3 DEF Ends, Returns, InCallOf
      <3>2. ~ (i \in DOMAIN commands[j] /\ commands[j][i].app = call[l].app)
        <4>1. call[l].round = 1
          BY <3>1 DEF Continues
        <4> QED
          BY <1>1, <4>1 DEF Apps
      <3>3. j = vpuJob[l]
        BY <1>3, <1>5, <2>1, <2>3, <3>2
      <3>4. ASSUME j \in Range(vpuJob') PROVE j = vpuJob'[l]
        <4>1. PICK x \in Lists : j = vpuJob'[x]
          BY <3>4 DEF Range, AppendStep
        <4>2. x = l
          <5>1. \A y \in Lists : y # l => vpuJob'[y] # vpuJob[l]
            BY AppendJobs
          <5> QED
            BY <3>3, <4>1, <5>1
        <4> QED
          BY <4>1, <4>2
      <3> QED
        BY <2>3, <3>1, <3>4 DEF Continues
    <2> QED
      BY <2>2, <2>3
  <1> QED
    BY <1>4, <1>5 DEF Apps

\* In an append the rounds before leave what the next one counts on.
LEMMA AppendRounds ==
  ASSUME Shape, JobsHeld, Calls, Apps, Order, NEW l, NEW p, NEW ok, AppendStep(l, p, ok)
  PROVE  \A m \in Lists : InCallOf(m)' => RoundsBefore(m, call'[m], commands'[vpuJob'[m]])
  <1>1. /\ l \in Lists /\ InCallOf(l) /\ Ends(l, ok) /\ Pushes(l, p) /\ PushOf(l, call[l], p)
        /\ vpuJob[l] \in Jobs
    BY AppendJobs DEF AppendStep
  <1>2. ASSUME NEW m \in Lists, m # l, InCallOf(m)'
        PROVE  RoundsBefore(m, call'[m], commands'[vpuJob'[m]])
    <2>1. commands'[vpuJob'[m]] = commands[vpuJob[m]] /\ call'[m] = call[m]
      BY <1>2, AppendJobs
    <2> QED
      BY <1>2, <2>1 DEF Order, InCallOf
  <1>3. ASSUME InCallOf(l)' PROVE RoundsBefore(l, call'[l], commands'[vpuJob'[l]])
    <2>1. ok /\ Continues(l)
      BY <1>1, <1>3 DEF Ends, Returns, InCallOf
    <2>2. CASE vpuJob'[l] \in FreeJobs
      <3>1. commands'[vpuJob'[l]] = <<>>
        BY <2>2, AppendJobs
      <3> QED
        BY <3>1, EmptySeq DEF RoundsBefore
    <2>3. CASE vpuJob'[l] \notin FreeJobs
      <3> DEFINE s == commands[vpuJob[l]]
                 t == commands'[vpuJob[l]]
      <3>1. vpuJob'[l] = vpuJob[l] /\ l \notin ImmediateLists /\ l \in RegularLists
        BY <1>1, <2>1, <2>3 DEF AppendStep, Lists
      <3>2. Extended(s, p, t)
        BY <1>1 DEF Pushes
      <3>3. ASSUME NEW i \in DOMAIN t, t[i].app = call[l].app
            PROVE  \E x \in DOMAIN p : i = Len(s) + x /\ t[i] = p[x]
        <4>1. i \in DOMAIN s \/ \E x \in DOMAIN p : i = Len(s) + x
          BY <3>2, <3>3 DEF Extended
        <4>2. CASE i \in DOMAIN s
          <5>1. s[i].app = call[l].app
            BY <3>2, <3>3, <4>2 DEF Extended
          <5> QED
            BY <1>1, <2>1, <4>2, <5>1 DEF Apps, Continues
        <4>3. ASSUME NEW x \in DOMAIN p, i = Len(s) + x PROVE t[i] = p[x]
          BY <3>2, <4>3 DEF Extended
        <4> QED
          BY <4>1, <4>2, <4>3
      <3>4. call[l].round = 1 /\ call[l].op \in {"region", "fill"}
        BY <2>1 DEF Continues
      <3>5. ASSUME "region" \in Avoid, NEW i \in DOMAIN t, t[i].app = call[l].app
            PROVE  t[i].kind # "signal"
        <4>1. PICK x \in DOMAIN p : i = Len(s) + x /\ t[i] = p[x]
          BY <3>3, <3>5
        <4>2. call[l].op = "region" => call[l].event = None
          BY <1>1, <3>5 DEF Calls, CallBy
        <4> QED
          BY <1>1, <3>4, <4>1, <4>2 DEF PushOf
      <3>6. ASSUME NEW i \in DOMAIN t, t[i].app = call[l].app, t[i].kind # "wait",
                   NEW x \in DOMAIN call[l].waits
            PROVE  \E w \in DOMAIN t : w <= i /\ t[w] = Cmd("wait", call[l].waits[x], call[l].app, 0)
        <4>1. PICK y \in DOMAIN p : i = Len(s) + y /\ t[i] = p[y]
          BY <3>3, <3>6
        <4>2. x < y /\ x \in DOMAIN p /\ p[x] = Cmd("wait", call[l].waits[x], call[l].app, 0)
          BY <1>1, <3>1, <3>4, <3>6, <4>1 DEF PushOf
        <4>3. Len(s) + x \in DOMAIN t /\ t[Len(s) + x] = p[x]
          BY <3>2, <4>2 DEF Extended
        <4>4. Len(s) + x <= i
          <5>1. Len(s) \in Nat /\ DOMAIN p = 1 .. Len(p) /\ Len(p) \in Nat
            BY <3>2 DEF Extended
          <5> HIDE DEF s
          <5> QED
            BY <4>1, <4>2, <5>1
        <4> QED
          BY <4>2, <4>3, <4>4
      <3>7. call'[l].app = call[l].app /\ call'[l].waits = call[l].waits
        BY <2>1 DEF Continues
      <3> HIDE DEF s, t
      <3>8. RoundsBefore(l, call'[l], t)
        BY <3>1, <3>5, <3>6, <3>7 DEF RoundsBefore
      <3> QED
        BY <3>1, <3>8 DEF t
    <2> QED
      BY <2>2, <2>3
  <1> QED
    BY <1>2, <1>3

\* In an append no command of a call that returned is in the wrong place.
LEMMA AppendOutcomes ==
  ASSUME Shape, JobsHeld, Calls, Apps, Outcomes, NEW l, NEW p, NEW ok, AppendStep(l, p, ok),
         l \in ImmediateLists => /\ ~ok => call'[l] = NoCall
                                 /\ p # <<>> => call[l].pc = "push"
  PROVE  Outcomes'
  <1> DEFINE j == vpuJob[l]
             app == call[l].app
  <1>1. /\ l \in Lists /\ InCallOf(l) /\ Ends(l, ok) /\ Pushes(l, p) /\ PushOf(l, call[l], p)
        /\ j \in Jobs /\ PushStep(l, p) /\ (l \in RegularLists <=> l \notin ImmediateLists)
    BY AppendJobs, ParametersAssumption DEF AppendStep, Lists
  <1>2. ASSUME NEW m \in Lists, m # l, NEW i \in DOMAIN commands'[vpuJob'[m]]
        PROVE  /\ i \in DOMAIN commands[vpuJob[m]] /\ commands'[vpuJob'[m]][i] = commands[vpuJob[m]][i]
               /\ outcome'[commands'[vpuJob'[m]][i].app] = outcome[commands[vpuJob[m]][i].app]
    <2>1. commands'[vpuJob'[m]] = commands[vpuJob[m]] /\ vpuJob[m] \in Jobs /\ vpuJob[m] # vpuJob[l]
      BY <1>2, AppendJobs
    <2>2. commands[vpuJob[m]][i].app # app
      <3>1. vpuJob[m] \in Range(vpuJob)
        BY DEF Range, Shape
      <3> QED
        BY <1>1, <1>2, <2>1, <3>1 DEF Apps
    <2>3. commands[vpuJob[m]][i].app \in 1 .. Len(outcome)
      <3>1. commands[vpuJob[m]][i] \in CommandSet
        BY <1>2, <2>1, CommandsOf
      <3> QED
        BY <1>2, <2>1, <3>1 DEF Apps, CommandSet, Appends
    <2> QED
      BY <1>1, <1>2, <2>1, <2>2, <2>3 DEF Ends
  <1>3. ASSUME NEW i \in DOMAIN commands'[j], vpuJob'[l] = j
        PROVE  \/ /\ i \in DOMAIN commands[j] /\ commands'[j][i] = commands[j][i]
                  /\ commands[j][i].app # app
                  /\ outcome'[commands'[j][i].app] = outcome[commands[j][i].app]
               \/ /\ i \in DOMAIN commands[j] /\ commands'[j][i] = commands[j][i]
                  /\ commands[j][i].app = app /\ call[l].round = 2 /\ commands'[j][i].app = app
               \/ p # <<>> /\ commands'[j][i].app = app
    <2>1. Extended(commands[j], p, commands'[j])
      BY <1>1 DEF Pushes
    <2>2. i \in DOMAIN commands[j] \/ \E x \in DOMAIN p : i = Len(commands[j]) + x
      BY <1>3, <2>1 DEF Extended
    <2>3. CASE i \in DOMAIN commands[j]
      <3>1. commands'[j][i] = commands[j][i]
        BY <2>1, <2>3 DEF Extended
      <3>2. commands[j][i].app \in 1 .. Len(outcome)
        <4>1. commands[j][i] \in CommandSet
          BY <1>1, <2>3, CommandsOf
        <4> QED
          BY <1>1, <2>3, <4>1 DEF Apps, CommandSet, Appends
      <3>3. commands[j][i].app = app => call[l].round = 2
        BY <1>1, <2>3 DEF Apps
      <3>4. commands[j][i].app # app => outcome'[commands[j][i].app] = outcome[commands[j][i].app]
        BY <1>1, <3>2 DEF Ends
      <3> QED
        BY <2>3, <3>1, <3>3, <3>4
    <2>4. ASSUME NEW x \in DOMAIN p, i = Len(commands[j]) + x
          PROVE  p # <<>> /\ commands'[j][i].app = app
      BY <1>1, <2>1, <2>4, EmptySeq DEF Extended, PushOf
    <2> QED
      BY <2>2, <2>3, <2>4
  <1>4. ASSUME NEW m \in ImmediateLists, NEW i \in DOMAIN commands'[vpuJob'[m]]
        PROVE  outcome'[commands'[vpuJob'[m]][i].app] # "ok"
    <2>0. m \in Lists
      BY DEF Lists
    <2>1. CASE m # l
      BY <1>2, <1>4, <2>0, <2>1, SMTT(20) DEF Outcomes
    <2>2. CASE m = l /\ vpuJob'[l] \in FreeJobs
      <3>1. commands'[vpuJob'[m]] = <<>>
        BY <2>2, AppendJobs
      <3> QED
        BY <1>4, <3>1, EmptySeq
    <2>3. CASE m = l /\ vpuJob'[l] \notin FreeJobs
      <3>1. ~ok /\ vpuJob'[l] = j
        BY <2>3 DEF AppendStep
      <3>2. outcome'[app] = "error"
        BY <1>1, <3>1 DEF Ends, Returns
      <3> QED
        BY <1>3, <1>4, <2>3, <3>1, <3>2 DEF Outcomes
    <2> QED
      BY <2>1, <2>2, <2>3
  <1>5. ASSUME "leftover" \in Avoid, NEW m \in Lists,
               IF m \in ImmediateLists THEN InCallOf(m)' /\ phase'[vpuJob'[m]] # "closed"
               ELSE phase'[vpuJob'[m]] = "closed",
               NEW i \in DOMAIN commands'[vpuJob'[m]]
        PROVE  outcome'[commands'[vpuJob'[m]][i].app] # "error"
    <2>1. CASE m # l
      <3>1. phase'[vpuJob'[m]] = phase[vpuJob[m]] /\ (InCallOf(m)' => InCallOf(m))
        BY <1>1, <2>1, AppendJobs DEF Ends, InCallOf
      <3> QED
        BY <1>2, <1>5, <2>1, <3>1, SMTT(20) DEF Outcomes
    <2>2. CASE m = l /\ l \in ImmediateLists
      <3>1. ok /\ vpuJob'[l] \in FreeJobs
        BY <1>5, <2>2 DEF AppendStep, InCallOf
      <3>2. commands'[vpuJob'[m]] = <<>>
        BY <2>2, <3>1, AppendJobs
      <3> QED
        BY <1>5, <3>2, EmptySeq
    <2>3. CASE m = l /\ l \notin ImmediateLists
      <3>1. l \in RegularLists /\ vpuJob'[l] = j /\ phase[j] = "closed" /\ p = <<>>
        BY <1>1, <1>5, <2>3 DEF AppendStep, PushStep
      <3>2. call[l].round # 2
        BY <1>1, <3>1 DEF Calls, CallBy
      <3> QED
        BY <1>3, <1>5, <2>3, <3>1, <3>2 DEF Outcomes
    <2> QED
      BY <2>1, <2>2, <2>3
  <1> QED
    BY <1>4, <1>5 DEF Outcomes

\* In an append events know the jobs that name them.
LEMMA AppendEvents ==
  ASSUME Shape, JobsHeld, Calls, EventsNamed, NEW l, NEW p, NEW ok, AppendStep(l, p, ok),
         \A e \in Events : associated[e] \subseteq associated'[e],
         \A i \in DOMAIN p : p[i].kind = "signal" => vpuJob[l] \in associated'[p[i].event]
  PROVE  EventsNamed'
  <1> SUFFICES ASSUME "recreate" \in Avoid
               PROVE  /\ \A j \in Jobs : \A i \in DOMAIN commands'[j] :
                           /\ commands'[j][i].event \in events \cup {None}
                           /\ commands'[j][i].kind = "signal" =>
                                  /\ commands'[j][i].event # None
                                  /\ j \in associated'[commands'[j][i].event]
                      /\ \A m \in Lists : InCallOf(m)' => /\ call'[m].event \in events \cup {None}
                                                          /\ Range(call'[m].waits) \subseteq events
    BY DEF EventsNamed, AppendStep
  <1>1. /\ l \in Lists /\ InCallOf(l) /\ Ends(l, ok) /\ Pushes(l, p) /\ PushOf(l, call[l], p)
        /\ vpuJob[l] \in Jobs
    BY AppendJobs DEF AppendStep
  <1>2. \A m \in Lists : InCallOf(m)' => /\ InCallOf(m) /\ call'[m].event = call[m].event
                                         /\ call'[m].waits = call[m].waits
    BY <1>1 DEF Ends, Continues, Returns, InCallOf
  <1>3. \A m \in Lists : InCallOf(m)' => /\ call'[m].event \in events \cup {None}
                                         /\ Range(call'[m].waits) \subseteq events
    BY <1>2 DEF EventsNamed
  <1>4. ASSUME NEW j \in Jobs, NEW i \in DOMAIN commands[j]
        PROVE  /\ commands[j][i].event \in events \cup {None}
               /\ commands[j][i].kind = "signal" => /\ commands[j][i].event # None
                                                    /\ j \in associated'[commands[j][i].event]
    BY <1>4 DEF EventsNamed, Shape
  <1>5. ASSUME NEW i \in DOMAIN p
        PROVE  /\ p[i].event \in events \cup {None}
               /\ p[i].kind = "signal" => p[i].event # None /\ vpuJob[l] \in associated'[p[i].event]
    <2>1. call[l].event \in events \cup {None} /\ Range(call[l].waits) \subseteq events
      BY <1>1 DEF EventsNamed
    <2> QED
      BY <1>1, <2>1 DEF PushOf
  <1>6. ASSUME NEW j \in Jobs, NEW i \in DOMAIN commands'[j]
        PROVE  /\ commands'[j][i].event \in events \cup {None}
               /\ commands'[j][i].kind = "signal" => /\ commands'[j][i].event # None
                                                     /\ j \in associated'[commands'[j][i].event]
    <2>1. CASE j # vpuJob[l]
      BY <1>1, <1>4, <1>6, <2>1 DEF Pushes
    <2>2. CASE j = vpuJob[l]
      <3>1. Extended(commands[j], p, commands'[j])
        BY <1>1, <2>2 DEF Pushes
      <3>2. i \in DOMAIN commands[j] \/ \E x \in DOMAIN p : i = Len(commands[j]) + x
        BY <1>6, <3>1 DEF Extended
      <3>3. CASE i \in DOMAIN commands[j]
        BY <1>4, <3>1, <3>3 DEF Extended
      <3>4. ASSUME NEW x \in DOMAIN p, i = Len(commands[j]) + x PROVE commands'[j][i] = p[x]
        BY <3>1, <3>4 DEF Extended
      <3> QED
        BY <1>5, <2>2, <3>2, <3>3, <3>4
    <2> QED
      BY <2>1, <2>2
  <1> QED
    BY <1>3, <1>6

\* Commands pushed behind it do not change what an id names.
LEMMA IdsExtended ==
  ASSUME NEW map, NEW ids \in SUBSET [id : Nat, app : Appends], NEW s, NEW p, NEW t,
         Extended(s, p, t), DOMAIN map \subseteq Nat, IdsOf(map, s, ids)
  PROVE  /\ IdsOf(map, t, ids)
         /\ \A n \in Nat : n > 0 /\ n <= Len(p)
                => IdsOf(Emplaced(map, Len(s), Len(s) + n), t, ids)
         /\ \A n \in Nat : \A map2 :
                /\ n + 1 \in DOMAIN p /\ p[n + 1].kind = "infer"
                /\ map2 = Emplaced(map, Len(s), Len(s) + n) \/ (n = 0 /\ map2 = map)
                => IdsOf(map2, t, ids \cup {[id |-> Len(s), app |-> p[n + 1].app]})
  <1> DEFINE k(m, id) == (IF id \in DOMAIN m THEN m[id] ELSE id) + 1
             Names1(m, h) == /\ h.id < Len(t) /\ k(m, h.id) \in DOMAIN t
                             /\ t[k(m, h.id)].kind = "infer" /\ t[k(m, h.id)].app = h.app
  <1>1. /\ Len(s) \in Nat /\ Len(p) \in Nat /\ Len(t) = Len(s) + Len(p)
        /\ \A i \in DOMAIN s : i \in DOMAIN t /\ t[i] = s[i]
        /\ \A i \in DOMAIN p : Len(s) + i \in DOMAIN t /\ t[Len(s) + i] = p[i]
        /\ DOMAIN p = 1 .. Len(p)
    BY DEF Extended
  <1>2. \A id \in DOMAIN map : id < Len(s) /\ id < Len(t)
    BY <1>1 DEF IdsOf
  <1>3. \A h \in ids : /\ h.id \in Nat /\ h.id < Len(s) /\ h.id < Len(t) /\ k(map, h.id) \in DOMAIN s
                       /\ s[k(map, h.id)].kind = "infer" /\ s[k(map, h.id)].app = h.app
    BY <1>1 DEF IdsOf
  <1>4. \A h \in ids : Names1(map, h)
    BY <1>1, <1>3
  <1>5. IdsOf(map, t, ids)
    BY <1>2, <1>4 DEF IdsOf
  <1>6. Len(s) \notin DOMAIN map
    BY <1>1, <1>2
  <1>7. ASSUME NEW n
        PROVE  /\ DOMAIN Emplaced(map, Len(s), n) = DOMAIN map \cup {Len(s)}
               /\ Emplaced(map, Len(s), n)[Len(s)] = n
               /\ \A h \in ids : k(Emplaced(map, Len(s), n), h.id) = k(map, h.id)
    <2>1. /\ DOMAIN Emplaced(map, Len(s), n) = DOMAIN map \cup {Len(s)}
          /\ Emplaced(map, Len(s), n)[Len(s)] = n
          /\ \A id \in DOMAIN map : Emplaced(map, Len(s), n)[id] = map[id]
      BY <1>6 DEF Emplaced
    <2>2. \A h \in ids : h.id # Len(s)
      BY <1>1, <1>3
    <2> QED
      BY <2>1, <2>2
  <1>8. ASSUME NEW n \in Nat, n > 0, n <= Len(p)
        PROVE  IdsOf(Emplaced(map, Len(s), Len(s) + n), t, ids)
    <2> DEFINE m == Emplaced(map, Len(s), Len(s) + n)
    <2>1. \A h \in ids : k(m, h.id) = k(map, h.id)
      BY <1>7
    <2>2. DOMAIN m = DOMAIN map \cup {Len(s)}
      BY <1>7
    <2>3. Len(s) < Len(t)
      BY <1>1, <1>8
    <2> HIDE DEF m
    <2>4. \A h \in ids : Names1(m, h)
      <3> HIDE DEF k
      <3> QED
        BY <1>4, <2>1
    <2>5. \A id \in DOMAIN m : id < Len(t)
      BY <1>2, <2>2, <2>3
    <2>6. IdsOf(m, t, ids)
      BY <2>4, <2>5 DEF IdsOf
    <2> QED
      BY <2>6 DEF m
  <1>9. ASSUME NEW n \in Nat, n + 1 \in DOMAIN p, p[n + 1].kind = "infer", NEW map2,
               map2 = Emplaced(map, Len(s), Len(s) + n) \/ (n = 0 /\ map2 = map)
        PROVE  IdsOf(map2, t, ids \cup {[id |-> Len(s), app |-> p[n + 1].app]})
    <2> DEFINE new == [id |-> Len(s), app |-> p[n + 1].app]
    <2>1. \A h \in ids : k(map2, h.id) = k(map, h.id)
      BY <1>7, <1>9
    <2>2. DOMAIN map2 \subseteq DOMAIN map \cup {Len(s)}
      BY <1>7, <1>9
    <2>3. Len(s) < Len(t)
      BY <1>1, <1>9
    <2>4. \A h \in ids : Names1(map2, h)
      <3> HIDE DEF k
      <3> QED
        BY <1>4, <2>1
    <2>5. \A id \in DOMAIN map2 : id < Len(t)
      BY <1>2, <2>2, <2>3
    <2>6. k(map2, Len(s)) = Len(s) + n + 1
      <3>1. CASE map2 = Emplaced(map, Len(s), Len(s) + n)
        <4>1. Len(s) \in DOMAIN map2 /\ map2[Len(s)] = Len(s) + n
          BY <1>7, <3>1
        <4> QED
          BY <4>1
      <3>2. CASE n = 0 /\ map2 = map
        BY <1>1, <1>6, <3>2
      <3> QED
        BY <1>9, <3>1, <3>2
    <2>7. Len(s) + n + 1 \in DOMAIN t /\ t[Len(s) + n + 1] = p[n + 1]
      <3>1. Len(s) + (n + 1) = Len(s) + n + 1
        BY <1>1
      <3>2. Len(s) + (n + 1) \in DOMAIN t /\ t[Len(s) + (n + 1)] = p[n + 1]
        BY <1>1, <1>9
      <3> QED
        BY <3>1, <3>2
    <2>8. Names1(map2, new)
      BY <1>9, <2>3, <2>6, <2>7
    <2> HIDE DEF new
    <2>9. \A h \in ids \cup {new} : Names1(map2, h)
      <3> HIDE DEF Names1
      <3> QED
        BY <2>4, <2>8
    <2>10. IdsOf(map2, t, ids \cup {new})
      BY <2>5, <2>9 DEF IdsOf
    <2> QED
      BY <2>10 DEF new
  <1> QED
    BY <1>5, <1>8, <1>9

\* In an append the ids keep naming their inferences, the new one included.
LEMMA AppendIds ==
  ASSUME Shape, JobsHeld, Calls, Ids, NEW l, NEW p, NEW ok, AppendStep(l, p, ok),
         \A m \in MutableLists : m # l => commandIdMap'[m] = commandIdMap[m],
         l \in MutableLists =>
             \/ commandIdMap'[l] = commandIdMap[l]
                /\ (call[l].op = "infer" /\ ok => Len(call[l].waits) = 0)
             \/ /\ call[l].op = "infer" /\ Len(call[l].waits) \in 1 .. Len(p)
                /\ commandIdMap'[l] = Emplaced(commandIdMap[l], Len(commands[vpuJob[l]]),
                                          Len(commands[vpuJob[l]]) + Len(call[l].waits)),
         l \in MutableLists /\ ok /\ call[l].op = "infer" =>
             /\ Len(call[l].waits) + 1 \in DOMAIN p
             /\ p[Len(call[l].waits) + 1].kind = "infer"
  PROVE  Ids'
  <1> SUFFICES ASSUME "remutate" \in Avoid, NEW m \in MutableLists
               PROVE  IdsOf(commandIdMap'[m], commands'[vpuJob'[m]], handed'[m])
    BY DEF Ids
  <1>1. /\ l \in Lists /\ InCallOf(l) /\ Ends(l, ok) /\ Pushes(l, p) /\ PushOf(l, call[l], p)
        /\ m \in RegularLists /\ m \in Lists
    BY AppendJobs, ParametersAssumption DEF AppendStep, Lists
  <1>2. IdsOf(commandIdMap[m], commands[vpuJob[m]], handed[m])
    BY DEF Ids
  <1>3. \/ handed'[m] = handed[m]
        \/ /\ m = l /\ ok /\ call[l].op = "infer"
           /\ handed'[m] = handed[m] \cup {[id |-> call[l].id, app |-> call[l].app]}
    BY <1>1 DEF Ends, Continues, Returns
  <1>4. CASE m # l
    <2>1. commands'[vpuJob'[m]] = commands[vpuJob[m]]
      BY <1>1, <1>4, AppendJobs
    <2> QED
      BY <1>2, <1>3, <1>4, <2>1
  <1>5. CASE m = l
    <2> DEFINE s == commands[vpuJob[l]]
               t == commands'[vpuJob[l]]
               map == commandIdMap[l]
               map2 == commandIdMap'[l]
               n == Len(call[l].waits)
               ids == handed[l]
    <2>1. commands'[vpuJob'[m]] = t
      BY <1>1, <1>5 DEF AppendStep
    <2>2. Extended(s, p, t) /\ DOMAIN map \subseteq Nat /\ ids \in SUBSET [id : Nat, app : Appends]
      BY <1>1, <1>5 DEF Pushes, Shape
    <2>3. IdsOf(map, s, ids)
      BY <1>2, <1>5
    <2>4. n \in Nat
      BY <1>1, CallFields
    <2>5. \/ map2 = map /\ (call[l].op = "infer" /\ ok => n = 0)
          \/ call[l].op = "infer" /\ n \in 1 .. Len(p) /\ map2 = Emplaced(map, Len(s), Len(s) + n)
      BY <1>5
    <2>6. ASSUME ok, call[l].op = "infer"
          PROVE  /\ n + 1 \in DOMAIN p /\ p[n + 1].kind = "infer"
                 /\ call[l].id = Len(s) /\ p[n + 1].app = call[l].app
      <3>1. n + 1 \in DOMAIN p /\ p[n + 1].kind = "infer"
        BY <1>5, <2>6
      <3>2. call[l].id = Len(s)
        BY <1>1, <1>5, <2>6 DEF Calls, CallBy
      <3> HIDE DEF s, n
      <3> QED
        BY <1>1, <3>1, <3>2 DEF PushOf
    <2> HIDE DEF s, t, map, map2, n, ids
    <2>7. CASE handed'[m] = ids
      <3>1. IdsOf(map, t, ids)
        BY <2>2, <2>3, IdsExtended
      <3>2. CASE n \in 1 .. Len(p) /\ map2 = Emplaced(map, Len(s), Len(s) + n)
        <4>1. n > 0 /\ n <= Len(p)
          BY <2>2, <2>4, <3>2 DEF Extended
        <4>2. IdsOf(map2, t, ids)
          BY <2>2, <2>3, <2>4, <3>2, <4>1, IdsExtended
        <4> QED
          BY <1>5, <2>1, <2>7, <4>2 DEF map2
      <3> QED
        BY <1>5, <2>1, <2>5, <2>7, <3>1, <3>2 DEF map2
    <2>8. CASE ok /\ call[l].op = "infer" /\ handed'[m] = ids \cup {[id |-> call[l].id, app |-> call[l].app]}
      <3>1. map2 = Emplaced(map, Len(s), Len(s) + n) \/ (n = 0 /\ map2 = map)
        BY <2>5, <2>8
      <3>2. IdsOf(map2, t, ids \cup {[id |-> Len(s), app |-> p[n + 1].app]})
        BY <2>2, <2>3, <2>4, <2>6, <2>8, <3>1, IdsExtended
      <3>3. IdsOf(map2, t, ids \cup {[id |-> call[l].id, app |-> call[l].app]})
        BY <2>6, <2>8, <3>2
      <3> QED
        BY <1>5, <2>1, <2>8, <3>3 DEF map2
    <2> QED
      BY <1>3, <1>5, <2>7, <2>8 DEF ids
  <1> QED
    BY <1>4, <1>5

\* In an append the submissions stay tracked.
LEMMA AppendDevice ==
  ASSUME Shape, JobsHeld, Device, NEW l, NEW p, NEW ok, AppendStep(l, p, ok),
         device' = device, trackedJobs' = trackedJobs
  PROVE  Device'
  <1> SUFFICES ASSUME "midway" \in Avoid
               PROVE  /\ \A j \in Running : /\ device[j].list \in Lists
                                            /\ j \in trackedJobs[QueueOf(device[j].list)]
                                            /\ device[j].cmds = commands'[j]
                      /\ \A j, k \in Running :
                            device[j].list = device[k].list /\ device[j].list \in ImmediateLists
                                => j = k
                      /\ \A m \in ImmediateLists, j \in Running :
                            InCallOf(m)' /\ call'[m].pc = "push" => device[j].list # m
    BY DEF Device, Running, QueueOf
  <1>1. /\ l \in Lists /\ InCallOf(l) /\ Ends(l, ok) /\ Pushes(l, p) /\ PushOf(l, call[l], p)
        /\ vpuJob[l] \in Jobs /\ PushStep(l, p) /\ vpuJob[l] \in HeldJobs
    BY AppendJobs, JobsOfLists DEF AppendStep
  <1>2. ASSUME NEW j \in Running PROVE commands'[j] = commands[j]
    <2>1. j \in Jobs
      BY DEF Running
    <2>2. CASE j # vpuJob[l]
      BY <1>1, <2>1, <2>2 DEF Pushes
    <2>3. CASE j = vpuJob[l]
      <3>1. p = <<>>
        BY <1>1, <1>2, <2>3 DEF JobsHeld, PushStep
      <3>2. commands'[j] = commands[j] \o p
        BY <1>1, <2>3, StepPushes
      <3>3. commands[j] \in Seq(CommandSet)
        BY <2>1, CommandsOf
      <3> QED
        BY <3>1, <3>2, <3>3, ConcatEmptySeq
    <2> QED
      BY <2>2, <2>3
  <1>3. ASSUME NEW m \in Lists, InCallOf(m)', call'[m].pc = "push"
        PROVE  InCallOf(m) /\ call[m].pc = "push"
    BY <1>1, <1>3 DEF Ends, Continues, Returns, InCallOf
  <1> QED
    BY <1>2, <1>3 DEF Device, Lists

\* A round that submits nothing.
QuietAppend(l) ==
    /\ vpuJob' = vpuJob /\ phase' = phase /\ jobStatus' = jobStatus /\ trackedJobs' = trackedJobs
    /\ eventState' = eventState /\ device' = device
    /\ associated' \in [Events -> SUBSET Jobs]
    /\ \A e \in Events : associated[e] \subseteq associated'[e]
                         /\ associated'[e] \subseteq associated[e] \cup {vpuJob[l]}

\* An append that submits nothing keeps all but Outcomes, EventsNamed and Ids.
LEMMA QuietRound ==
  ASSUME ListsInv, NEW l, NEW p, NEW ok, AppendStep(l, p, ok), QuietAppend(l),
         DOMAIN commandIdMap' = MutableLists,
         \A m \in MutableLists : DOMAIN commandIdMap'[m] \subseteq Nat
  PROVE  Shape' /\ JobsHeld' /\ Calls' /\ Apps' /\ Hpis' /\ Order' /\ Device'
  <1>1. /\ l \in Lists /\ InCallOf(l) /\ Ends(l, ok) /\ Pushes(l, p) /\ PushOf(l, call[l], p)
        /\ vpuJob[l] \in Jobs /\ PushStep(l, p) /\ vpuJob[l] \in HeldJobs
    BY AppendJobs, JobsOfLists DEF AppendStep, ListsInv
  <1>2. Shape /\ JobsHeld /\ Calls /\ Apps /\ Hpis /\ Order /\ Device
    BY DEF ListsInv
  <1>3. Shape'
    BY <1>1, <1>2 DEF Shape, AppendStep, QuietAppend, Ends, Pushes
  <1>4. HeldJobs' = HeldJobs /\ Running' = Running
    BY DEF HeldJobs, Held, Running, QuietAppend
  <1>5. JobsHeld'
    <2>1. ASSUME NEW j \in Jobs \ HeldJobs
          PROVE  /\ commands'[j] = <<>> /\ phase'[j] = "open"
                 /\ \A e \in Events : j \notin associated'[e]
      <3>1. j # vpuJob[l]
        BY <1>1, <2>1
      <3>2. commands[j] = <<>> /\ phase[j] = "open" /\ \A e \in Events : j \notin associated[e]
        BY <1>2, <2>1 DEF JobsHeld
      <3>3. commands'[j] = commands[j]
        BY <1>1, <2>1, <3>1 DEF Pushes
      <3> QED
        BY <3>1, <3>2, <3>3 DEF QuietAppend
    <2>2. \A j \in Running \cap HeldJobs : phase'[j] = "closed"
      BY <1>2 DEF JobsHeld, QuietAppend
    <2> QED
      BY <1>4, <2>1, <2>2 DEF JobsHeld
  <1>6. Calls' /\ Apps' /\ Hpis'
    BY <1>1, <1>2, AppendCalls, AppendApps, PushHpis
  <1>7. Device'
    BY <1>2, AppendDevice DEF QuietAppend
  <1>8. Order'
    <2>1. \A m \in Lists : InCallOf(m)' => RoundsBefore(m, call'[m], commands'[vpuJob'[m]])
      BY <1>2, AppendRounds
    <2>2. \A j \in Jobs : Ordered(commands'[j])
      BY <1>1, <1>2, PushOrdered
    <2>3. device' = device
      BY DEF QuietAppend
    <2> QED
      BY <1>2, <2>1, <2>2, <2>3 DEF Order
  <1> QED
    BY <1>3, <1>5, <1>6, <1>7, <1>8

-----------------------------------------------------------------------------
(* Each action keeps the invariant.                                        *)

\* An append to a regular list.
LEMMA AppendToListKeeps ==
  ASSUME ListsInv, NEW l \in Lists, AppendToList(l) PROVE ListsInv'
  <1> DEFINE c == call[l]
             j == vpuJob[l]
             w == RoundWork(c)
  <1>1. /\ l \in RegularLists /\ InCallOf(l)
        /\ UNCHANGED <<vpuJob, phase, jobStatus, trackedJobs, events, eventState, device, budget>>
    BY DEF AppendToList, InCallOf
  <1>2. Shape /\ JobsHeld /\ Calls /\ Apps /\ Hpis /\ Order /\ Device /\ Outcomes /\ EventsNamed /\ Ids
    BY DEF ListsInv
  <1>3. PICK k \in 0 .. Len(w) :
            /\ commands' = [commands EXCEPT ![j] = commands[j] \o Pushed(j, c, k)]
            /\ associated' = [e \in Events |->
                   IF \E cmd \in Range(Pushed(j, c, k)) : cmd.kind = "signal" /\ cmd.event = e
                   THEN associated[e] \cup {j} ELSE associated[e]]
            /\ commandIdMap' = IF c.op = "infer" /\ l \in MutableLists /\ phase[j] = "open"
                                    /\ c.waits # <<>>
                               THEN emplace(l, Len(commands[j]), Len(commands[j]) + Len(c.waits))
                               ELSE commandIdMap
            /\ EndRound(l, phase[j] = "open" /\ k = Len(w))
    BY DEF AppendToList
  <1>4. PICK ok \in BOOLEAN : EndRound(l, ok) /\ (ok <=> phase[j] = "open" /\ k = Len(w))
    <2>1. CASE phase[j] = "open" /\ k = Len(w)
      <3>1. EndRound(l, TRUE)
        BY <1>3, <2>1 DEF EndRound
      <3> QED
        BY <2>1, <3>1
    <2>2. CASE ~ (phase[j] = "open" /\ k = Len(w))
      <3>1. EndRound(l, FALSE)
        BY <1>3, <2>2 DEF EndRound
      <3> QED
        BY <2>2, <3>1
    <2> QED
      BY <2>1, <2>2
  <1> DEFINE p == Pushed(j, c, k)
  <1>5. /\ PushOf(l, c, p)
        /\ phase[j] = "open" /\ c.op = "infer" =>
                /\ Len(c.waits) <= Len(p)
                /\ k = 1 => Len(c.waits) + 1 \in DOMAIN p /\ p[Len(c.waits) + 1].kind = "infer"
    BY <1>1, <1>2, ListPush
  <1>6. phase[j] = "open" \/ p = <<>>
    BY DEF Pushed
  <1>7. j \in Jobs /\ vpuJob \in [Lists -> Jobs] /\ associated \in [Events -> SUBSET Jobs]
    BY <1>2, JobsOfLists DEF Shape
  <1>8. c.op = "infer" => Len(w) = 1
    BY <1>1, <1>2, WorkOf DEF WorkFor
  <1>9. /\ \A e \in Events : associated'[e] = associated[e] \/ associated'[e] = associated[e] \cup {j}
        /\ associated' \in [Events -> SUBSET Jobs]
        /\ \A i \in DOMAIN p : p[i].kind = "signal" => j \in associated'[p[i].event]
    <2>1. /\ \A e \in Events : associated'[e] = associated[e] \/ associated'[e] = associated[e] \cup {j}
          /\ associated' \in [Events -> SUBSET Jobs]
      BY <1>3, <1>7
    <2>2. ASSUME NEW i \in DOMAIN p, p[i].kind = "signal" PROVE j \in associated'[p[i].event]
      <3>1. p[i].event \in Events
        <4>1. p[i].event = c.event /\ c.event # None
          BY <1>5, <2>2 DEF PushOf
        <4>2. c.event \in Events \cup {None}
          BY <1>1, <1>2, CallFields
        <4> QED
          BY <4>1, <4>2
      <3>2. p[i] \in Range(p)
        BY <2>2 DEF Range
      <3> HIDE DEF p
      <3>3. \E cmd \in Range(p) : cmd.kind = "signal" /\ cmd.event = p[i].event
        BY <2>2, <3>2
      <3> QED
        BY <1>3, <3>1, <3>3 DEF p
    <2> QED
      BY <2>1, <2>2
  <1> HIDE DEF w
  <1>10. AppendStep(l, p, ok)
    <2>1. Ends(l, ok)
      BY <1>1, <1>2, <1>4, RoundEnds
    <2>2. PushStep(l, p)
      BY <1>1, <1>3, <1>5, <1>6 DEF PushStep
    <2>3. l \notin ImmediateLists
      BY <1>1, ParametersAssumption
    <2> HIDE DEF p
    <2> QED
      BY <1>1, <1>4, <1>7, <2>1, <2>2, <2>3 DEF AppendStep
  <1>11. QuietAppend(l)
    <2> HIDE DEF p, c
    <2> QED
      BY <1>1, <1>9 DEF QuietAppend
  <1>12. /\ DOMAIN commandIdMap' = MutableLists
         /\ \A m \in MutableLists : m # l => commandIdMap'[m] = commandIdMap[m]
         /\ l \in MutableLists =>
                \/ commandIdMap'[l] = commandIdMap[l] /\ (c.op = "infer" /\ ok => Len(c.waits) = 0)
                \/ /\ c.op = "infer" /\ Len(c.waits) \in 1 .. Len(p)
                   /\ commandIdMap'[l] = Emplaced(commandIdMap[l], Len(commands[j]),
                                             Len(commands[j]) + Len(c.waits))
    <2>1. DOMAIN commandIdMap = MutableLists
      BY <1>2 DEF Shape
    <2>2. c.waits \in Seq(Events) /\ Len(c.waits) \in Nat
      BY <1>1, <1>2, CallFields
    <2>3. c.waits = <<>> => Len(c.waits) = 0
      BY EmptySeq
    <2>4. c.waits # <<>> => Len(c.waits) > 0
      BY <2>2, EmptySeq
    <2> HIDE DEF p, c
    <2>5. CASE c.op = "infer" /\ l \in MutableLists /\ phase[j] = "open" /\ c.waits # <<>>
      <3>1. commandIdMap' = [commandIdMap EXCEPT ![l] =
                Emplaced(commandIdMap[l], Len(commands[j]), Len(commands[j]) + Len(c.waits))]
        BY <1>3, <2>5 DEF emplace
      <3>2. Len(c.waits) \in 1 .. Len(p)
        BY <1>5, <2>2, <2>4, <2>5 DEF PushOf
      <3> QED
        BY <2>1, <2>5, <3>1, <3>2
    <2>6. CASE ~ (c.op = "infer" /\ l \in MutableLists /\ phase[j] = "open" /\ c.waits # <<>>)
      <3>1. commandIdMap' = commandIdMap
        BY <1>3, <2>6
      <3> QED
        BY <1>4, <2>1, <2>3, <2>6, <3>1
    <2> QED
      BY <2>5, <2>6
  <1>13. \A m \in MutableLists : DOMAIN commandIdMap'[m] \subseteq Nat
    <2>1. \A m \in MutableLists : DOMAIN commandIdMap[m] \subseteq Nat
      BY <1>2 DEF Shape
    <2>2. Len(commands[j]) \in Nat
      BY <1>2, <1>7, CommandsOf
    <2> HIDE DEF p, c, j
    <2> QED
      BY <1>12, <2>1, <2>2 DEF Emplaced
  <1>14. Shape' /\ JobsHeld' /\ Calls' /\ Apps' /\ Hpis' /\ Order' /\ Device'
    <2> HIDE DEF p
    <2> QED
      BY <1>10, <1>11, <1>12, <1>13, QuietRound
  <1>15. Outcomes'
    <2>1. l \notin ImmediateLists
      BY <1>1, ParametersAssumption
    <2> HIDE DEF p
    <2> QED
      BY <1>2, <1>10, <2>1, AppendOutcomes
  <1>16. EventsNamed'
    <2>1. \A e \in Events : associated[e] \subseteq associated'[e]
      BY <1>9
    <2> HIDE DEF p
    <2> QED
      BY <1>2, <1>9, <1>10, <2>1, AppendEvents
  <1>17. Ids'
    <2>1. l \in MutableLists /\ ok /\ c.op = "infer" =>
             /\ Len(c.waits) + 1 \in DOMAIN p
             /\ p[Len(c.waits) + 1].kind = "infer"
      <3> HIDE DEF p
      <3> QED
        BY <1>4, <1>5, <1>8
    <2> HIDE DEF p
    <2> QED
      BY <1>2, <1>10, <1>12, <2>1, AppendIds
  <1> QED
    BY <1>14, <1>15, <1>16, <1>17 DEF ListsInv

\* An append to an immediate list that fails.
LEMMA ImmediateFailsKeeps ==
  ASSUME ListsInv, NEW l \in Lists, ImmediateFails(l) PROVE ListsInv'
  <1> DEFINE c == call[l]
             j == vpuJob[l]
             w == RoundWork(c)
  <1>1. /\ l \in ImmediateLists /\ InCallOf(l) /\ c.pc = "push" /\ EndRound(l, FALSE)
        /\ UNCHANGED <<vpuJob, commandIdMap, phase, jobStatus, trackedJobs, events, eventState,
                       associated, device, budget>>
    BY DEF ImmediateFails, InCallOf
  <1>2. Shape /\ JobsHeld /\ Calls /\ Apps /\ Hpis /\ Order /\ Device /\ Outcomes /\ EventsNamed /\ Ids
    BY DEF ListsInv
  <1>3. PICK k \in 0 .. Len(w) : commands' = [commands EXCEPT ![j] = commands[j] \o SubSeq(w, 1, k)]
    BY DEF ImmediateFails
  <1> DEFINE p == SubSeq(w, 1, k)
  <1>4. PushOf(l, c, p)
    BY <1>1, <1>2, WorkPush
  <1>5. phase[j] = "open"
    BY <1>1, <1>2 DEF Calls, CallBy
  <1>6. j \in Jobs /\ vpuJob \in [Lists -> Jobs] /\ associated \in [Events -> SUBSET Jobs] /\ j \notin FreeJobs
    BY <1>2, JobsOfLists DEF Shape, FreeJobs
  <1>7. Ends(l, FALSE) /\ l \notin RegularLists /\ l \notin MutableLists
    BY <1>1, <1>2, RoundEnds, ParametersAssumption
  <1>8. PushStep(l, p)
    BY <1>1, <1>3, <1>4, <1>5 DEF PushStep
  <1> HIDE DEF p, w
  <1>9. AppendStep(l, p, FALSE)
    BY <1>1, <1>6, <1>7, <1>8 DEF AppendStep
  <1>10. QuietAppend(l)
    BY <1>1, <1>6 DEF QuietAppend
  <1>11. DOMAIN commandIdMap' = MutableLists /\ \A m \in MutableLists : DOMAIN commandIdMap'[m] \subseteq Nat
    BY <1>1, <1>2 DEF Shape
  <1>12. Shape' /\ JobsHeld' /\ Calls' /\ Apps' /\ Hpis' /\ Order' /\ Device'
    BY <1>9, <1>10, <1>11, QuietRound
  <1>13. Outcomes'
    <2>1. call'[l] = NoCall
      BY <1>7 DEF Ends, Returns
    <2> QED
      BY <1>1, <1>2, <1>9, <2>1, AppendOutcomes
  <1>14. EventsNamed'
    <2>1. \A e \in Events : associated[e] \subseteq associated'[e]
      BY <1>1
    <2>2. \A i \in DOMAIN p : p[i].kind # "signal"
      BY <1>4, <1>7 DEF PushOf
    <2> QED
      BY <1>2, <1>9, <2>1, <2>2, AppendEvents
  <1>15. Ids'
    <2>1. \A m \in MutableLists : m # l => commandIdMap'[m] = commandIdMap[m]
      BY <1>1
    <2> QED
      BY <1>2, <1>7, <1>9, <2>1, AppendIds
  <1> QED
    BY <1>12, <1>13, <1>14, <1>15 DEF ListsInv

\* The first commands of an ordered list are ordered.
LEMMA PrefixOrdered ==
  ASSUME NEW s \in Seq(CommandSet), Ordered(s), NEW n \in 0 .. Len(s)
  PROVE  /\ Ordered(SubSeq(s, 1, n)) /\ SubSeq(s, 1, n) \in Seq(CommandSet)
         /\ n = Len(s) => SubSeq(s, 1, n) = s
  <1> DEFINE t == SubSeq(s, 1, n)
  <1>1. /\ t \in Seq(CommandSet) /\ Len(t) = n /\ DOMAIN t = 1 .. n
        /\ 1 .. n \subseteq DOMAIN s /\ DOMAIN s = 1 .. Len(s) /\ Len(s) \in Nat
        /\ \A i \in 1 .. n : t[i] = s[i]
    BY Prefix
  <1> HIDE DEF t
  <1>2. n = Len(s) => t = s
    BY <1>1, SeqEqual
  <1>3. ASSUME NEW i \in DOMAIN t, NEW k \in DOMAIN t, t[k].kind = "wait", t[i].kind # "wait",
               t[k].app = t[i].app
        PROVE  \E w \in DOMAIN t : w <= i /\ t[w] = t[k]
    <2>1. PICK w \in DOMAIN s : w <= i /\ s[w] = s[k]
      BY <1>1, <1>3 DEF Ordered, WaitsFirst
    <2>2. w \in 1 .. n
      BY <1>1, <1>3, <2>1
    <2> QED
      BY <1>1, <2>1, <2>2
  <1>4. "region" \in Avoid => SignalsLast(t)
    BY <1>1 DEF Ordered, SignalsLast
  <1>5. Ordered(t)
    BY <1>3, <1>4 DEF Ordered, WaitsFirst
  <1> QED
    BY <1>1, <1>2, <1>5 DEF t

\* The job of list l went out with the first n of its commands.
Submission(l, cmds, n) ==
    /\ n \in 0 .. Len(cmds)
    /\ device' \in [Jobs -> [list : Lists \cup {None}, cmds : Seq(CommandSet), done : SUBSET Nat]]
    /\ \A k \in Jobs : device'[k].done \subseteq DOMAIN device'[k].cmds
    /\ \A k \in Jobs : k # vpuJob[l] => device'[k] = device[k]
    /\ Running' \subseteq Running \cup {vpuJob[l]}
    /\ vpuJob[l] \in Running' => /\ device'[vpuJob[l]].list = l
                                 /\ device'[vpuJob[l]].cmds = SubSeq(cmds, 1, n)
    /\ \A k \in Jobs : Ordered(device'[k].cmds)
    /\ \A k \in Jobs : \A i \in device'[k].done :
           (IF device'[k].cmds[i].kind \in {"signal", "reset"} THEN 1 .. i - 1
            ELSE Fences(device'[k].cmds) \cap (1 .. i - 1)) \subseteq device'[k].done
    /\ trackedJobs' \in [Queues -> SUBSET Jobs]
    /\ \A q \in Queues : /\ trackedJobs[q] \subseteq trackedJobs'[q]
                         /\ trackedJobs'[q] \subseteq trackedJobs[q] \cup {vpuJob[l]}
    /\ n = Len(cmds) => vpuJob[l] \in trackedJobs'[QueueOf(l)]
    /\ "midway" \in Avoid /\ vpuJob[l] \in Running' =>
           /\ device'[vpuJob[l]].cmds = cmds
           /\ vpuJob[l] \in trackedJobs'[QueueOf(l)]

\* scheduleCommands: what goes out, and who tracks it.
LEMMA Submits ==
  ASSUME Shape, Order, NEW l \in Lists, vpuJob[l] \notin Running,
         NEW cmds \in Seq(CommandSet), Ordered(cmds), NEW n \in Accepted(cmds),
         Submitted(l, vpuJob[l], cmds, n),
         trackedJobs' = Tracked(QueueOf(l), vpuJob[l], n = Len(cmds))
  PROVE  Submission(l, cmds, n)
  <1> DEFINE j == vpuJob[l]
             run == [list |-> l, cmds |-> SubSeq(cmds, 1, n), done |-> {}]
  <1>1. /\ device \in [Jobs -> [list : Lists \cup {None}, cmds : Seq(CommandSet), done : SUBSET Nat]]
        /\ \A k \in Jobs : device[k].done \subseteq DOMAIN device[k].cmds
        /\ trackedJobs \in [Queues -> SUBSET Jobs] /\ j \in Jobs
    BY JobsOfLists DEF Shape
  <1>2. Len(cmds) \in Nat /\ DOMAIN cmds = 1 .. Len(cmds)
    BY LenProperties
  <1>3. n \in 0 .. Len(cmds) /\ ("midway" \in Avoid => n \in {0, Len(cmds)})
    BY <1>2 DEF Accepted, BufferEnds
  <1>4. /\ Ordered(SubSeq(cmds, 1, n)) /\ SubSeq(cmds, 1, n) \in Seq(CommandSet)
        /\ n = Len(cmds) => SubSeq(cmds, 1, n) = cmds
    BY <1>3, PrefixOrdered
  <1>5. QueueOf(l) \in Queues
    BY DEF QueueOf, Queues
  <1>6. trackedJobs' = IF n = Len(cmds) THEN [trackedJobs EXCEPT ![QueueOf(l)] = trackedJobs[QueueOf(l)] \cup {j}]
                       ELSE trackedJobs
    BY DEF Tracked
  <1>7. /\ trackedJobs' \in [Queues -> SUBSET Jobs]
        /\ \A q \in Queues : /\ trackedJobs[q] \subseteq trackedJobs'[q]
                             /\ trackedJobs'[q] \subseteq trackedJobs[q] \cup {j}
        /\ n = Len(cmds) => j \in trackedJobs'[QueueOf(l)]
    <2> DEFINE q == QueueOf(l)
    <2>1. q \in Queues /\ (trackedJobs' = IF n = Len(cmds) THEN [trackedJobs EXCEPT ![q] = trackedJobs[q] \cup {j}]
                                         ELSE trackedJobs)
      BY <1>5, <1>6
    <2> HIDE DEF q, j
    <2>2. /\ trackedJobs' \in [Queues -> SUBSET Jobs]
          /\ \A x \in Queues : /\ trackedJobs[x] \subseteq trackedJobs'[x]
                               /\ trackedJobs'[x] \subseteq trackedJobs[x] \cup {j}
          /\ n = Len(cmds) => j \in trackedJobs'[q]
      <3>1. trackedJobs \in [Queues -> SUBSET Jobs] /\ j \in Jobs
        BY <1>1
      <3>2. CASE n = Len(cmds)
        <4>1. trackedJobs' = [trackedJobs EXCEPT ![q] = trackedJobs[q] \cup {j}]
          BY <2>1, <3>2
        <4> QED
          BY <2>1, <3>1, <4>1
      <3>3. CASE n # Len(cmds)
        <4>1. trackedJobs' = trackedJobs
          BY <2>1, <3>3
        <4> QED
          BY <3>1, <3>3, <4>1
      <3> QED
        BY <3>2, <3>3
    <2> QED
      BY <2>2 DEF q
  <1>8. device' = IF n = 0 THEN device ELSE [device EXCEPT ![j] = run]
    BY DEF Submitted
  <1>9. run \in [list : Lists \cup {None}, cmds : Seq(CommandSet), done : SUBSET Nat]
        /\ run.list = l /\ run.cmds = SubSeq(cmds, 1, n) /\ run.done = {}
    BY <1>4
  <1> HIDE DEF run, j
  <1>10. /\ device' \in [Jobs -> [list : Lists \cup {None}, cmds : Seq(CommandSet), done : SUBSET Nat]]
         /\ \A k \in Jobs : k # j => device'[k] = device[k]
         /\ device'[j] = device[j] \/ (n # 0 /\ device'[j] = run)
    BY <1>1, <1>8, <1>9
  <1>11. \A k \in Jobs : device'[k] = device[k] \/ (k = j /\ n # 0 /\ device'[k] = run)
    BY <1>10
  <1>12. \A k \in Jobs : device'[k].done \subseteq DOMAIN device'[k].cmds
    BY <1>1, <1>9, <1>11
  <1>13. \A k \in Jobs : Ordered(device'[k].cmds)
    BY <1>4, <1>9, <1>11 DEF Order
  <1>14. \A k \in Jobs : \A i \in device'[k].done :
           (IF device'[k].cmds[i].kind \in {"signal", "reset"} THEN 1 .. i - 1
            ELSE Fences(device'[k].cmds) \cap (1 .. i - 1)) \subseteq device'[k].done
    BY <1>9, <1>11 DEF Order
  <1>15. Running' \subseteq Running \cup {j}
    BY <1>10 DEF Running
  <1>16. j \in Running' => n # 0 /\ device'[j].list = l /\ device'[j].cmds = SubSeq(cmds, 1, n)
    <2>1. j \notin Running /\ j \in Jobs
      BY <1>1 DEF j
    <2> QED
      BY <1>9, <1>10, <2>1 DEF Running
  <1>17. "midway" \in Avoid /\ j \in Running' => device'[j].cmds = cmds /\ j \in trackedJobs'[QueueOf(l)]
    BY <1>3, <1>4, <1>7, <1>16
  <1> QED
    BY <1>3, <1>7, <1>10, <1>12, <1>13, <1>14, <1>15, <1>16, <1>17 DEF Submission, j

\* A submission is tracked, and the only one of an immediate list.
LEMMA SubmitDevice ==
  ASSUME Shape, JobsHeld, Device, NEW l \in Lists, NEW cmds, NEW n, Submission(l, cmds, n),
         vpuJob[l] \notin Running, commands'[vpuJob[l]] = cmds,
         \A j \in Jobs : j # vpuJob[l] => commands'[j] = commands[j],
         l \in ImmediateLists => InCallOf(l) /\ call[l].pc = "push",
         \A m \in ImmediateLists : InCallOf(m)' /\ call'[m].pc = "push" =>
             m # l /\ InCallOf(m) /\ call[m].pc = "push"
  PROVE  Device'
  <1> DEFINE j == vpuJob[l]
  <1> SUFFICES ASSUME "midway" \in Avoid
               PROVE  /\ \A k \in Running' : /\ device'[k].list \in Lists
                                             /\ k \in trackedJobs'[QueueOf(device'[k].list)]
                                             /\ device'[k].cmds = commands'[k]
                      /\ \A i, k \in Running' :
                            device'[i].list = device'[k].list /\ device'[i].list \in ImmediateLists
                                => i = k
                      /\ \A m \in ImmediateLists, k \in Running' :
                            InCallOf(m)' /\ call'[m].pc = "push" => device'[k].list # m
    BY DEF Device, QueueOf
  <1>1. \A k \in Running' : k \in Jobs /\ (k # j => k \in Running /\ device'[k] = device[k])
    BY DEF Submission, Running
  <1>2. j \in Running' => /\ device'[j].list = l /\ device'[j].cmds = cmds
                          /\ j \in trackedJobs'[QueueOf(l)]
    BY DEF Submission
  <1>3. \A k \in Running : /\ device[k].list \in Lists /\ device[k].cmds = commands[k]
                           /\ k \in trackedJobs[QueueOf(device[k].list)]
    BY DEF Device
  <1>4. ASSUME NEW k \in Running'
        PROVE  /\ device'[k].list \in Lists /\ k \in trackedJobs'[QueueOf(device'[k].list)]
               /\ device'[k].cmds = commands'[k]
    <2>1. CASE k = j
      BY <1>2, <1>4, <2>1
    <2>2. CASE k # j
      <3>1. k \in Running /\ device'[k] = device[k] /\ commands'[k] = commands[k]
        BY <1>1, <1>4, <2>2
      <3>2. QueueOf(device[k].list) \in Queues
        BY <1>3, <3>1 DEF QueueOf, Queues
      <3> QED
        BY <1>3, <3>1, <3>2 DEF Submission
    <2> QED
      BY <2>1, <2>2
  <1>5. l \in ImmediateLists => \A k \in Running : device[k].list # l
    BY DEF Device
  <1>6. ASSUME NEW i \in Running', NEW k \in Running', device'[i].list = device'[k].list,
               device'[i].list \in ImmediateLists
        PROVE  i = k
    <2>1. CASE i # j /\ k # j
      BY <1>1, <1>6, <2>1 DEF Device
    <2>2. CASE i = j \/ k = j
      BY <1>1, <1>2, <1>5, <1>6, <2>2
    <2> QED
      BY <2>1, <2>2
  <1>7. ASSUME NEW m \in ImmediateLists, NEW k \in Running', InCallOf(m)', call'[m].pc = "push"
        PROVE  device'[k].list # m
    <2>1. m # l /\ InCallOf(m) /\ call[m].pc = "push"
      BY <1>7
    <2> QED
      BY <1>1, <1>2, <1>7, <2>1 DEF Device
  <1> QED
    BY <1>4, <1>6, <1>7

\* postAppend: the job of an immediate list goes out.
LEMMA ImmediateExecuteKeeps ==
  ASSUME ListsInv, NEW l \in Lists, ImmediateExecute(l) PROVE ListsInv'
  <1> DEFINE c == call[l]
             j == vpuJob[l]
             w == RoundWork(c)
             cmds == commands[j] \o w
  <1>1. /\ l \in ImmediateLists /\ InCallOf(l) /\ c.pc = "push" /\ FreeJobs # {}
        /\ commands' = [commands EXCEPT ![j] = cmds] /\ phase' = [phase EXCEPT ![j] = "closed"]
        /\ UNCHANGED <<commandIdMap, events, eventState, associated>>
    BY DEF ImmediateExecute, InCallOf
  <1>2. Shape /\ JobsHeld /\ Calls /\ Apps /\ Hpis /\ Order /\ Device /\ Outcomes /\ EventsNamed /\ Ids
    BY DEF ListsInv
  <1>3. PICK n \in Accepted(cmds) :
            /\ Submitted(l, j, cmds, n) /\ EndRound(l, n = Len(cmds))
            /\ jobStatus' = [jobStatus EXCEPT ![j] = IF n = 0 THEN "idle" ELSE "running"]
            /\ trackedJobs' = Tracked(l, j, n = Len(cmds))
            /\ vpuJob' = IF n = Len(cmds) THEN [vpuJob EXCEPT ![l] = NewJob] ELSE vpuJob
    BY DEF ImmediateExecute
  <1>4. PICK ok \in BOOLEAN : EndRound(l, ok) /\ (ok <=> n = Len(cmds))
    <2>1. CASE n = Len(cmds)
      <3>1. EndRound(l, TRUE)
        BY <1>3, <2>1 DEF EndRound
      <3> QED
        BY <2>1, <3>1
    <2>2. CASE n # Len(cmds)
      <3>1. EndRound(l, FALSE)
        BY <1>3, <2>2 DEF EndRound
      <3> QED
        BY <2>2, <3>1
    <2> QED
      BY <2>1, <2>2
  <1>5. w \in Seq(CommandSet) /\ Len(w) \in Nat /\ Len(w) \in 0 .. Len(w)
    BY <1>1, <1>2, WorkOf DEF WorkFor
  <1>6. PushOf(l, c, w)
    <2>1. PushOf(l, c, SubSeq(w, 1, Len(w)))
      BY <1>1, <1>2, <1>5, WorkPush
    <2>2. SubSeq(w, 1, Len(w)) = w
      <3> HIDE DEF w
      <3>1. /\ SubSeq(w, 1, Len(w)) \in Seq(CommandSet) /\ Len(SubSeq(w, 1, Len(w))) = Len(w)
            /\ \A i \in 1 .. Len(w) : SubSeq(w, 1, Len(w))[i] = w[i]
        BY <1>5, Prefix
      <3> QED
        BY <1>5, <3>1, SeqEqual
    <2> QED
      BY <2>1, <2>2
  <1>7. phase[j] = "open"
    BY <1>1, <1>2 DEF Calls, CallBy
  <1>8. /\ j \in Jobs /\ j \in HeldJobs /\ vpuJob \in [Lists -> Jobs] /\ j \notin FreeJobs
        /\ phase \in [Jobs -> {"open", "dirty", "closed"}]
        /\ jobStatus \in [Jobs -> {"idle", "running", "success", "failed"}]
    BY <1>2, JobsOfLists DEF Shape, FreeJobs
  <1>9. j \notin Running
    BY <1>2, <1>7, <1>8 DEF JobsHeld
  <1>10. Ends(l, ok) /\ l \notin RegularLists /\ l \notin MutableLists /\ QueueOf(l) = l
    BY <1>1, <1>2, <1>4, RoundEnds, ParametersAssumption DEF QueueOf
  <1>11. PushStep(l, w)
    BY <1>1, <1>6, <1>7 DEF PushStep
  <1>12. Pushes(l, w) /\ commands'[j] = cmds
    BY <1>2, <1>11, StepPushes
  <1>13. NewJob \in FreeJobs
    BY <1>1, <1>2, NewJobIsFree DEF FreeJobs
  <1> HIDE DEF w, cmds
  <1>14. /\ vpuJob' \in [Lists -> Jobs] /\ \A m \in Lists : m # l => vpuJob'[m] = vpuJob[m]
         /\ vpuJob'[l] = IF ok THEN NewJob ELSE j
    BY <1>3, <1>4, <1>8, <1>13 DEF FreeJobs
  <1>15. \A k \in Jobs : k # j => phase'[k] = phase[k]
    BY <1>1, <1>8
  <1>16. AppendStep(l, w, ok)
    BY <1>1, <1>4, <1>8, <1>10, <1>11, <1>13, <1>14, <1>15 DEF AppendStep
  <1>17. cmds \in Seq(CommandSet) /\ Ordered(cmds)
    BY <1>2, <1>8, <1>11, <1>12, PushOrdered DEF Pushes
  <1>18. Submission(l, cmds, n)
    BY <1>2, <1>3, <1>9, <1>10, <1>17, Submits
  <1>19. Calls' /\ Apps' /\ Hpis'
    BY <1>2, <1>11, <1>16, AppendCalls, AppendApps, PushHpis
  <1>20. Device'
    <2>1. \A m \in ImmediateLists : InCallOf(m)' /\ call'[m].pc = "push" =>
             m # l /\ InCallOf(m) /\ call[m].pc = "push"
      BY <1>10 DEF Ends, Continues, Returns, InCallOf, Lists
    <2>2. \A k \in Jobs : k # vpuJob[l] => commands'[k] = commands[k]
      BY <1>12 DEF Pushes
    <2> QED
      BY <1>1, <1>2, <1>9, <1>12, <1>18, <2>1, <2>2, SubmitDevice
  <1>21. Order'
    <2>1. \A m \in Lists : InCallOf(m)' => RoundsBefore(m, call'[m], commands'[vpuJob'[m]])
      BY <1>2, <1>16, AppendRounds
    <2>2. \A k \in Jobs : Ordered(commands'[k])
      BY <1>2, <1>11, PushOrdered
    <2> QED
      BY <1>18, <2>1, <2>2 DEF Order, Submission
  <1>22. Shape'
    <2>1. IsInjective(vpuJob')
      <3>1. \A a, b \in Lists : vpuJob'[a] = vpuJob'[b] => a = b
        BY <1>2, <1>16, AppendJobs, JobsOfLists
      <3> QED
        BY <1>14, <3>1 DEF IsInjective
    <2>2. phase' \in [Jobs -> {"open", "dirty", "closed"}]
      BY <1>1, <1>8
    <2>3. jobStatus' \in [Jobs -> {"idle", "running", "success", "failed"}]
      BY <1>3, <1>8
    <2> QED
      BY <1>1, <1>2, <1>10, <1>12, <1>14, <1>18, <2>1, <2>2, <2>3 DEF Shape, Ends, Pushes, Submission
  <1>23. JobsHeld'
    <2>1. Shape' /\ \A k : k \in HeldJobs' <=> \/ \E m \in Lists : vpuJob'[m] = k
                                             \/ \E q \in Queues : k \in trackedJobs'[q]
      <3>1. DOMAIN vpuJob' = Lists /\ DOMAIN trackedJobs' = Queues
        BY <1>14, <1>18 DEF Submission
      <3> QED
        BY <1>22, <3>1, HoldersOf DEF HeldJobs
    <2>2. \A k : k \in HeldJobs <=> \/ \E m \in Lists : vpuJob[m] = k
                                    \/ \E q \in Queues : k \in trackedJobs[q]
      BY <1>2, JobsOfLists
    <2>3. j \in HeldJobs'
      <3>1. CASE ok
        <4>1. j \in trackedJobs'[l] /\ l \in Queues
          BY <1>1, <1>4, <1>10, <1>18, <3>1 DEF Submission, Queues
        <4> QED
          BY <2>1, <4>1
      <3>2. CASE ~ok
        BY <1>14, <2>1, <3>2
      <3> QED
        BY <3>1, <3>2
    <2>4. HeldJobs \subseteq HeldJobs'
      <3> SUFFICES ASSUME NEW k \in HeldJobs PROVE k \in HeldJobs'
        OBVIOUS
      <3>1. CASE \E m \in Lists : vpuJob[m] = k
        BY <1>14, <2>1, <2>3, <3>1
      <3>2. CASE \E q \in Queues : k \in trackedJobs[q]
        BY <1>18, <2>1, <3>2 DEF Submission
      <3> QED
        BY <2>2, <3>1, <3>2
    <2>5. HeldJobs' \subseteq HeldJobs \cup {NewJob}
      <3> SUFFICES ASSUME NEW k \in HeldJobs' PROVE k \in HeldJobs \cup {NewJob}
        OBVIOUS
      <3>1. CASE \E m \in Lists : vpuJob'[m] = k
        BY <1>8, <1>14, <2>2, <3>1
      <3>2. CASE \E q \in Queues : k \in trackedJobs'[q]
        BY <1>8, <1>18, <2>2, <3>2 DEF Submission
      <3> QED
        BY <2>1, <3>1, <3>2
    <2>6. ASSUME NEW k \in Jobs \ HeldJobs'
          PROVE  /\ commands'[k] = <<>> /\ phase'[k] = "open"
                 /\ \A e \in Events : k \notin associated'[e]
      <3>1. k # j /\ k \in Jobs \ HeldJobs
        BY <2>3, <2>4, <2>6
      <3>2. commands[k] = <<>> /\ phase[k] = "open" /\ \A e \in Events : k \notin associated[e]
        BY <1>2, <3>1 DEF JobsHeld
      <3>3. commands'[k] = commands[k] /\ phase'[k] = phase[k] /\ associated' = associated
        BY <1>1, <1>12, <1>15, <3>1 DEF Pushes
      <3> QED
        BY <3>2, <3>3
    <2>7. ASSUME NEW k \in Running' \cap HeldJobs' PROVE phase'[k] = "closed"
      <3>1. CASE k = j
        BY <1>1, <1>8, <3>1
      <3>2. CASE k # j
        <4>1. k \in Running /\ k \in Jobs
          BY <1>18, <2>7, <3>2 DEF Submission, Running
        <4>2. k \in HeldJobs
          BY <1>13, <2>5, <2>7, <4>1 DEF FreeJobs
        <4> QED
          BY <1>2, <1>15, <3>2, <4>1, <4>2 DEF JobsHeld
      <3> QED
        BY <3>1, <3>2
    <2> QED
      BY <2>6, <2>7 DEF JobsHeld
  <1>24. Outcomes'
    <2>1. ~ok => call'[l] = NoCall
      BY <1>10 DEF Ends, Returns
    <2> QED
      BY <1>1, <1>2, <1>16, <2>1, AppendOutcomes
  <1>25. EventsNamed'
    <2>1. \A e \in Events : associated[e] \subseteq associated'[e]
      BY <1>1
    <2>2. \A i \in DOMAIN w : w[i].kind # "signal"
      BY <1>6, <1>10 DEF PushOf
    <2> QED
      BY <1>2, <1>16, <2>1, <2>2, AppendEvents
  <1>26. Ids'
    <2>1. \A m \in MutableLists : m # l => commandIdMap'[m] = commandIdMap[m]
      BY <1>1
    <2> QED
      BY <1>2, <1>10, <1>16, <2>1, AppendIds
  <1> QED
    BY <1>19, <1>20, <1>21, <1>22, <1>23, <1>24, <1>25, <1>26 DEF ListsInv

\* executeCommandLists.
LEMMA ExecuteKeeps ==
  ASSUME ListsInv, NEW l \in Lists, Execute(l) PROVE ListsInv'
  <1> DEFINE j == vpuJob[l]
  <1>1. /\ l \in RegularLists /\ phase[j] = "closed" /\ j \notin Running
        /\ UNCHANGED <<vpuJob, commandIdMap, commands, phase, events, eventState, associated,
                       call, outcome, handed>>
    BY DEF Execute
  <1>2. Shape /\ JobsHeld /\ Calls /\ Apps /\ Hpis /\ Order /\ Device /\ Outcomes /\ EventsNamed /\ Ids
    BY DEF ListsInv
  <1>3. PICK n \in Accepted(commands[j]) :
            /\ Submitted(l, j, commands[j], n)
            /\ jobStatus' = [jobStatus EXCEPT ![j] = IF n = 0 THEN jobStatus[j] ELSE "running"]
            /\ trackedJobs' = Tracked("main", j, n = Len(commands[j]))
    BY DEF Execute
  <1>4. /\ j \in Jobs /\ j \in HeldJobs /\ vpuJob \in [Lists -> Jobs]
        /\ jobStatus \in [Jobs -> {"idle", "running", "success", "failed"}]
    BY <1>2, JobsOfLists DEF Shape
  <1>5. commands[j] \in Seq(CommandSet) /\ Ordered(commands[j])
    BY <1>2, <1>4, CommandsOf DEF Order
  <1>6. l \notin ImmediateLists /\ QueueOf(l) = "main"
    BY <1>1, ParametersAssumption DEF QueueOf
  <1>7. Submission(l, commands[j], n)
    BY <1>1, <1>2, <1>3, <1>5, <1>6, Submits
  <1>8. Shape'
    <2>1. jobStatus' \in [Jobs -> {"idle", "running", "success", "failed"}]
      BY <1>3, <1>4
    <2> QED
      BY <1>1, <1>2, <1>7, <2>1 DEF Shape, Submission
  <1>9. HeldJobs' = HeldJobs
    <2>1. \A k : k \in HeldJobs <=> \/ \E m \in Lists : vpuJob[m] = k
                                    \/ \E q \in Queues : k \in trackedJobs[q]
      BY <1>2, JobsOfLists
    <2>2. \A k : k \in HeldJobs' <=> \/ \E m \in Lists : vpuJob'[m] = k
                                     \/ \E q \in Queues : k \in trackedJobs'[q]
      <3>1. DOMAIN vpuJob' = Lists /\ DOMAIN trackedJobs' = Queues
        BY <1>1, <1>4, <1>7 DEF Submission
      <3> QED
        BY <3>1, HoldersOf DEF HeldJobs
    <2>3. vpuJob' = vpuJob
      BY <1>1
    <2>4. \A q \in Queues : trackedJobs[q] \subseteq trackedJobs'[q]
                            /\ trackedJobs'[q] \subseteq trackedJobs[q] \cup {j}
      BY <1>7 DEF Submission
    <2> HIDE DEF j
    <2>5. \A k : k \in HeldJobs => k \in HeldJobs'
      BY <2>1, <2>2, <2>3, <2>4
    <2>6. \A k : k \in HeldJobs' => k \in HeldJobs
      BY <1>4, <2>1, <2>2, <2>3, <2>4
    <2> QED
      BY <2>5, <2>6
  <1>10. JobsHeld'
    <2>1. \A k \in Running' : k = j \/ k \in Running
      BY <1>7 DEF Submission
    <2> QED
      BY <1>1, <1>2, <1>9, <2>1 DEF JobsHeld
  <1>11. Calls' /\ Apps' /\ Hpis' /\ Outcomes' /\ EventsNamed' /\ Ids'
    <2>1. Calls'
      BY <1>1, <1>2 DEF Calls, CallBy, InCallOf
    <2>2. Apps'
      BY <1>1, <1>2 DEF Apps, InCallOf
    <2>3. Hpis'
      BY <1>1, <1>2 DEF Hpis
    <2>4. Outcomes'
      BY <1>1, <1>2 DEF Outcomes, InCallOf
    <2>5. EventsNamed'
      BY <1>1, <1>2 DEF EventsNamed, InCallOf
    <2>6. Ids'
      BY <1>1, <1>2 DEF Ids
    <2> QED
      BY <2>1, <2>2, <2>3, <2>4, <2>5, <2>6
  <1>12. Order'
    <2>1. \A m \in Lists : InCallOf(m)' => RoundsBefore(m, call'[m], commands'[vpuJob'[m]])
      BY <1>1, <1>2 DEF Order, InCallOf
    <2>2. \A k \in Jobs : Ordered(commands'[k])
      BY <1>1, <1>2 DEF Order
    <2> QED
      BY <1>7, <2>1, <2>2 DEF Order, Submission
  <1>13. Device'
    <2>1. commands' = commands /\ call' = call
      BY <1>1
    <2>2. \A m \in ImmediateLists : InCallOf(m)' /\ call'[m].pc = "push" =>
             m # l /\ InCallOf(m) /\ call[m].pc = "push"
      BY <1>6, <2>1 DEF InCallOf
    <2> QED
      BY <1>1, <1>2, <1>6, <1>7, <2>1, <2>2, SubmitDevice
  <1> QED
    BY <1>8, <1>10, <1>11, <1>12, <1>13 DEF ListsInv

\* CommandList::close.
LEMMA CloseKeeps ==
  ASSUME ListsInv, NEW l \in Lists, Close(l) PROVE ListsInv'
  <1> DEFINE j == vpuJob[l]
  <1>1. /\ l \in RegularLists /\ ~InCallOf(l) /\ phase[j] = "open" /\ InUse(l)
        /\ phase' = [phase EXCEPT ![j] = "closed"] \/ phase' = [phase EXCEPT ![j] = "dirty"]
        /\ UNCHANGED <<vpuJob, commandIdMap, commands, jobStatus, trackedJobs, events, eventState,
                       associated, call, device, outcome, handed, budget>>
    BY DEF Close, InCallOf
  <1>2. Shape /\ JobsHeld /\ Calls /\ Apps /\ Hpis /\ Order /\ Device /\ Outcomes /\ EventsNamed /\ Ids
    BY DEF ListsInv
  <1>3. /\ j \in Jobs /\ j \in HeldJobs /\ phase \in [Jobs -> {"open", "dirty", "closed"}]
        /\ \A m \in Lists : m # l => vpuJob[m] # j /\ vpuJob[m] \in Jobs
    BY <1>2, JobsOfLists DEF Shape
  <1>4. l \notin ImmediateLists
    BY <1>1, ParametersAssumption
  <1>5. /\ phase' \in [Jobs -> {"open", "dirty", "closed"}]
        /\ \A k \in Jobs : k # j => phase'[k] = phase[k]
    BY <1>1, <1>3
  <1>6. j \notin Running
    BY <1>1, <1>2, <1>3 DEF JobsHeld
  <1>7. HeldJobs' = HeldJobs /\ Running' = Running
    BY <1>1 DEF HeldJobs, Held, Running
  <1>8. Shape'
    BY <1>1, <1>2, <1>5 DEF Shape
  <1>9. JobsHeld'
    <2>1. \A k \in Jobs \ HeldJobs : phase'[k] = phase[k]
      BY <1>3, <1>5
    <2>2. \A k \in Running : k \in Jobs /\ phase'[k] = phase[k]
      BY <1>5, <1>6 DEF Running
    <2> QED
      BY <1>1, <1>2, <1>7, <2>1, <2>2 DEF JobsHeld
  <1>10. Calls'
    <2>1. \A m \in Lists : InCallOf(m) => phase'[vpuJob[m]] = phase[vpuJob[m]]
      BY <1>1, <1>3, <1>5
    <2> QED
      BY <1>1, <1>2, <2>1 DEF Calls, CallBy, InCallOf
  <1>11. Outcomes'
    <2>1. \A m \in Lists : m # l => phase'[vpuJob[m]] = phase[vpuJob[m]]
      BY <1>3, <1>5
    <2>2. ASSUME "leftover" \in Avoid, NEW i \in DOMAIN commands[j]
          PROVE  outcome[commands[j][i].app] # "error"
      BY <1>1, <1>4, <2>2 DEF InUse, Leftover, Range
    <2> QED
      BY <1>1, <1>2, <1>4, <2>1, <2>2 DEF Outcomes, InCallOf
  <1>12. Apps' /\ Hpis' /\ EventsNamed' /\ Ids'
    <2>1. Apps'
      BY <1>1, <1>2 DEF Apps, InCallOf
    <2>2. Hpis'
      BY <1>1, <1>2 DEF Hpis
    <2>3. EventsNamed'
      BY <1>1, <1>2 DEF EventsNamed, InCallOf
    <2>4. Ids'
      BY <1>1, <1>2 DEF Ids
    <2> QED
      BY <2>1, <2>2, <2>3, <2>4
  <1>13. Order' /\ Device'
    <2>1. Order'
      BY <1>1, <1>2 DEF Order, InCallOf
    <2>2. Device'
      BY <1>1, <1>2, <1>7 DEF Device, QueueOf, InCallOf
    <2> QED
      BY <2>1, <2>2
  <1> QED
    BY <1>8, <1>9, <1>10, <1>11, <1>12, <1>13 DEF ListsInv

\* The application makes an append call.
LEMMA AppendCallKeeps ==
  ASSUME ListsInv, NEW l \in Lists, NEW op \in Ops, NEW waits \in WaitLists,
         NEW e \in events \cup {None}, AppendCall(l, op, waits, e)
  PROVE  ListsInv'
  <1> DEFINE n == Len(outcome)
             c == [op |-> op, app |-> n + 1, waits |-> waits, event |-> e, round |-> 1,
                   pc |-> "check", id |-> getNextCommandId(l)]
             j == vpuJob[l]
  <1>1. /\ ~InCallOf(l) /\ n < MaxAppends /\ InUse(l)
        /\ op \in {"signal", "waits"} => l \in RegularLists
        /\ op \in {"signal", "reset"} => e # None /\ waits = <<>>
        /\ op = "waits" => e = None
        /\ "region" \in Avoid /\ op = "region" => e = None
        /\ outcome' = Append(outcome, "open") /\ call' = [call EXCEPT ![l] = c]
        /\ UNCHANGED <<vpuJob, commandIdMap, commands, phase, jobStatus, trackedJobs, events,
                       eventState, associated, device, handed, budget>>
    BY DEF AppendCall, InCallOf
  <1>2. Shape /\ JobsHeld /\ Calls /\ Apps /\ Hpis /\ Order /\ Device /\ Outcomes /\ EventsNamed /\ Ids
    BY DEF ListsInv
  <1>3. /\ outcome \in Seq({"open", "ok", "error"}) /\ n \in Nat
        /\ call \in [Lists -> CallSet \cup {NoCall}] /\ events \subseteq Events
        /\ vpuJob \in [Lists -> Jobs]
    BY <1>2, LenProperties DEF Shape
  <1>4. /\ j \in Jobs /\ Len(commands[j]) \in Nat /\ \A m \in Lists : m # l => vpuJob[m] # j
    BY <1>2, JobsOfLists, CommandsOf
  <1>5. /\ outcome' \in Seq({"open", "ok", "error"}) /\ Len(outcome') = n + 1
        /\ \A a \in 1 .. n : outcome'[a] = outcome[a]
        /\ outcome'[n + 1] = "open"
    <2>1. "open" \in {"open", "ok", "error"}
      OBVIOUS
    <2> QED
      BY <1>1, <1>3, <2>1, AppendProperties
  <1>6. waits \in Seq(Events) /\ Range(waits) \subseteq events
    <2>1. PICK m \in 0 .. MaxWaits : waits \in [1 .. m -> events]
      BY DEF WaitLists, BoundedSeq, SeqOf
    <2>2. m \in Nat /\ waits \in [1 .. m -> Events]
      BY <1>3, <2>1, ParametersAssumption
    <2>3. waits \in Seq(Events)
      BY <2>2, FunctionIsSeq
    <2> QED
      BY <2>1, <2>3 DEF Range
  <1>7. /\ c \in CallSet /\ c # NoCall /\ c.op = op /\ c.app = n + 1 /\ c.waits = waits
        /\ c.event = e /\ c.round = 1 /\ c.pc = "check" /\ c.id = Len(commands[j])
    <2>1. c \in CallSet
      BY <1>1, <1>3, <1>4, <1>6, ParametersAssumption DEF CallSet, Appends, getNextCommandId
    <2>2. NoCall \notin CallSet
      BY DEF NoCall, CallSet, None, AllOps
    <2> QED
      BY <2>1, <2>2 DEF getNextCommandId
  <1> HIDE DEF c, n
  <1>8. /\ call'[l] = c /\ \A m \in Lists : m # l => call'[m] = call[m]
        /\ call' \in [Lists -> CallSet \cup {NoCall}]
    BY <1>1, <1>3, <1>7
  <1>9. \A m \in Lists : InCallOf(m)' => m = l \/ (m # l /\ InCallOf(m) /\ call'[m] = call[m])
    BY <1>8 DEF InCallOf
  <1>10. \A m \in Lists : InCallOf(m) => call[m].app \in 1 .. n
    BY <1>2 DEF Calls, CallBy, n
  <1>11. Shape'
    BY <1>1, <1>2, <1>3, <1>5, <1>8, ParametersAssumption DEF Shape
  <1>12. JobsHeld' /\ Hpis' /\ Ids' /\ Device'
    <2>1. JobsHeld'
      BY <1>1, <1>2 DEF JobsHeld, HeldJobs, Held, Running
    <2>2. Hpis'
      BY <1>1, <1>2 DEF Hpis
    <2>3. Ids'
      BY <1>1, <1>2 DEF Ids
    <2>4. \A m \in Lists : InCallOf(m)' /\ call'[m].pc = "push" => InCallOf(m) /\ call[m].pc = "push"
      BY <1>7, <1>8, <1>9
    <2>5. Device'
      BY <1>1, <1>2, <2>4 DEF Device, Running, QueueOf, Lists
    <2> QED
      BY <2>1, <2>2, <2>3, <2>5
  <1>13. Calls'
    <2>1. ASSUME NEW m \in Lists, InCallOf(m)' PROVE CallBy(m, call[m])'
      <3>1. CASE m # l
        <4>1. InCallOf(m) /\ call'[m] = call[m] /\ CallBy(m, call[m])
          BY <1>2, <1>9, <2>1, <3>1 DEF Calls
        <4>2. call[m].app \in 1 .. Len(outcome') /\ outcome'[call[m].app] = outcome[call[m].app]
          BY <1>3, <1>5, <1>10, <4>1
        <4> QED
          BY <1>1, <4>1, <4>2 DEF CallBy
      <3>2. CASE m = l
        <4>1. call'[m] = c /\ c.app \in 1 .. Len(outcome') /\ outcome'[c.app] = "open"
          BY <1>3, <1>5, <1>7, <1>8, <3>2
        <4> QED
          BY <1>1, <1>7, <3>2, <4>1 DEF CallBy, Rounds
      <3> QED
        BY <3>1, <3>2
    <2>2. ASSUME NEW m \in Lists, NEW k \in Lists, InCallOf(m)', InCallOf(k)', call'[m].app = call'[k].app
          PROVE  m = k
      <3>1. n + 1 \notin 1 .. n
        BY <1>3
      <3> QED
        BY <1>2, <1>7, <1>8, <1>9, <1>10, <2>2, <3>1 DEF Calls
    <2> QED
      BY <2>1, <2>2 DEF Calls
  <1>14. \A k \in Jobs : \A i \in DOMAIN commands[k] :
             commands[k][i].app \in 1 .. n /\ outcome'[commands[k][i].app] = outcome[commands[k][i].app]
    <2> TAKE k \in Jobs
    <2> TAKE i \in DOMAIN commands[k]
    <2>1. commands[k][i] \in CommandSet /\ commands[k][i].app <= n
      BY <1>2, CommandsOf DEF Apps, n
    <2>2. commands[k][i].app \in 1 .. n
      BY <1>3, <2>1 DEF CommandSet, Appends
    <2> QED
      BY <1>5, <2>2
  <1>15. Apps'
    <2>1. \A k \in Jobs : \A i \in DOMAIN commands[k] :
             commands[k][i].app <= Len(outcome') /\ commands[k][i].app # n + 1
      BY <1>3, <1>5, <1>14
    <2>2. call'[l].app = n + 1
      BY <1>7, <1>8
    <2> QED
      BY <1>1, <1>2, <1>9, <2>1, <2>2 DEF Apps
  <1>16. Order'
    <2>1. ASSUME NEW m \in Lists, InCallOf(m)'
          PROVE  RoundsBefore(m, call'[m], commands'[vpuJob'[m]])
      <3>1. CASE m # l
        BY <1>1, <1>2, <1>9, <2>1, <3>1 DEF Order
      <3>2. CASE m = l
        <4>1. \A i \in DOMAIN commands[j] : commands[j][i].app # c.app
          BY <1>3, <1>4, <1>7, <1>14
        <4>2. call'[m] = c /\ commands'[vpuJob'[m]] = commands[j]
          BY <1>1, <1>8, <3>2
        <4> QED
          BY <4>1, <4>2 DEF RoundsBefore
      <3> QED
        BY <3>1, <3>2
    <2> QED
      BY <1>1, <1>2, <2>1 DEF Order
  <1>17. Outcomes'
    <2>1. \A m \in Lists : vpuJob[m] \in Jobs
      BY <1>3
    <2>2. ASSUME NEW m \in ImmediateLists, NEW i \in DOMAIN commands[vpuJob[m]]
          PROVE  outcome'[commands[vpuJob[m]][i].app] # "ok"
      <3>1. vpuJob[m] \in Jobs
        BY <2>1 DEF Lists
      <3> QED
        BY <1>2, <1>14, <2>2, <3>1 DEF Outcomes
    <2>3. ASSUME "leftover" \in Avoid, NEW m \in Lists,
                 IF m \in ImmediateLists THEN InCallOf(m)' /\ phase[vpuJob[m]] # "closed"
                 ELSE phase[vpuJob[m]] = "closed",
                 NEW i \in DOMAIN commands[vpuJob[m]]
          PROVE  outcome'[commands[vpuJob[m]][i].app] # "error"
      <3>1. outcome'[commands[vpuJob[m]][i].app] = outcome[commands[vpuJob[m]][i].app]
        BY <1>14, <2>1, <2>3
      <3>2. CASE m = l /\ l \in ImmediateLists
        BY <1>1, <2>3, <3>1, <3>2 DEF InUse, Leftover, Range
      <3>3. CASE m # l \/ l \notin ImmediateLists
        BY <1>2, <1>9, <2>3, <3>1, <3>3 DEF Outcomes
      <3> QED
        BY <3>2, <3>3
    <2> QED
      BY <1>1, <2>2, <2>3 DEF Outcomes
  <1>18. EventsNamed'
    <2>1. \A m \in Lists : InCallOf(m)' /\ "recreate" \in Avoid =>
              call'[m].event \in events \cup {None} /\ Range(call'[m].waits) \subseteq events
      BY <1>2, <1>6, <1>7, <1>8, <1>9 DEF EventsNamed
    <2> QED
      BY <1>1, <1>2, <2>1 DEF EventsNamed
  <1> QED
    BY <1>11, <1>12, <1>13, <1>15, <1>16, <1>17, <1>18 DEF ListsInv
\* The device gets on with a job or drops it.
DeviceMoves ==
    /\ device' \in [Jobs -> [list : Lists \cup {None}, cmds : Seq(CommandSet), done : SUBSET Nat]]
    /\ \A j \in Jobs : \/ device'[j] = NoRun
                       \/ device'[j].list = device[j].list /\ device'[j].cmds = device[j].cmds
    /\ \A j \in Jobs : device'[j].done \subseteq DOMAIN device'[j].cmds
    /\ \A j \in Jobs : \A i \in device'[j].done :
           (IF device'[j].cmds[i].kind \in {"signal", "reset"} THEN 1 .. i - 1
            ELSE Fences(device'[j].cmds) \cap (1 .. i - 1)) \subseteq device'[j].done
    /\ Running' \subseteq Running
    /\ jobStatus' \in [Jobs -> {"idle", "running", "success", "failed"}]
    /\ eventState' \in [Events -> EventStates]
    /\ UNCHANGED <<vpuJob, commandIdMap, commands, phase, trackedJobs, events, associated,
                   call, outcome, handed, budget>>

\* A job that does not run.
LEMMA EmptyRun ==
  /\ NoRun \in [list : Lists \cup {None}, cmds : Seq(CommandSet), done : SUBSET Nat]
  /\ NoRun.done = {} /\ NoRun.cmds = <<>> /\ Ordered(NoRun.cmds)
  <1>1. <<>> \in Seq(CommandSet) /\ DOMAIN <<>> = {}
    BY EmptySeq
  <1>2. Ordered(<<>>)
    BY <1>1 DEF Ordered, WaitsFirst, SignalsLast
  <1> QED
    BY <1>1, <1>2 DEF NoRun

\* Progress of the device touches neither lists nor calls.
LEMMA DeviceMovesKeeps ==
  ASSUME ListsInv, DeviceMoves PROVE ListsInv'
  <1>1. UNCHANGED <<vpuJob, commandIdMap, commands, phase, trackedJobs, events, associated,
                    call, outcome, handed, budget>>
    BY DEF DeviceMoves
  <1>2. Shape /\ JobsHeld /\ Calls /\ Apps /\ Hpis /\ Order /\ Device /\ Outcomes /\ EventsNamed /\ Ids
    BY DEF ListsInv
  <1>3. Shape'
    BY <1>1, <1>2 DEF Shape, DeviceMoves
  <1>4. HeldJobs' = HeldJobs /\ Running' \subseteq Running
    BY <1>1 DEF HeldJobs, Held, DeviceMoves
  <1>5. JobsHeld'
    BY <1>1, <1>2, <1>4 DEF JobsHeld
  <1>6. Calls' /\ Apps' /\ Hpis' /\ Outcomes' /\ EventsNamed' /\ Ids'
    <2>1. Calls'
      BY <1>1, <1>2 DEF Calls, CallBy, InCallOf
    <2>2. Apps'
      BY <1>1, <1>2 DEF Apps, InCallOf
    <2>3. Hpis'
      BY <1>1, <1>2 DEF Hpis
    <2>4. Outcomes'
      BY <1>1, <1>2 DEF Outcomes, InCallOf
    <2>5. EventsNamed'
      BY <1>1, <1>2 DEF EventsNamed, InCallOf
    <2>6. Ids'
      BY <1>1, <1>2 DEF Ids
    <2> QED
      BY <2>1, <2>2, <2>3, <2>4, <2>5, <2>6
  <1>7. Order'
    <2>1. \A j \in Jobs : Ordered(device'[j].cmds)
      BY <1>2, EmptyRun DEF Order, DeviceMoves
    <2>2. \A m \in Lists : InCallOf(m)' => RoundsBefore(m, call'[m], commands'[vpuJob'[m]])
      BY <1>1, <1>2 DEF Order, InCallOf
    <2>3. \A j \in Jobs : Ordered(commands'[j])
      BY <1>1, <1>2 DEF Order
    <2> QED
      BY <2>1, <2>2, <2>3 DEF Order, DeviceMoves
  <1>8. Device'
    <2>1. \A j \in Running' : /\ j \in Running /\ device'[j].list = device[j].list
                              /\ device'[j].cmds = device[j].cmds
      BY <1>4 DEF DeviceMoves, Running
    <2>2. \A m \in Lists : InCallOf(m)' <=> InCallOf(m)
      BY <1>1 DEF InCallOf
    <2> QED
      BY <1>1, <1>2, <2>1, <2>2 DEF Device, QueueOf, Lists
  <1> QED
    BY <1>3, <1>5, <1>6, <1>7, <1>8 DEF ListsInv

\* A command completes.
LEMMA DeviceStepKeeps ==
  ASSUME ListsInv, NEW j \in Running, NEW i \in DOMAIN device[j].cmds, DeviceStep(j, i)
  PROVE  ListsInv'
  <1> DEFINE cmds == device[j].cmds
             cmd  == cmds[i]
             done == device[j].done \cup {i}
             run  == [device[j] EXCEPT !.done = done]
             type == [list : Lists \cup {None}, cmds : Seq(CommandSet), done : SUBSET Nat]
  <1>1. /\ (IF cmd.kind \in {"signal", "reset"} THEN 1 .. i - 1 ELSE Fences(cmds) \cap (1 .. i - 1))
               \subseteq device[j].done
        /\ eventState' = CASE cmd.kind = "signal" -> [eventState EXCEPT ![cmd.event] = "device_signal"]
                           [] cmd.kind = "reset"  -> [eventState EXCEPT ![cmd.event] = "device_reset"]
                           [] OTHER               -> eventState
        /\ \/ /\ device' = [device EXCEPT ![j] = NoRun]
              /\ jobStatus' = [jobStatus EXCEPT ![j] = IF j \in HeldJobs THEN "success" ELSE jobStatus[j]]
           \/ device' = [device EXCEPT ![j] = run] /\ jobStatus' = jobStatus
        /\ UNCHANGED <<vpuJob, commandIdMap, commands, phase, trackedJobs, events, associated,
                       call, outcome, handed, budget>>
    BY DEF DeviceStep
  <1>2. /\ j \in Jobs /\ device \in [Jobs -> type] /\ device[j] \in type
        /\ jobStatus \in [Jobs -> {"idle", "running", "success", "failed"}]
        /\ eventState \in [Events -> EventStates]
        /\ \A k \in Jobs : device[k].done \subseteq DOMAIN device[k].cmds
        /\ DOMAIN cmds = 1 .. Len(cmds) /\ Len(cmds) \in Nat
    BY CommandsOf DEF ListsInv, Shape, Running
  <1>3. /\ run \in type /\ run.list = device[j].list /\ run.cmds = cmds /\ run.done = done
        /\ done \subseteq DOMAIN cmds
    BY <1>2
  <1>4. eventState' \in [Events -> EventStates]
    <2>1. "device_signal" \in EventStates /\ "device_reset" \in EventStates
      BY DEF EventStates
    <2> HIDE DEF cmd
    <2> QED
      BY <1>1, <1>2, <2>1
  <1>5. jobStatus' \in [Jobs -> {"idle", "running", "success", "failed"}]
    BY <1>1, <1>2
  <1>6. \A k \in device[j].done :
           (IF cmds[k].kind \in {"signal", "reset"} THEN 1 .. k - 1 ELSE Fences(cmds) \cap (1 .. k - 1))
              \subseteq device[j].done
    BY <1>2 DEF ListsInv, Order
  <1>7. \A k \in done :
           (IF cmds[k].kind \in {"signal", "reset"} THEN 1 .. k - 1 ELSE Fences(cmds) \cap (1 .. k - 1))
              \subseteq done
    <2>1. \A k \in done : k \in device[j].done \/ k = i
      OBVIOUS
    <2>2. device[j].done \subseteq done
      OBVIOUS
    <2> HIDE DEF cmds, done
    <2> QED
      BY <1>1, <1>6, <2>1, <2>2 DEF cmd
  <1> HIDE DEF run, type
  <1>8. /\ device' \in [Jobs -> type]
        /\ \A k \in Jobs : device'[k] = device[k] \/ (k = j /\ device'[k] \in {NoRun, run})
    <2>1. PICK r \in {NoRun, run} : device' = [device EXCEPT ![j] = r]
      BY <1>1
    <2>2. r \in type
      BY <1>3, EmptyRun DEF type
    <2> QED
      BY <1>2, <2>1, <2>2
  <1>9. \A k \in Jobs : device'[k].done \subseteq DOMAIN device'[k].cmds
    BY <1>2, <1>3, <1>8, EmptyRun
  <1>10. \A k \in Jobs : \A x \in device'[k].done :
           (IF device'[k].cmds[x].kind \in {"signal", "reset"} THEN 1 .. x - 1
            ELSE Fences(device'[k].cmds) \cap (1 .. x - 1)) \subseteq device'[k].done
    <2> SUFFICES ASSUME NEW k \in Jobs, NEW x \in device'[k].done
                 PROVE  (IF device'[k].cmds[x].kind \in {"signal", "reset"} THEN 1 .. x - 1
                         ELSE Fences(device'[k].cmds) \cap (1 .. x - 1)) \subseteq device'[k].done
      OBVIOUS
    <2>1. CASE device'[k] = device[k]
      BY <2>1 DEF ListsInv, Order
    <2>2. CASE k = j /\ device'[k] = NoRun
      BY <2>2, EmptyRun
    <2>3. CASE k = j /\ device'[k] = run
      <3> HIDE DEF cmds, done
      <3> QED
        BY <1>3, <1>7, <2>3
    <2> QED
      BY <1>8, <2>1, <2>2, <2>3
  <1>11. \A k \in Jobs : \/ device'[k] = NoRun
                         \/ device'[k].list = device[k].list /\ device'[k].cmds = device[k].cmds
    BY <1>3, <1>8
  <1>12. Running' \subseteq Running
    BY <1>8 DEF Running
  <1>13. DeviceMoves
    BY <1>1, <1>4, <1>5, <1>8, <1>9, <1>10, <1>11, <1>12 DEF DeviceMoves, type
  <1> QED
    BY <1>13, DeviceMovesKeeps

\* The kernel aborts a job.
LEMMA AbortKeeps ==
  ASSUME ListsInv, NEW j \in Running, Abort(j) PROVE ListsInv'
  <1> DEFINE type == [list : Lists \cup {None}, cmds : Seq(CommandSet), done : SUBSET Nat]
  <1>1. /\ device' = [device EXCEPT ![j] = NoRun]
        /\ jobStatus' = [jobStatus EXCEPT ![j] = IF j \in HeldJobs THEN "failed" ELSE jobStatus[j]]
        /\ UNCHANGED <<vpuJob, commandIdMap, commands, phase, trackedJobs, events, eventState,
                       associated, call, outcome, handed, budget>>
    BY DEF Abort
  <1>2. /\ j \in Jobs /\ device \in [Jobs -> type]
        /\ jobStatus \in [Jobs -> {"idle", "running", "success", "failed"}]
        /\ eventState \in [Events -> EventStates]
        /\ \A k \in Jobs : device[k].done \subseteq DOMAIN device[k].cmds
    BY DEF ListsInv, Shape, Running
  <1> HIDE DEF type
  <1>3. device' \in [Jobs -> type] /\ \A k \in Jobs : device'[k] = device[k] \/ device'[k] = NoRun
    BY <1>1, <1>2, EmptyRun DEF type
  <1>4. \A k \in Jobs : \A x \in device'[k].done :
           (IF device'[k].cmds[x].kind \in {"signal", "reset"} THEN 1 .. x - 1
            ELSE Fences(device'[k].cmds) \cap (1 .. x - 1)) \subseteq device'[k].done
    BY <1>3, EmptyRun DEF ListsInv, Order
  <1>5. DeviceMoves
    BY <1>1, <1>2, <1>3, <1>4, EmptyRun DEF DeviceMoves, Running, type
  <1> QED
    BY <1>5, DeviceMovesKeeps
\* A call on an event.
EventMoves ==
    /\ events' \subseteq Events /\ eventState' \in [Events -> EventStates]
    /\ associated' \in [Events -> SUBSET Jobs]
    /\ \A e \in Events : associated'[e] \subseteq associated[e]
    /\ EventCall

\* A call on an event touches neither lists nor the device.
LEMMA EventMovesKeeps ==
  ASSUME ListsInv, EventMoves, EventsNamed' PROVE ListsInv'
  <1>1. UNCHANGED <<vpuJob, commandIdMap, commands, phase, jobStatus, trackedJobs, call,
                    device, outcome, handed>>
    BY DEF EventMoves, EventCall
  <1>2. Shape /\ JobsHeld /\ Calls /\ Apps /\ Hpis /\ Order /\ Device /\ Outcomes /\ EventsNamed /\ Ids
    BY DEF ListsInv
  <1>3. Shape'
    BY <1>1, <1>2 DEF Shape, EventMoves
  <1>4. HeldJobs' = HeldJobs /\ Running' = Running
    BY <1>1 DEF HeldJobs, Held, Running
  <1>5. JobsHeld'
    BY <1>1, <1>2, <1>4 DEF JobsHeld, EventMoves
  <1>6. Calls' /\ Apps' /\ Hpis' /\ Outcomes' /\ Ids'
    <2>1. Calls'
      BY <1>1, <1>2 DEF Calls, CallBy, InCallOf
    <2>2. Apps'
      BY <1>1, <1>2 DEF Apps, InCallOf
    <2>3. Hpis'
      BY <1>1, <1>2 DEF Hpis
    <2>4. Outcomes'
      BY <1>1, <1>2 DEF Outcomes, InCallOf
    <2>5. Ids'
      BY <1>1, <1>2 DEF Ids
    <2> QED
      BY <2>1, <2>2, <2>3, <2>4, <2>5
  <1>7. Order'
    BY <1>1, <1>2 DEF Order, InCallOf
  <1>8. Device'
    BY <1>1, <1>2, <1>4 DEF Device, QueueOf, InCallOf
  <1> QED
    BY <1>3, <1>5, <1>6, <1>7, <1>8 DEF ListsInv

\* zeEventCreate: no job signals a new event.
LEMMA CreateEventKeeps ==
  ASSUME ListsInv, NEW e \in Events, CreateEvent(e) PROVE ListsInv'
  <1>1. /\ e \notin events /\ events' = events \cup {e} /\ EventCall
        /\ eventState' = [eventState EXCEPT ![e] = "initial"]
        /\ associated' = [associated EXCEPT ![e] = {}]
    BY DEF CreateEvent
  <1>2. /\ events \subseteq Events /\ eventState \in [Events -> EventStates]
        /\ associated \in [Events -> SUBSET Jobs] /\ EventsNamed
    BY DEF ListsInv, Shape
  <1>3. EventMoves
    BY <1>1, <1>2 DEF EventMoves, EventStates
  <1>4. commands' = commands /\ call' = call
    BY <1>1 DEF EventCall
  <1>5. \A x \in Events : x # e => associated'[x] = associated[x]
    BY <1>1, <1>2
  <1>6. EventsNamed'
    BY <1>1, <1>2, <1>4, <1>5 DEF EventsNamed, InCallOf
  <1> QED
    BY <1>3, <1>6, EventMovesKeeps

\* zeEventDestroy: no list names the event.
LEMMA DestroyEventKeeps ==
  ASSUME ListsInv, NEW e \in Events, DestroyEvent(e) PROVE ListsInv'
  <1>1. /\ ~InCall(e) /\ ("recreate" \in Avoid => NamedBy(e) = {})
        /\ events' = events \ {e} /\ EventCall /\ eventState' = eventState /\ associated' = associated
    BY DEF DestroyEvent
  <1>2. /\ events \subseteq Events /\ eventState \in [Events -> EventStates]
        /\ associated \in [Events -> SUBSET Jobs] /\ EventsNamed
    BY DEF ListsInv, Shape
  <1>3. EventMoves
    BY <1>1, <1>2 DEF EventMoves
  <1>4. commands' = commands /\ call' = call
    BY <1>1 DEF EventCall
  <1>5. ASSUME "recreate" \in Avoid, NEW j \in Jobs, NEW i \in DOMAIN commands[j]
        PROVE  commands[j][i].event # e
    BY <1>1, <1>5 DEF NamedBy, Names, Range
  <1>6. \A l \in Lists : InCallOf(l) => e \notin Range(call[l].waits) /\ call[l].event # e
    BY <1>1 DEF InCall, InCallOf
  <1>7. EventsNamed'
    BY <1>1, <1>2, <1>4, <1>5, <1>6 DEF EventsNamed, InCallOf
  <1> QED
    BY <1>3, <1>7, EventMovesKeeps

\* The host signals or resets an event.
LEMMA HostSetEventKeeps ==
  ASSUME ListsInv, NEW e \in Events, NEW state \in EventStates, HostSetEvent(e, state)
  PROVE  ListsInv'
  <1>1. /\ events' = events /\ EventCall /\ associated' = associated
        /\ eventState' = [eventState EXCEPT ![e] = state]
    BY DEF HostSetEvent
  <1>2. /\ events \subseteq Events /\ eventState \in [Events -> EventStates]
        /\ associated \in [Events -> SUBSET Jobs] /\ EventsNamed
    BY DEF ListsInv, Shape
  <1>3. EventMoves
    BY <1>1, <1>2 DEF EventMoves
  <1>4. EventsNamed'
    BY <1>1, <1>2 DEF EventsNamed, InCallOf, EventCall
  <1> QED
    BY <1>3, <1>4, EventMovesKeeps

-----------------------------------------------------------------------------
(* Lists get new jobs and queues let go of theirs.                         *)

KeepStep(l) ==
    /\ vpuJob' \in [Lists -> Jobs]
    /\ \A m \in Lists : vpuJob'[m] = vpuJob[m] \/ (m = l /\ vpuJob'[m] \in FreeJobs)
    /\ trackedJobs' \in [Queues -> SUBSET Jobs]
    /\ \A q \in Queues : \/ trackedJobs'[q] = trackedJobs[q]
                         \/ trackedJobs'[q] = {} /\ trackedJobs[q] \cap Running = {}
    /\ Keep(HeldJobs')
    /\ UNCHANGED <<commandIdMap, events, eventState, device, budget>>

Kept(l) ==
    /\ \A j \in Jobs : commands'[j] # <<>> => /\ commands'[j] = commands[j] /\ j \in HeldJobs'
                                              /\ j \in HeldJobs
    /\ \A m \in Lists :
        \/ /\ vpuJob'[m] = vpuJob[m] /\ commands'[vpuJob'[m]] = commands[vpuJob[m]]
           /\ phase'[vpuJob'[m]] = phase[vpuJob[m]]
        \/ /\ m = l /\ vpuJob'[m] # vpuJob[m] /\ vpuJob'[m] \in FreeJobs
           /\ commands'[vpuJob'[m]] = <<>> /\ phase'[vpuJob'[m]] = "open"

\* Jobs let go of lose their commands; a new one has none.
LEMMA KeptOf ==
  ASSUME Shape, JobsHeld, NEW l, KeepStep(l)
  PROVE  /\ Kept(l) /\ JobsHeld' /\ IsInjective(vpuJob')
         /\ commands' \in [Jobs -> Seq(CommandSet)]
         /\ phase' \in [Jobs -> {"open", "dirty", "closed"}]
         /\ jobStatus' \in [Jobs -> {"idle", "running", "success", "failed"}]
         /\ associated' \in [Events -> SUBSET Jobs]
  <1>1. /\ \A j : j \in HeldJobs' <=> \/ \E m \in Lists : vpuJob'[m] = j
                                     \/ \E q \in Queues : j \in trackedJobs'[q]
        /\ \A j : j \in HeldJobs <=> \/ \E m \in Lists : vpuJob[m] = j
                                     \/ \E q \in Queues : j \in trackedJobs[q]
    <2>1. DOMAIN vpuJob' = Lists /\ DOMAIN trackedJobs' = Queues
      BY DEF KeepStep
    <2>2. \A j : j \in HeldJobs' <=> \/ \E m \in Lists : vpuJob'[m] = j
                                     \/ \E q \in Queues : j \in trackedJobs'[q]
      BY <2>1, HoldersOf DEF HeldJobs
    <2> QED
      BY <2>2, JobsOfLists
  <1>2. \A j \in HeldJobs' : j \in HeldJobs \/ j \in FreeJobs
    <2> SUFFICES ASSUME NEW j \in HeldJobs', j \notin FreeJobs PROVE j \in HeldJobs
      OBVIOUS
    <2>1. CASE \E m \in Lists : vpuJob'[m] = j
      BY <1>1, <2>1 DEF KeepStep
    <2>2. CASE \E q \in Queues : j \in trackedJobs'[q]
      BY <1>1, <2>2 DEF KeepStep
    <2> QED
      BY <1>1, <2>1, <2>2
  <1>3. \A j \in FreeJobs : j \in Jobs /\ j \notin HeldJobs /\ j \notin Running
                            /\ commands[j] = <<>> /\ phase[j] = "open"
    BY DEF FreeJobs, JobsHeld
  <1>4. \A j \in Jobs : /\ j \in HeldJobs' => commands'[j] = commands[j] /\ phase'[j] = phase[j]
                        /\ j \notin HeldJobs' => commands'[j] = <<>> /\ phase'[j] = "open"
    BY DEF KeepStep, Keep
  <1>5. \A j \in Jobs : commands'[j] # <<>> => /\ commands'[j] = commands[j] /\ j \in HeldJobs'
                                               /\ j \in HeldJobs
    BY <1>2, <1>3, <1>4
  <1>6. \A m \in Lists : vpuJob'[m] \in HeldJobs' /\ vpuJob'[m] \in Jobs
    BY <1>1 DEF KeepStep
  <1>7. \A m \in Lists : vpuJob[m] \in HeldJobs
    BY <1>1
  <1>8. \A m \in Lists :
        \/ /\ vpuJob'[m] = vpuJob[m] /\ commands'[vpuJob'[m]] = commands[vpuJob[m]]
           /\ phase'[vpuJob'[m]] = phase[vpuJob[m]]
        \/ /\ m = l /\ vpuJob'[m] # vpuJob[m] /\ vpuJob'[m] \in FreeJobs
           /\ commands'[vpuJob'[m]] = <<>> /\ phase'[vpuJob'[m]] = "open"
    <2> SUFFICES ASSUME NEW m \in Lists
                 PROVE \/ /\ vpuJob'[m] = vpuJob[m] /\ commands'[vpuJob'[m]] = commands[vpuJob[m]]
                          /\ phase'[vpuJob'[m]] = phase[vpuJob[m]]
                       \/ /\ m = l /\ vpuJob'[m] # vpuJob[m] /\ vpuJob'[m] \in FreeJobs
                          /\ commands'[vpuJob'[m]] = <<>> /\ phase'[vpuJob'[m]] = "open"
      OBVIOUS
    <2>1. CASE vpuJob'[m] = vpuJob[m]
      BY <1>4, <1>6, <2>1
    <2>2. CASE m = l /\ vpuJob'[m] \in FreeJobs
      BY <1>3, <1>4, <1>6, <1>7, <2>2
    <2> QED
      BY <2>1, <2>2 DEF KeepStep
  <1>9. Kept(l)
    BY <1>5, <1>8 DEF Kept
  <1>10. IsInjective(vpuJob')
    <2>1. ASSUME NEW a \in Lists, NEW b \in Lists, vpuJob'[a] = vpuJob'[b] PROVE a = b
      <3>1. CASE vpuJob'[a] = vpuJob[a] /\ vpuJob'[b] = vpuJob[b]
        BY <2>1, <3>1, JobsOfLists
      <3>2. CASE vpuJob'[a] \in FreeJobs /\ vpuJob'[b] \in FreeJobs
        BY <1>3, <1>7, <2>1, <3>2 DEF KeepStep
      <3> QED
        BY <1>3, <1>7, <2>1, <3>1, <3>2 DEF KeepStep
    <2>2. DOMAIN vpuJob' = Lists
      BY DEF KeepStep
    <2> QED
      BY <2>1, <2>2 DEF IsInjective
  <1>11. JobsHeld'
    <2>1. Running' = Running
      BY DEF Running, KeepStep
    <2>2. \A j \in Jobs \ HeldJobs' : \A e \in Events : j \notin associated'[e]
      BY DEF KeepStep, Keep
    <2>3. \A j \in Running \cap HeldJobs' : phase'[j] = "closed"
      BY <1>2, <1>3, <1>4 DEF JobsHeld, Running
    <2> QED
      BY <1>4, <2>1, <2>2, <2>3 DEF JobsHeld
  <1>12. commands' \in [Jobs -> Seq(CommandSet)]
    <2>1. \A j \in Jobs : (IF j \in HeldJobs' THEN commands[j] ELSE <<>>) \in Seq(CommandSet)
      BY CommandsOf, EmptySeq
    <2> QED
      BY <2>1 DEF KeepStep, Keep
  <1>13. /\ phase' \in [Jobs -> {"open", "dirty", "closed"}]
         /\ jobStatus' \in [Jobs -> {"idle", "running", "success", "failed"}]
         /\ associated' \in [Events -> SUBSET Jobs]
    BY DEF KeepStep, Keep, Shape
  <1> QED
    BY <1>9, <1>10, <1>11, <1>12, <1>13

\* The calls under way go on; one of an immediate list may start to push or fail.
KeptCalls ==
    /\ call' \in [Lists -> CallSet \cup {NoCall}]
    /\ \A m \in Lists : InCallOf(m)' =>
        /\ InCallOf(m) /\ call'[m].op = call[m].op /\ call'[m].app = call[m].app
        /\ call'[m].waits = call[m].waits /\ call'[m].event = call[m].event
        /\ call'[m].round = call[m].round /\ call'[m].id = call[m].id
        /\ vpuJob'[m] = vpuJob[m] \/ m \in ImmediateLists
        /\ \/ call'[m].pc = call[m].pc
           \/ /\ m \in ImmediateLists /\ trackedJobs[m] \cap Running = {}
              /\ call'[m].pc = "push" /\ phase'[vpuJob'[m]] = "open"
    /\ outcome' \in Seq({"open", "ok", "error"}) /\ Len(outcome') = Len(outcome)
    /\ \A a \in 1 .. Len(outcome) :
        \/ outcome'[a] = outcome[a]
        \/ /\ outcome'[a] = "error"
           /\ \E m \in ImmediateLists : InCallOf(m) /\ ~InCallOf(m)' /\ a = call[m].app
    /\ handed' \in [MutableLists -> SUBSET [id : Nat, app : Appends]]

\* What a job that was let go of had is gone, and the rest is as it was.
LEMMA KeepStepKeeps ==
  ASSUME ListsInv, NEW l, KeepStep(l), KeptCalls
  PROVE  /\ Shape' /\ JobsHeld' /\ Calls' /\ Apps' /\ Hpis'
         /\ Order' /\ Device' /\ Outcomes' /\ EventsNamed' /\ Kept(l)
  <1>1. Shape /\ JobsHeld /\ Calls /\ Apps /\ Hpis /\ Order /\ Device /\ Outcomes /\ EventsNamed
    BY DEF ListsInv
  <1>2. /\ Kept(l) /\ JobsHeld' /\ IsInjective(vpuJob')
        /\ commands' \in [Jobs -> Seq(CommandSet)]
        /\ phase' \in [Jobs -> {"open", "dirty", "closed"}]
        /\ jobStatus' \in [Jobs -> {"idle", "running", "success", "failed"}]
        /\ associated' \in [Events -> SUBSET Jobs]
    BY <1>1, KeptOf
  <1>3. Shape'
    BY <1>1, <1>2 DEF Shape, KeepStep, KeptCalls
  <1>4. /\ \A j \in Jobs : \A i \in DOMAIN commands'[j] :
               /\ commands'[j] = commands[j] /\ i \in DOMAIN commands[j]
               /\ j \in HeldJobs /\ j \in HeldJobs'
        /\ \A j \in Jobs : commands'[j] = commands[j] \/ commands'[j] = <<>>
    <2>1. DOMAIN <<>> = {}
      OBVIOUS
    <2> QED
      BY <1>2, <2>1 DEF Kept
  <1>5. /\ \A m \in Lists : vpuJob[m] \in Jobs /\ vpuJob'[m] \in Jobs
        /\ \A a, b \in Lists : vpuJob[a] = vpuJob[b] => a = b
        /\ DOMAIN vpuJob = Lists /\ DOMAIN vpuJob' = Lists
    BY <1>1, JobsOfLists DEF Shape, KeepStep
  \* A command in the job of a list was there.
  <1>6. \A m \in Lists : \A i \in DOMAIN commands'[vpuJob'[m]] :
            /\ vpuJob'[m] = vpuJob[m] /\ commands'[vpuJob'[m]] = commands[vpuJob[m]]
            /\ phase'[vpuJob'[m]] = phase[vpuJob[m]] /\ i \in DOMAIN commands[vpuJob[m]]
    BY <1>2 DEF Kept
  <1>7. Calls'
    <2>1. ASSUME NEW m \in Lists, InCallOf(m)' PROVE CallBy(m, call[m])'
      <3>1. CallBy(m, call[m]) /\ InCallOf(m)
        BY <1>1, <2>1 DEF KeptCalls, Calls
      <3>2. outcome'[call[m].app] = "open"
        <4>1. call[m].app \in 1 .. Len(outcome) /\ outcome[call[m].app] = "open"
          BY <3>1 DEF CallBy
        <4>2. \A x \in ImmediateLists : InCallOf(x) /\ ~InCallOf(x)' => call[x].app # call[m].app
          BY <1>1, <2>1, <3>1 DEF Calls, Lists
        <4> QED
          BY <4>1, <4>2 DEF KeptCalls
      <3>3. \/ phase'[vpuJob'[m]] = phase[vpuJob[m]] \/ phase'[vpuJob'[m]] = "open"
        BY <1>2 DEF Kept
      <3>4. call'[m].pc = "push" => phase'[vpuJob'[m]] = "open"
        BY <2>1, <3>1, <3>3 DEF KeptCalls, CallBy
      <3>5. m \in MutableLists => commands'[vpuJob'[m]] = commands[vpuJob[m]]
        <4>1. m \in MutableLists => vpuJob'[m] = vpuJob[m]
          BY <2>1 DEF KeptCalls
        <4> QED
          BY <1>2, <4>1 DEF Kept
      <3>6. m \in RegularLists /\ call[m].round = 2 => phase'[vpuJob'[m]] # "closed"
        BY <3>1, <3>3 DEF CallBy
      <3>7. /\ call'[m].op = call[m].op /\ call'[m].app = call[m].app
            /\ call'[m].waits = call[m].waits /\ call'[m].event = call[m].event
            /\ call'[m].round = call[m].round /\ call'[m].id = call[m].id
            /\ Len(outcome') = Len(outcome)
        BY <2>1 DEF KeptCalls
      <3> QED
        BY <3>1, <3>2, <3>4, <3>5, <3>6, <3>7 DEF CallBy
    <2>2. \A m, x \in Lists : InCallOf(m)' /\ InCallOf(x)' /\ call'[m].app = call'[x].app => m = x
      BY <1>1 DEF Calls, KeptCalls
    <2> QED
      BY <2>1, <2>2 DEF Calls
  <1>8. Apps'
    <2>1. \A j \in Jobs : \A i \in DOMAIN commands'[j] : commands'[j][i].app <= Len(outcome')
      BY <1>1, <1>4 DEF Apps, KeptCalls
    <2>2. ASSUME NEW j \in Jobs, NEW i \in DOMAIN commands'[j], NEW m \in Lists,
                 InCallOf(m)', commands'[j][i].app = call'[m].app
          PROVE  call'[m].round = 2 /\ (j \in Range(vpuJob') => j = vpuJob'[m])
      <3>1. /\ InCallOf(m) /\ commands[j][i].app = call[m].app /\ i \in DOMAIN commands[j]
            /\ call'[m].round = call[m].round
        BY <1>4, <2>2 DEF KeptCalls
      <3>2. call[m].round = 2 /\ (j \in Range(vpuJob) => j = vpuJob[m])
        BY <1>1, <3>1 DEF Apps
      <3>3. ASSUME NEW x \in Lists, j = vpuJob'[x] PROVE j = vpuJob'[m]
        <4>1. vpuJob'[x] = vpuJob[x]
          BY <1>6, <2>2, <3>3
        <4>2. j \in Range(vpuJob)
          BY <1>5, <3>3, <4>1 DEF Range
        <4>3. x = m
          BY <1>5, <3>2, <3>3, <4>1, <4>2
        <4> QED
          BY <3>3, <4>3
      <3> QED
        BY <1>5, <3>1, <3>2, <3>3 DEF Range
    <2> QED
      BY <2>1, <2>2 DEF Apps
  <1>9. Hpis'
    BY <1>1, <1>4 DEF Hpis
  <1>10. Order'
    <2>1. \A j \in Jobs : Ordered(commands'[j])
      BY <1>1, <1>4, EmptyRun DEF Order, NoRun
    <2>2. ASSUME NEW m \in Lists, InCallOf(m)'
          PROVE  RoundsBefore(m, call'[m], commands'[vpuJob'[m]])
      <3>1. InCallOf(m) /\ call'[m].app = call[m].app /\ call'[m].waits = call[m].waits
        BY <2>2 DEF KeptCalls
      <3>2. CASE commands'[vpuJob'[m]] = commands[vpuJob[m]]
        <4>1. RoundsBefore(m, call[m], commands[vpuJob[m]])
          BY <1>1, <3>1 DEF Order
        <4> QED
          BY <3>1, <3>2, <4>1 DEF RoundsBefore
      <3>3. CASE commands'[vpuJob'[m]] = <<>>
        <4>1. DOMAIN <<>> = {}
          OBVIOUS
        <4> QED
          BY <3>3, <4>1 DEF RoundsBefore
      <3> QED
        BY <1>2, <3>2, <3>3 DEF Kept
    <2>3. device' = device
      BY DEF KeepStep
    <2> QED
      BY <1>1, <2>1, <2>2, <2>3 DEF Order
  <1>11. Device'
    <2> SUFFICES ASSUME "midway" \in Avoid
                 PROVE  /\ \A k \in Running' : /\ device'[k].list \in Lists
                                               /\ k \in trackedJobs'[QueueOf(device'[k].list)]
                                               /\ device'[k].cmds = commands'[k]
                        /\ \A i, k \in Running' :
                              device'[i].list = device'[k].list /\ device'[i].list \in ImmediateLists
                                  => i = k
                        /\ \A m \in ImmediateLists, k \in Running' :
                              InCallOf(m)' /\ call'[m].pc = "push" => device'[k].list # m
      BY DEF Device, QueueOf
    <2>1. device' = device /\ Running' = Running
      BY DEF KeepStep, Running
    <2>2. \A k \in Running : /\ device[k].list \in Lists /\ device[k].cmds = commands[k]
                             /\ k \in trackedJobs[QueueOf(device[k].list)]
      BY <1>1 DEF Device
    <2>3. ASSUME NEW k \in Running
          PROVE  k \in trackedJobs'[QueueOf(device[k].list)] /\ device[k].cmds = commands'[k]
      <3>1. QueueOf(device[k].list) \in Queues
        BY <2>2 DEF QueueOf, Queues
      <3>2. k \in trackedJobs'[QueueOf(device[k].list)]
        BY <2>2, <3>1 DEF KeepStep
      <3>3. k \in HeldJobs' /\ k \in Jobs
        <4>1. DOMAIN vpuJob' = Lists /\ DOMAIN trackedJobs' = Queues
          BY DEF KeepStep
        <4>2. k \in HeldJobs'
          BY <3>1, <3>2, <4>1, HoldersOf DEF HeldJobs
        <4> QED
          BY <4>2 DEF Running
      <3>4. commands'[k] = commands[k]
        BY <3>3 DEF KeepStep, Keep
      <3> QED
        BY <2>2, <3>2, <3>4
    <2>4. ASSUME NEW m \in ImmediateLists, NEW k \in Running, InCallOf(m)', call'[m].pc = "push"
          PROVE  device[k].list # m
      <3>1. m \in Lists /\ QueueOf(m) = m
        BY DEF Lists, QueueOf
      <3>2. CASE InCallOf(m) /\ call[m].pc = "push"
        BY <1>1, <3>2 DEF Device
      <3>3. CASE trackedJobs[m] \cap Running = {}
        BY <2>2, <3>1, <3>3
      <3> QED
        BY <2>4, <3>1, <3>2, <3>3 DEF KeptCalls
    <2>5. \A i, k \in Running : device[i].list = device[k].list /\ device[i].list \in ImmediateLists
              => i = k
      BY <1>1 DEF Device
    <2> QED
      BY <2>1, <2>2, <2>3, <2>4, <2>5
  <1>12. Outcomes'
    <2>1. \A m \in Lists : \A i \in DOMAIN commands[vpuJob[m]] :
             commands[vpuJob[m]][i].app \in 1 .. Len(outcome)
      <3> SUFFICES ASSUME NEW m \in Lists, NEW i \in DOMAIN commands[vpuJob[m]]
                   PROVE  commands[vpuJob[m]][i].app \in 1 .. Len(outcome)
        OBVIOUS
      <3>1. commands[vpuJob[m]][i] \in CommandSet /\ commands[vpuJob[m]][i].app <= Len(outcome)
        BY <1>1, <1>5, CommandsOf DEF Apps
      <3>2. Len(outcome) \in Nat
        BY <1>1, LenProperties DEF Shape
      <3> QED
        BY <3>1, <3>2 DEF CommandSet, Appends
    <2>2. ASSUME NEW m \in ImmediateLists, NEW i \in DOMAIN commands'[vpuJob'[m]]
          PROVE  outcome'[commands'[vpuJob'[m]][i].app] # "ok"
      <3>1. m \in Lists
        BY DEF Lists
      <3> DEFINE a == commands[vpuJob[m]][i].app
      <3>2. /\ commands'[vpuJob'[m]][i].app = a /\ a \in 1 .. Len(outcome)
            /\ i \in DOMAIN commands[vpuJob[m]]
        BY <1>6, <2>1, <2>2, <3>1
      <3>3. outcome[a] # "ok"
        BY <1>1, <2>2, <3>2 DEF Outcomes
      <3> HIDE DEF a
      <3> QED
        BY <3>2, <3>3 DEF KeptCalls
    <2>3. ASSUME "leftover" \in Avoid, NEW m \in Lists,
                 IF m \in ImmediateLists THEN InCallOf(m)' /\ phase'[vpuJob'[m]] # "closed"
                 ELSE phase'[vpuJob'[m]] = "closed",
                 NEW i \in DOMAIN commands'[vpuJob'[m]]
          PROVE  outcome'[commands'[vpuJob'[m]][i].app] # "error"
      <3> DEFINE a == commands[vpuJob[m]][i].app
      <3>1. /\ commands'[vpuJob'[m]][i].app = a /\ a \in 1 .. Len(outcome)
            /\ i \in DOMAIN commands[vpuJob[m]]
            /\ phase'[vpuJob'[m]] = phase[vpuJob[m]]
        BY <1>6, <2>1, <2>3
      <3>2. outcome[a] # "error"
        <4>1. InCallOf(m)' => InCallOf(m)
          BY DEF KeptCalls
        <4>2. IF m \in ImmediateLists THEN InCallOf(m) /\ phase[vpuJob[m]] # "closed"
              ELSE phase[vpuJob[m]] = "closed"
          BY <2>3, <3>1, <4>1
        <4> QED
          BY <1>1, <2>3, <3>1, <4>2 DEF Outcomes
      <3>3. ASSUME NEW x \in ImmediateLists, InCallOf(x), ~InCallOf(x)', a = call[x].app PROVE FALSE
        <4>1. x \in Lists /\ vpuJob[m] \in Range(vpuJob) /\ vpuJob[m] \in Jobs
          BY <1>5 DEF Lists, Range
        <4>2. vpuJob[m] = vpuJob[x]
          BY <1>1, <3>1, <3>3, <4>1 DEF Apps
        <4>3. m = x
          BY <1>5, <4>1, <4>2
        <4> QED
          BY <2>3, <3>3, <4>3
      <3> HIDE DEF a
      <3> QED
        BY <3>1, <3>2, <3>3 DEF KeptCalls
    <2> QED
      BY <2>2, <2>3 DEF Outcomes
  <1>13. EventsNamed'
    <2>1. events' = events
      BY DEF KeepStep
    <2>2. ASSUME "recreate" \in Avoid, NEW j \in Jobs, NEW i \in DOMAIN commands'[j]
          PROVE  /\ commands'[j][i].event \in events \cup {None}
                 /\ commands'[j][i].kind = "signal" =>
                        commands'[j][i].event # None /\ j \in associated'[commands'[j][i].event]
      <3>1. commands'[j] = commands[j] /\ i \in DOMAIN commands[j] /\ j \in HeldJobs'
        BY <1>4, <2>2
      <3>2. /\ commands[j][i].event \in events \cup {None}
            /\ commands[j][i].kind = "signal" =>
                   commands[j][i].event # None /\ j \in associated[commands[j][i].event]
        BY <1>1, <2>2, <3>1 DEF EventsNamed
      <3>3. \A e \in Events : associated'[e] = associated[e] \cap HeldJobs'
        BY DEF KeepStep, Keep
      <3>4. events \subseteq Events
        BY <1>1 DEF Shape
      <3> QED
        BY <3>1, <3>2, <3>3, <3>4
    <2>3. \A m \in Lists : "recreate" \in Avoid /\ InCallOf(m)' =>
              call'[m].event \in events \cup {None} /\ Range(call'[m].waits) \subseteq events
      BY <1>1 DEF EventsNamed, KeptCalls
    <2> QED
      BY <2>1, <2>2, <2>3 DEF EventsNamed
  <1> QED
    BY <1>2, <1>3, <1>7, <1>8, <1>9, <1>10, <1>11, <1>12, <1>13

\* A list that goes on keeps its ids; one with a new job has none.
LEMMA KeptIds ==
  ASSUME ListsInv, NEW l, Kept(l), commandIdMap' = commandIdMap,
         \A m \in MutableLists :
             \/ vpuJob'[m] = vpuJob[m] /\ handed'[m] = handed[m]
             \/ handed'[m] = {} /\ ("remutate" \in Avoid => DOMAIN commandIdMap[m] = {})
  PROVE  Ids'
  <1> SUFFICES ASSUME "remutate" \in Avoid, NEW m \in MutableLists
               PROVE  IdsOf(commandIdMap[m], commands'[vpuJob'[m]], handed'[m])
    BY DEF Ids
  <1>1. IdsOf(commandIdMap[m], commands[vpuJob[m]], handed[m])
    BY DEF ListsInv, Ids
  <1>2. CASE vpuJob'[m] = vpuJob[m] /\ handed'[m] = handed[m]
    <2>1. m \in Lists
      BY ParametersAssumption DEF Lists
    <2>2. commands'[vpuJob'[m]] = commands[vpuJob[m]]
      BY <1>2, <2>1 DEF Kept
    <2> QED
      BY <1>1, <1>2, <2>2
  <1>3. CASE handed'[m] = {} /\ DOMAIN commandIdMap[m] = {}
    BY <1>3 DEF IdsOf
  <1> QED
    BY <1>2, <1>3

\* The calls are as they were.
LEMMA SameCalls ==
  ASSUME Shape, call' = call, outcome' = outcome,
         handed' \in [MutableLists -> SUBSET [id : Nat, app : Appends]],
         \A m \in Lists : InCallOf(m) => vpuJob'[m] = vpuJob[m]
  PROVE  KeptCalls
  <1>1. call \in [Lists -> CallSet \cup {NoCall}] /\ outcome \in Seq({"open", "ok", "error"})
    BY DEF Shape
  <1>2. \A m \in Lists : InCallOf(m)' <=> InCallOf(m)
    BY DEF InCallOf
  <1> QED
    BY <1>1, <1>2 DEF KeptCalls

\* CommandList::reset.
LEMMA ResetKeeps ==
  ASSUME ListsInv, NEW l \in Lists, Reset(l) PROVE ListsInv' /\ KeepStep(l)
  <1>1. /\ ~InCallOf(l) /\ FreeJobs # {}
        /\ "remutate" \in Avoid /\ l \in MutableLists => DOMAIN commandIdMap[l] = {}
        /\ vpuJob' = [vpuJob EXCEPT ![l] = NewJob]
        /\ handed' = IF l \in MutableLists THEN [handed EXCEPT ![l] = {}] ELSE handed
        /\ Keep(HeldJobs')
        /\ UNCHANGED <<commandIdMap, trackedJobs, events, eventState, call, device, outcome, budget>>
    BY DEF Reset, HeldJobs, InCallOf
  <1>2. /\ Shape /\ vpuJob \in [Lists -> Jobs] /\ trackedJobs \in [Queues -> SUBSET Jobs]
        /\ handed \in [MutableLists -> SUBSET [id : Nat, app : Appends]]
    BY DEF ListsInv, Shape
  <1>3. NewJob \in FreeJobs /\ NewJob \in Jobs
    BY <1>1, <1>2, NewJobIsFree DEF FreeJobs
  <1>4. KeepStep(l) /\ \A m \in Lists : m # l => vpuJob'[m] = vpuJob[m]
    BY <1>1, <1>2, <1>3 DEF KeepStep
  <1>5. /\ handed' \in [MutableLists -> SUBSET [id : Nat, app : Appends]]
        /\ \A m \in MutableLists : m # l => handed'[m] = handed[m]
        /\ l \in MutableLists => handed'[l] = {}
    BY <1>1, <1>2
  <1>6. KeptCalls
    <2>1. \A m \in Lists : InCallOf(m) => vpuJob'[m] = vpuJob[m]
      BY <1>1, <1>4
    <2> QED
      BY <1>1, <1>2, <1>5, <2>1, SameCalls
  <1>7. /\ Shape' /\ JobsHeld' /\ Calls' /\ Apps' /\ Hpis'
        /\ Order' /\ Device' /\ Outcomes' /\ EventsNamed' /\ Kept(l)
    BY <1>4, <1>6, KeepStepKeeps
  <1>8. Ids'
    <2>1. MutableLists \subseteq Lists
      BY ParametersAssumption DEF Lists
    <2>2. ASSUME NEW m \in MutableLists
          PROVE  \/ vpuJob'[m] = vpuJob[m] /\ handed'[m] = handed[m]
                 \/ handed'[m] = {} /\ ("remutate" \in Avoid => DOMAIN commandIdMap[m] = {})
      BY <1>1, <1>4, <1>5, <2>1
    <2> QED
      BY <1>1, <1>7, <2>2, KeptIds
  <1> QED
    BY <1>4, <1>7, <1>8 DEF ListsInv

\* CommandQueue::synchronize.
LEMMA QueueSynchronizeKeeps ==
  ASSUME ListsInv, QueueSynchronize PROVE ListsInv' /\ KeepStep("main")
  <1>1. /\ trackedJobs["main"] \cap Running = {}
        /\ trackedJobs' = [trackedJobs EXCEPT !["main"] = {}] /\ Keep(HeldJobs')
        /\ UNCHANGED <<vpuJob, commandIdMap, events, eventState, call, device, outcome, handed, budget>>
    BY DEF QueueSynchronize, HeldJobs
  <1>2. /\ Shape /\ vpuJob \in [Lists -> Jobs] /\ trackedJobs \in [Queues -> SUBSET Jobs]
        /\ handed \in [MutableLists -> SUBSET [id : Nat, app : Appends]]
    BY DEF ListsInv, Shape
  <1>3. KeepStep("main")
    <2>1. \A q \in Queues : q # "main" => trackedJobs'[q] = trackedJobs[q]
      BY <1>1, <1>2
    <2>2. trackedJobs' \in [Queues -> SUBSET Jobs] /\ ("main" \in Queues => trackedJobs'["main"] = {})
      BY <1>1, <1>2
    <2>3. \A q \in Queues : \/ trackedJobs'[q] = trackedJobs[q]
                            \/ trackedJobs'[q] = {} /\ trackedJobs[q] \cap Running = {}
      BY <1>1, <2>1, <2>2
    <2>4. vpuJob' \in [Lists -> Jobs] /\ vpuJob' = vpuJob
      BY <1>1, <1>2
    <2> QED
      BY <1>1, <2>2, <2>3, <2>4 DEF KeepStep
  <1>4. KeptCalls
    BY <1>1, <1>2, SameCalls
  <1>5. /\ Shape' /\ JobsHeld' /\ Calls' /\ Apps' /\ Hpis'
        /\ Order' /\ Device' /\ Outcomes' /\ EventsNamed' /\ Kept("main")
    BY <1>3, <1>4, KeepStepKeeps
  <1>6. Ids'
    <2>1. vpuJob' = vpuJob /\ handed' = handed /\ commandIdMap' = commandIdMap
      BY <1>1
    <2> QED
      BY <1>5, <2>1, KeptIds
  <1> QED
    BY <1>3, <1>5, <1>6 DEF ListsInv

\* The queue of an immediate list lets go of its jobs, and the list may get a new one.
LEMMA ImmediateKeepStep ==
  ASSUME Shape, NEW l \in ImmediateLists, trackedJobs[l] \cap Running = {},
         trackedJobs' = [trackedJobs EXCEPT ![l] = {}] \/ trackedJobs' = trackedJobs,
         \/ FreeJobs # {} /\ vpuJob' = [vpuJob EXCEPT ![l] = NewJob]
         \/ vpuJob' = vpuJob,
         Keep(Held(vpuJob', trackedJobs')),
         UNCHANGED <<commandIdMap, events, eventState, device, budget>>
  PROVE  /\ KeepStep(l) /\ \A m \in Lists : m # l => vpuJob'[m] = vpuJob[m]
         /\ \A m \in MutableLists : vpuJob'[m] = vpuJob[m]
  <1>1. /\ vpuJob \in [Lists -> Jobs] /\ trackedJobs \in [Queues -> SUBSET Jobs]
        /\ l \in Queues /\ l \in Lists
    BY DEF Shape, Queues, Lists
  <1>2. FreeJobs # {} => NewJob \in FreeJobs /\ NewJob \in Jobs
    BY NewJobIsFree DEF FreeJobs
  <1>3. /\ vpuJob' \in [Lists -> Jobs]
        /\ \A m \in Lists : m # l => vpuJob'[m] = vpuJob[m]
        /\ vpuJob'[l] = vpuJob[l] \/ vpuJob'[l] \in FreeJobs
    BY <1>1, <1>2
  <1>4. /\ trackedJobs' \in [Queues -> SUBSET Jobs]
        /\ \A q \in Queues : \/ trackedJobs'[q] = trackedJobs[q]
                             \/ trackedJobs'[q] = {} /\ trackedJobs[q] \cap Running = {}
    BY <1>1
  <1>5. Keep(HeldJobs')
    BY DEF HeldJobs
  <1>6. KeepStep(l)
    BY <1>3, <1>4, <1>5 DEF KeepStep
  <1>7. \A m \in MutableLists : m \in Lists /\ m # l
    BY ParametersAssumption DEF Lists
  <1> QED
    BY <1>3, <1>6, <1>7

\* ImmediateCommandList::hostSynchronize.
LEMMA ImmediateSynchronizeKeeps ==
  ASSUME ListsInv, NEW l \in Lists, ImmediateSynchronize(l) PROVE ListsInv' /\ KeepStep(l)
  <1>1. /\ l \in ImmediateLists /\ ~InCallOf(l) /\ FreeJobs # {} /\ trackedJobs[l] \cap Running = {}
        /\ trackedJobs' = [trackedJobs EXCEPT ![l] = {}] /\ vpuJob' = [vpuJob EXCEPT ![l] = NewJob]
        /\ Keep(Held(vpuJob', trackedJobs'))
        /\ UNCHANGED <<commandIdMap, events, eventState, call, device, outcome, handed, budget>>
    BY DEF ImmediateSynchronize, InCallOf
  <1>2. Shape /\ handed \in [MutableLists -> SUBSET [id : Nat, app : Appends]]
    BY DEF ListsInv, Shape
  <1>3. /\ KeepStep(l) /\ \A m \in Lists : m # l => vpuJob'[m] = vpuJob[m]
        /\ \A m \in MutableLists : vpuJob'[m] = vpuJob[m]
    BY <1>1, <1>2, ImmediateKeepStep
  <1>4. KeptCalls
    <2>1. \A m \in Lists : InCallOf(m) => vpuJob'[m] = vpuJob[m]
      BY <1>1, <1>3
    <2> QED
      BY <1>1, <1>2, <2>1, SameCalls
  <1>5. /\ Shape' /\ JobsHeld' /\ Calls' /\ Apps' /\ Hpis'
        /\ Order' /\ Device' /\ Outcomes' /\ EventsNamed' /\ Kept(l)
    BY <1>3, <1>4, KeepStepKeeps
  <1>6. Ids'
    <2>1. handed' = handed /\ commandIdMap' = commandIdMap
      BY <1>1
    <2> QED
      BY <1>3, <1>5, <2>1, KeptIds
  <1> QED
    BY <1>3, <1>5, <1>6 DEF ListsInv

\* The job of an immediate list is only closed once it is whole.
Phases == \A l \in ImmediateLists : phase[vpuJob[l]] # "dirty"

\* checkCommandAppendCondition of an immediate list.
LEMMA ImmediateCheckKeeps ==
  ASSUME ListsInv, Phases, NEW l \in Lists, ImmediateCheck(l) PROVE ListsInv' /\ KeepStep(l)
  <1> DEFINE c == call[l]
  <1>1. /\ l \in ImmediateLists /\ InCallOf(l) /\ trackedJobs[l] \cap Running = {}
        /\ trackedJobs' = [trackedJobs EXCEPT ![l] = IF AllSucceeded(l) THEN {} ELSE trackedJobs[l]]
        /\ IF phase[vpuJob[l]] = "closed"
           THEN FreeJobs # {} /\ vpuJob' = [vpuJob EXCEPT ![l] = NewJob]
           ELSE vpuJob' = vpuJob
        /\ Keep(Held(vpuJob', trackedJobs'))
        /\ IF AllSucceeded(l)
           THEN call' = [call EXCEPT ![l].pc = "push"] /\ outcome' = outcome /\ handed' = handed
           ELSE EndRound(l, FALSE)
        /\ UNCHANGED <<commandIdMap, events, eventState, device, budget>>
    BY DEF ImmediateCheck, InCallOf
  <1>2. /\ Shape /\ Calls /\ JobsHeld /\ handed \in [MutableLists -> SUBSET [id : Nat, app : Appends]]
        /\ call \in [Lists -> CallSet \cup {NoCall}] /\ c \in CallSet
        /\ trackedJobs \in [Queues -> SUBSET Jobs]
        /\ outcome \in Seq({"open", "ok", "error"})
        /\ phase \in [Jobs -> {"open", "dirty", "closed"}]
        /\ vpuJob[l] \in Jobs
    BY <1>1, JobsOfLists DEF ListsInv, Shape, InCallOf
  <1>3. trackedJobs' = [trackedJobs EXCEPT ![l] = {}] \/ trackedJobs' = trackedJobs
    BY <1>1, <1>2
  <1>4. \/ FreeJobs # {} /\ vpuJob' = [vpuJob EXCEPT ![l] = NewJob]
        \/ vpuJob' = vpuJob
    BY <1>1
  <1>5. /\ KeepStep(l) /\ \A m \in Lists : m # l => vpuJob'[m] = vpuJob[m]
        /\ \A m \in MutableLists : vpuJob'[m] = vpuJob[m]
    BY <1>1, <1>2, <1>3, <1>4, ImmediateKeepStep
  <1>6. phase'[vpuJob'[l]] = "open"
    <2>1. Kept(l)
      BY <1>2, <1>5, KeptOf
    <2>2. CASE phase[vpuJob[l]] = "closed"
      <3>1. vpuJob[l] \notin FreeJobs /\ NewJob \in FreeJobs
        BY <1>1, <1>2, <2>2, JobsOfLists, NewJobIsFree DEF FreeJobs
      <3>2. vpuJob'[l] = NewJob
        BY <1>1, <1>2, <2>2 DEF Shape
      <3> QED
        BY <2>1, <3>1, <3>2 DEF Kept
    <2>3. CASE phase[vpuJob[l]] # "closed"
      <3>1. vpuJob' = vpuJob /\ phase[vpuJob[l]] = "open"
        BY <1>1, <1>2, <2>3 DEF Phases
      <3> QED
        BY <2>1, <3>1 DEF Kept
    <2> QED
      BY <2>2, <2>3
  <1>7. /\ \A m \in Lists : m # l => call'[m] = call[m]
        /\ handed' = handed /\ call' \in [Lists -> CallSet \cup {NoCall}]
        /\ outcome' \in Seq({"open", "ok", "error"}) /\ Len(outcome') = Len(outcome)
        /\ \/ /\ call'[l].op = c.op /\ call'[l].app = c.app /\ call'[l].waits = c.waits
              /\ call'[l].event = c.event /\ call'[l].round = c.round /\ call'[l].id = c.id
              /\ call'[l].pc = "push" /\ outcome' = outcome
           \/ /\ call'[l] = NoCall
              /\ \A a \in 1 .. Len(outcome) : outcome'[a] = outcome[a] \/ (a = c.app /\ outcome'[a] = "error")
    <2>1. CASE AllSucceeded(l)
      <3>1. call' = [call EXCEPT ![l] = [c EXCEPT !.pc = "push"]] /\ outcome' = outcome /\ handed' = handed
        BY <1>1, <2>1
      <3>2. /\ [c EXCEPT !.pc = "push"] \in CallSet /\ [c EXCEPT !.pc = "push"].pc = "push"
            /\ [c EXCEPT !.pc = "push"].op = c.op /\ [c EXCEPT !.pc = "push"].app = c.app
            /\ [c EXCEPT !.pc = "push"].waits = c.waits /\ [c EXCEPT !.pc = "push"].event = c.event
            /\ [c EXCEPT !.pc = "push"].round = c.round /\ [c EXCEPT !.pc = "push"].id = c.id
        <4>1. c \in CallSet
          BY <1>2
        <4> HIDE DEF c
        <4> QED
          BY <4>1 DEF CallSet
      <3> DEFINE d == [c EXCEPT !.pc = "push"]
      <3>3. call' = [call EXCEPT ![l] = d]
        BY <3>1
      <3>4. /\ d \in CallSet /\ d.pc = "push" /\ d.op = c.op /\ d.app = c.app
            /\ d.waits = c.waits /\ d.event = c.event /\ d.round = c.round /\ d.id = c.id
        BY <3>2
      <3> HIDE DEF d, c
      <3>5. /\ call'[l] = d /\ \A m \in Lists : m # l => call'[m] = call[m]
            /\ call' \in [Lists -> CallSet \cup {NoCall}]
        BY <1>2, <3>3, <3>4
      <3> QED
        BY <1>2, <3>1, <3>4, <3>5
    <2>2. CASE ~AllSucceeded(l)
      <3>1. EndRound(l, FALSE)
        BY <1>1, <2>2
      <3>2. Ends(l, FALSE)
        BY <1>1, <1>2, <3>1, RoundEnds
      <3>3. call'[l] = NoCall /\ outcome'[c.app] = "error"
        BY <3>2 DEF Ends, Returns
      <3>4. handed' = handed
        BY <3>1 DEF EndRound
      <3> QED
        BY <3>2, <3>3, <3>4 DEF Ends
    <2> QED
      BY <2>1, <2>2
  <1> HIDE DEF c
  <1>8. KeptCalls
    <2>1. \A m \in Lists : m # l => (InCallOf(m)' <=> InCallOf(m))
      BY <1>7 DEF InCallOf
    <2>2. \A m \in Lists : InCallOf(m)' =>
            /\ InCallOf(m) /\ call'[m].op = call[m].op /\ call'[m].app = call[m].app
            /\ call'[m].waits = call[m].waits /\ call'[m].event = call[m].event
            /\ call'[m].round = call[m].round /\ call'[m].id = call[m].id
            /\ vpuJob'[m] = vpuJob[m] \/ m \in ImmediateLists
            /\ \/ call'[m].pc = call[m].pc
               \/ /\ m \in ImmediateLists /\ trackedJobs[m] \cap Running = {}
                  /\ call'[m].pc = "push" /\ phase'[vpuJob'[m]] = "open"
      <3> SUFFICES ASSUME NEW m \in Lists, InCallOf(m)'
                   PROVE  /\ InCallOf(m) /\ call'[m].op = call[m].op /\ call'[m].app = call[m].app
                          /\ call'[m].waits = call[m].waits /\ call'[m].event = call[m].event
                          /\ call'[m].round = call[m].round /\ call'[m].id = call[m].id
                          /\ vpuJob'[m] = vpuJob[m] \/ m \in ImmediateLists
                          /\ \/ call'[m].pc = call[m].pc
                             \/ /\ m \in ImmediateLists /\ trackedJobs[m] \cap Running = {}
                                /\ call'[m].pc = "push" /\ phase'[vpuJob'[m]] = "open"
        OBVIOUS
      <3>1. CASE m = l
        <4>1. call'[l] # NoCall
          BY <3>1 DEF InCallOf
        <4> QED
          BY <1>1, <1>6, <1>7, <3>1, <4>1 DEF c
      <3>2. CASE m # l
        BY <1>5, <1>7, <2>1, <3>2
      <3> QED
        BY <3>1, <3>2
    <2>3. \A a \in 1 .. Len(outcome) :
            \/ outcome'[a] = outcome[a]
            \/ /\ outcome'[a] = "error"
               /\ \E m \in ImmediateLists : InCallOf(m) /\ ~InCallOf(m)' /\ a = call[m].app
      <3>1. CASE outcome' = outcome
        BY <3>1
      <3>2. CASE /\ call'[l] = NoCall
                 /\ \A a \in 1 .. Len(outcome) :
                        outcome'[a] = outcome[a] \/ (a = c.app /\ outcome'[a] = "error")
        <4>1. ~InCallOf(l)'
          BY <3>2 DEF InCallOf
        <4> QED
          BY <1>1, <3>2, <4>1 DEF c
      <3> QED
        BY <1>7, <3>1, <3>2
    <2> QED
      BY <1>2, <1>7, <2>2, <2>3 DEF KeptCalls
  <1>9. /\ Shape' /\ JobsHeld' /\ Calls' /\ Apps' /\ Hpis'
        /\ Order' /\ Device' /\ Outcomes' /\ EventsNamed' /\ Kept(l)
    BY <1>5, <1>8, KeepStepKeeps
  <1>10. Ids'
    <2>1. commandIdMap' = commandIdMap
      BY <1>1
    <2> QED
      BY <1>5, <1>7, <1>9, <2>1, KeptIds
  <1> QED
    BY <1>5, <1>9, <1>10 DEF ListsInv

-----------------------------------------------------------------------------
(* The invariant holds from the start and in every step.                   *)

\* The invariant holds at the start.
LEMMA InitialState ==
  ASSUME Init PROVE ListsInv /\ Phases
  <1> DEFINE n == Cardinality(Lists)
  <1>1. n \in Nat /\ n <= MaxJobs /\ 1 .. n \subseteq Jobs
    BY ParametersAssumption, FS_CardinalityType DEF Jobs
  <1>2. vpuJob \in [Lists -> 1 .. n] /\ IsInjective(vpuJob)
    <2>1. PICK f : f \in Bijection(1 .. n, Lists)
      BY ParametersAssumption, FS_CardinalityType DEF ExistsBijection
    <2> DEFINE g == [l \in Lists |-> CHOOSE k \in 1 .. n : f[k] = l]
    <2> HIDE DEF n
    <2>2. \A l \in Lists : \E k \in 1 .. n : f[k] = l
      BY <2>1 DEF Bijection, Surjection
    <2>3. \A l \in Lists : (CHOOSE k \in 1 .. n : f[k] = l) \in 1 .. n
                           /\ f[CHOOSE k \in 1 .. n : f[k] = l] = l
      BY <2>2
    <2>4. g \in [Lists -> 1 .. n] /\ \A l \in Lists : f[g[l]] = l
      BY <2>3
    <2>5. DOMAIN g = Lists
      BY <2>4
    <2> HIDE DEF g
    <2>6. IsInjective(g)
      <3>1. \A a, b \in Lists : g[a] = g[b] => a = b
        BY <2>4
      <3> QED
        BY <2>5, <3>1 DEF IsInjective
    <2>7. vpuJob = CHOOSE h \in [Lists -> 1 .. n] : IsInjective(h)
      BY DEF Init, n
    <2> QED
      BY <2>4, <2>6, <2>7
  <1>3. vpuJob \in [Lists -> Jobs] /\ DOMAIN vpuJob = Lists
    BY <1>1, <1>2
  <1> HIDE DEF n
  <1>4. /\ commandIdMap = [l \in MutableLists |-> <<>>] /\ commands = [j \in Jobs |-> <<>>]
        /\ phase = [j \in Jobs |-> "open"] /\ jobStatus = [j \in Jobs |-> "idle"]
        /\ trackedJobs = [q \in Queues |-> {}] /\ events = {}
        /\ eventState = [e \in Events |-> "initial"] /\ associated = [e \in Events |-> {}]
        /\ call = [l \in Lists |-> NoCall] /\ device = [j \in Jobs |-> NoRun]
        /\ outcome = <<>> /\ handed = [l \in MutableLists |-> {}]
    BY DEF Init
  <1>5. DOMAIN <<>> = {} /\ Len(<<>>) = 0 /\ <<>> \in Seq({"open", "ok", "error"})
        /\ <<>> \in Seq(CommandSet)
    BY EmptySeq
  <1>6. \A l \in Lists : ~InCallOf(l)
    BY <1>4 DEF InCallOf
  <1>7. \A j \in Jobs : commands[j] = <<>> /\ device[j] = NoRun /\ phase[j] = "open"
    BY <1>4
  <1>8. Running = {}
    BY <1>7 DEF Running
  <1>9. \A l \in MutableLists : commandIdMap[l] = <<>> /\ handed[l] = {}
    BY <1>4
  <1>10. Shape
    <2>1. device \in [Jobs -> [list : Lists \cup {None}, cmds : Seq(CommandSet), done : SUBSET Nat]]
          /\ \A j \in Jobs : device[j].done \subseteq DOMAIN device[j].cmds
      BY <1>4, EmptyRun
    <2>2. MaxAppends >= 0
      BY ParametersAssumption
    <2>3. /\ commandIdMap = [l \in MutableLists |-> <<>>]
          /\ \A l \in MutableLists : DOMAIN commandIdMap[l] \subseteq Nat
      BY <1>4, <1>5
    <2>4. eventState \in [Events -> EventStates]
      BY <1>4 DEF EventStates
    <2>5. commands \in [Jobs -> Seq(CommandSet)] /\ outcome \in Seq({"open", "ok", "error"})
      BY <1>4, <1>5
    <2>6. call \in [Lists -> CallSet \cup {NoCall}]
          /\ handed \in [MutableLists -> SUBSET [id : Nat, app : Appends]]
      BY <1>4
    <2>7. /\ phase \in [Jobs -> {"open", "dirty", "closed"}]
          /\ jobStatus \in [Jobs -> {"idle", "running", "success", "failed"}]
          /\ trackedJobs \in [Queues -> SUBSET Jobs] /\ associated \in [Events -> SUBSET Jobs]
          /\ events \subseteq Events
      BY <1>4
    <2>8. Len(outcome) <= MaxAppends /\ DOMAIN commandIdMap = MutableLists
      BY <1>4, <1>5, <2>2
    <2> QED
      BY <1>2, <1>3, <2>1, <2>3, <2>4, <2>5, <2>6, <2>7, <2>8 DEF Shape
  <1>11. JobsHeld
    <2>1. \A e \in Events : associated[e] = {}
      BY <1>4
    <2> QED
      BY <1>7, <1>8, <2>1 DEF JobsHeld
  <1>12. Calls /\ Apps /\ Hpis
    BY <1>5, <1>6, <1>7 DEF Calls, Apps, Hpis
  <1>13. Order
    BY <1>6, <1>7, EmptyRun DEF Order, NoRun
  <1>14. Device
    BY <1>8 DEF Device
  <1>15. Outcomes
    BY <1>3, <1>5, <1>7 DEF Outcomes, Lists
  <1>16. EventsNamed
    BY <1>5, <1>6, <1>7 DEF EventsNamed
  <1>17. Ids
    BY <1>5, <1>9 DEF Ids, IdsOf
  <1>18. Phases
    BY <1>3, <1>7 DEF Phases, Lists
  <1> QED
    BY <1>10, <1>11, <1>12, <1>13, <1>14, <1>15, <1>16, <1>17, <1>18 DEF ListsInv

\* A step that leaves a list its job and the jobs their phases.
LEMMA SamePhases ==
  ASSUME Phases, vpuJob' = vpuJob, phase' = phase PROVE Phases'
  BY DEF Phases

\* Every action keeps the invariant.
LEMMA NextPhases ==
  ASSUME ListsInv, Phases, Next PROVE ListsInv' /\ Phases'
  <1>1. Shape /\ JobsHeld
    BY DEF ListsInv
  <1>2. /\ vpuJob \in [Lists -> Jobs] /\ phase \in [Jobs -> {"open", "dirty", "closed"}]
        /\ \A l \in ImmediateLists : l \in Lists
    BY <1>1 DEF Shape, Lists
  <1>3. ASSUME NEW l, KeepStep(l) PROVE Phases'
    <2>1. Kept(l)
      BY <1>1, <1>3, KeptOf
    <2> QED
      BY <1>2, <2>1 DEF Kept, Phases
  <1>4. ASSUME NEW l \in Lists, NEW op \in Ops, NEW waits \in WaitLists,
               NEW e \in events \cup {None}, AppendCall(l, op, waits, e)
        PROVE  ListsInv' /\ Phases'
    BY <1>4, AppendCallKeeps, SamePhases DEF AppendCall
  <1>5. ASSUME NEW l \in Lists, AppendToList(l) PROVE ListsInv' /\ Phases'
    BY <1>5, AppendToListKeeps, SamePhases DEF AppendToList
  <1>6. ASSUME NEW l \in Lists, ImmediateCheck(l) PROVE ListsInv' /\ Phases'
    BY <1>3, <1>6, ImmediateCheckKeeps
  <1>7. ASSUME NEW l \in Lists, ImmediateFails(l) PROVE ListsInv' /\ Phases'
    BY <1>7, ImmediateFailsKeeps, SamePhases DEF ImmediateFails
  <1>8. ASSUME NEW l \in Lists, ImmediateExecute(l) PROVE ListsInv' /\ Phases'
    <2>1. /\ phase' = [phase EXCEPT ![vpuJob[l]] = "closed"] /\ FreeJobs # {}
          /\ vpuJob' = [vpuJob EXCEPT ![l] = NewJob] \/ vpuJob' = vpuJob
      BY <1>8 DEF ImmediateExecute
    <2>2. NewJob \in Jobs /\ phase[NewJob] = "open"
      BY <1>1, <2>1, NewJobIsFree DEF JobsHeld
    <2>3. \A j \in Jobs : phase'[j] = phase[j] \/ phase'[j] = "closed"
      BY <1>2, <2>1
    <2>4. \A m \in ImmediateLists : vpuJob'[m] = vpuJob[m] \/ vpuJob'[m] = NewJob
      BY <1>2, <2>1
    <2>5. Phases'
      BY <1>2, <2>2, <2>3, <2>4 DEF Phases
    <2> QED
      BY <1>8, <2>5, ImmediateExecuteKeeps
  <1>9. ASSUME NEW l \in Lists, Close(l) PROVE ListsInv' /\ Phases'
    <2>1. /\ l \in RegularLists /\ vpuJob' = vpuJob
          /\ phase' = [phase EXCEPT ![vpuJob[l]] = "closed"] \/ phase' = [phase EXCEPT ![vpuJob[l]] = "dirty"]
      BY <1>9 DEF Close
    <2>2. \A m \in ImmediateLists : vpuJob[m] \in Jobs /\ vpuJob[m] # vpuJob[l]
      BY <1>1, <1>2, <2>1, JobsOfLists, ParametersAssumption
    <2>3. \A j \in Jobs : j # vpuJob[l] => phase'[j] = phase[j]
      BY <1>2, <2>1
    <2>4. Phases'
      BY <2>1, <2>2, <2>3 DEF Phases
    <2> QED
      BY <1>9, <2>4, CloseKeeps
  <1>10. ASSUME NEW l \in Lists, Execute(l) PROVE ListsInv' /\ Phases'
    BY <1>10, ExecuteKeeps, SamePhases DEF Execute
  <1>11. ASSUME NEW l \in Lists, Reset(l) PROVE ListsInv' /\ Phases'
    BY <1>3, <1>11, ResetKeeps
  <1>12. ASSUME NEW l \in Lists, ImmediateSynchronize(l) PROVE ListsInv' /\ Phases'
    BY <1>3, <1>12, ImmediateSynchronizeKeeps
  <1>13. CASE QueueSynchronize
    BY <1>3, <1>13, QueueSynchronizeKeeps
  <1>14. ASSUME NEW e \in Events, CreateEvent(e) PROVE ListsInv' /\ Phases'
    BY <1>14, CreateEventKeeps, SamePhases DEF CreateEvent, EventCall
  <1>15. ASSUME NEW e \in Events, DestroyEvent(e) PROVE ListsInv' /\ Phases'
    BY <1>15, DestroyEventKeeps, SamePhases DEF DestroyEvent, EventCall
  <1>16. ASSUME NEW e \in Events, hostSignal(e) \/ hostReset(e) PROVE ListsInv' /\ Phases'
    <2>1. PICK state \in EventStates : HostSetEvent(e, state)
      BY <1>16 DEF hostSignal, hostReset, EventStates
    <2> QED
      BY <2>1, HostSetEventKeeps, SamePhases DEF HostSetEvent, EventCall
  <1>17. ASSUME NEW j \in Running, NEW i \in DOMAIN device[j].cmds, DeviceStep(j, i)
         PROVE  ListsInv' /\ Phases'
    BY <1>17, DeviceStepKeeps, SamePhases DEF DeviceStep
  <1>18. ASSUME NEW j \in Running, Abort(j) PROVE ListsInv' /\ Phases'
    BY <1>18, AbortKeeps, SamePhases DEF Abort
  <1> QED
    BY <1>4, <1>5, <1>6, <1>7, <1>8, <1>9, <1>10, <1>11, <1>12, <1>13, <1>14, <1>15, <1>16,
       <1>17, <1>18 DEF Next

\* So does a step that changes nothing.
LEMMA StutterKeeps ==
  ASSUME ListsInv, Phases, UNCHANGED vars PROVE ListsInv' /\ Phases'
  <1>1. DeviceMoves
    <2>1. Shape /\ Order
      BY DEF ListsInv
    <2>2. Running' = Running
      BY DEF vars, Running
    <2> QED
      BY <2>1, <2>2 DEF vars, DeviceMoves, Shape, Order
  <1>2. Phases'
    BY DEF vars, Phases
  <1> QED
    BY <1>1, <1>2, DeviceMovesKeeps

\* What the theorems below use of the lists, their jobs and the device.
THEOREM ListsInvariant == Spec => [](ListsInv /\ Phases)
  <1>1. Init => ListsInv /\ Phases
    BY InitialState
  <1>2. ListsInv /\ Phases /\ [Next]_vars => (ListsInv /\ Phases)'
    BY NextPhases, StutterKeeps
  <1> QED
    BY <1>1, <1>2, PTL DEF Spec

-----------------------------------------------------------------------------
(* The properties.                                                         *)

\* The state keeps its types: every list has a job of its own, and every command was
\* pushed by an append call.
THEOREM ListTypesCorrect == Spec => []TypeOK
  <1>1. ASSUME Shape PROVE TypeOK
    <2>1. \A j \in Jobs : Range(commands[j]) \subseteq CommandSet
      BY <1>1, CommandsOf DEF Range
    <2>2. Range(outcome) \subseteq {"open", "ok", "error"}
      <3>1. outcome \in Seq({"open", "ok", "error"})
        BY <1>1 DEF Shape
      <3>2. \A i \in DOMAIN outcome : outcome[i] \in {"open", "ok", "error"}
        BY <3>1, LenProperties, ElementOfSeq
      <3> QED
        BY <3>2 DEF Range
    <2> QED
      BY <1>1, <2>1, <2>2 DEF Shape, TypeOK
  <1>2. ListsInv /\ Phases => TypeOK
    BY <1>1 DEF ListsInv
  <1> QED
    BY <1>2, ListsInvariant, PTL

\* updateMutableCommands: the id of an inference leads to that inference, if no list is
\* reset after an inference with wait events.
THEOREM IdsNameCommands ==
  ASSUME "remutate" \in Avoid PROVE Spec => []IdNamesItsCommand
  <1>1. ListsInv /\ Phases => IdNamesItsCommand
    BY DEF ListsInv, Ids, IdsOf, IdNamesItsCommand, Resolve
  <1> QED
    BY <1>1, ListsInvariant, PTL

\* A set without two elements.
LEMMA AtMostOne ==
  ASSUME NEW S, \A a, b \in S : a = b PROVE Cardinality(S) <= 1
  <1>1. CASE S = {}
    BY <1>1, FS_EmptySet
  <1>2. CASE S # {}
    <2>1. PICK a \in S : TRUE
      BY <1>2
    <2>2. S = {a}
      BY <2>1
    <2>3. Cardinality({a}) = 1
      BY FS_Singleton
    <2> QED
      BY <2>2, <2>3
  <1> QED
    BY <1>1, <1>2

\* acquire: a parsed inference belongs to one command, if the kernel takes all the
\* buffers of a job or none.
THEOREM InferencesNotShared ==
  ASSUME "midway" \in Avoid PROVE Spec => []HpiExclusive
  <1>1. ASSUME ListsInv PROVE HpiExclusive
    <2> DEFINE ofJob(h, j) == {<<j, i>> : i \in {k \in DOMAIN commands[j] : commands[j][k].hpi = h}}
               ofDevice(h, j) == {<<j, i>> : i \in {k \in DOMAIN device[j].cmds \ device[j].done :
                                                        device[j].cmds[k].hpi = h}}
               users(h) == (UNION {ofJob(h, j) : j \in HeldJobs})
                           \cup (UNION {ofDevice(h, j) : j \in Running})
    <2>1. Shape /\ Hpis /\ Device
      BY <1>1 DEF ListsInv
    <2>2. HeldJobs \subseteq Jobs /\ Running \subseteq Jobs
      BY <2>1, JobsOfLists
    <2>3. \A j \in Running : device[j].cmds = commands[j]
      BY <1>1, <2>1 DEF Device
    <2>4. ASSUME NEW h \in 1 .. MaxAppends, NEW u, u \in users(h)
          PROVE  \E j \in Jobs : \E i \in DOMAIN commands[j] : u = <<j, i>> /\ commands[j][i].hpi = h
      <3>1. CASE \E j \in HeldJobs : \E i \in DOMAIN commands[j] : u = <<j, i>> /\ commands[j][i].hpi = h
        BY <2>2, <3>1
      <3>2. CASE \E j \in Running : \E i \in DOMAIN device[j].cmds :
                     u = <<j, i>> /\ device[j].cmds[i].hpi = h
        BY <2>2, <2>3, <3>2
      <3>3. (\E j \in HeldJobs : u \in ofJob(h, j)) \/ (\E j \in Running : u \in ofDevice(h, j))
        <4> HIDE DEF ofJob, ofDevice
        <4> QED
          BY <2>4
      <3> QED
        BY <3>1, <3>2, <3>3
    <2>5. ASSUME NEW h \in 1 .. MaxAppends, NEW u \in users(h), NEW v \in users(h) PROVE u = v
      <3> HIDE DEF users
      <3>1. PICK j \in Jobs : \E i \in DOMAIN commands[j] : u = <<j, i>> /\ commands[j][i].hpi = h
        BY <2>4
      <3>2. PICK i \in DOMAIN commands[j] : u = <<j, i>> /\ commands[j][i].hpi = h
        BY <3>1
      <3>3. PICK k \in Jobs : \E m \in DOMAIN commands[k] : v = <<k, m>> /\ commands[k][m].hpi = h
        BY <2>4
      <3>4. PICK m \in DOMAIN commands[k] : v = <<k, m>> /\ commands[k][m].hpi = h
        BY <3>3
      <3>5. h # 0
        BY ParametersAssumption
      <3>6. j = k /\ i = m
        BY <2>1, <3>2, <3>4, <3>5 DEF Hpis
      <3> QED
        BY <3>2, <3>4, <3>6
    <2>6. \A h \in 1 .. MaxAppends : Cardinality(users(h)) <= 1
      <3> HIDE DEF users
      <3> QED
        BY <2>5, AtMostOne
    <2> QED
      BY <2>6 DEF HpiExclusive
  <1>2. ListsInv /\ Phases => HpiExclusive
    BY <1>1
  <1> QED
    BY <1>2, ListsInvariant, PTL

\* ImmediateCommandList: one submission of an immediate list runs at a time, and no
\* command of a call that returned success is still to be submitted.
THEOREM ImmediateListsInOrder ==
  ASSUME "midway" \in Avoid PROVE Spec => []ImmediateInOrder
  <1>1. ASSUME ListsInv PROVE ImmediateInOrder
    <2> SUFFICES ASSUME NEW l \in ImmediateLists
                 PROVE  /\ Cardinality({j \in Running : device[j].list = l}) <= 1
                        /\ \A c \in Range(commands[vpuJob[l]]) : outcome[c.app] # "ok"
      BY DEF ImmediateInOrder
    <2>1. Device /\ Outcomes
      BY <1>1 DEF ListsInv
    <2>2. \A j, k \in Running : device[j].list = l /\ device[k].list = l => j = k
      BY <1>1, <2>1 DEF Device
    <2>3. \A a, b \in {j \in Running : device[j].list = l} : a = b
      BY <2>2
    <2>4. Cardinality({j \in Running : device[j].list = l}) <= 1
      BY <2>3, AtMostOne
    <2>5. \A c \in Range(commands[vpuJob[l]]) : outcome[c.app] # "ok"
      BY <2>1 DEF Outcomes, Range
    <2> QED
      BY <2>4, <2>5
  <1>2. ListsInv /\ Phases => ImmediateInOrder
    BY <1>1
  <1> QED
    BY <1>2, ListsInvariant, PTL

\* Event::hostSynchronize: every job that will still signal an event is among those it
\* waits for, if no event goes that a list names and the kernel takes a job whole.
THEOREM EventsKnowTheirJobs ==
  ASSUME "midway" \in Avoid, "recreate" \in Avoid PROVE Spec => []EventKnowsItsJobs
  <1>1. ASSUME ListsInv PROVE EventKnowsItsJobs
    <2> SUFFICES ASSUME NEW e \in events, NEW j \in Running, NEW i \in DOMAIN device[j].cmds,
                        device[j].cmds[i].kind = "signal", device[j].cmds[i].event = e
                 PROVE  j \in associated[e] /\ j \in HeldJobs
      BY DEF EventKnowsItsJobs, WaitedFor
    <2>1. Shape /\ Device /\ EventsNamed
      BY <1>1 DEF ListsInv
    <2>2. /\ j \in Jobs /\ device[j].cmds = commands[j] /\ device[j].list \in Lists
          /\ j \in trackedJobs[QueueOf(device[j].list)]
      BY <1>1, <2>1 DEF Device, Running
    <2>3. j \in associated[e]
      BY <1>1, <2>1, <2>2 DEF EventsNamed
    <2>4. QueueOf(device[j].list) \in Queues
      BY <2>2 DEF QueueOf, Queues
    <2>5. j \in HeldJobs
      BY <2>1, <2>2, <2>4, JobsOfLists
    <2> QED
      BY <2>3, <2>5
  <1>2. ListsInv /\ Phases => EventKnowsItsJobs
    BY <1>1
  <1> QED
    BY <1>2, ListsInvariant, PTL

\* Events: when the signal of a call completes, all its commands have, and none of the
\* others completes before a wait of its call; if no copy of several rows signals.
THEOREM EventsOrderCalls ==
  ASSUME "region" \in Avoid PROVE Spec => []EventsOrderWork
  <1>1. ASSUME ListsInv PROVE EventsOrderWork
    <2> SUFFICES ASSUME NEW j \in Running, NEW i \in device[j].done
                 PROVE  LET cmds == device[j].cmds
                            mine == {k \in DOMAIN cmds : cmds[k].app = cmds[i].app}
                        IN  /\ cmds[i].kind = "signal" => mine \subseteq device[j].done
                            /\ cmds[i].kind # "wait" => \A k \in mine : cmds[k].kind = "wait" =>
                                   \E w \in mine \cap device[j].done : cmds[w] = cmds[k]
      BY DEF EventsOrderWork
    <2> DEFINE cmds == device[j].cmds
               done == device[j].done
               mine == {k \in DOMAIN cmds : cmds[k].app = cmds[i].app}
    <2>1. Shape /\ Order /\ j \in Jobs
      BY <1>1 DEF ListsInv, Running
    <2>2. WaitsFirst(cmds) /\ SignalsLast(cmds) /\ i \in DOMAIN cmds
      BY <2>1 DEF Order, Ordered, Shape
    <2>3. DOMAIN cmds = 1 .. Len(cmds) /\ Len(cmds) \in Nat
      BY <2>1, CommandsOf
    <2>4. (IF cmds[i].kind \in {"signal", "reset"} THEN 1 .. i - 1 ELSE Fences(cmds) \cap (1 .. i - 1))
             \subseteq done
      BY <2>1 DEF Order
    <2>5. i \in done
      OBVIOUS
    <2> HIDE DEF cmds, done
    <2>6. ASSUME cmds[i].kind = "signal", NEW k \in mine PROVE k \in done
      <3>1. k \in DOMAIN cmds /\ k <= i
        BY <2>2, <2>6 DEF SignalsLast
      <3>2. k = i \/ k \in 1 .. i - 1
        BY <2>2, <2>3, <3>1
      <3> QED
        BY <2>4, <2>5, <2>6, <3>2
    <2>7. ASSUME cmds[i].kind # "wait", NEW k \in mine, cmds[k].kind = "wait"
          PROVE  \E w \in mine \cap done : cmds[w] = cmds[k]
      <3>1. PICK w \in DOMAIN cmds : w <= i /\ cmds[w] = cmds[k]
        BY <2>2, <2>7 DEF WaitsFirst
      <3>2. w \in mine /\ w \in Fences(cmds)
        BY <2>7, <3>1 DEF Fences
      <3>3. w # i
        BY <2>7, <3>1
      <3>4. w \in 1 .. i - 1
        BY <2>2, <2>3, <3>1, <3>3
      <3>5. w \in done
        BY <2>4, <3>2, <3>4
      <3> QED
        BY <3>1, <3>2, <3>5
    <2> QED
      BY <2>6, <2>7 DEF cmds, done
  <1>2. ListsInv /\ Phases => EventsOrderWork
    BY <1>1
  <1> QED
    BY <1>2, ListsInvariant, PTL

\* What goes to the device is the beginning of the commands submitted.
LEMMA SubmittedFrom ==
  ASSUME Shape, NEW l \in Lists, NEW cmds \in Seq(CommandSet), NEW n \in Accepted(cmds),
         Submitted(l, vpuJob[l], cmds, n),
         NEW j \in Jobs, j \notin Running, NEW i \in DOMAIN device'[j].cmds
  PROVE  j = vpuJob[l] /\ \E k \in DOMAIN cmds : device'[j].cmds[i] = cmds[k]
  <1> DEFINE run == [list |-> l, cmds |-> SubSeq(cmds, 1, n), done |-> {}]
             v == vpuJob[l]
  <1>1. n \in 0 .. Len(cmds)
    BY LenProperties DEF Accepted, BufferEnds
  <1>2. /\ DOMAIN SubSeq(cmds, 1, n) = 1 .. n /\ 1 .. n \subseteq DOMAIN cmds
        /\ \A k \in 1 .. n : SubSeq(cmds, 1, n)[k] = cmds[k]
    BY <1>1, Prefix
  <1>3. device' = IF n = 0 THEN device ELSE [device EXCEPT ![v] = run]
    BY DEF Submitted
  <1>4. device[j].cmds = <<>> /\ DOMAIN <<>> = {}
    BY EmptyRun DEF Running
  <1>5. DOMAIN device = Jobs
    BY DEF Shape
  <1>6. run.cmds = SubSeq(cmds, 1, n)
    OBVIOUS
  <1> HIDE DEF run, v
  <1>7. device'[j] # device[j]
    BY <1>4
  <1>8. j = v /\ device'[j] = run
    BY <1>3, <1>5, <1>7
  <1> QED
    BY <1>2, <1>6, <1>8 DEF v

\* Nothing of an append that returned an error is submitted, if such a list is reset
\* before it is used again.
THEOREM RejectedStayOut ==
  ASSUME "leftover" \in Avoid PROVE Spec => RejectedNeverSubmitted
  <1> DEFINE A == \A j \in Jobs : j \notin Running =>
                     \A c \in Range(device'[j].cmds) : outcome[c.app] # "error"
  <1>1. ASSUME ListsInv, device' = device PROVE A
    <2>1. \A j \in Jobs : j \notin Running => Range(device[j].cmds) = {}
      BY EmptyRun DEF Running, Range
    <2> QED
      BY <1>1, <2>1
  <1>2. ASSUME ListsInv, NEW k \in Running, NEW run, device' = [device EXCEPT ![k] = run] PROVE A
    <2>1. DOMAIN device = Jobs /\ k \in Jobs
      BY <1>2 DEF ListsInv, Shape, Running
    <2>2. \A j \in Jobs : j \notin Running => Range(device[j].cmds) = {}
      BY EmptyRun DEF Running, Range
    <2>3. \A j \in Jobs : j \notin Running => device'[j] = device[j]
      BY <1>2, <2>1
    <2> QED
      BY <2>2, <2>3
  <1>3. ASSUME ListsInv, NEW l \in Lists, Execute(l) PROVE A
    <2>1. /\ l \in RegularLists /\ phase[vpuJob[l]] = "closed"
          /\ \E n \in Accepted(commands[vpuJob[l]]) : Submitted(l, vpuJob[l], commands[vpuJob[l]], n)
      BY <1>3 DEF Execute
    <2>2. Shape /\ Outcomes /\ vpuJob[l] \in Jobs
      BY <1>3, JobsOfLists DEF ListsInv
    <2>3. commands[vpuJob[l]] \in Seq(CommandSet)
      BY <2>2, CommandsOf
    <2>4. \A k \in DOMAIN commands[vpuJob[l]] : outcome[commands[vpuJob[l]][k].app] # "error"
      BY <2>1, <2>2, ParametersAssumption DEF Outcomes
    <2> SUFFICES ASSUME NEW j \in Jobs, j \notin Running, NEW i \in DOMAIN device'[j].cmds
                 PROVE  outcome[device'[j].cmds[i].app] # "error"
      BY DEF Range
    <2>5. PICK n \in Accepted(commands[vpuJob[l]]) : Submitted(l, vpuJob[l], commands[vpuJob[l]], n)
      BY <2>1
    <2>6. \E k \in DOMAIN commands[vpuJob[l]] : device'[j].cmds[i] = commands[vpuJob[l]][k]
      BY <2>2, <2>3, <2>5, SubmittedFrom
    <2> QED
      BY <2>4, <2>6
  <1>4. ASSUME ListsInv, NEW l \in Lists, ImmediateExecute(l) PROVE A
    <2> DEFINE c == call[l]
               w == RoundWork(c)
               cmds == commands[vpuJob[l]] \o w
    <2>1. /\ l \in ImmediateLists /\ InCallOf(l) /\ c.pc = "push"
          /\ \E n \in Accepted(cmds) : Submitted(l, vpuJob[l], cmds, n)
      BY <1>4 DEF ImmediateExecute, InCallOf
    <2>2. /\ Shape /\ JobsHeld /\ Calls /\ Apps /\ Hpis /\ Outcomes /\ vpuJob[l] \in Jobs
          /\ CallBy(l, c)
      BY <1>4, <2>1, JobsOfLists DEF ListsInv, Calls
    <2>3. w \in Seq(CommandSet) /\ \A k \in DOMAIN w : w[k].app = c.app
      <3>1. WorkFor(c, RoundWork(c))
        BY <2>1, <2>2, WorkOf
      <3> HIDE DEF c
      <3> QED
        BY <3>1 DEF WorkFor
    <2>4. commands[vpuJob[l]] \in Seq(CommandSet)
      BY <2>2, CommandsOf
    <2> HIDE DEF w
    <2>5. /\ cmds \in Seq(CommandSet)
          /\ \A k \in DOMAIN cmds : \/ \E m \in DOMAIN commands[vpuJob[l]] : cmds[k] = commands[vpuJob[l]][m]
                                    \/ \E m \in DOMAIN w : cmds[k] = w[m]
      <3> DEFINE s == commands[vpuJob[l]]
      <3>1. s \in Seq(CommandSet)
        BY <2>4
      <3> HIDE DEF s
      <3>2. /\ s \o w \in Seq(CommandSet)
            /\ \A i \in DOMAIN s : (s \o w)[i] = s[i]
            /\ \A i \in DOMAIN w : (s \o w)[Len(s) + i] = w[i]
            /\ \A i \in DOMAIN (s \o w) : i \in DOMAIN s \/ \E k \in DOMAIN w : i = Len(s) + k
        BY <2>3, <3>1, Concatenation
      <3>3. \A k \in DOMAIN (s \o w) : \/ \E m \in DOMAIN s : (s \o w)[k] = s[m]
                                       \/ \E m \in DOMAIN w : (s \o w)[k] = w[m]
        BY <3>2
      <3> QED
        BY <3>2, <3>3 DEF s
    <2>6. phase[vpuJob[l]] = "open" /\ outcome[c.app] = "open"
      BY <2>1, <2>2 DEF CallBy
    <2>7. \A k \in DOMAIN commands[vpuJob[l]] : outcome[commands[vpuJob[l]][k].app] # "error"
      BY <2>1, <2>2, <2>6 DEF Outcomes
    <2> HIDE DEF cmds, c
    <2>8. \A k \in DOMAIN cmds : outcome[cmds[k].app] # "error"
      <3> SUFFICES ASSUME NEW k \in DOMAIN cmds PROVE outcome[cmds[k].app] # "error"
        OBVIOUS
      <3>1. CASE \E m \in DOMAIN commands[vpuJob[l]] : cmds[k] = commands[vpuJob[l]][m]
        BY <2>7, <3>1
      <3>2. CASE \E m \in DOMAIN w : cmds[k] = w[m]
        <4>1. cmds[k].app = c.app
          BY <2>3, <3>2
        <4> QED
          BY <2>6, <4>1
      <3> QED
        BY <2>5, <3>1, <3>2
    <2> SUFFICES ASSUME NEW j \in Jobs, j \notin Running, NEW i \in DOMAIN device'[j].cmds
                 PROVE  outcome[device'[j].cmds[i].app] # "error"
      BY DEF Range
    <2>9. PICK n \in Accepted(cmds) : Submitted(l, vpuJob[l], cmds, n)
      BY <2>1
    <2>10. \E k \in DOMAIN cmds : device'[j].cmds[i] = cmds[k]
      BY <2>2, <2>5, <2>9, SubmittedFrom
    <2> QED
      BY <2>8, <2>10
  <1>5. ASSUME ListsInv, Next PROVE A
    <2> HIDE DEF A
    <2>1. ASSUME NEW l \in Lists,
                 \/ \E op \in Ops, waits \in WaitLists, e \in events \cup {None} :
                        AppendCall(l, op, waits, e)
                 \/ AppendToList(l) \/ ImmediateCheck(l) \/ ImmediateFails(l)
                 \/ Close(l) \/ Reset(l) \/ ImmediateSynchronize(l)
          PROVE  device' = device
      BY <2>1 DEF AppendCall, AppendToList, ImmediateCheck, ImmediateFails, Close, Reset,
                  ImmediateSynchronize
    <2>2. QueueSynchronize => device' = device
      BY DEF QueueSynchronize
    <2>3. ASSUME NEW e \in Events, CreateEvent(e) \/ DestroyEvent(e) \/ hostSignal(e) \/ hostReset(e)
          PROVE  device' = device
      BY <2>3 DEF CreateEvent, DestroyEvent, hostSignal, hostReset, HostSetEvent, EventCall
    <2>4. ASSUME NEW j \in Running, (\E i \in DOMAIN device[j].cmds : DeviceStep(j, i)) \/ Abort(j)
          PROVE  \E run : device' = [device EXCEPT ![j] = run]
      <3>1. \/ device' = [device EXCEPT ![j] = NoRun]
            \/ \E i : device' = [device EXCEPT ![j] = [device[j] EXCEPT !.done = device[j].done \cup {i}]]
        BY <2>4 DEF DeviceStep, Abort
      <3> QED
        BY <3>1
    <2> QED
      BY <1>1, <1>2, <1>3, <1>4, <1>5, <2>1, <2>2, <2>3, <2>4 DEF Next
  <1>6. ListsInv /\ Phases /\ [Next]_vars => [A]_vars
    BY <1>5
  <1> QED
    <2> HIDE DEF A
    <2>1. Spec => [][A]_vars
      BY <1>6, ListsInvariant, PTL DEF Spec
    <2> QED
      BY <2>1 DEF RejectedNeverSubmitted, A

================================================================================

--------------------------- MODULE Metrics_proofs ---------------------------
(***************************************************************************)
(* Metric groups, streamers and their events, for any number of contexts,  *)
(* groups and calls.  Types, the kernel's streamers and the invariant's    *)
(* first clauses hold for every application; the two records of activation *)
(* agree if "race" is avoided, and entries belong to living contexts if    *)
(* "destroy" is.                                                           *)
(***************************************************************************)
EXTENDS Metrics, FiniteSetTheorems, SequenceTheorems, WellFoundedInduction, TLAPS

\* A call that is under way has a group to look at, and its context is open.
CallsUnderWay ==
    \A c \in Contexts : call[c] # Idle =>
        /\ call[c].pc \in {"check", "commit"} /\ call[c].todo # <<>>
        /\ fd[c] # NoFd /\ c \in asked

\* An open context has a descriptor of its own, and only open ones have streamers.
Descriptors ==
    /\ \A c, d \in Contexts : fd[c] = fd[d] /\ fd[c] # NoFd => c = d
    /\ \A c \in Contexts, g \in Groups : fd[c] = NoFd => streamer[c][g] = -1

\* An event tracks the group of the streamer it was given to.
TracksItsStreamer == \A c \in Contexts : event[c].for.group = event[c].group

\* Only one context activates groups at a time, and what it found free to activate
\* is still free when it does.
OneActivation ==
    /\ \A c, d \in Contexts : call[c] # Idle /\ call[d] # Idle => c = d
    /\ \A c \in Contexts : call[c].pc = "commit" => MayActivate(c, Head(call[c].todo))

\* Entries are of contexts whose last call named groups.
ActivatorsAsked == \A x \in entries : x.by \in asked

\* The invariant: types, what it says of groups, and what it says of streamers.
GroupInv ==
    /\ CallsUnderWay
    /\ "race" \in Avoid => OneActivation /\ ActivationConsistent
    /\ "destroy" \in Avoid => ActivatorsAsked /\ ActivatorAlive

StreamInv == Descriptors /\ StreamersMatchKernel /\ TracksItsStreamer

MetricsInv == TypeOK /\ GroupInv /\ StreamInv

-----------------------------------------------------------------------------
\* A set of natural numbers has a least element: of the intervals that end in it, one
\* has no other inside.
LEMMA LeastNatural ==
  ASSUME NEW S \in SUBSET Nat, S # {}
  PROVE  Min(S) \in S
  <1> DEFINE T == {1..n : n \in S}
  <1>1. T \subseteq FiniteSubsetsOf(Nat)
    BY FS_Interval DEF FiniteSubsetsOf
  <1>2. PICK t \in T : \A u \in T : <<u, t>> \notin StrictSubsetOrdering(Nat)
    <2>1. T # {}
      OBVIOUS
    <2> HIDE DEF T
    <2> QED
      BY WFMin, FS_StrictSubsetOrderingWellFounded, <1>1, <2>1
  <1>3. PICK x \in S : t = 1..x
    OBVIOUS
  <1>4. \A y \in S : x <= y
    <2> SUFFICES ASSUME NEW y \in S, y < x PROVE FALSE
      OBVIOUS
    <2>1. 1..y \subseteq 1..x /\ x \in 1..x /\ x \notin 1..y
      OBVIOUS
    <2>2. <<1..y, 1..x>> \in StrictSubsetOrdering(Nat)
      BY <2>1 DEF StrictSubsetOrdering
    <2> QED
      BY <1>2, <1>3, <2>2
  <1> QED
    BY <1>4 DEF Min

\* The smaller of two and of three integers.
LEMMA MinOfTwo ==
  ASSUME NEW a \in Int, NEW b \in Int
  PROVE  Min({a, b}) \in {a, b} /\ Min({a, b}) <= a /\ Min({a, b}) <= b
  <1>1. \E x \in {a, b} : \A y \in {a, b} : x <= y
    OBVIOUS
  <1> QED
    BY <1>1 DEF Min

LEMMA MinOfThree ==
  ASSUME NEW a \in Int, NEW b \in Int, NEW d \in Int
  PROVE  /\ Min({a, b, d}) \in {a, b, d}
         /\ Min({a, b, d}) <= a /\ Min({a, b, d}) <= b /\ Min({a, b, d}) <= d
  <1>1. \E x \in {a, b, d} : \A y \in {a, b, d} : x <= y
    OBVIOUS
  <1> QED
    BY <1>1 DEF Min

\* While a context is closed the kernel has a descriptor left: there are as many as
\* contexts, and the other contexts cannot use them all.
LEMMA DescriptorLeft ==
  ASSUME TypeOK, NEW c \in Contexts, fd[c] = NoFd
  PROVE  Min(Fds \ Range(fd)) \in Fds \ Range(fd)
  <1> DEFINE n    == Cardinality(Contexts)
             user == [f \in Fds |-> CHOOSE d \in Contexts : fd[d] = f]
  <1>1. n \in Nat /\ IsFiniteSet(Contexts) /\ n # 0
    BY ParametersAssumption, FS_CardinalityType, FS_EmptySet
  <1>2. IsFiniteSet(Fds) /\ Cardinality(Fds) = n
    BY <1>1, FS_Interval DEF Fds
  <1>3. IsFiniteSet(Contexts \ {c}) /\ Cardinality(Contexts \ {c}) < Cardinality(Fds)
    <2>1. Cardinality(Contexts \ {c}) = Cardinality(Contexts) - 1 /\ IsFiniteSet(Contexts \ {c})
      BY <1>1, FS_RemoveElement
    <2> QED
      BY <1>1, <1>2, <2>1
  <1>4. ASSUME Fds \subseteq Range(fd) PROVE FALSE
    <2>1. \A f \in Fds : user[f] \in Contexts /\ fd[user[f]] = f
      BY <1>4 DEF Range, TypeOK
    <2>2. user \in [Fds -> Contexts \ {c}]
      BY <2>1 DEF Fds, NoFd
    <2> HIDE DEF user
    <2>3. PICK f, g \in Fds : f # g /\ user[f] = user[g]
      BY <1>2, <1>3, <2>2, FS_PigeonHole
    <2> QED
      BY <2>1, <2>3
  <1>5. Fds \ Range(fd) \in SUBSET Nat /\ Fds \ Range(fd) # {}
    BY <1>1, <1>4 DEF Fds
  <1> QED
    BY <1>5, LeastNatural

\* The lists of groups are sequences.
LEMMA GroupListsAreSequences == GroupLists \subseteq Seq(Groups)
  BY SMTT(20) DEF GroupLists, BoundedSeq, SeqOf

\* Head and tail of a list of groups.
LEMMA HeadAndTail ==
  ASSUME NEW s \in Seq(Groups), s # <<>>
  PROVE  /\ Head(s) \in Groups /\ Tail(s) \in Seq(Groups)
         /\ Len(s) # 1 => Tail(s) # <<>>
  <1>1. Head(s) \in Groups /\ Tail(s) \in Seq(Groups) /\ Len(Tail(s)) = Len(s) - 1
    BY HeadTailProperties
  <1>2. Len(s) \in Nat /\ Len(<<>>) = 0
    BY LenProperties, EmptySeq
  <1>3. ASSUME Tail(s) = <<>> PROVE Len(s) = 1
    <2>1. Len(Tail(s)) = 0
      BY <1>2, <1>3
    <2>2. \A n \in Nat : 0 = n - 1 => n = 1
      OBVIOUS
    <2> QED
      BY <1>1, <1>2, <2>1, <2>2, Zenon
  <1> QED
    BY <1>1, <1>3

\* What comes after the group a call looks at.
LEMMA NextGroupType ==
  ASSUME TypeOK, NEW c \in Contexts, call[c].todo # <<>>
  PROVE  /\ Head(call[c].todo) \in Groups
         /\ NextGroup(c) \in [todo : Seq(Groups), pc : {"idle", "check", "commit"}]
         /\ NextGroup(c).pc # "commit"
         /\ NextGroup(c) # Idle => NextGroup(c).pc = "check" /\ NextGroup(c).todo # <<>>
  <1>1. call[c].todo \in Seq(Groups)
    BY DEF TypeOK
  <1>2. /\ Head(call[c].todo) \in Groups /\ Tail(call[c].todo) \in Seq(Groups)
        /\ Len(call[c].todo) # 1 => Tail(call[c].todo) # <<>>
    BY <1>1, HeadAndTail
  <1> QED
    BY <1>2 DEF NextGroup, Idle

-----------------------------------------------------------------------------
\* Initially there is no context, and nothing is activated or streamed.
LEMMA InitMetrics == Init => MetricsInv
  <1> SUFFICES ASSUME Init PROVE MetricsInv
    OBVIOUS
  <1> USE ParametersAssumption DEF Init
  <1>1. TypeOK
    BY EmptySeq DEF TypeOK, Fds, NoFd, None, Idle, NoTrack, NoStreamer
  <1>2. GroupInv
    BY DEF GroupInv, CallsUnderWay, OneActivation, Idle, ActivationConsistent, ActivatorsAsked,
           ActivatorAlive
  <1>3. StreamInv
    BY DEF StreamInv, Descriptors, NoFd, StreamersMatchKernel, TracksItsStreamer, NoTrack, NoStreamer
  <1> QED
    BY <1>1, <1>2, <1>3 DEF MetricsInv

\* What the invariant says of groups depends on descriptors and groups only.
LEMMA GroupsKept ==
  ASSUME GroupInv, UNCHANGED <<fd, groupVars>>
  PROVE  GroupInv'
  BY DEF GroupInv, CallsUnderWay, OneActivation, MayActivate, ActivationConsistent, ActivatorsAsked,
         ActivatorAlive, groupVars

\* What it says of streamers depends on descriptors, streamers and what events track.
LEMMA StreamsKept ==
  ASSUME StreamInv, UNCHANGED <<fd, streamer, stream>>,
         \A c \in Contexts : event'[c].for.group = event'[c].group
  PROVE  StreamInv'
  BY DEF StreamInv, Descriptors, StreamersMatchKernel, TracksItsStreamer

\* A call of a context: it is open, and the call is counted.
LEMMA CallEffect ==
  ASSUME TypeOK, NEW c \in Contexts, Call(c)
  PROVE  fd[c] \in Fds /\ fd[c] # NoFd /\ call[c] = Idle /\ calls' \in 0 .. MaxCalls
  BY ParametersAssumption DEF TypeOK, Call

\* A new context has the lowest free descriptor; nothing runs for it yet.
LEMMA CreateContextKeeps ==
  ASSUME MetricsInv, NEW c \in Contexts, CreateContext(c)
  PROVE  MetricsInv'
  <1> USE DEF CreateContext, MetricsInv
  <1>1. fd[c] = NoFd /\ Min(Fds \ Range(fd)) \in Fds \ Range(fd)
    BY DescriptorLeft
  <1>2. /\ fd' = [fd EXCEPT ![c] = Min(Fds \ Range(fd))]
        /\ fd'[c] \in Fds /\ fd'[c] \notin Range(fd) /\ fd'[c] # NoFd
        /\ \A d \in Contexts \ {c} : fd'[d] = fd[d]
    BY <1>1 DEF TypeOK, Fds, NoFd
  <1>3. TypeOK'
    <2>1. fd' \in [Contexts -> Fds \cup {NoFd}]
      BY <1>2 DEF TypeOK
    <2>2. calls' \in 0 .. MaxCalls
      BY ParametersAssumption DEF TypeOK
    <2> QED
      BY <2>1, <2>2 DEF TypeOK, groupVars, queryVars, streamVars
  <1>4. GroupInv'
    <2>1. CallsUnderWay'
      BY <1>1, <1>2 DEF GroupInv, CallsUnderWay, groupVars
    <2>2. ("race" \in Avoid => OneActivation /\ ActivationConsistent)'
      BY DEF GroupInv, OneActivation, MayActivate, ActivationConsistent, groupVars
    <2>3. ("destroy" \in Avoid => ActivatorsAsked /\ ActivatorAlive)'
      <3>1. \A x \in entries : x.by \in Contexts /\ x.fd # NoFd
        BY DEF TypeOK, Fds, NoFd
      <3> QED
        BY <1>1, <1>2, <3>1 DEF GroupInv, ActivatorsAsked, ActivatorAlive, groupVars
    <2> QED
      BY <2>1, <2>2, <2>3 DEF GroupInv
  <1>5. StreamInv'
    <2>1. \A d \in Contexts \ {c} : fd'[d] # fd'[c]
      BY ZenonT(40), <1>2 DEF Range, TypeOK
    <2>2. Descriptors'
      BY <1>2, <2>1 DEF StreamInv, Descriptors, streamVars
    <2>3. StreamersMatchKernel'
      <3>1. ASSUME NEW d \in Contexts, NEW g \in Groups, fd'[d] # NoFd
            PROVE  streamer[d][g] # -1 <=> stream[fd'[d]][g] # -1
        BY <1>1, <1>2, <3>1 DEF StreamInv, StreamersMatchKernel, Descriptors
      <3>2. Fds \ Range(fd') \subseteq Fds \ Range(fd)
        BY <1>1, <1>2 DEF Range, TypeOK, Fds, NoFd
      <3>3. \A f \in Fds \ Range(fd'), g \in Groups : stream[f][g] = -1
        BY <3>2 DEF StreamInv, StreamersMatchKernel
      <3> QED
        BY <3>1, <3>3 DEF StreamersMatchKernel, streamVars
    <2> QED
      BY <2>2, <2>3 DEF StreamInv, TracksItsStreamer, streamVars
  <1> QED
    BY <1>3, <1>4, <1>5

\* A context that is destroyed stops its streamers; its entries stay, unless there
\* are none.
LEMMA DestroyContextKeeps ==
  ASSUME MetricsInv, NEW c \in Contexts, DestroyContext(c)
  PROVE  MetricsInv'
  <1> USE DEF DestroyContext, MetricsInv
  <1>1. fd[c] \in Fds /\ fd[c] # NoFd /\ call[c] = Idle /\ calls' \in 0 .. MaxCalls
    BY CallEffect
  <1>2. fd'[c] = NoFd /\ \A d \in Contexts \ {c} : fd'[d] = fd[d]
    BY DEF TypeOK
  <1>3. TypeOK'
    <2>1. fd' \in [Contexts -> Fds \cup {NoFd}]
      BY DEF TypeOK
    <2>2. asked' \subseteq Contexts /\ pool' \in [Contexts -> Groups \cup {None}]
      BY DEF TypeOK
    <2>3. queries' \in [Contexts -> SUBSET Slots]
      BY DEF TypeOK
    <2>4. [g \in Groups |-> -1] \in [Groups -> -1 .. MaxReady]
      BY ParametersAssumption
    <2>5. streamer' \in [Contexts -> [Groups -> -1 .. MaxReady]]
      BY <2>4 DEF TypeOK
    <2>6. stream' \in [Fds -> [Groups -> -1 .. MaxReady]]
      BY <1>1, <2>4 DEF TypeOK
    <2>7. event' \in [Contexts -> [group : Groups \cup {None}, expected : Nat, signalled : BOOLEAN,
                                  for : [group : Groups \cup {None}, opening : Nat]]]
      BY DEF TypeOK, NoTrack, NoStreamer
    <2> QED
      BY <1>1, <2>1, <2>2, <2>3, <2>5, <2>6, <2>7 DEF TypeOK
  <1>4. GroupInv'
    <2>1. CallsUnderWay'
      BY <1>1, <1>2 DEF GroupInv, CallsUnderWay
    <2>2. ("race" \in Avoid => OneActivation /\ ActivationConsistent)'
      BY DEF GroupInv, OneActivation, MayActivate, ActivationConsistent
    <2>3. ("destroy" \in Avoid => ActivatorsAsked /\ ActivatorAlive)'
      BY <1>2 DEF GroupInv, ActivatorsAsked, ActivatorAlive, TypeOK
    <2> QED
      BY <2>1, <2>2, <2>3 DEF GroupInv
  <1>5. StreamInv'
    <2>1. /\ \A d \in Contexts, g \in Groups : streamer'[d][g] = IF d = c THEN -1 ELSE streamer[d][g]
          /\ \A f \in Fds, g \in Groups : stream'[f][g] = IF f = fd[c] THEN -1 ELSE stream[f][g]
      BY <1>1 DEF TypeOK
    <2>2. Descriptors'
      BY <1>2, <2>1 DEF StreamInv, Descriptors
    <2>3. StreamersMatchKernel'
      <3>1. ASSUME NEW d \in Contexts, NEW g \in Groups, fd'[d] # NoFd
            PROVE  streamer'[d][g] # -1 <=> stream'[fd'[d]][g] # -1
        <4>1. d # c /\ fd'[d] = fd[d] /\ fd[d] # fd[c] /\ fd[d] \in Fds
          BY <1>2, <3>1 DEF StreamInv, Descriptors, TypeOK
        <4> QED
          BY <2>1, <3>1, <4>1 DEF StreamInv, StreamersMatchKernel
      <3>2. ASSUME NEW f \in Fds \ Range(fd'), NEW g \in Groups
            PROVE  stream'[f][g] = -1
        <4>1. f = fd[c] \/ f \notin Range(fd)
          BY <1>2 DEF Range, TypeOK
        <4> QED
          BY <2>1, <4>1 DEF StreamInv, StreamersMatchKernel
      <3> QED
        BY <3>1, <3>2 DEF StreamersMatchKernel
    <2>4. TracksItsStreamer'
      BY DEF StreamInv, TracksItsStreamer, TypeOK, NoTrack, NoStreamer
    <2> QED
      BY <2>2, <2>3, <2>4 DEF StreamInv
  <1> QED
    BY <1>3, <1>4, <1>5

\* activateMetricGroups first takes out what this descriptor has, and starts when no
\* other call is under way.
LEMMA ActivateKeeps ==
  ASSUME MetricsInv, NEW c \in Contexts, NEW groups \in GroupLists, ActivateMetricGroups(c, groups)
  PROVE  MetricsInv'
  <1> USE DEF ActivateMetricGroups, deactivateMetricGroups, MetricsInv
  <1>1. fd[c] \in Fds /\ fd[c] # NoFd /\ call[c] = Idle /\ calls' \in 0 .. MaxCalls
    BY CallEffect
  <1>2. /\ entries' = Others(fd[c]) /\ entries' \subseteq entries
        /\ activated' = activated \ {x.group : x \in entries \ Others(fd[c])}
    BY DEF Others
  <1>3. /\ groups \in Seq(Groups)
        /\ call' = IF groups = <<>> THEN call
                   ELSE [call EXCEPT ![c] = [todo |-> groups, pc |-> "check"]]
        /\ asked' = IF groups = <<>> THEN asked \ {c} ELSE asked \cup {c}
        /\ UNCHANGED <<fd, queryVars, streamVars>>
    BY GroupListsAreSequences
  <1> HIDE DEF ActivateMetricGroups, deactivateMetricGroups
  <1>4. TypeOK'
    <2>1. activated' \subseteq Groups /\ entries' \subseteq [group : Groups, fd : Fds, by : Contexts]
      BY <1>2 DEF TypeOK
    <2>2. call' \in [Contexts -> [todo : Seq(Groups), pc : {"idle", "check", "commit"}]]
      BY <1>3 DEF TypeOK
    <2>3. asked' \subseteq Contexts
      BY <1>3 DEF TypeOK
    <2> QED
      BY <1>1, <1>3, <2>1, <2>2, <2>3 DEF TypeOK, queryVars, streamVars
  <1>5. GroupInv'
    <2>1. \A d \in Contexts : call'[d] # Idle =>
              \/ call'[d] = call[d] /\ d # c
              \/ d = c /\ groups # <<>> /\ call'[d] = [todo |-> groups, pc |-> "check"]
      BY <1>1, <1>3 DEF TypeOK
    <2>2. CallsUnderWay'
      BY <1>1, <1>3, <2>1 DEF GroupInv, CallsUnderWay
    <2>3. ASSUME "race" \in Avoid PROVE (OneActivation /\ ActivationConsistent)'
      <3>1. \A d \in Contexts : call[d] = Idle
        BY <2>3 DEF ActivateMetricGroups
      <3>2. OneActivation'
        BY <2>1, <3>1 DEF OneActivation, Idle
      <3>3. ActivationConsistent
        BY <2>3 DEF GroupInv
      <3>4. \A x, y \in entries : x.group = y.group => x = y
        BY <3>3 DEF ActivationConsistent
      <3>5. activated' = {x.group : x \in entries'}
        BY <1>2, <3>3, <3>4 DEF ActivationConsistent, Others
      <3> QED
        BY <1>2, <3>2, <3>3, <3>5 DEF ActivationConsistent
    <2>4. ASSUME "destroy" \in Avoid PROVE (ActivatorsAsked /\ ActivatorAlive)'
      <3>1. ActivatorsAsked /\ ActivatorAlive
        BY <2>4 DEF GroupInv
      <3>2. \A x \in entries' : x \in entries /\ x.by # c
        BY <1>2, <3>1 DEF ActivatorAlive, Others
      <3> QED
        BY <1>3, <3>1, <3>2 DEF ActivatorsAsked, ActivatorAlive
    <2> QED
      BY <2>2, <2>3, <2>4 DEF GroupInv
  <1>6. StreamInv'
    BY <1>3, StreamsKept DEF StreamInv, TracksItsStreamer, streamVars
  <1> QED
    BY <1>4, <1>5, <1>6

\* The call looks at a group: free to activate it stays the next, else it is skipped.
LEMMA CheckGroupKeeps ==
  ASSUME MetricsInv, NEW c \in Contexts, CheckGroup(c)
  PROVE  MetricsInv'
  <1> USE DEF MetricsInv
  <1> DEFINE next == IF MayActivate(c, Head(call[c].todo)) THEN [call[c] EXCEPT !.pc = "commit"]
                     ELSE NextGroup(c)
  <1>1. /\ call[c].pc = "check" /\ call' = [call EXCEPT ![c] = next]
        /\ UNCHANGED <<fd, activated, entries, asked, queryVars, streamVars, calls>>
    BY DEF CheckGroup
  <1>2. call[c] # Idle /\ call[c].todo # <<>> /\ fd[c] # NoFd /\ c \in asked
    BY <1>1 DEF Idle, GroupInv, CallsUnderWay
  <1>3. /\ next \in [todo : Seq(Groups), pc : {"idle", "check", "commit"}]
        /\ next # Idle => next.pc \in {"check", "commit"} /\ next.todo # <<>>
        /\ next.pc = "commit" => next.todo = call[c].todo /\ MayActivate(c, Head(call[c].todo))
    BY <1>2, NextGroupType DEF TypeOK
  <1> HIDE DEF next
  <1>4. call'[c] = next /\ \A d \in Contexts \ {c} : call'[d] = call[d]
    BY <1>1 DEF TypeOK
  <1>5. TypeOK'
    BY <1>1, <1>3 DEF TypeOK, queryVars, streamVars
  <1>6. GroupInv'
    <2>1. CallsUnderWay'
      BY <1>1, <1>2, <1>3, <1>4 DEF GroupInv, CallsUnderWay
    <2>2. ASSUME "race" \in Avoid PROVE (OneActivation /\ ActivationConsistent)'
      <3>1. OneActivation /\ ActivationConsistent
        BY <2>2 DEF GroupInv
      <3>2. \A d \in Contexts \ {c} : call'[d] = Idle
        BY <1>2, <1>4, <3>1 DEF OneActivation
      <3>3. next.pc = "commit" => MayActivate(c, Head(next.todo))
        BY <1>3
      <3>4. (\A d \in Contexts : call[d].pc = "commit" => MayActivate(d, Head(call[d].todo)))'
        BY <1>1, <1>4, <3>2, <3>3 DEF MayActivate, Idle
      <3>5. OneActivation'
        BY <1>4, <3>2, <3>4 DEF OneActivation
      <3> QED
        BY <1>1, <3>1, <3>5 DEF ActivationConsistent
    <2>3. ("destroy" \in Avoid => ActivatorsAsked /\ ActivatorAlive)'
      BY <1>1 DEF GroupInv, ActivatorsAsked, ActivatorAlive
    <2> QED
      BY <2>1, <2>2, <2>3 DEF GroupInv
  <1>7. StreamInv'
    BY <1>1, StreamsKept DEF StreamInv, TracksItsStreamer, streamVars
  <1> QED
    BY <1>5, <1>6, <1>7

\* The call activates the group: nobody else was there since it looked.
LEMMA CommitGroupKeeps ==
  ASSUME MetricsInv, NEW c \in Contexts, CommitGroup(c)
  PROVE  MetricsInv'
  <1> USE DEF MetricsInv
  <1> DEFINE g == Head(call[c].todo)
             e == [group |-> g, fd |-> fd[c], by |-> c]
  <1>1. /\ call[c].pc = "commit" /\ call' = [call EXCEPT ![c] = NextGroup(c)]
        /\ activated' = activated \cup {g} /\ entries' = entries \cup {e}
        /\ UNCHANGED <<fd, asked, queryVars, streamVars, calls>>
    BY DEF CommitGroup
  <1>2. call[c] # Idle /\ call[c].todo # <<>> /\ fd[c] # NoFd /\ c \in asked /\ fd[c] \in Fds
    BY <1>1 DEF Idle, GroupInv, CallsUnderWay, TypeOK
  <1>3. /\ g \in Groups /\ NextGroup(c) \in [todo : Seq(Groups), pc : {"idle", "check", "commit"}]
        /\ NextGroup(c).pc # "commit"
        /\ NextGroup(c) # Idle => NextGroup(c).pc = "check" /\ NextGroup(c).todo # <<>>
    BY <1>2, NextGroupType
  <1> HIDE DEF g
  <1>4. call'[c] = NextGroup(c) /\ \A d \in Contexts \ {c} : call'[d] = call[d]
    BY <1>1 DEF TypeOK
  <1>5. TypeOK'
    <2>a. e \in [group : Groups, fd : Fds, by : Contexts]
      BY <1>2, <1>3
    <2>1. activated' \subseteq Groups /\ entries' \subseteq [group : Groups, fd : Fds, by : Contexts]
      <3> HIDE DEF e
      <3> QED
        BY <1>1, <1>3, <2>a DEF TypeOK
    <2>2. call' \in [Contexts -> [todo : Seq(Groups), pc : {"idle", "check", "commit"}]]
      BY <1>1, <1>3 DEF TypeOK
    <2> QED
      BY <1>1, <2>1, <2>2 DEF TypeOK, queryVars, streamVars
  <1>6. GroupInv'
    <2>1. CallsUnderWay'
      BY <1>1, <1>2, <1>3, <1>4 DEF GroupInv, CallsUnderWay
    <2>2. ASSUME "race" \in Avoid PROVE (OneActivation /\ ActivationConsistent)'
      <3>1. OneActivation /\ ActivationConsistent
        BY <2>2 DEF GroupInv
      <3>2. \A d \in Contexts \ {c} : call'[d] = Idle
        BY <1>2, <1>4, <3>1 DEF OneActivation
      <3>3. MayActivate(c, g)
        BY <1>1, <3>1 DEF OneActivation, g
      <3>4. OneActivation'
        BY <1>3, <1>4, <3>2 DEF OneActivation, Idle
      <3>5. \A x, y \in entries' : Domain[x.group] = Domain[y.group] => x = y
        BY <1>1, <3>1, <3>3 DEF MayActivate, ActivationConsistent
      <3>6. activated' = {x.group : x \in entries'}
        <4>1. \A x \in entries' : x \in entries \/ x.group = g
          BY <1>1
        <4>2. e \in entries' /\ e.group = g
          BY <1>1
        <4>3. entries \subseteq entries' /\ activated' = activated \cup {g}
          BY <1>1
        <4> HIDE DEF e
        <4> QED
          BY <3>1, <4>1, <4>2, <4>3 DEF ActivationConsistent
      <3> QED
        BY <3>4, <3>5, <3>6 DEF ActivationConsistent
    <2>3. ("destroy" \in Avoid => ActivatorsAsked /\ ActivatorAlive)'
      BY <1>1, <1>2 DEF GroupInv, ActivatorsAsked, ActivatorAlive
    <2> QED
      BY <2>1, <2>2, <2>3 DEF GroupInv
  <1>7. StreamInv'
    BY <1>1, StreamsKept DEF StreamInv, TracksItsStreamer, streamVars
  <1> QED
    BY <1>5, <1>6, <1>7

\* Query pools leave groups and streamers alone, and their queries have an index.
LEMMA QueriesKeep ==
  ASSUME MetricsInv, NEW c \in Contexts,
         \/ DestroyMetricQueryPool(c)
         \/ \E g \in Groups : CreateMetricQueryPool(c, g)
         \/ \E index \in 0 .. PoolSize : CreateMetricQuery(c, index) \/ DestroyMetricQuery(c, index)
  PROVE  MetricsInv'
  <1> USE DEF CreateMetricQueryPool, DestroyMetricQueryPool, CreateMetricQuery, DestroyMetricQuery,
              MetricsInv
  <1>1. Call(c) /\ UNCHANGED <<fd, groupVars, streamVars>>
    OBVIOUS
  <1>2. calls' \in 0 .. MaxCalls
    BY <1>1, CallEffect
  <1>3. pool' \in [Contexts -> Groups \cup {None}]
    BY DEF TypeOK
  <1>4. queries' \in [Contexts -> SUBSET Slots]
    <2>1. \A index \in 0 .. PoolSize : SlotFree(c, index) => index \in Slots
      BY ParametersAssumption DEF SlotFree, Slots
    <2>2. queries \in [Contexts -> SUBSET Slots]
      BY DEF TypeOK
    <2> QED
      BY <2>1, <2>2
  <1>5. TypeOK'
    BY <1>1, <1>2, <1>3, <1>4 DEF TypeOK, groupVars, streamVars
  <1> QED
    BY <1>1, <1>5, GroupsKept, StreamsKept DEF StreamInv, TracksItsStreamer, streamVars

-----------------------------------------------------------------------------
\* A new streamer starts with no data; the event follows it.
LEMMA StreamerOpenKeeps ==
  ASSUME MetricsInv, NEW c \in Contexts, NEW g \in Groups, NEW expected \in 0 .. MaxReady,
         MetricStreamerOpen(c, g, expected)
  PROVE  MetricsInv'
  <1> USE DEF MetricsInv
  <1>1. /\ Call(c) /\ stream' = [stream EXCEPT ![fd[c]][g] = 0]
        /\ streamer' = [streamer EXCEPT ![c][g] = 0] /\ opened' = [opened EXCEPT ![c][g] = @ + 1]
        /\ UNCHANGED <<fd, groupVars, queryVars>>
    BY DEF MetricStreamerOpen
  <1>2. fd[c] \in Fds /\ fd[c] # NoFd /\ calls' \in 0 .. MaxCalls /\ 0 \in -1 .. MaxReady
    BY <1>1, CallEffect, ParametersAssumption
  <1>3. /\ opened' \in [Contexts -> [Groups -> Nat]]
        /\ streamer' \in [Contexts -> [Groups -> -1 .. MaxReady]]
        /\ stream' \in [Fds -> [Groups -> -1 .. MaxReady]]
    <2>1. opened' \in [Contexts -> [Groups -> Nat]]
      BY <1>1 DEF TypeOK
    <2>2. streamer' \in [Contexts -> [Groups -> -1 .. MaxReady]]
      BY <1>1, <1>2 DEF TypeOK
    <2>3. stream' \in [Fds -> [Groups -> -1 .. MaxReady]]
      BY <1>1, <1>2 DEF TypeOK
    <2> QED
      BY <2>1, <2>2, <2>3
  <1> DEFINE track == [setMetricTrackData(event[c], g, expected) EXCEPT
                           !.for = [group |-> g, opening |-> opened'[c][g]]]
  <1>4. event' = IF expected = 0 THEN event ELSE [event EXCEPT ![c] = track]
    BY DEF MetricStreamerOpen
  <1>5. /\ track \in [group : Groups \cup {None}, expected : Nat, signalled : BOOLEAN,
                      for : [group : Groups \cup {None}, opening : Nat]]
        /\ track.for.group = track.group /\ track.signalled = event[c].signalled
    <2>1. event[c] \in [group : Groups \cup {None}, expected : Nat, signalled : BOOLEAN,
                        for : [group : Groups \cup {None}, opening : Nat]]
      BY DEF TypeOK
    <2>2. opened'[c][g] \in Nat
      BY <1>3
    <2> DEFINE given == setMetricTrackData(event[c], g, expected)
               s     == [group |-> g, opening |-> opened'[c][g]]
    <2>3. given \in [group : Groups \cup {None}, expected : Nat, signalled : BOOLEAN,
                     for : [group : Groups \cup {None}, opening : Nat]]
      <3>1. given = [[event[c] EXCEPT !.group = g] EXCEPT !.expected = expected]
        BY DEF setMetricTrackData
      <3>2. \A r \in [group : Groups \cup {None}, expected : Nat, signalled : BOOLEAN,
                     for : [group : Groups \cup {None}, opening : Nat]] :
               /\ [r EXCEPT !.group = g] \in
                     [group : Groups \cup {None}, expected : Nat, signalled : BOOLEAN,
                      for : [group : Groups \cup {None}, opening : Nat]]
               /\ [r EXCEPT !.expected = expected] \in
                     [group : Groups \cup {None}, expected : Nat, signalled : BOOLEAN,
                      for : [group : Groups \cup {None}, opening : Nat]]
        OBVIOUS
      <3> HIDE DEF given
      <3> QED
        BY <2>1, <3>1, <3>2
    <2>4. given.group = g /\ given.signalled = event[c].signalled
      BY <2>1 DEF setMetricTrackData
    <2>5. s \in [group : Groups \cup {None}, opening : Nat] /\ s.group = g
      BY <2>2
    <2> HIDE DEF given, s
    <2>6. [given EXCEPT !.for = s] \in [group : Groups \cup {None}, expected : Nat, signalled : BOOLEAN,
                                        for : [group : Groups \cup {None}, opening : Nat]]
      BY <2>3, <2>5
    <2>7. /\ [given EXCEPT !.for = s].for = s /\ [given EXCEPT !.for = s].group = given.group
          /\ [given EXCEPT !.for = s].signalled = given.signalled
      BY <2>3
    <2>8. track = [given EXCEPT !.for = s]
      BY DEF given, s
    <2> HIDE DEF track
    <2> QED
      BY <2>4, <2>5, <2>6, <2>7, <2>8
  <1> HIDE DEF track
  <1>6. TypeOK'
    <2>1. event' \in [Contexts -> [group : Groups \cup {None}, expected : Nat, signalled : BOOLEAN,
                                  for : [group : Groups \cup {None}, opening : Nat]]]
      BY <1>4, <1>5 DEF TypeOK
    <2> QED
      BY <1>1, <1>2, <1>3, <2>1 DEF TypeOK, groupVars, queryVars
  <1>7. StreamInv'
    <2>1. /\ \A d \in Contexts, h \in Groups :
                streamer'[d][h] = IF d = c /\ h = g THEN 0 ELSE streamer[d][h]
          /\ \A f \in Fds, h \in Groups :
                stream'[f][h] = IF f = fd[c] /\ h = g THEN 0 ELSE stream[f][h]
      BY <1>1, <1>2 DEF TypeOK
    <2>2. Descriptors'
      BY <1>1, <1>2, <2>1 DEF StreamInv, Descriptors
    <2>3. StreamersMatchKernel'
      <3>1. ASSUME NEW d \in Contexts, NEW h \in Groups, fd[d] # NoFd
            PROVE  streamer'[d][h] # -1 <=> stream'[fd[d]][h] # -1
        <4>1. fd[d] \in Fds /\ (fd[d] = fd[c] => d = c)
          BY <1>2, <3>1 DEF StreamInv, Descriptors, TypeOK
        <4> QED
          BY <2>1, <3>1, <4>1 DEF StreamInv, StreamersMatchKernel
      <3>2. ASSUME NEW f \in Fds \ Range(fd), NEW h \in Groups
            PROVE  stream'[f][h] = -1
        <4>1. f # fd[c]
          BY DEF Range, TypeOK
        <4> QED
          BY <2>1, <4>1 DEF StreamInv, StreamersMatchKernel
      <3> QED
        BY <1>1, <3>1, <3>2 DEF StreamersMatchKernel
    <2>4. TracksItsStreamer'
      BY <1>4, <1>5 DEF StreamInv, TracksItsStreamer, TypeOK
    <2> QED
      BY <2>2, <2>3, <2>4 DEF StreamInv
  <1> QED
    BY <1>1, <1>6, <1>7, GroupsKept

\* close stops the kernel's streamer with the context's.
LEMMA StreamerCloseKeeps ==
  ASSUME MetricsInv, NEW c \in Contexts, NEW g \in Groups, MetricStreamerClose(c, g)
  PROVE  MetricsInv'
  <1> USE DEF MetricsInv
  <1>1. /\ Call(c) /\ stream' = [stream EXCEPT ![fd[c]][g] = -1]
        /\ streamer' = [streamer EXCEPT ![c][g] = -1]
        /\ UNCHANGED <<fd, groupVars, queryVars, event, opened>>
    BY DEF MetricStreamerClose
  <1>2. fd[c] \in Fds /\ fd[c] # NoFd /\ calls' \in 0 .. MaxCalls /\ -1 \in -1 .. MaxReady
    BY <1>1, CallEffect, ParametersAssumption
  <1>3. TypeOK'
    <2>1. streamer' \in [Contexts -> [Groups -> -1 .. MaxReady]]
      BY <1>1, <1>2 DEF TypeOK
    <2>2. stream' \in [Fds -> [Groups -> -1 .. MaxReady]]
      BY <1>1, <1>2 DEF TypeOK
    <2> QED
      BY <1>1, <1>2, <2>1, <2>2 DEF TypeOK, groupVars, queryVars
  <1>4. StreamInv'
    <2>1. /\ \A d \in Contexts, h \in Groups :
                streamer'[d][h] = IF d = c /\ h = g THEN -1 ELSE streamer[d][h]
          /\ \A f \in Fds, h \in Groups :
                stream'[f][h] = IF f = fd[c] /\ h = g THEN -1 ELSE stream[f][h]
      BY <1>1, <1>2 DEF TypeOK
    <2>2. Descriptors'
      BY <1>1, <2>1 DEF StreamInv, Descriptors
    <2>3. StreamersMatchKernel'
      <3>1. ASSUME NEW d \in Contexts, NEW h \in Groups, fd[d] # NoFd
            PROVE  streamer'[d][h] # -1 <=> stream'[fd[d]][h] # -1
        <4>1. fd[d] \in Fds /\ (fd[d] = fd[c] => d = c)
          BY <1>2, <3>1 DEF StreamInv, Descriptors, TypeOK
        <4> QED
          BY <2>1, <3>1, <4>1 DEF StreamInv, StreamersMatchKernel
      <3>2. \A f \in Fds \ Range(fd), h \in Groups : stream'[f][h] = -1
        BY <2>1 DEF StreamInv, StreamersMatchKernel
      <3> QED
        BY <1>1, <3>1, <3>2 DEF StreamersMatchKernel
    <2> QED
      BY <1>1, <2>2, <2>3 DEF StreamInv, TracksItsStreamer
  <1> QED
    BY <1>1, <1>3, <1>4, GroupsKept

\* Whether a streamer runs is all the invariant says of the data of one.
LEMMA DataKept ==
  ASSUME MetricsInv, UNCHANGED <<fd, groupVars, queryVars, event, opened>>,
         calls' \in 0 .. MaxCalls,
         streamer' \in [Contexts -> [Groups -> -1 .. MaxReady]],
         stream' \in [Fds -> [Groups -> -1 .. MaxReady]],
         \A d \in Contexts, h \in Groups : streamer'[d][h] = -1 <=> streamer[d][h] = -1,
         \A f \in Fds, h \in Groups : stream'[f][h] = -1 <=> stream[f][h] = -1
  PROVE  MetricsInv'
  <1>1. TypeOK'
    BY DEF MetricsInv, TypeOK, groupVars, queryVars
  <1>2. \A d \in Contexts : fd[d] # NoFd => fd[d] \in Fds
    BY DEF MetricsInv, TypeOK
  <1>3. StreamInv'
    BY <1>2 DEF MetricsInv, StreamInv, Descriptors, StreamersMatchKernel, TracksItsStreamer
  <1> QED
    BY <1>1, <1>3, GroupsKept DEF MetricsInv

\* What getData returns and copies, of a streamer that runs.
LEMMA getDataEffect ==
  ASSUME TypeOK, NEW f \in Fds, NEW g \in Groups, stream[f][g] # -1, NEW size \in 0 .. MaxReady
  PROVE  /\ getData(f, g, size).copied \in 0 .. stream[f][g]
         /\ getData(f, g, size).size \in 0 .. MaxReady
         /\ size = 0 => getData(f, g, size).size = stream[f][g]
  <1>1. stream[f][g] \in 0 .. MaxReady /\ MaxReady \in Nat /\ size \in Int
    BY ParametersAssumption DEF TypeOK
  <1>2. /\ Min({size, stream[f][g]}) \in {size, stream[f][g]}
        /\ Min({size, stream[f][g]}) <= stream[f][g]
    <2>1. stream[f][g] \in Int
      BY <1>1
    <2> QED
      BY <1>1, <2>1, MinOfTwo
  <1> QED
    BY <1>1, <1>2 DEF getData

\* The kernel collects, and the context asks how much, and reads what there is.
LEMMA SampleKeeps ==
  ASSUME MetricsInv, NEW f \in Fds, NEW g \in Groups, Sample(f, g)
  PROVE  MetricsInv'
  <1> USE DEF Sample, MetricsInv
  <1>1. stream[f][g] + 1 \in 0 .. MaxReady /\ stream[f][g] # -1 /\ stream[f][g] + 1 # -1
    BY ParametersAssumption
  <1>2. stream' \in [Fds -> [Groups -> -1 .. MaxReady]]
    BY <1>1, ParametersAssumption DEF TypeOK
  <1>3. \A e \in Fds, h \in Groups : stream'[e][h] = -1 <=> stream[e][h] = -1
    BY <1>1 DEF TypeOK
  <1>4. calls' \in 0 .. MaxCalls /\ streamer' \in [Contexts -> [Groups -> -1 .. MaxReady]]
    BY DEF TypeOK
  <1> QED
    BY <1>2, <1>3, <1>4, DataKept

LEMMA ReadSizeKeeps ==
  ASSUME MetricsInv, NEW c \in Contexts, NEW g \in Groups, ReadSize(c, g)
  PROVE  MetricsInv'
  <1> USE DEF ReadSize, MetricsInv
  <1> DEFINE n == getData(fd[c], g, 0).size
  <1>1. fd[c] \in Fds /\ fd[c] # NoFd /\ calls' \in 0 .. MaxCalls
    BY CallEffect
  <1>2. stream[fd[c]][g] # -1 /\ streamer[c][g] # -1
    BY <1>1 DEF StreamInv, StreamersMatchKernel
  <1>3. n \in -1 .. MaxReady /\ n # -1
    <2>1. 0 \in 0 .. MaxReady
      BY ParametersAssumption
    <2>2. n \in 0 .. MaxReady
      BY <1>1, <1>2, <2>1, getDataEffect
    <2> HIDE DEF n
    <2> QED
      BY <2>2, ParametersAssumption
  <1>4. streamer' = [streamer EXCEPT ![c][g] = n] /\ stream' = stream
    OBVIOUS
  <1> HIDE DEF n, ReadSize
  <1>5. streamer' \in [Contexts -> [Groups -> -1 .. MaxReady]]
    BY <1>3, <1>4 DEF TypeOK
  <1>6. \A d \in Contexts, h \in Groups : streamer'[d][h] = -1 <=> streamer[d][h] = -1
    BY <1>2, <1>3, <1>4 DEF TypeOK
  <1>7. stream' \in [Fds -> [Groups -> -1 .. MaxReady]]
    BY <1>4 DEF TypeOK
  <1> QED
    BY <1>1, <1>4, <1>5, <1>6, <1>7, DataKept DEF ReadSize

LEMMA ReadDataKeeps ==
  ASSUME MetricsInv, NEW c \in Contexts, NEW g \in Groups,
         NEW size \in 1 .. MaxReady, NEW maxReports \in 0 .. MaxReady,
         ReadData(c, g, size, maxReports)
  PROVE  MetricsInv'
  <1> USE DEF MetricsInv
  <1> DEFINE asks   == Min({size, streamer[c][g], maxReports})
             copied == getData(fd[c], g, asks).copied
             left   == stream[fd[c]][g] - copied
  <1>1. /\ Call(c) /\ streamer[c][g] # -1 /\ stream' = [stream EXCEPT ![fd[c]][g] = left]
        /\ UNCHANGED <<fd, groupVars, queryVars, streamer, event, opened>>
    BY DEF ReadData
  <1>2. fd[c] \in Fds /\ fd[c] # NoFd /\ calls' \in 0 .. MaxCalls
    BY <1>1, CallEffect
  <1>3. stream[fd[c]][g] # -1
    BY <1>1, <1>2 DEF StreamInv, StreamersMatchKernel
  <1>4. asks \in 0 .. MaxReady
    <2>1. streamer[c][g] \in 0 .. MaxReady /\ size \in 0 .. MaxReady
      BY <1>1, ParametersAssumption DEF TypeOK
    <2>2. asks \in {size, streamer[c][g], maxReports}
      <3>1. streamer[c][g] \in Int /\ size \in Int /\ maxReports \in Int
        BY <2>1
      <3> QED
        BY <3>1, MinOfThree
    <2> HIDE DEF asks
    <2> QED
      BY <2>1, <2>2
  <1> HIDE DEF asks
  <1>5. copied \in 0 .. stream[fd[c]][g]
    BY <1>2, <1>3, <1>4, getDataEffect
  <1> HIDE DEF copied
  <1>6. left \in 0 .. MaxReady /\ left # -1 /\ left \in -1 .. MaxReady
    <2>1. stream[fd[c]][g] \in 0 .. MaxReady
      BY <1>2, <1>3, ParametersAssumption DEF TypeOK
    <2> QED
      BY <1>5, <2>1, ParametersAssumption
  <1> HIDE DEF left
  <1>7. stream' \in [Fds -> [Groups -> -1 .. MaxReady]]
    BY <1>1, <1>6 DEF TypeOK
  <1>8. \A f \in Fds, h \in Groups : stream'[f][h] = -1 <=> stream[f][h] = -1
    BY <1>1, <1>2, <1>3, <1>6 DEF TypeOK
  <1>9. streamer' \in [Contexts -> [Groups -> -1 .. MaxReady]]
    BY <1>1 DEF TypeOK
  <1> QED
    BY <1>1, <1>2, <1>7, <1>8, <1>9, DataKept

\* A query of the event, and a reset, change the signal only.
LEMMA EventsKeep ==
  ASSUME MetricsInv, NEW c \in Contexts, EventQuery(c) \/ EventReset(c)
  PROVE  MetricsInv'
  <1> USE DEF MetricsInv
  <1>1. /\ Call(c) /\ UNCHANGED <<fd, groupVars, queryVars, streamer, stream, opened>>
        /\ \E b \in BOOLEAN : event' = [event EXCEPT ![c] = [@ EXCEPT !.signalled = b]]
    BY DEF EventQuery, EventReset
  <1>2. calls' \in 0 .. MaxCalls
    BY <1>1, CallEffect
  <1>3. event' \in [Contexts -> [group : Groups \cup {None}, expected : Nat, signalled : BOOLEAN,
                                for : [group : Groups \cup {None}, opening : Nat]]]
    <2>1. PICK b \in BOOLEAN : event' = [event EXCEPT ![c] = [@ EXCEPT !.signalled = b]]
      BY <1>1
    <2>2. [event[c] EXCEPT !.signalled = b] \in
              [group : Groups \cup {None}, expected : Nat, signalled : BOOLEAN,
               for : [group : Groups \cup {None}, opening : Nat]]
      BY ZenonT(40) DEF TypeOK
    <2> QED
      BY <2>1, <2>2 DEF TypeOK
  <1>4. \A d \in Contexts : event'[d].for.group = event'[d].group
    BY <1>1 DEF TypeOK, StreamInv, TracksItsStreamer
  <1>5. TypeOK'
    BY <1>1, <1>2, <1>3 DEF TypeOK, groupVars, queryVars
  <1> QED
    BY <1>1, <1>4, <1>5, GroupsKept, StreamsKept

-----------------------------------------------------------------------------
\* Every step preserves the invariant.
LEMMA NextMetrics == MetricsInv /\ [Next]_vars => MetricsInv'
  <1> SUFFICES ASSUME MetricsInv, [Next]_vars PROVE MetricsInv'
    OBVIOUS
  <1>1. CASE UNCHANGED vars
    <2>1. TypeOK'
      BY <1>1 DEF MetricsInv, TypeOK, vars, groupVars, queryVars, streamVars
    <2>2. UNCHANGED <<fd, groupVars>> /\ UNCHANGED <<fd, streamer, stream>> /\ UNCHANGED event
      BY <1>1 DEF vars, streamVars
    <2> QED
      BY <2>1, <2>2, GroupsKept, StreamsKept DEF MetricsInv, StreamInv, TracksItsStreamer
  <1>2. CASE \E f \in Fds, g \in Groups : Sample(f, g)
    BY <1>2, SampleKeeps
  <1>3. ASSUME NEW c \in Contexts, CreateContext(c) \/ DestroyContext(c) PROVE MetricsInv'
    BY <1>3, CreateContextKeeps, DestroyContextKeeps
  <1>4. ASSUME NEW c \in Contexts, NEW groups \in GroupLists, ActivateMetricGroups(c, groups)
        PROVE  MetricsInv'
    BY <1>4, ActivateKeeps
  <1>5. ASSUME NEW c \in Contexts, CheckGroup(c) \/ CommitGroup(c) PROVE MetricsInv'
    BY <1>5, CheckGroupKeeps, CommitGroupKeeps
  <1>6. ASSUME NEW c \in Contexts, EventQuery(c) \/ EventReset(c) PROVE MetricsInv'
    BY <1>6, EventsKeep
  <1>7. ASSUME NEW c \in Contexts, NEW index \in 0 .. PoolSize,
               CreateMetricQuery(c, index) \/ DestroyMetricQuery(c, index)
        PROVE  MetricsInv'
    BY <1>7, QueriesKeep
  <1>8. ASSUME NEW c \in Contexts, DestroyMetricQueryPool(c) PROVE MetricsInv'
    BY <1>8, QueriesKeep
  <1>9. ASSUME NEW c \in Contexts, NEW g \in Groups,
               \/ CreateMetricQueryPool(c, g)
               \/ \E expected \in 0 .. MaxReady : MetricStreamerOpen(c, g, expected)
               \/ MetricStreamerClose(c, g)
               \/ ReadSize(c, g)
               \/ \E size \in 1 .. MaxReady, maxReports \in 0 .. MaxReady :
                      ReadData(c, g, size, maxReports)
        PROVE  MetricsInv'
    BY <1>9, QueriesKeep, StreamerOpenKeeps, StreamerCloseKeeps, ReadSizeKeeps, ReadDataKeeps
  <1> QED
    BY <1>1, <1>2, <1>3, <1>4, <1>5, <1>6, <1>7, <1>8, <1>9 DEF Next

LEMMA MetricsInvariant == Spec => []MetricsInv
  BY InitMetrics, NextMetrics, PTL DEF Spec

\* Types, for any application and any number of contexts: no descriptor beyond the
\* contexts there are, no query outside its pool, no streamer below or above what the
\* kernel keeps whatever sizes readData is called with.
THEOREM MetricsTypeCorrect == Spec => []TypeOK
  <1>1. MetricsInv => TypeOK
    BY DEF MetricsInv
  <1> QED
    BY <1>1, MetricsInvariant, PTL

\* MetricStreamer's constructor, close and ~Context keep the streamers of a context and
\* those of the kernel in pairs, whichever descriptor the next context gets.
THEOREM StreamersMatched == Spec => []StreamersMatchKernel
  <1>1. MetricsInv => StreamersMatchKernel
    BY DEF MetricsInv, StreamInv
  <1> QED
    BY <1>1, MetricsInvariant, PTL

\* While contexts do not activate at the same time, the flags and the list of activated
\* groups agree and a domain has one activated group at most.
THEOREM ActivationAgrees ==
  ASSUME "race" \in Avoid
  PROVE  Spec => []ActivationConsistent
  <1>1. MetricsInv => ActivationConsistent
    BY DEF MetricsInv, GroupInv
  <1> QED
    BY <1>1, MetricsInvariant, PTL

\* While contexts deactivate before they go, an activated group is of the context its
\* entry says, although descriptors are used again.
THEOREM ActivatorsAlive ==
  ASSUME "destroy" \in Avoid
  PROVE  Spec => []ActivatorAlive
  <1>1. MetricsInv => ActivatorAlive
    BY DEF MetricsInv, GroupInv
  <1> QED
    BY <1>1, MetricsInvariant, PTL

\* While nobody looks at the event of a closed streamer, Event::queryStatus signals an
\* event only when its own streamer is open and has the data the event stands for.
THEOREM NotifiesHaveData ==
  ASSUME "notify" \in Avoid
  PROVE  Spec => NotifyMeansData
  <1> DEFINE Means == \A c \in Contexts : ~event[c].signalled /\ event'[c].signalled =>
                          /\ StreamerOpen(c, event[c].for)
                          /\ stream[fd[c]][event[c].for.group] >= event[c].expected
  <1>1. ASSUME MetricsInv, [Next]_vars, NEW c \in Contexts, ~event[c].signalled,
               event'[c].signalled
        PROVE  EventQuery(c)
    <2> USE <1>1
    <2>1. ASSUME NEW d \in Contexts, DestroyContext(d) PROVE FALSE
      BY <2>1 DEF DestroyContext, MetricsInv, TypeOK, NoTrack
    <2>2. ASSUME NEW d \in Contexts, NEW g \in Groups, NEW expected \in 0 .. MaxReady,
                 MetricStreamerOpen(d, g, expected)
          PROVE  FALSE
      BY <2>2 DEF MetricStreamerOpen, setMetricTrackData, MetricsInv, TypeOK
    <2>3. ASSUME NEW d \in Contexts, EventQuery(d) PROVE EventQuery(c)
      BY <2>3 DEF EventQuery, MetricsInv, TypeOK
    <2>4. ASSUME NEW d \in Contexts, EventReset(d) PROVE FALSE
      BY <2>4 DEF EventReset, MetricsInv, TypeOK
    <2>5. event' # event
      OBVIOUS
    <2> QED
      BY ZenonT(40), <2>1, <2>2, <2>3, <2>4, <2>5
      DEF Next, vars, streamVars, CreateContext, ActivateMetricGroups, CheckGroup, CommitGroup,
          DestroyMetricQueryPool, CreateMetricQueryPool, CreateMetricQuery, DestroyMetricQuery,
          MetricStreamerClose, ReadSize, ReadData, Sample
  <1>2. ASSUME MetricsInv, NEW c \in Contexts, EventQuery(c)
        PROVE  /\ StreamerOpen(c, event[c].for)
               /\ stream[fd[c]][event[c].for.group] >= event[c].expected
    <2> DEFINE g == event[c].group
    <2>1. /\ Call(c) /\ g # None /\ StreamerOpen(c, event[c].for)
          /\ stream[fd[c]][g] # -1 /\ getData(fd[c], g, 0).size >= event[c].expected
      BY <1>2 DEF EventQuery
    <2>2. g \in Groups /\ event[c].for.group = g /\ fd[c] \in Fds
      BY <1>2, <2>1, CallEffect DEF MetricsInv, TypeOK, StreamInv, TracksItsStreamer
    <2>3. 0 \in 0 .. MaxReady
      BY ParametersAssumption
    <2>4. getData(fd[c], g, 0).size = stream[fd[c]][g]
      BY <1>2, <2>1, <2>2, <2>3, getDataEffect DEF MetricsInv
    <2> QED
      BY <2>1, <2>2, <2>4
  <1>3. MetricsInv /\ [Next]_vars => [Means]_vars
    BY <1>1, <1>2
  <1> QED
    BY <1>3, MetricsInvariant, PTL DEF Spec, NotifyMeansData
=============================================================================

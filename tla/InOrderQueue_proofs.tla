------------------------ MODULE InOrderQueue_proofs ------------------------
(***************************************************************************)
(* Proofs about InOrderQueue: its types, that the command buffers of one   *)
(* list keep their order, and that an in-order queue implements            *)
(* FifoExecution.                                                          *)
(***************************************************************************)
EXTENDS InOrderQueue, Integers, SequenceTheorems, TLAPS

-----------------------------------------------------------------------------
(***************************************************************************)
(* What the device queues look like after each kind of change.             *)
(***************************************************************************)

Inflights == [Queues -> Seq(Entry)]

\* A sequence without its i-th element.
LEMMA Removed ==
    ASSUME NEW S, NEW s \in Seq(S), NEW i \in DOMAIN s
    PROVE  /\ RemoveAt(s, i) \in Seq(S)
           /\ Len(RemoveAt(s, i)) = Len(s) - 1
           /\ \A h \in 1 .. Len(s) - 1 :
                  RemoveAt(s, i)[h] = IF h < i THEN s[h] ELSE s[h+1]
<1> DEFINE a == SubSeq(s, 1, i - 1)
           z == SubSeq(s, i + 1, Len(s))
<1>1. Len(s) \in Nat /\ i \in 1 .. Len(s) /\ \A h \in 1 .. Len(s) : s[h] \in S
  BY LenProperties, ElementOfSeq
<1>2. /\ a \in Seq(S) /\ Len(a) = i - 1
      /\ \A h \in 1 .. i - 1 : a[h] = s[h]
  <2>1. \A h \in 1 .. i - 1 : s[h] \in S
    BY <1>1
  <2>2. /\ a \in Seq(S)
        /\ Len(a) = IF 1 <= i - 1 THEN (i - 1) - 1 + 1 ELSE 0
        /\ \A h \in 1 .. (i - 1) - 1 + 1 : a[h] = s[1 + h - 1]
    BY <1>1, <2>1, SubSeqProperties
  <2>. QED
    BY <1>1, <2>2
<1>3. /\ z \in Seq(S) /\ Len(z) = Len(s) - i
      /\ \A h \in 1 .. Len(s) - i : z[h] = s[i + h]
  <2>1. \A h \in i + 1 .. Len(s) : s[h] \in S
    BY <1>1
  <2>2. /\ z \in Seq(S)
        /\ Len(z) = IF i + 1 <= Len(s) THEN Len(s) - (i + 1) + 1 ELSE 0
        /\ \A h \in 1 .. Len(s) - (i + 1) + 1 : z[h] = s[(i + 1) + h - 1]
    BY <1>1, <2>1, SubSeqProperties
  <2>. QED
    BY <1>1, <2>2
<1>4. /\ a \o z \in Seq(S)
      /\ Len(a \o z) = Len(a) + Len(z)
      /\ \A h \in 1 .. Len(a) + Len(z) :
             (a \o z)[h] = IF h <= Len(a) THEN a[h] ELSE z[h - Len(a)]
  BY <1>2, <1>3, ConcatProperties
<1>5. RemoveAt(s, i) = a \o z
  BY DEF RemoveAt
<1>. HIDE DEF a, z
<1>6. Len(a) + Len(z) = Len(s) - 1
  BY <1>1, <1>2, <1>3
<1>7. ASSUME NEW h \in 1 .. Len(s) - 1
      PROVE  (a \o z)[h] = IF h < i THEN s[h] ELSE s[h+1]
  <2>1. CASE h < i
    <3>1. h \in 1 .. Len(a) + Len(z) /\ h <= Len(a)
      BY <2>1, <1>1, <1>2, <1>6
    <3>2. (a \o z)[h] = a[h]
      BY <3>1, <1>4
    <3>3. a[h] = s[h]
      BY <2>1, <1>1, <1>2
    <3>. QED
      BY <2>1, <3>2, <3>3
  <2>2. CASE h >= i
    <3>1. (a \o z)[h] = z[h - (i - 1)]
      <4>1. h \in 1 .. Len(a) + Len(z) /\ ~(h <= Len(a)) /\ Len(a) = i - 1
        BY <2>2, <1>1, <1>2, <1>6
      <4>. QED
        BY <4>1, <1>4
    <3>2. h - (i - 1) \in 1 .. Len(s) - i /\ i + (h - (i - 1)) = h + 1
      BY <2>2, <1>1
    <3>3. z[h - (i - 1)] = s[i + (h - (i - 1))]
      BY <3>2, <1>3
    <3>4. (a \o z)[h] = s[h + 1]
      BY <3>1, <3>2, <3>3
    <3>5. ~(h < i)
      BY <2>2, <1>1
    <3>. QED
      BY <3>4, <3>5
  <2>3. h < i \/ h >= i
    BY <1>1
  <2>. QED
    BY <2>1, <2>2, <2>3
<1>. QED
  BY <1>4, <1>5, <1>6, <1>7

\* A buffer whose state changes stays where it is.
StateChanges(f, g, q, i, v) ==
    /\ g \in Inflights
    /\ \A r \in Queues : Len(g[r]) = Len(f[r]) /\ DOMAIN g[r] = DOMAIN f[r]
    /\ \A r \in Queues : \A h \in DOMAIN f[r] :
           /\ g[r][h].buf = f[r][h].buf
           /\ g[r][h].bg = f[r][h].bg
           /\ g[r][h].st = IF r = q /\ h = i THEN v ELSE f[r][h].st

LEMMA StateChanged ==
    ASSUME NEW f \in Inflights, NEW q \in Queues, NEW i \in DOMAIN f[q],
           NEW v \in {"queued", "resetting", "running"}
    PROVE  StateChanges(f, [f EXCEPT ![q][i].st = v], q, i, v)
<1> DEFINE g == [f EXCEPT ![q][i].st = v]
<1>1. \A r \in Queues : f[r] \in Seq(Entry)
  BY DEF Inflights
<1>2. \A r \in Queues : DOMAIN f[r] = 1 .. Len(f[r]) /\ \A h \in DOMAIN f[r] : f[r][h] \in Entry
  BY <1>1, LenProperties, ElementOfSeq
<1> DEFINE e == [f[q][i] EXCEPT !.st = v]
           s == [f[q] EXCEPT ![i] = e]
<1>3. e \in Entry /\ e.buf = f[q][i].buf /\ e.bg = f[q][i].bg /\ e.st = v
  BY <1>2 DEF Entry
<1>4. g = [f EXCEPT ![q] = s]
  OBVIOUS
<1>. HIDE DEF e
<1>5. /\ s \in Seq(Entry) /\ Len(s) = Len(f[q])
      /\ \A h \in 1 .. Len(f[q]) : s[h] = IF h = i THEN e ELSE f[q][h]
  BY <1>1, <1>2, <1>3, ExceptSeq
<1>6. DOMAIN s = 1 .. Len(s)
  BY <1>5, LenProperties
<1>. HIDE DEF s
<1>7. g \in Inflights
  BY <1>4, <1>5 DEF Inflights
<1>8. \A r \in Queues : g[r] = IF r = q THEN s ELSE f[r]
  BY <1>4 DEF Inflights
<1>. HIDE DEF g
<1>9. StateChanges(f, g, q, i, v)
  BY <1>2, <1>3, <1>5, <1>6, <1>7, <1>8 DEF StateChanges
<1>. QED
  BY <1>9 DEF g

\* A submitted buffer joins the end of its queue.
Joins(f, g, q, e) ==
    /\ g \in Inflights
    /\ \A r \in Queues \ {q} : g[r] = f[r]
    /\ g[q] = Append(f[q], e)
    /\ Len(g[q]) = Len(f[q]) + 1 /\ DOMAIN g[q] = 1 .. Len(f[q]) + 1
    /\ DOMAIN f[q] = 1 .. Len(f[q]) /\ Len(f[q]) \in Nat
    /\ g[q][Len(f[q]) + 1] = e
    /\ \A h \in DOMAIN f[q] : g[q][h] = f[q][h]

LEMMA Joined ==
    ASSUME NEW f \in Inflights, NEW q \in Queues, NEW e \in Entry
    PROVE  Joins(f, [f EXCEPT ![q] = Append(@, e)], q, e)
<1> DEFINE g == [f EXCEPT ![q] = Append(@, e)]
<1>1. f[q] \in Seq(Entry)
  BY DEF Inflights
<1>2. g \in Inflights /\ g[q] = Append(f[q], e) /\ \A r \in Queues \ {q} : g[r] = f[r]
  BY <1>1, AppendProperties DEF Inflights
<1>. HIDE DEF g
<1>3. Joins(f, g, q, e)
  BY <1>1, <1>2, AppendProperties, LenProperties DEF Joins
<1>. QED
  BY <1>3 DEF g

\* A completed buffer leaves its queue.
Leaves(f, g, q, i) ==
    /\ g \in Inflights
    /\ \A r \in Queues \ {q} : g[r] = f[r]
    /\ Len(f[q]) \in Nat /\ DOMAIN f[q] = 1 .. Len(f[q])
    /\ Len(g[q]) = Len(f[q]) - 1 /\ DOMAIN g[q] = 1 .. Len(f[q]) - 1
    /\ \A h \in 1 .. Len(f[q]) - 1 :
           g[q][h] = IF h < i THEN f[q][h] ELSE f[q][h+1]

LEMMA Left ==
    ASSUME NEW f \in Inflights, NEW q \in Queues, NEW i \in DOMAIN f[q]
    PROVE  Leaves(f, [f EXCEPT ![q] = RemoveAt(@, i)], q, i)
<1> DEFINE g == [f EXCEPT ![q] = RemoveAt(@, i)]
<1>1. f[q] \in Seq(Entry)
  BY DEF Inflights
<1>2. g[q] = RemoveAt(f[q], i) /\ \A r \in Queues \ {q} : g[r] = f[r]
  BY DEF Inflights
<1>3. g[q] \in Seq(Entry)
  BY <1>1, <1>2, Removed
<1>4. g \in Inflights
  BY <1>2, <1>3 DEF Inflights
<1>. HIDE DEF g
<1>5. Leaves(f, g, q, i)
  BY <1>1, <1>2, <1>3, <1>4, Removed, LenProperties DEF Leaves
<1>. QED
  BY <1>5 DEF g

-----------------------------------------------------------------------------
(***************************************************************************)
(* Types.                                                                  *)
(***************************************************************************)

\* What the thread has in hand: a list the queue accepts, and a buffer of it.
HostKnows ==
    host.pc # "idle" => /\ host.j \in Accepts[host.q]
                        /\ host.k \in 1 .. NumBufs[host.j]
                        /\ host.pc = "patch" => host.k = 1

\* A queue holds buffers of lists the application submits to it.
Accepted ==
    \A q \in Queues : \A i \in DOMAIN inflight[q] : inflight[q][i].buf[1] \in Accepts[q]

TypeInv == TypeOK /\ HostKnows /\ Accepted

\* Command buffers are pairs of a job and a number.
LEMMA BufFacts ==
    /\ \A b \in Bufs : b[1] \in Jobs /\ b[2] \in 1 .. NumBufs[b[1]] /\ b = <<b[1], b[2]>>
    /\ \A j \in Jobs : NumBufs[j] \in Nat \ {0}
    /\ \A j \in Jobs : \A k \in 1 .. NumBufs[j] : <<j, k>> \in Bufs
    /\ \A j \in Jobs : FrontBuf(j) \in Bufs /\ BackBuf(j) \in Bufs
<1>1. \A j \in Jobs : NumBufs[j] \in Nat \ {0}
  BY QueueConstants
<1>2. \A j \in Jobs : \A k \in 1 .. NumBufs[j] : <<j, k>> \in Bufs
  BY DEF Bufs
<1>3. \A b \in Bufs : b[1] \in Jobs /\ b[2] \in 1 .. NumBufs[b[1]] /\ b = <<b[1], b[2]>>
  BY DEF Bufs
<1>. QED
  BY <1>1, <1>2, <1>3 DEF FrontBuf, BackBuf

\* A new header is a header.
LEMMA NewHeaderType ==
    ASSUME NEW b \in Bufs
    PROVE  NewHeader(b) \in Header
<1>1. b[1] \in Jobs /\ b[2] \in 1 .. NumBufs[b[1]] /\ NumBufs[b[1]] \in Nat
  BY BufFacts
<1>2. b[2] # 1 => <<b[1], b[2] - 1>> \in Bufs
  <2>1. b[2] # 1 => b[2] - 1 \in 1 .. NumBufs[b[1]]
    BY <1>1
  <2>. QED
    BY <1>1, <2>1, BufFacts
<1>. QED
  BY <1>2 DEF NewHeader, Header

\* The names of the empty hand.
LEMMA IdleFacts ==
    /\ AnyQueue \in Queues /\ AnyJob \in Jobs
    /\ Idle \in [pc : {"idle", "patch", "submit"}, q : Queues, j : Jobs, k : Nat]
    /\ Idle.pc = "idle"
<1>1. AnyQueue \in Queues /\ AnyJob \in Jobs
  BY QueueConstants DEF AnyQueue, AnyJob
<1>. QED
  BY <1>1 DEF Idle

\* The fields of the hand.
LEMMA HostFacts ==
    ASSUME TypeInv
    PROVE  /\ host.pc \in {"idle", "patch", "submit"} /\ host.q \in Queues /\ host.j \in Jobs
           /\ host.k \in Nat
           /\ host.pc # "idle" => <<host.j, host.k>> \in Bufs
           /\ inflight \in Inflights
           /\ \A q \in Queues : inflight[q] \in Seq(Entry)
           /\ \A q \in Queues : DOMAIN inflight[q] = 1 .. Len(inflight[q]) /\ Len(inflight[q]) \in Nat
           /\ \A q \in Queues : \A i \in DOMAIN inflight[q] :
                  inflight[q][i] \in Entry /\ inflight[q][i].buf \in Bufs
<1>1. \A q \in Queues : inflight[q] \in Seq(Entry)
  BY DEF TypeInv, TypeOK
<1>2. \A q \in Queues : DOMAIN inflight[q] = 1 .. Len(inflight[q]) /\ Len(inflight[q]) \in Nat
  BY <1>1, LenProperties
<1>3. \A q \in Queues : \A i \in DOMAIN inflight[q] :
          inflight[q][i] \in Entry /\ inflight[q][i].buf \in Bufs
  <2> SUFFICES ASSUME NEW q \in Queues, NEW i \in DOMAIN inflight[q]
               PROVE  inflight[q][i] \in Entry /\ inflight[q][i].buf \in Bufs
    OBVIOUS
  <2>1. inflight[q][i] \in Entry
    BY <1>1, <1>2, ElementOfSeq
  <2>. QED
    BY <2>1 DEF Entry
<1>4. host.pc # "idle" => <<host.j, host.k>> \in Bufs
  BY BufFacts DEF TypeInv, TypeOK, HostKnows
<1>. QED
  BY <1>1, <1>2, <1>3, <1>4 DEF TypeInv, TypeOK, Inflights

\* useBusyWait touches the fence and the signal of a buffer, if at all.
LEMMA BusyWaitTypes ==
    ASSUME fenceValue \in [Bufs -> FenceValue], header \in [Bufs -> Header],
           NEW q, NEW b \in Bufs, UseBusyWait(q, b)
    PROVE  fenceValue' \in [Bufs -> FenceValue] /\ header' \in [Bufs -> Header]
<1>1. [header[b] EXCEPT !.signal = TRUE] \in Header
  BY DEF Header
<1>. QED
  BY <1>1 DEF UseBusyWait, FenceValue

\* The initial state.
LEMMA InitTypes == Init => TypeInv
<1> SUFFICES ASSUME Init PROVE TypeInv
  OBVIOUS
<1>1. header \in [Bufs -> Header]
  BY NewHeaderType DEF Init
<1>2. \A q \in Queues : inflight[q] = <<>> /\ <<>> \in Seq(Entry) /\ DOMAIN inflight[q] = {}
  BY EmptySeq DEF Init
<1>. QED
  BY <1>1, <1>2, IdleFacts DEF Init, TypeInv, TypeOK, HostKnows, Accepted, FenceValue

\* The thread's steps that change no queue.
LEMMA HostTypes ==
    ASSUME TypeInv,
           \/ \E q \in Queues, j \in Jobs : Submit(q, j)
           \/ \E q \in Queues : SetWorkloadType(q)
           \/ \E j \in Jobs : WaitForCompletion(j)
           \/ MakeInOrder \/ StripInOrder \/ SubmitBusy \/ SubmitFails
    PROVE  TypeInv'
<1> USE DEF TypeInv, TypeOK, HostKnows, Accepted
<1>1. ASSUME NEW q \in Queues, NEW j \in Jobs, Submit(q, j) PROVE TypeInv'
  <2>1. /\ host' = [pc |-> "patch", q |-> q, j |-> j, k |-> 1] /\ j \in Accepts[q]
        /\ UNCHANGED <<fenceValue, header, inOrderJobs, lastWaitBo, background, inflight, unreported>>
    BY <1>1 DEF Submit
  <2>2. NumBufs[j] \in Nat \ {0}
    BY QueueConstants
  <2>. QED
    BY <2>1, <2>2
<1>2. ASSUME NEW q \in Queues, SetWorkloadType(q) PROVE TypeInv'
  BY <1>2, QueueConstants DEF SetWorkloadType
<1>3. ASSUME NEW j \in Jobs, WaitForCompletion(j) PROVE TypeInv'
  BY <1>3 DEF WaitForCompletion
<1>4. ASSUME MakeInOrder PROVE TypeInv'
  <2> DEFINE q == host.q
             j == host.j
  <2>1. q \in Queues /\ j \in Jobs /\ FrontBuf(j) \in Bufs /\ BackBuf(j) \in Bufs
    BY HostFacts, BufFacts
  <2>2. header' \in [Bufs -> Header]
    <3>1. PICK w \in Bufs \cup {NoBuf, Lost} :
              header' = [header EXCEPT ![FrontBuf(j)].waitOn = w, ![FrontBuf(j)].reset = TRUE,
                                       ![BackBuf(j)].signal = TRUE]
      BY <1>4, <2>1 DEF MakeInOrder, MakeInOrderWith
    <3> DEFINE h == [header EXCEPT ![FrontBuf(j)].waitOn = w, ![FrontBuf(j)].reset = TRUE]
    <3>2. h \in [Bufs -> Header]
      <4>1. [header[FrontBuf(j)] EXCEPT !.waitOn = w, !.reset = TRUE] \in Header
        <5>1. header[FrontBuf(j)] \in Header
          BY <2>1
        <5>. HIDE DEF j, TypeInv, TypeOK, HostKnows, Accepted
        <5>. QED
          BY <5>1 DEF Header
      <4>2. h = [header EXCEPT ![FrontBuf(j)] = [header[FrontBuf(j)] EXCEPT !.waitOn = w, !.reset = TRUE]]
        BY <2>1
      <4>. QED
        BY <2>1, <4>1, <4>2
    <3>3. header' = [h EXCEPT ![BackBuf(j)].signal = TRUE]
      BY <3>1
    <3>. HIDE DEF h
    <3>. QED
      BY <2>1, <3>2, <3>3 DEF Header
  <2>3. fenceValue' \in [Bufs -> FenceValue]
    BY <1>4, <2>1 DEF MakeInOrder, MakeInOrderWith, FenceValue
  <2>4. /\ host' \in [pc : {"idle", "patch", "submit"}, q : Queues, j : Jobs, k : Nat]
        /\ host'.q = q /\ host'.j = j /\ host'.k = host.k /\ host'.pc = "submit"
        /\ host.pc = "patch"
    BY <1>4 DEF MakeInOrder, MakeInOrderWith
  <2>. QED
    BY <1>4, <2>1, <2>2, <2>3, <2>4 DEF MakeInOrder, MakeInOrderWith
<1>5. ASSUME StripInOrder PROVE TypeInv'
  <2> DEFINE j == host.j
             mine == {b \in Bufs : b[1] = j}
             old(b) == IF b \notin mine THEN b
                       ELSE IF fenceValue[b] = "DEVICE_SIGNAL" THEN NoBuf ELSE Lost
  <2>1. /\ host' \in [pc : {"idle", "patch", "submit"}, q : Queues, j : Jobs, k : Nat]
        /\ host'.q = host.q /\ host'.j = j /\ host'.k = host.k /\ host'.pc = "submit"
        /\ host.pc = "patch" /\ UNCHANGED <<background, inflight, unreported>>
    BY <1>5 DEF StripInOrder
  <2>2. CASE j \notin inOrderJobs
    BY <1>5, <2>1, <2>2 DEF StripInOrder
  <2>3. CASE j \in inOrderJobs
    <3>1. \A w \in Bufs \cup {NoBuf, Lost} : old(w) \in Bufs \cup {NoBuf, Lost}
      OBVIOUS
    <3>2. /\ fenceValue' = [b \in Bufs |-> IF b \in mine THEN "INITIAL" ELSE fenceValue[b]]
          /\ header' = [b \in Bufs |-> IF b \in mine THEN NewHeader(b)
                                       ELSE [header[b] EXCEPT !.waitOn = old(@)]]
          /\ lastWaitBo' = [q \in Queues |-> old(lastWaitBo[q])]
          /\ inOrderJobs' = inOrderJobs \ {j}
      BY <1>5, <2>3 DEF StripInOrder
    <3>. HIDE DEF old
    <3>3. ASSUME NEW b \in Bufs PROVE [header[b] EXCEPT !.waitOn = old(@)] \in Header
      <4>1. header[b] \in Header
        OBVIOUS
      <4>2. old(header[b].waitOn) \in Bufs \cup {NoBuf, Lost}
        BY <3>1, <4>1 DEF Header
      <4>. QED
        BY <4>1, <4>2 DEF Header
    <3>4. header' \in [Bufs -> Header]
      BY <3>2, <3>3, NewHeaderType
    <3>5. fenceValue' \in [Bufs -> FenceValue]
      BY <3>2 DEF FenceValue
    <3>6. lastWaitBo' \in [Queues -> Bufs \cup {NoBuf, Lost}]
      BY <3>1, <3>2
    <3>. QED
      BY <2>1, <3>2, <3>4, <3>5, <3>6
  <2>. QED
    BY <2>2, <2>3
<1>6. ASSUME SubmitBusy PROVE TypeInv'
  BY <1>6, BusyWaitTypes, HostFacts DEF SubmitBusy
<1>7. ASSUME SubmitFails PROVE TypeInv'
  BY <1>7, BusyWaitTypes, HostFacts, IdleFacts DEF SubmitFails
<1>. QED
  BY <1>1, <1>2, <1>3, <1>4, <1>5, <1>6, <1>7

\* What a submission to a kernel queue adds.
NewEntry == [buf |-> <<host.j, host.k>>, bg |-> host.q \in background, st |-> "queued"]

\* A submitted buffer.
LEMMA SubmitTypes ==
    ASSUME TypeInv, SubmitCommandBuffer
    PROVE  TypeInv' /\ NewEntry \in Entry /\ inflight' = [inflight EXCEPT ![host.q] = Append(@, NewEntry)]
<1> DEFINE q == host.q
           b == <<host.j, host.k>>
<1>1. /\ q \in Queues /\ host.j \in Jobs /\ b \in Bufs /\ inflight \in Inflights
      /\ host.j \in Accepts[q] /\ host.k \in 1 .. NumBufs[host.j] /\ NumBufs[host.j] \in Nat
  BY HostFacts, BufFacts DEF SubmitCommandBuffer, TypeInv, HostKnows
<1>2. NewEntry \in Entry /\ NewEntry.buf = b
  BY <1>1 DEF Entry, NewEntry
<1>3. inflight' = [inflight EXCEPT ![q] = Append(@, NewEntry)]
  BY DEF SubmitCommandBuffer, NewEntry
<1>4. inflight' \in Inflights /\ Accepted'
  <2>1. Joins(inflight, inflight', q, NewEntry)
    BY <1>1, <1>2, <1>3, Joined
  <2>2. NewEntry.buf[1] \in Accepts[q]
    BY <1>1, <1>2
  <2>3. ASSUME NEW i \in DOMAIN inflight'[q] PROVE inflight'[q][i].buf[1] \in Accepts[q]
    BY <2>1, <2>2, <1>1 DEF TypeInv, Accepted, Joins
  <2>. QED
    BY <2>1, <2>3 DEF TypeInv, Accepted, Joins
<1>5. fenceValue' \in [Bufs -> FenceValue] /\ header' \in [Bufs -> Header]
  BY <1>1, BusyWaitTypes DEF SubmitCommandBuffer, TypeInv, TypeOK
<1>6. /\ host' \in [pc : {"idle", "patch", "submit"}, q : Queues, j : Jobs, k : Nat]
      /\ HostKnows'
  <2>1. CASE b = BackBuf(host.j)
    BY <2>1, IdleFacts DEF SubmitCommandBuffer, HostKnows
  <2>2. CASE b # BackBuf(host.j)
    <3>1. host' = [host EXCEPT !.k = @ + 1] /\ host.pc = "submit"
      BY <2>2 DEF SubmitCommandBuffer
    <3>2. host.k + 1 \in 1 .. NumBufs[host.j]
      BY <1>1, <2>2 DEF BackBuf
    <3>3. host \in [pc : {"idle", "patch", "submit"}, q : Queues, j : Jobs, k : Nat]
      BY DEF TypeInv, TypeOK
    <3>4. /\ host' \in [pc : {"idle", "patch", "submit"}, q : Queues, j : Jobs, k : Nat]
          /\ host'.pc = "submit" /\ host'.q = host.q /\ host'.j = host.j /\ host'.k = host.k + 1
      BY <3>1, <3>3
    <3>. QED
      BY <1>1, <3>2, <3>4 DEF HostKnows
  <2>. QED
    BY <2>1, <2>2
<1>. QED
  BY <1>2, <1>3, <1>4, <1>5, <1>6 DEF SubmitCommandBuffer, TypeInv, TypeOK, Inflights

\* The device.
LEMMA DeviceTypes ==
    ASSUME TypeInv, NEW q \in Queues, NEW i \in DOMAIN inflight[q], DeviceStep(q, i)
    PROVE  TypeInv'
<1>1. inflight \in Inflights /\ UNCHANGED <<header, inOrderJobs, lastWaitBo, background, unreported, host>>
  BY HostFacts DEF DeviceStep, PassWait, ResetWaited, Finish
<1>2. inflight' \in Inflights /\ Accepted'
  <2>1. CASE PassWait(q, i)
    <3>1. PICK v \in {"resetting", "running"} : inflight' = [inflight EXCEPT ![q][i].st = v]
      BY <2>1 DEF PassWait
    <3>2. StateChanges(inflight, inflight', q, i, v)
      BY <1>1, <3>1, StateChanged
    <3>. QED
      BY <3>2 DEF TypeInv, Accepted, StateChanges
  <2>2. CASE ResetWaited(q, i)
    <3>1. inflight' = [inflight EXCEPT ![q][i].st = "running"]
      BY <2>2 DEF ResetWaited
    <3>2. StateChanges(inflight, inflight', q, i, "running")
      BY <1>1, <3>1, StateChanged
    <3>. QED
      BY <3>2 DEF TypeInv, Accepted, StateChanges
  <2>3. CASE Finish(q, i)
    <3>1. inflight' = [inflight EXCEPT ![q] = RemoveAt(@, i)]
      BY <2>3 DEF Finish
    <3>2. Leaves(inflight, inflight', q, i)
      BY <1>1, <3>1, Left
    <3>3. ASSUME NEW h \in DOMAIN inflight'[q] PROVE inflight'[q][h].buf[1] \in Accepts[q]
      BY <3>2 DEF TypeInv, Accepted, Leaves
    <3>. QED
      BY <3>2, <3>3 DEF TypeInv, Accepted, Leaves
  <2>. QED
    BY <2>1, <2>2, <2>3 DEF DeviceStep
<1>3. fenceValue' \in [Bufs -> FenceValue]
  BY DEF DeviceStep, PassWait, ResetWaited, Finish, TypeInv, TypeOK, FenceValue
<1>. QED
  BY <1>1, <1>2, <1>3 DEF TypeInv, TypeOK, HostKnows, Inflights

\* Every step keeps the types.
LEMMA NextTypes == TypeInv /\ [Next]_vars => TypeInv'
<1>1. ASSUME TypeInv, UNCHANGED vars PROVE TypeInv'
  BY <1>1 DEF vars, TypeInv, TypeOK, HostKnows, Accepted
<1>2. ASSUME TypeInv, Next PROVE TypeInv'
  BY <1>2, HostTypes, SubmitTypes, DeviceTypes DEF Next, HostStep
<1>. QED
  BY <1>1, <1>2

\* The state always has its types: headers name command buffers that exist, and queues
\* hold them (vpu_command_queue.cpp, job.cpp).
THEOREM QueueTypesCorrect == Spec => []TypeOK
<1>1. Spec => []TypeInv
  BY InitTypes, NextTypes, PTL DEF Spec
<1>2. TypeInv => TypeOK
  BY DEF TypeInv
<1>. QED
  BY <1>1, <1>2, PTL

-----------------------------------------------------------------------------
(***************************************************************************)
(* Which command buffers are in flight, and which have started.            *)
(***************************************************************************)

\* The device is past the wait at the head of command buffer b.
Started(b) ==
    \E q \in Queues : \E i \in DOMAIN inflight[q] :
        inflight[q][i].buf = b /\ inflight[q][i].st # "queued"

\* Command buffer b is in flight once at most.
Once(b) ==
    \A q, r \in Queues : \A i \in DOMAIN inflight[q], h \in DOMAIN inflight[r] :
        inflight[q][i].buf = b /\ inflight[r][h].buf = b => q = r /\ i = h

\* What is in flight has not been reported as completed.
Reported == \A b \in Bufs : InFlight(b) => b[1] \in unreported

LEMMA StartedInFlight == \A b : Started(b) => InFlight(b)
BY DEF Started, InFlight

\* Nothing changes in flight.
LEMMA FlightUnchanged ==
    ASSUME UNCHANGED inflight
    PROVE  \A b : InFlight(b)' = InFlight(b) /\ Started(b)' = Started(b) /\ Once(b)' = Once(b)
BY DEF InFlight, Started, Once

\* A buffer joins.
LEMMA FlightJoins ==
    ASSUME NEW q \in Queues, NEW e, e.st = "queued", Joins(inflight, inflight', q, e)
    PROVE  /\ \A b : InFlight(b)' <=> InFlight(b) \/ b = e.buf
           /\ \A b : Started(b)' => Started(b)
           /\ \A b : Once(b) /\ (b = e.buf => ~InFlight(b)) => Once(b)'
<1> DEFINE n == Len(inflight[q])
<1>1. /\ \A r \in Queues \ {q} : inflight'[r] = inflight[r]
      /\ DOMAIN inflight'[q] = 1 .. n + 1 /\ DOMAIN inflight[q] = 1 .. n /\ n \in Nat
      /\ inflight'[q][n + 1] = e
      /\ \A h \in 1 .. n : inflight'[q][h] = inflight[q][h]
  BY DEF Joins
<1>. HIDE DEF n
<1>2. ASSUME NEW r \in Queues, NEW i \in DOMAIN inflight'[r]
      PROVE  \/ i \in DOMAIN inflight[r] /\ inflight'[r][i] = inflight[r][i]
             \/ r = q /\ i = n + 1 /\ inflight'[r][i] = e
  BY <1>1
<1>3. ASSUME NEW r \in Queues, NEW i \in DOMAIN inflight[r]
      PROVE  i \in DOMAIN inflight'[r] /\ inflight'[r][i] = inflight[r][i]
  BY <1>1
<1>4. \A b : InFlight(b)' <=> InFlight(b) \/ b = e.buf
  <2> TAKE b
  <2>1. InFlight(b)' => InFlight(b) \/ b = e.buf
    BY <1>2 DEF InFlight
  <2>2. InFlight(b) => InFlight(b)'
    BY <1>3 DEF InFlight
  <2>3. b = e.buf => InFlight(b)'
    BY <1>1 DEF InFlight
  <2>. QED
    BY <2>1, <2>2, <2>3
<1>5. \A b : Started(b)' => Started(b)
  BY <1>2 DEF Started
<1>6. ASSUME NEW b, Once(b), b = e.buf => ~InFlight(b) PROVE Once(b)'
  BY <1>2, <1>6 DEF Once, InFlight
<1>. QED
  BY <1>4, <1>5, <1>6

\* A buffer changes its state.
LEMMA FlightChanges ==
    ASSUME NEW q \in Queues, NEW i \in DOMAIN inflight[q], NEW v,
           StateChanges(inflight, inflight', q, i, v)
    PROVE  /\ \A b : InFlight(b)' <=> InFlight(b)
           /\ \A b : Started(b)' => Started(b) \/ b = inflight[q][i].buf
           /\ \A b : Once(b) => Once(b)'
<1>1. \A r \in Queues : DOMAIN inflight'[r] = DOMAIN inflight[r]
  BY DEF StateChanges
<1>2. \A r \in Queues : \A h \in DOMAIN inflight[r] :
          /\ inflight'[r][h].buf = inflight[r][h].buf
          /\ inflight'[r][h].st = inflight[r][h].st \/ (r = q /\ h = i)
  BY DEF StateChanges
<1>3. \A b : InFlight(b)' <=> InFlight(b)
  BY <1>1, <1>2 DEF InFlight
<1>4. \A b : Started(b)' => Started(b) \/ b = inflight[q][i].buf
  BY <1>1, <1>2 DEF Started
<1>5. \A b : Once(b) => Once(b)'
  BY <1>1, <1>2 DEF Once
<1>. QED
  BY <1>3, <1>4, <1>5

\* A buffer leaves.
LEMMA FlightLeaves ==
    ASSUME NEW q \in Queues, NEW i \in DOMAIN inflight[q],
           Leaves(inflight, inflight', q, i)
    PROVE  /\ \A b : InFlight(b)' => InFlight(b)
           /\ \A b : Started(b)' => Started(b)
           /\ \A b : Once(b) => Once(b)'
           /\ \A b : b = inflight[q][i].buf /\ Once(b) => ~InFlight(b)'
<1> DEFINE n == Len(inflight[q])
           From(r, h) == IF r = q /\ h >= i THEN h + 1 ELSE h
<1>1. /\ \A r \in Queues \ {q} : inflight'[r] = inflight[r]
      /\ DOMAIN inflight'[q] = 1 .. n - 1 /\ DOMAIN inflight[q] = 1 .. n /\ n \in Nat
      /\ \A h \in 1 .. n - 1 : inflight'[q][h] = IF h < i THEN inflight[q][h] ELSE inflight[q][h+1]
  BY DEF Leaves
<1>. HIDE DEF n
<1>2. ASSUME NEW r \in Queues, NEW h \in DOMAIN inflight'[r]
      PROVE  /\ From(r, h) \in DOMAIN inflight[r]
             /\ inflight'[r][h] = inflight[r][From(r, h)]
             /\ r = q => From(r, h) # i
  <2>1. CASE r # q
    BY <1>1, <2>1
  <2>2. CASE r = q
    <3>1. h \in 1 .. n - 1 /\ i \in 1 .. n
      BY <1>1, <2>2
    <3>2. CASE h < i
      BY <1>1, <2>2, <3>1, <3>2
    <3>3. CASE h >= i
      BY <1>1, <2>2, <3>1, <3>3
    <3>. QED
      BY <3>1, <3>2, <3>3, <1>1
  <2>. QED
    BY <2>1, <2>2
<1>3. ASSUME NEW g \in DOMAIN inflight'[q], NEW h \in DOMAIN inflight'[q], From(q, g) = From(q, h)
      PROVE  g = h
  <2>1. g \in Nat /\ h \in Nat /\ i \in Nat
    BY <1>1
  <2>. QED
    BY <2>1, <1>3
<1>4. ASSUME NEW r \in Queues, NEW g \in DOMAIN inflight'[r], NEW h \in DOMAIN inflight'[r],
             From(r, g) = From(r, h)
      PROVE  g = h
  BY <1>3, <1>4
<1>. HIDE DEF From
<1>5. \A b : InFlight(b)' => InFlight(b)
  BY <1>2 DEF InFlight
<1>6. \A b : Started(b)' => Started(b)
  BY <1>2 DEF Started
<1>7. ASSUME NEW b, Once(b) PROVE Once(b)'
  <2> SUFFICES ASSUME NEW r \in Queues, NEW s \in Queues,
                      NEW g \in DOMAIN inflight'[r], NEW h \in DOMAIN inflight'[s],
                      inflight'[r][g].buf = b, inflight'[s][h].buf = b
               PROVE  r = s /\ g = h
    BY DEF Once
  <2>1. r = s /\ From(r, g) = From(s, h)
    BY <1>2, <1>7 DEF Once
  <2>. QED
    BY <1>4, <2>1
<1>8. ASSUME NEW b, b = inflight[q][i].buf, Once(b), InFlight(b)' PROVE FALSE
  <2>0. PICK r \in Queues : \E h \in DOMAIN inflight'[r] : inflight'[r][h].buf = b
    BY <1>8 DEF InFlight
  <2>1. PICK h \in DOMAIN inflight'[r] : inflight'[r][h].buf = b
    BY <2>0
  <2>2. inflight[r][From(r, h)].buf = b /\ From(r, h) \in DOMAIN inflight[r]
    BY <1>2, <2>1
  <2>3. r = q /\ From(r, h) = i
    BY <2>2, <1>8 DEF Once
  <2>. QED
    BY <1>2, <2>3
<1>. QED
  BY <1>5, <1>6, <1>7, <1>8

\* A queue's step on entry i, as what happens to its buffer b: it starts, it goes on,
\* or it leaves.
LEMMA DeviceFlight ==
    ASSUME TypeInv, NEW q \in Queues, NEW i \in DOMAIN inflight[q], DeviceStep(q, i),
           NEW b, b = inflight[q][i].buf
    PROVE  /\ b \in Bufs /\ InFlight(b)
           /\ \A c : InFlight(c)' => InFlight(c)
           /\ \A c : Started(c)' => Started(c) \/ c = b
           /\ \A c : Once(c) => Once(c)'
           /\ PassWait(q, i) \/ Started(b)
           /\ Finish(q, i) /\ Once(b) => ~InFlight(b)'
           /\ Finish(q, i) => \A c : Started(c)' => Started(c)
           /\ UNCHANGED <<header, inOrderJobs, lastWaitBo, background, unreported, host>>
<1>1. b \in Bufs /\ InFlight(b) /\ inflight \in Inflights
  BY HostFacts DEF InFlight
<1>2. CASE PassWait(q, i)
  <2>1. PICK v \in {"resetting", "running"} : inflight' = [inflight EXCEPT ![q][i].st = v]
    BY <1>2 DEF PassWait
  <2>2. StateChanges(inflight, inflight', q, i, v)
    BY <1>1, <2>1, StateChanged
  <2>3. ~Finish(q, i)
    BY <1>2 DEF PassWait, Finish
  <2>. QED
    BY <1>1, <1>2, <2>2, <2>3, FlightChanges DEF PassWait
<1>3. CASE ResetWaited(q, i)
  <2>1. inflight' = [inflight EXCEPT ![q][i].st = "running"]
    BY <1>3 DEF ResetWaited
  <2>2. StateChanges(inflight, inflight', q, i, "running")
    BY <1>1, <2>1, StateChanged
  <2>3. ~Finish(q, i) /\ Started(b)
    BY <1>3 DEF ResetWaited, Finish, Started
  <2>. QED
    BY <1>1, <1>3, <2>2, <2>3, FlightChanges DEF ResetWaited
<1>4. CASE Finish(q, i)
  <2>1. inflight' = [inflight EXCEPT ![q] = RemoveAt(@, i)]
    BY <1>4 DEF Finish
  <2>2. Leaves(inflight, inflight', q, i)
    BY <1>1, <2>1, Left
  <2>3. Started(b)
    BY <1>4 DEF Finish, Started
  <2>. QED
    BY <1>1, <1>4, <2>2, <2>3, FlightLeaves DEF Finish
<1>. QED
  BY <1>2, <1>3, <1>4 DEF DeviceStep

\* A submission, as what happens to its buffer b.
LEMMA SubmitFlight ==
    ASSUME TypeInv, SubmitCommandBuffer, NEW b, b = <<host.j, host.k>>
    PROVE  /\ b \in Bufs
           /\ \A c : InFlight(c)' <=> InFlight(c) \/ c = b
           /\ \A c : Started(c)' => Started(c)
           /\ \A c : Once(c) /\ (c = b => ~InFlight(c)) => Once(c)'
<1>1. NewEntry \in Entry /\ inflight' = [inflight EXCEPT ![host.q] = Append(@, NewEntry)]
  BY SubmitTypes
<1>2. inflight \in Inflights /\ host.q \in Queues /\ b \in Bufs
  BY HostFacts DEF SubmitCommandBuffer
<1>3. Joins(inflight, inflight', host.q, NewEntry)
  BY <1>1, <1>2, Joined
<1>4. NewEntry.st = "queued" /\ NewEntry.buf = b
  BY DEF NewEntry
<1>5. PICK q : q = host.q
  OBVIOUS
<1>6. PICK e : e = NewEntry
  OBVIOUS
<1>7. q \in Queues /\ e.st = "queued" /\ e.buf = b /\ Joins(inflight, inflight', q, e)
  BY <1>2, <1>3, <1>4, <1>5, <1>6
<1>. QED
  BY <1>2, <1>7, FlightJoins

\* The steps that leave the queues alone.
Quiet ==
    \/ \E q \in Queues, j \in Jobs : Submit(q, j)
    \/ \E q \in Queues : SetWorkloadType(q)
    \/ \E j \in Jobs : WaitForCompletion(j)
    \/ MakeInOrder \/ StripInOrder \/ SubmitBusy \/ SubmitFails \/ UNCHANGED vars

LEMMA QuietFlight ==
    ASSUME Quiet
    PROVE  \A b : InFlight(b)' = InFlight(b) /\ Started(b)' = Started(b) /\ Once(b)' = Once(b)
<1>1. UNCHANGED inflight
  BY DEF Quiet, Submit, SetWorkloadType, WaitForCompletion, MakeInOrder, MakeInOrderWith,
         StripInOrder, SubmitBusy, SubmitFails, vars
<1>. QED
  BY <1>1, FlightUnchanged

\* Every step is one of three kinds.
LEMMA Kinds ==
    ASSUME [Next]_vars
    PROVE  \/ Quiet
           \/ SubmitCommandBuffer
           \/ \E q \in Queues : \E i \in DOMAIN inflight[q] : DeviceStep(q, i)
BY DEF Next, HostStep, Quiet

\* A list is reported when none of its buffers is in flight.
LEMMA ReportedKept ==
    ASSUME TypeInv, Reported, [Next]_vars
    PROVE  Reported'
<1>1. CASE Quiet
  <2>1. CASE UNCHANGED unreported
    BY <1>1, <2>1, QuietFlight DEF Reported
  <2>2. ASSUME NEW j \in Jobs, WaitForCompletion(j) PROVE Reported'
    <3>1. ASSUME NEW b \in Bufs, InFlight(b) PROVE b[1] # j
      <4>1. b = <<b[1], b[2]>> /\ b[2] \in 1 .. NumBufs[b[1]]
        BY BufFacts
      <4>2. \A k \in 1 .. NumBufs[j] : ~InFlight(<<j, k>>)
        BY <2>2 DEF WaitForCompletion
      <4>. QED
        BY <3>1, <4>1, <4>2
    <3>2. unreported' = unreported \ {j}
      BY <2>2 DEF WaitForCompletion
    <3>. QED
      BY <1>1, <3>1, <3>2, QuietFlight DEF Reported
  <2>. QED
    BY <1>1, <2>1, <2>2 DEF Quiet, Submit, SetWorkloadType, MakeInOrder, MakeInOrderWith,
                            StripInOrder, SubmitBusy, SubmitFails, vars
<1>2. CASE SubmitCommandBuffer
  <2>1. unreported' = unreported \cup {host.j}
    BY <1>2 DEF SubmitCommandBuffer
  <2>2. \A c : InFlight(c)' <=> InFlight(c) \/ c = <<host.j, host.k>>
    BY <1>2, SubmitFlight
  <2>. QED
    BY <2>1, <2>2 DEF Reported
<1>3. CASE \E q \in Queues : \E i \in DOMAIN inflight[q] : DeviceStep(q, i)
  <2>1. UNCHANGED unreported /\ \A c : InFlight(c)' => InFlight(c)
    BY <1>3, DeviceFlight
  <2>. QED
    BY <2>1 DEF Reported
<1>. QED
  BY <1>1, <1>2, <1>3, Kinds

-----------------------------------------------------------------------------
(***************************************************************************)
(* Lists of several command buffers on turbo queues.                       *)
(***************************************************************************)

\* A list of several buffers goes to turbo queues only.  Other queues do not reset
\* the fences between its buffers when it is submitted again.
SplitOnTurbo == \A q \in Queues : \A j \in Accepts[q] : NumBufs[j] > 1 => q \in Turbo

\* Every buffer but the first waits for the one before it.
Chained(j) == j \notin inOrderJobs /\ \A k \in 2 .. NumBufs[j] : header[<<j, k>>].waitOn = <<j, k-1>>

\* What the thread has yet to submit is not in flight.
Ahead(j) ==
    host.pc # "idle" /\ host.j = j => \A k \in host.k .. NumBufs[j] : ~InFlight(<<j, k>>)

\* A buffer in flight has not signalled.
Unsignalled(j) ==
    \A k \in 1 .. NumBufs[j] : InFlight(<<j, k>>) => fenceValue[<<j, k>>] # "DEVICE_SIGNAL"

\* The buffer behind k is in flight, or about to be.
Followed(j, k) == InFlight(<<j, k+1>>) \/ (host.pc = "submit" /\ host.j = j /\ k < host.k)

\* A signal that a follower waits for means that everything up to there is done.
Behind(j) ==
    \A k \in 1 .. NumBufs[j] :
        Followed(j, k) /\ fenceValue[<<j, k>>] = "DEVICE_SIGNAL" => \A h \in 1 .. k : ~InFlight(<<j, h>>)

\* When a buffer has started, those before it are done.
InTurn(j) == \A k \in 1 .. NumBufs[j] : Started(<<j, k>>) => \A h \in 1 .. k-1 : ~InFlight(<<j, h>>)

OnceEach(j) == \A k \in 1 .. NumBufs[j] : Once(<<j, k>>)

SplitInv(j) == Chained(j) /\ OnceEach(j) /\ Ahead(j) /\ Unsignalled(j) /\ Behind(j) /\ InTurn(j)

Split == {j \in Jobs : NumBufs[j] > 1}

\* The entry of a submission joins its queue.
LEMMA EntryJoins ==
    ASSUME TypeInv, SubmitCommandBuffer, NEW e, e = NewEntry
    PROVE  /\ e \in Entry /\ host.q \in Queues /\ Joins(inflight, inflight', host.q, e)
           /\ e.st = "queued" /\ e.buf = <<host.j, host.k>> /\ e.buf \in Bufs
           /\ e.bg <=> host.q \in background
<1>1. NewEntry \in Entry /\ inflight' = [inflight EXCEPT ![host.q] = Append(@, NewEntry)]
  BY SubmitTypes
<1>2. host.q \in Queues /\ inflight \in Inflights
  BY HostFacts
<1>3. Joins(inflight, inflight', host.q, NewEntry)
  BY <1>1, <1>2, Joined
<1>4. NewEntry.st = "queued" /\ NewEntry.buf = <<host.j, host.k>> /\ (NewEntry.bg <=> host.q \in background)
  BY DEF NewEntry
<1>5. NewEntry.buf \in Bufs
  BY <1>1 DEF Entry
<1>. QED
  BY <1>1, <1>2, <1>3, <1>4, <1>5

\* useBusyWait leaves the waits alone, and makes no fence signalled.
LEMMA BusyWaitKeeps ==
    ASSUME TypeInv, NEW q, NEW b \in Bufs, UseBusyWait(q, b), NEW c \in Bufs
    PROVE  /\ header'[c].waitOn = header[c].waitOn
           /\ header'[c].reset = header[c].reset
           /\ c # b => header'[c] = header[c] /\ fenceValue'[c] = fenceValue[c]
           /\ fenceValue'[c] = "DEVICE_SIGNAL" => fenceValue[c] = "DEVICE_SIGNAL"
<1>1. CASE q \in Turbo
  <2>1. header' = [header EXCEPT ![b].signal = TRUE] /\ fenceValue' = [fenceValue EXCEPT ![b] = "HOST_RESET"]
    BY <1>1 DEF UseBusyWait
  <2>2. header \in [Bufs -> Header] /\ fenceValue \in [Bufs -> FenceValue]
    BY DEF TypeInv, TypeOK
  <2>3. CASE c = b
    <3>1. header'[c] = [header[c] EXCEPT !.signal = TRUE] /\ fenceValue'[c] = "HOST_RESET"
      BY <2>1, <2>2, <2>3
    <3>. QED
      BY <2>2, <2>3, <3>1 DEF Header
  <2>4. CASE c # b
    BY <2>1, <2>2, <2>4
  <2>. QED
    BY <2>3, <2>4
<1>2. CASE q \notin Turbo
  BY <1>2 DEF UseBusyWait
<1>. QED
  BY <1>1, <1>2

\* Steps of the thread that leave the queues alone.
LEMMA SplitQuiet ==
    ASSUME SplitOnTurbo, TypeInv, Reported, Quiet, NEW j \in Split, SplitInv(j)
    PROVE  SplitInv(j)'
<1>1. \A b : InFlight(b)' = InFlight(b) /\ Started(b)' = Started(b) /\ Once(b)' = Once(b)
  BY QuietFlight
<1>2. OnceEach(j)' /\ InTurn(j)'
  BY <1>1 DEF SplitInv, OnceEach, InTurn
<1>3. j \in Jobs /\ NumBufs[j] \in Nat /\ \A k \in 1 .. NumBufs[j] : <<j, k>> \in Bufs
  BY BufFacts DEF Split
<1>4. \A q \in Queues : j \in Accepts[q] => q \in Turbo /\ q \notin InOrder
  BY QueueConstants DEF SplitOnTurbo, Split
<1>5. CASE UNCHANGED <<header, fenceValue, inOrderJobs>> /\ (host' = host \/ host'.pc = "idle")
  BY <1>1, <1>2, <1>5 DEF SplitInv, Chained, Ahead, Unsignalled, Behind, Followed
<1>6. ASSUME NEW q \in Queues, NEW i \in Jobs, Submit(q, i) PROVE SplitInv(j)'
  <2>1. /\ host' = [pc |-> "patch", q |-> q, j |-> i, k |-> 1] /\ i \in Accepts[q]
        /\ UNCHANGED <<fenceValue, header, inOrderJobs>>
        /\ i \in unreported => q \in InOrder
    BY <1>6 DEF Submit
  <2>2. i = j => \A k \in 1 .. NumBufs[j] : ~InFlight(<<j, k>>)
    BY <2>1, <1>3, <1>4 DEF Reported
  <2>3. Ahead(j)'
    BY <1>1, <2>1, <2>2 DEF Ahead
  <2>4. Behind(j)'
    BY <1>1, <2>1 DEF SplitInv, Behind, Followed
  <2>. QED
    BY <1>1, <1>2, <2>1, <2>3, <2>4 DEF SplitInv, Chained, Unsignalled
<1>7. ASSUME MakeInOrder PROVE SplitInv(j)'
  <2>1. /\ host.q \in InOrder /\ host.j \in Accepts[host.q] /\ host.q \in Queues /\ host.j \in Jobs
        /\ host'.pc = "submit" /\ host'.j = host.j /\ host'.k = host.k
        /\ inOrderJobs' = inOrderJobs \cup {host.j} /\ host.pc = "patch"
    BY <1>7, HostFacts DEF MakeInOrder, MakeInOrderWith, TypeInv, TypeOK, HostKnows
  <2>2. host.j # j
    BY <2>1, <1>4
  <2>3. ASSUME NEW k \in 1 .. NumBufs[j]
        PROVE  <<j, k>> # FrontBuf(host.j) /\ <<j, k>> # BackBuf(host.j)
    BY <2>2 DEF FrontBuf, BackBuf
  <2>4. \A k \in 1 .. NumBufs[j] : /\ header'[<<j, k>>] = header[<<j, k>>]
                                   /\ fenceValue'[<<j, k>>] = fenceValue[<<j, k>>]
    BY <1>3, <1>7, <2>1, <2>3, BufFacts DEF MakeInOrder, MakeInOrderWith, TypeInv, TypeOK
  <2>. QED
    BY <1>1, <1>2, <1>3, <2>1, <2>2, <2>4 DEF SplitInv, Chained, Ahead, Unsignalled, Behind, Followed
<1>8. ASSUME StripInOrder PROVE SplitInv(j)'
  <2>1. /\ host.pc = "patch" /\ host'.pc = "submit" /\ host'.j = host.j /\ host'.k = host.k
        /\ host.k = 1
    BY <1>8 DEF StripInOrder, TypeInv, TypeOK, HostKnows
  <2>2. \A k \in 1 .. NumBufs[j] : ~(k < host.k)
    BY <2>1
  <2>3. CASE host.j \notin inOrderJobs
    <3>1. UNCHANGED <<fenceValue, header, lastWaitBo, inOrderJobs>>
      BY <1>8, <2>3 DEF StripInOrder
    <3>. QED
      BY <1>1, <1>2, <2>1, <2>2, <3>1 DEF SplitInv, Chained, Ahead, Unsignalled, Behind, Followed
  <2>4. CASE host.j \in inOrderJobs
    <3>1. host.j # j
      BY <2>4 DEF SplitInv, Chained
    <3> DEFINE mine == {b \in Bufs : b[1] = host.j}
               old(b) == IF b \notin mine THEN b
                         ELSE IF fenceValue[b] = "DEVICE_SIGNAL" THEN NoBuf ELSE Lost
    <3>2. /\ fenceValue' = [b \in Bufs |-> IF b \in mine THEN "INITIAL" ELSE fenceValue[b]]
          /\ header' = [b \in Bufs |-> IF b \in mine THEN NewHeader(b)
                                       ELSE [header[b] EXCEPT !.waitOn = old(@)]]
          /\ inOrderJobs' = inOrderJobs \ {host.j}
      BY <1>8, <2>4 DEF StripInOrder
    <3>3. \A k \in 1 .. NumBufs[j] : <<j, k>> \notin mine /\ old(<<j, k>>) = <<j, k>>
      BY <3>1
    <3>. HIDE DEF mine, old
    <3>4. \A k \in 1 .. NumBufs[j] :
              /\ fenceValue'[<<j, k>>] = fenceValue[<<j, k>>]
              /\ header'[<<j, k>>].waitOn = old(header[<<j, k>>].waitOn)
      BY <1>3, <3>2, <3>3 DEF TypeInv, TypeOK, Header
    <3>5. \A k \in 2 .. NumBufs[j] : k \in 1 .. NumBufs[j] /\ k - 1 \in 1 .. NumBufs[j]
      BY <1>3
    <3>6. Chained(j)'
      BY <3>1, <3>2, <3>3, <3>4, <3>5 DEF SplitInv, Chained
    <3>. QED
      BY <1>1, <1>2, <2>1, <2>2, <3>4, <3>6 DEF SplitInv, Ahead, Unsignalled, Behind, Followed
  <2>. QED
    BY <2>3, <2>4
<1>9. ASSUME SubmitBusy \/ SubmitFails PROVE SplitInv(j)'
  <2> DEFINE b == <<host.j, host.k>>
  <2>1. UseBusyWait(host.q, b) /\ UNCHANGED inOrderJobs /\ (host' = host \/ host'.pc = "idle") /\ b \in Bufs
    BY <1>9, HostFacts, IdleFacts DEF SubmitBusy, SubmitFails
  <2>2. \A k \in 1 .. NumBufs[j] :
            /\ fenceValue'[<<j, k>>] = "DEVICE_SIGNAL" => fenceValue[<<j, k>>] = "DEVICE_SIGNAL"
            /\ header'[<<j, k>>].waitOn = header[<<j, k>>].waitOn
    BY <1>3, <2>1, BusyWaitKeeps
  <2>. QED
    BY <1>1, <1>2, <1>3, <2>1, <2>2 DEF SplitInv, Chained, Ahead, Unsignalled, Behind, Followed
<1>. QED
  BY <1>5, <1>6, <1>7, <1>8, <1>9 DEF Quiet, SetWorkloadType, WaitForCompletion, vars

\* The submission of a buffer.
LEMMA SplitSubmit ==
    ASSUME SplitOnTurbo, TypeInv, SubmitCommandBuffer, NEW j \in Split, SplitInv(j)
    PROVE  SplitInv(j)'
<1> DEFINE b == <<host.j, host.k>>
<1>1. /\ b \in Bufs
      /\ \A c : InFlight(c)' <=> InFlight(c) \/ c = b
      /\ \A c : Started(c)' => Started(c)
      /\ \A c : Once(c) /\ (c = b => ~InFlight(c)) => Once(c)'
  BY SubmitFlight
<1>2. /\ j \in Jobs /\ NumBufs[j] \in Nat /\ \A k \in 1 .. NumBufs[j] : <<j, k>> \in Bufs
      /\ host.pc = "submit" /\ host.k \in Nat /\ host.k \in 1 .. NumBufs[host.j]
      /\ host.q \in Queues /\ host.j \in Accepts[host.q]
  BY BufFacts, HostFacts DEF Split, SubmitCommandBuffer, TypeInv, HostKnows
<1>3. UseBusyWait(host.q, b) /\ UNCHANGED inOrderJobs
  BY DEF SubmitCommandBuffer
<1>4. \A k \in 1 .. NumBufs[j] :
          /\ fenceValue'[<<j, k>>] = "DEVICE_SIGNAL" => fenceValue[<<j, k>>] = "DEVICE_SIGNAL"
          /\ header'[<<j, k>>].waitOn = header[<<j, k>>].waitOn
  BY <1>1, <1>2, <1>3, BusyWaitKeeps
<1>5. Chained(j)'
  BY <1>2, <1>3, <1>4 DEF SplitInv, Chained
<1>6. CASE host.j # j
  <2>1. \A k : InFlight(<<j, k>>)' <=> InFlight(<<j, k>>)
    BY <1>1, <1>6
  <2>2. host' = Idle \/ (host'.pc = "submit" /\ host'.j = host.j)
    BY DEF SubmitCommandBuffer, TypeInv, TypeOK
  <2>3. host'.pc = "idle" \/ host'.j # j
    BY <1>6, <2>2, IdleFacts
  <2>4. Ahead(j)' /\ Unsignalled(j)' /\ Behind(j)'
    BY <1>4, <2>1, <2>3 DEF SplitInv, Ahead, Unsignalled, Behind, Followed
  <2>5. OnceEach(j)' /\ InTurn(j)'
    BY <1>1, <1>6, <2>1 DEF SplitInv, OnceEach, InTurn
  <2>. QED
    BY <1>5, <2>4, <2>5 DEF SplitInv
<1>7. CASE host.j = j
  <2> DEFINE n == host.k
  <2>1. n \in 1 .. NumBufs[j] /\ b = <<j, n>>
    BY <1>2, <1>7
  <2>2. \A k \in n .. NumBufs[j] : ~InFlight(<<j, k>>)
    BY <1>2, <1>7 DEF SplitInv, Ahead
  <2>3. \A k : InFlight(<<j, k>>)' <=> InFlight(<<j, k>>) \/ k = n
    BY <1>1, <2>1
  <2>4. fenceValue'[<<j, n>>] # "DEVICE_SIGNAL"
    <3>1. host.q \in Turbo
      BY <1>2, <1>7 DEF SplitOnTurbo, Split
    <3>. QED
      BY <1>3, <2>1, <3>1, <1>1 DEF UseBusyWait, TypeInv, TypeOK
  <2>5. host'.pc = "idle" \/ (host'.pc = "submit" /\ host'.j = j /\ host'.k = n + 1)
    BY <1>7, IdleFacts DEF SubmitCommandBuffer, TypeInv, TypeOK
  <2>6. OnceEach(j)'
    BY <1>1, <2>1, <2>2 DEF SplitInv, OnceEach
  <2>7. Ahead(j)'
    <3>1. \A k \in n + 1 .. NumBufs[j] : k \in n .. NumBufs[j] /\ k # n
      BY <2>1, <1>2
    <3>. QED
      BY <2>2, <2>3, <2>5, <3>1 DEF Ahead
  <2>8. Unsignalled(j)'
    BY <1>4, <2>3, <2>4 DEF SplitInv, Unsignalled
  <2>9. InTurn(j)'
    <3>1. ASSUME NEW k \in 1 .. NumBufs[j], Started(<<j, k>>)', NEW h \in 1 .. k - 1
          PROVE  ~InFlight(<<j, h>>)'
      <4>1. Started(<<j, k>>) /\ InFlight(<<j, k>>)
        BY <1>1, <3>1, StartedInFlight
      <4>2. k < n
        BY <1>2, <2>1, <2>2, <4>1
      <4>3. h # n
        BY <2>1, <4>2
      <4>. QED
        BY <2>3, <3>1, <4>1, <4>3 DEF SplitInv, InTurn
    <3>. QED
      BY <3>1 DEF InTurn
  <2>10. Behind(j)'
    <3>1. ASSUME NEW k \in 1 .. NumBufs[j], Followed(j, k)', fenceValue'[<<j, k>>] = "DEVICE_SIGNAL",
                 NEW h \in 1 .. k
          PROVE  ~InFlight(<<j, h>>)'
      <4>1. k # n /\ fenceValue[<<j, k>>] = "DEVICE_SIGNAL"
        BY <1>4, <2>4, <3>1
      <4>2. InFlight(<<j, k+1>>) \/ k < n
        BY <2>1, <2>3, <2>5, <3>1, <4>1 DEF Followed
      <4>3. InFlight(<<j, k+1>>) => k < n
        <5>1. CASE k = NumBufs[j]
          <6>1. <<j, k+1>> \notin Bufs
            BY <5>1, <1>2, BufFacts
          <6>. QED
            BY <6>1, HostFacts DEF InFlight
        <5>2. CASE k # NumBufs[j]
          <6>1. k + 1 \in 1 .. NumBufs[j]
            BY <5>2, <1>2
          <6>. QED
            BY <6>1, <1>2, <2>1, <2>2
        <5>. QED
          BY <5>1, <5>2
      <4>4. k < n /\ Followed(j, k)
        BY <4>2, <4>3, <1>2, <1>7 DEF Followed
      <4>5. ~InFlight(<<j, h>>)
        BY <3>1, <4>1, <4>4 DEF SplitInv, Behind
      <4>6. h # n
        BY <2>1, <4>4
      <4>. QED
        BY <2>3, <4>5, <4>6
    <3>. QED
      BY <3>1 DEF Behind
  <2>. QED
    BY <1>5, <2>6, <2>7, <2>8, <2>9, <2>10 DEF SplitInv
<1>. QED
  BY <1>6, <1>7

\* A step of the device on entry i of queue q.
LEMMA SplitDevice ==
    ASSUME TypeInv, NEW q \in Queues, NEW i \in DOMAIN inflight[q], DeviceStep(q, i),
           NEW j \in Split, SplitInv(j)
    PROVE  SplitInv(j)'
<1>0. PICK b : b = inflight[q][i].buf
  OBVIOUS
<1>1. /\ b \in Bufs /\ InFlight(b)
      /\ \A c : InFlight(c)' => InFlight(c)
      /\ \A c : Started(c)' => Started(c) \/ c = b
      /\ \A c : Once(c) => Once(c)'
      /\ PassWait(q, i) \/ Started(b)
      /\ Finish(q, i) /\ Once(b) => ~InFlight(b)'
      /\ Finish(q, i) => \A c : Started(c)' => Started(c)
      /\ UNCHANGED <<header, inOrderJobs, lastWaitBo, background, unreported, host>>
  BY <1>0, DeviceFlight
<1>2. j \in Jobs /\ NumBufs[j] \in Nat /\ \A k \in 1 .. NumBufs[j] : <<j, k>> \in Bufs
  BY BufFacts DEF Split
<1>3. Chained(j)' /\ OnceEach(j)' /\ Ahead(j)'
  BY <1>1 DEF SplitInv, Chained, OnceEach, Ahead
<1>4. InTurn(j)'
  <2>1. ASSUME NEW k \in 1 .. NumBufs[j], b = <<j, k>>, PassWait(q, i), NEW h \in 1 .. k - 1
        PROVE  ~InFlight(<<j, h>>)
    <3>1. k \in 2 .. NumBufs[j] /\ k - 1 \in 1 .. NumBufs[j] /\ k - 1 + 1 = k
      BY <1>2, <2>1
    <3>2. header[b].waitOn = <<j, k-1>> /\ <<j, k-1>> \in Bufs
      BY <1>2, <2>1, <3>1 DEF SplitInv, Chained
    <3>3. fenceValue[<<j, k-1>>] = "DEVICE_SIGNAL"
      BY <1>0, <2>1, <3>2, NoBufAssumption DEF PassWait
    <3>4. Followed(j, k-1)
      BY <1>1, <2>1, <3>1 DEF Followed
    <3>. QED
      BY <2>1, <3>1, <3>3, <3>4 DEF SplitInv, Behind
  <2>2. ASSUME NEW k \in 1 .. NumBufs[j], Started(<<j, k>>)', NEW h \in 1 .. k - 1
        PROVE  ~InFlight(<<j, h>>)'
    <3>1. CASE Started(<<j, k>>)
      BY <1>1, <2>2, <3>1 DEF SplitInv, InTurn
    <3>2. CASE ~Started(<<j, k>>)
      BY <1>1, <2>1, <2>2, <3>2
    <3>. QED
      BY <3>1, <3>2
  <2>. QED
    BY <2>2 DEF InTurn
<1>5. CASE Finish(q, i)
  <2>1. \A c \in Bufs : c # b => fenceValue'[c] = fenceValue[c]
    BY <1>0, <1>5 DEF Finish, TypeInv, TypeOK
  <2>2. ASSUME NEW k \in 1 .. NumBufs[j], b = <<j, k>>
        PROVE  \A h \in 1 .. k : ~InFlight(<<j, h>>)'
    <3>1. Started(b) /\ Once(b)
      BY <1>0, <1>5, <2>2 DEF Finish, Started, SplitInv, OnceEach
    <3>2. \A h \in 1 .. k - 1 : ~InFlight(<<j, h>>)
      BY <2>2, <3>1 DEF SplitInv, InTurn
    <3>3. ~InFlight(<<j, k>>)'
      BY <1>1, <1>5, <2>2, <3>1
    <3>4. \A h \in 1 .. k : h = k \/ h \in 1 .. k - 1
      OBVIOUS
    <3>. QED
      BY <1>1, <3>2, <3>3, <3>4
  <2>3. Unsignalled(j)'
    <3>1. ASSUME NEW k \in 1 .. NumBufs[j], InFlight(<<j, k>>)'
          PROVE  fenceValue'[<<j, k>>] # "DEVICE_SIGNAL"
      <4>1. <<j, k>> # b
        BY <2>2, <3>1
      <4>. QED
        BY <1>1, <1>2, <2>1, <3>1, <4>1 DEF SplitInv, Unsignalled
    <3>. QED
      BY <3>1 DEF Unsignalled
  <2>4. Behind(j)'
    <3>1. ASSUME NEW k \in 1 .. NumBufs[j], Followed(j, k)', fenceValue'[<<j, k>>] = "DEVICE_SIGNAL",
                 NEW h \in 1 .. k
          PROVE  ~InFlight(<<j, h>>)'
      <4>1. CASE <<j, k>> = b
        BY <2>2, <4>1
      <4>2. CASE <<j, k>> # b
        <5>1. Followed(j, k) /\ fenceValue[<<j, k>>] = "DEVICE_SIGNAL"
          BY <1>1, <1>2, <2>1, <3>1, <4>2 DEF Followed
        <5>. QED
          BY <1>1, <3>1, <5>1 DEF SplitInv, Behind
      <4>. QED
        BY <4>1, <4>2
    <3>. QED
      BY <3>1 DEF Behind
  <2>. QED
    BY <1>3, <1>4, <2>3, <2>4 DEF SplitInv
<1>6. CASE PassWait(q, i) \/ ResetWaited(q, i)
  <2>1. \A c \in Bufs : fenceValue'[c] = "DEVICE_SIGNAL" => fenceValue[c] = "DEVICE_SIGNAL"
    BY <1>6 DEF PassWait, ResetWaited, TypeInv, TypeOK
  <2>. QED
    BY <1>1, <1>2, <1>3, <1>4, <2>1 DEF SplitInv, Unsignalled, Behind, Followed
<1>. QED
  BY <1>5, <1>6 DEF DeviceStep

\* The parts together.
SplitInvariant == TypeInv /\ Reported /\ \A j \in Split : SplitInv(j)

LEMMA InitSplit == Init => SplitInvariant
<1> SUFFICES ASSUME Init PROVE SplitInvariant
  OBVIOUS
<1>1. \A b : ~InFlight(b) /\ ~Started(b) /\ Once(b)
  BY DEF Init, InFlight, Started, Once
<1>2. host.pc = "idle" /\ inOrderJobs = {}
  BY IdleFacts DEF Init
<1>3. ASSUME NEW j \in Split PROVE SplitInv(j)
  <2>1. j \in Jobs /\ NumBufs[j] \in Nat /\ \A k \in 1 .. NumBufs[j] : <<j, k>> \in Bufs
    BY BufFacts DEF Split
  <2>2. \A k \in 2 .. NumBufs[j] : header[<<j, k>>].waitOn = <<j, k-1>>
    BY <2>1 DEF Init, NewHeader
  <2>. QED
    BY <1>1, <1>2, <2>2 DEF SplitInv, Chained, OnceEach, Ahead, Unsignalled, Behind, Followed, InTurn
<1>. QED
  BY <1>1, <1>3, InitTypes DEF SplitInvariant, Reported

LEMMA NextSplit == SplitOnTurbo /\ SplitInvariant /\ [Next]_vars => SplitInvariant'
<1> SUFFICES ASSUME SplitOnTurbo, SplitInvariant, [Next]_vars PROVE SplitInvariant'
  OBVIOUS
<1>1. TypeInv' /\ Reported'
  BY NextTypes, ReportedKept DEF SplitInvariant
<1>2. ASSUME NEW j \in Split PROVE SplitInv(j)'
  BY Kinds, SplitQuiet, SplitSubmit, SplitDevice DEF SplitInvariant
<1>. QED
  BY <1>1, <1>2 DEF SplitInvariant

LEMMA SplitMeansOrder == SplitInvariant => ListInOrder
<1> SUFFICES ASSUME SplitInvariant,
                    NEW q \in Queues, NEW h \in DOMAIN inflight[q], NEW i \in DOMAIN inflight[q],
                    inflight[q][h].buf[1] = inflight[q][i].buf[1],
                    inflight[q][h].buf[2] < inflight[q][i].buf[2],
                    inflight[q][i].st # "queued"
             PROVE  FALSE
  BY DEF ListInOrder
<1> DEFINE b == inflight[q][i].buf
           c == inflight[q][h].buf
           j == b[1]
<1>1. b \in Bufs /\ c \in Bufs /\ InFlight(c) /\ Started(b)
  BY HostFacts DEF SplitInvariant, InFlight, Started
<1>2. /\ j \in Jobs /\ b = <<j, b[2]>> /\ c = <<j, c[2]>> /\ NumBufs[j] \in Nat
      /\ b[2] \in 1 .. NumBufs[j] /\ c[2] \in 1 .. NumBufs[j]
  BY <1>1, BufFacts
<1>3. j \in Split /\ c[2] \in 1 .. b[2] - 1
  BY <1>2 DEF Split
<1>4. ~InFlight(<<j, c[2]>>)
  BY <1>1, <1>2, <1>3 DEF SplitInvariant, SplitInv, InTurn
<1>. QED
  BY <1>1, <1>2, <1>4

\* The buffers of a list that is split run one after the other, provided such lists go
\* to turbo queues, which reset their fences (job.cpp:108, command_buffer.cpp:269).
THEOREM ListsKeepOrder == SplitOnTurbo => (Spec => []ListInOrder)
<1> SUFFICES ASSUME SplitOnTurbo PROVE Spec => []ListInOrder
  OBVIOUS
<1>1. SplitInvariant /\ [Next]_vars => SplitInvariant'
  BY NextSplit
<1>. QED
  BY <1>1, InitSplit, SplitMeansOrder, PTL DEF Spec

-----------------------------------------------------------------------------
(***************************************************************************)
(* An in-order queue runs its command buffers one at a time.               *)
(***************************************************************************)

\* The queue gets lists of one command buffer, which go to no other queue that patches
\* fences into them; its workload type stays, and the kernel accepts what it submits.
PlainQueue ==
    /\ InOrder # {} /\ TheQueue \in DispatchInOrder
    /\ TheQueue \notin Background \cup SubmitErrors
    /\ \A j \in Accepts[TheQueue] : NumBufs[j] = 1
    /\ \A q \in (InOrder \cup Turbo) \ {TheQueue} : Accepts[q] \cap Accepts[TheQueue] = {}

LEMMA PlainFacts ==
    ASSUME PlainQueue
    PROVE  /\ TheQueue \in InOrder /\ TheQueue \in Queues /\ TheQueue \notin Turbo
           /\ \A j \in Accepts[TheQueue] :
                  /\ j \in Jobs /\ FrontBuf(j) \in Bufs
                  /\ FrontBuf(j) = <<j, 1>> /\ BackBuf(j) = <<j, 1>>
           /\ \A b \in Bufs : b[1] \in Accepts[TheQueue] => b = FrontBuf(b[1])
           /\ \A i, j : FrontBuf(i) = FrontBuf(j) => i = j
           /\ \A j \in Accepts[TheQueue] : ~NewHeader(FrontBuf(j)).signal
<1>1. TheQueue \in InOrder
  BY DEF PlainQueue, TheQueue
<1>2. TheQueue \in Queues /\ TheQueue \notin Turbo
  BY <1>1, QueueConstants
<1>3. \A j \in Accepts[TheQueue] : j \in Jobs /\ NumBufs[j] = 1
  BY <1>2, QueueConstants DEF PlainQueue
<1>4. \A b \in Bufs : b[1] \in Accepts[TheQueue] => b = FrontBuf(b[1])
  <2> SUFFICES ASSUME NEW b \in Bufs, b[1] \in Accepts[TheQueue] PROVE b = FrontBuf(b[1])
    OBVIOUS
  <2>1. b = <<b[1], b[2]>> /\ b[2] \in 1 .. NumBufs[b[1]] /\ NumBufs[b[1]] = 1
    BY <1>3, BufFacts
  <2>2. b[2] = 1
    BY <2>1
  <2>. QED
    BY <2>1, <2>2 DEF FrontBuf
<1>5. ASSUME NEW j \in Accepts[TheQueue] PROVE ~NewHeader(FrontBuf(j)).signal
  <2>1. FrontBuf(j)[1] = j /\ FrontBuf(j)[2] = 1
    BY DEF FrontBuf
  <2>2. NewHeader(FrontBuf(j)).signal <=> 1 < NumBufs[j]
    BY <2>1 DEF NewHeader
  <2>3. NumBufs[j] = 1 /\ ~(1 < 1)
    BY <1>3
  <2>. QED
    BY <2>2, <2>3
<1>. QED
  BY <1>1, <1>2, <1>3, <1>4, <1>5, BufFacts DEF FrontBuf, BackBuf

\* The queue with the buffer that makeInOrder has put in line and the ioctl has not got.
HandedIn == host.pc = "submit" /\ host.q = TheQueue
RowLen == Len(inflight[TheQueue]) + (IF HandedIn THEN 1 ELSE 0)
RowBuf(i) == IF i <= Len(inflight[TheQueue]) THEN inflight[TheQueue][i].buf ELSE FrontBuf(host.j)
RowSt(i) == IF i <= Len(inflight[TheQueue]) THEN inflight[TheQueue][i].st ELSE "queued"

LEMMA RowFacts ==
    ASSUME PlainQueue, TypeInv
    PROVE  /\ RowLen \in Nat
           /\ \A i \in 1 .. RowLen :
                  /\ RowBuf(i) \in Bufs /\ RowBuf(i)[1] \in Accepts[TheQueue]
                  /\ RowBuf(i) = FrontBuf(RowBuf(i)[1])
                  /\ RowSt(i) \in {"queued", "resetting", "running"}
           /\ \A i \in DOMAIN inflight[TheQueue] :
                  /\ i \in 1 .. RowLen /\ RowBuf(i) = inflight[TheQueue][i].buf
                  /\ RowSt(i) = inflight[TheQueue][i].st
           /\ ~HandedIn => RowLen = Len(inflight[TheQueue])
           /\ HandedIn => RowLen = Len(inflight[TheQueue]) + 1 /\ RowBuf(RowLen) = FrontBuf(host.j)
<1> DEFINE n == Len(inflight[TheQueue])
<1>1. /\ n \in Nat /\ DOMAIN inflight[TheQueue] = 1 .. n
      /\ \A i \in 1 .. n : inflight[TheQueue][i] \in Entry
      /\ \A i \in 1 .. n : inflight[TheQueue][i].buf[1] \in Accepts[TheQueue]
  BY PlainFacts, HostFacts DEF TypeInv, Accepted
<1>2. HandedIn => host.j \in Accepts[TheQueue]
  BY DEF TypeInv, HostKnows, HandedIn
<1>3. /\ RowLen \in Nat
      /\ ~HandedIn => RowLen = n
      /\ HandedIn => RowLen = n + 1 /\ RowBuf(RowLen) = FrontBuf(host.j)
  <2>1. CASE HandedIn
    <3>1. RowLen = n + 1
      BY <2>1 DEF RowLen
    <3>2. ~(RowLen <= n)
      BY <1>1, <3>1
    <3>3. RowBuf(RowLen) = FrontBuf(host.j)
      BY <3>2 DEF RowBuf
    <3>. QED
      BY <1>1, <2>1, <3>1, <3>3
  <2>2. CASE ~HandedIn
    <3>1. RowLen = n + 0
      BY <2>2 DEF RowLen
    <3>. QED
      BY <1>1, <2>2, <3>1
  <2>. QED
    BY <2>1, <2>2
<1>4. \A i \in 1 .. n : /\ i \in 1 .. RowLen /\ RowBuf(i) = inflight[TheQueue][i].buf
                        /\ RowSt(i) = inflight[TheQueue][i].st
  <2>1. \A i \in 1 .. n : i <= n
    BY <1>1
  <2>. QED
    BY <1>1, <1>3, <2>1 DEF RowBuf, RowSt
<1>5. ASSUME NEW i \in 1 .. RowLen
      PROVE  /\ RowBuf(i) \in Bufs /\ RowBuf(i)[1] \in Accepts[TheQueue]
             /\ RowSt(i) \in {"queued", "resetting", "running"}
  <2>1. CASE i <= n
    <3>1. i \in 1 .. n
      BY <1>1, <1>3, <2>1
    <3>. QED
      BY <1>1, <1>4, <3>1 DEF Entry
  <2>2. CASE ~(i <= n)
    <3>1. HandedIn
      BY <1>1, <1>3, <2>2
    <3>2. RowBuf(i) = FrontBuf(host.j) /\ RowSt(i) = "queued"
      BY <2>2 DEF RowBuf, RowSt
    <3>. QED
      BY <1>2, <3>1, <3>2, PlainFacts
  <2>. QED
    BY <2>1, <2>2
<1>. QED
  BY <1>1, <1>3, <1>4, <1>5, PlainFacts

\* Each waits for the one before it, and only the first has started.
Chain == \A i \in 2 .. RowLen : RowSt(i) = "queued" /\ header[RowBuf(i)].waitOn = RowBuf(i-1)

\* Each is patched: it resets what it waits for, which is not itself.
Linked ==
    \A i \in 1 .. RowLen : /\ header[RowBuf(i)].reset /\ header[RowBuf(i)].waitOn # RowBuf(i)
                           /\ RowBuf(i)[1] \in inOrderJobs

RowOnce == \A h, i \in 1 .. RowLen : RowBuf(h) = RowBuf(i) => h = i

\* The next buffer will wait for the last one.
Latest == RowLen # 0 => lastWaitBo[TheQueue] = RowBuf(RowLen)

\* The only signal is the one that the first buffer waits for, or that the next one will.
Awaited(b) ==
    IF RowLen = 0 THEN lastWaitBo[TheQueue] = b
    ELSE header[RowBuf(1)].waitOn = b /\ RowSt(1) # "running"

Signals ==
    \A j \in Accepts[TheQueue] : fenceValue[FrontBuf(j)] = "DEVICE_SIGNAL" => Awaited(FrontBuf(j))

\* A list that is not in order does not signal.
Plain == \A j \in Accepts[TheQueue] : j \notin inOrderJobs => ~header[FrontBuf(j)].signal

LatestIn == \A j \in Jobs : lastWaitBo[TheQueue] = BackBuf(j) => j \in inOrderJobs

\* What the queue's lists run as on other queues is not in order.
Elsewhere ==
    \A q \in Queues \ {TheQueue} : \A i \in DOMAIN inflight[q] :
        inflight[q][i].buf[1] \in Accepts[TheQueue] => inflight[q][i].buf[1] \notin inOrderJobs

\* A list is submitted again while it runs only right after itself; outside in-order
\* queues it is stripped first.
Hand ==
    /\ host.pc = "patch" /\ host.j \in unreported =>
           host.q \in InOrder /\ lastWaitBo[host.q] = BackBuf(host.j)
    /\ host.pc = "submit" /\ host.q \notin InOrder => host.j \notin inOrderJobs

\* The queue never goes to the background.
Foreground ==
    TheQueue \notin background /\ \A i \in DOMAIN inflight[TheQueue] : ~inflight[TheQueue][i].bg

RowInv == Chain /\ Linked /\ RowOnce /\ Latest /\ Signals
Around == Plain /\ LatestIn /\ Elsewhere /\ Hand /\ Foreground
FifoInv == TypeInv /\ Reported /\ RowInv /\ Around

\* The queue's row stays as it is.
RowSame == RowLen' = RowLen /\ \A i \in 1 .. RowLen : RowBuf(i)' = RowBuf(i) /\ RowSt(i)' = RowSt(i)

\* It does when the queue does, and what is handed in.
LEMMA RowStays ==
    ASSUME inflight'[TheQueue] = inflight[TheQueue],
           HandedIn' <=> HandedIn, HandedIn => host'.j = host.j, PlainQueue, TypeInv
    PROVE  RowSame
<1>1. RowLen' = RowLen
  BY DEF RowLen
<1>2. ASSUME NEW i \in 1 .. RowLen PROVE RowBuf(i)' = RowBuf(i) /\ RowSt(i)' = RowSt(i)
  <2>1. CASE i <= Len(inflight[TheQueue])
    BY <2>1 DEF RowBuf, RowSt
  <2>2. CASE ~(i <= Len(inflight[TheQueue]))
    <3>0. Len(inflight[TheQueue]) \in Nat
      BY HostFacts, PlainFacts
    <3>1. HandedIn
      BY <2>2, <3>0, RowFacts
    <3>. QED
      BY <2>2, <3>1 DEF RowBuf, RowSt
  <2>. QED
    BY <2>1, <2>2
<1>. QED
  BY <1>1, <1>2 DEF RowSame

\* Steps that neither change the row nor the fences and headers of its buffers, but may
\* take signals away.
LEMMA RowKept ==
    ASSUME PlainQueue, TypeInv, RowInv, RowSame, lastWaitBo'[TheQueue] = lastWaitBo[TheQueue],
           \A i \in 1 .. RowLen : /\ header'[RowBuf(i)].waitOn = header[RowBuf(i)].waitOn
                                  /\ header'[RowBuf(i)].reset = header[RowBuf(i)].reset
                                  /\ RowBuf(i)[1] \in inOrderJobs',
           \A j \in Accepts[TheQueue] : fenceValue'[FrontBuf(j)] = "DEVICE_SIGNAL" =>
                                            fenceValue[FrontBuf(j)] = "DEVICE_SIGNAL"
    PROVE  RowInv'
<1>1. RowLen \in Nat /\ \A i \in 2 .. RowLen : i \in 1 .. RowLen /\ i - 1 \in 1 .. RowLen
  BY RowFacts
<1>2. RowLen # 0 => 1 \in 1 .. RowLen /\ RowLen \in 1 .. RowLen
  BY <1>1
<1>3. PICK n \in Nat : n = RowLen
  BY <1>1
<1>4. RowLen' = n /\ \A i \in 1 .. n : RowBuf(i)' = RowBuf(i) /\ RowSt(i)' = RowSt(i)
  BY <1>3 DEF RowSame
<1>5. Chain'
  BY <1>1, <1>3, <1>4 DEF RowInv, Chain
<1>6. Linked' /\ RowOnce'
  BY <1>3, <1>4 DEF RowInv, Linked, RowOnce
<1>7. Latest'
  <2> SUFFICES ASSUME n # 0 PROVE lastWaitBo'[TheQueue] = RowBuf(RowLen)'
    BY <1>4 DEF Latest
  <2>1. RowBuf(n)' = RowBuf(n)
    BY <1>2, <1>3, <1>4
  <2>2. lastWaitBo[TheQueue] = RowBuf(n)
    BY <1>3 DEF RowInv, Latest
  <2>3. RowBuf(RowLen)' = RowBuf(n)'
    BY <1>4 DEF RowBuf
  <2>. QED
    BY <2>1, <2>2, <2>3
<1>8. Signals'
  BY <1>2, <1>3, <1>4 DEF RowInv, Signals, Awaited
<1>. QED
  BY <1>5, <1>6, <1>7, <1>8 DEF RowInv

\* Other queues' lists have other fences.
LEMMA Separate ==
    ASSUME PlainQueue, TypeInv, host.pc # "idle", host.q # TheQueue, host.q \in InOrder \cup Turbo
    PROVE  \A j \in Accepts[TheQueue] : j # host.j
BY DEF PlainQueue, TypeInv, HostKnows

\* Calls that put nothing in line and take nothing from it.
LEMMA FifoCalls ==
    ASSUME PlainQueue, FifoInv,
           \/ \E q \in Queues, j \in Jobs : Submit(q, j)
           \/ \E q \in Queues : SetWorkloadType(q)
           \/ \E j \in Jobs : WaitForCompletion(j)
           \/ UNCHANGED vars
    PROVE  RowSame /\ RowInv' /\ Around'
<1>1. /\ UNCHANGED <<fenceValue, header, inOrderJobs, lastWaitBo, inflight>>
      /\ HandedIn' <=> HandedIn
      /\ HandedIn => host'.j = host.j
  BY DEF Submit, SetWorkloadType, WaitForCompletion, vars, HandedIn
<1>2. RowSame
  BY <1>1, RowStays DEF FifoInv
<1>3. RowInv'
  BY <1>1, <1>2, RowKept DEF FifoInv, RowInv, Linked
<1>4. Plain' /\ LatestIn' /\ Elsewhere'
  BY <1>1 DEF FifoInv, Around, Plain, LatestIn, Elsewhere
<1>5. Hand'
  BY DEF FifoInv, Around, Hand, Submit, SetWorkloadType, WaitForCompletion, vars
<1>6. Foreground'
  <2>1. TheQueue \notin background'
    BY DEF FifoInv, Around, Foreground, PlainQueue, Submit, SetWorkloadType, WaitForCompletion, vars
  <2>. QED
    BY <1>1, <2>1 DEF FifoInv, Around, Foreground
<1>. QED
  BY <1>2, <1>3, <1>4, <1>5, <1>6 DEF Around

\* useBusyWait before an ioctl leaves the queue's lists alone: only turbo queues patch.
LEMMA FifoBusyWait ==
    ASSUME PlainQueue, FifoInv, host.pc = "submit", UseBusyWait(host.q, <<host.j, host.k>>)
    PROVE  \A j \in Accepts[TheQueue] :
               header'[FrontBuf(j)] = header[FrontBuf(j)] /\ fenceValue'[FrontBuf(j)] = fenceValue[FrontBuf(j)]
<1>1. CASE host.q \in Turbo
  <2>1. host.q # TheQueue /\ <<host.j, host.k>> \in Bufs
    BY <1>1, PlainFacts, HostFacts DEF FifoInv
  <2>2. \A j \in Accepts[TheQueue] : FrontBuf(j) \in Bufs /\ FrontBuf(j) # <<host.j, host.k>>
    BY <1>1, <2>1, Separate, PlainFacts DEF FifoInv
  <2>. QED
    BY <2>1, <2>2, BusyWaitKeeps DEF FifoInv
<1>2. CASE host.q \notin Turbo
  BY <1>2 DEF UseBusyWait
<1>. QED
  BY <1>1, <1>2

\* The ioctl is tried again, or fails on another queue.
LEMMA FifoRetry ==
    ASSUME PlainQueue, FifoInv, SubmitBusy \/ SubmitFails
    PROVE  RowSame /\ RowInv' /\ Around'
<1>1. /\ UNCHANGED <<inOrderJobs, lastWaitBo, background, inflight, unreported>>
      /\ host.pc = "submit" /\ UseBusyWait(host.q, <<host.j, host.k>>)
      /\ host' = host \/ (host' = Idle /\ host.q \in SubmitErrors)
  BY DEF SubmitBusy, SubmitFails
<1>2. \A j \in Accepts[TheQueue] :
          header'[FrontBuf(j)] = header[FrontBuf(j)] /\ fenceValue'[FrontBuf(j)] = fenceValue[FrontBuf(j)]
  BY <1>1, FifoBusyWait
<1>3. HandedIn' = HandedIn /\ (HandedIn => host'.j = host.j)
  BY <1>1, IdleFacts DEF HandedIn, PlainQueue
<1>4. RowSame
  BY <1>1, <1>3, RowStays DEF FifoInv
<1>5. \A i \in 1 .. RowLen : header'[RowBuf(i)] = header[RowBuf(i)]
  BY <1>2, RowFacts DEF FifoInv
<1>6. RowInv'
  BY <1>1, <1>2, <1>4, <1>5, RowKept DEF FifoInv, RowInv, Linked
<1>7. Plain' /\ LatestIn' /\ Elsewhere' /\ Foreground'
  BY <1>1, <1>2 DEF FifoInv, Around, Plain, LatestIn, Elsewhere, Foreground
<1>8. Hand'
  BY <1>1, IdleFacts DEF FifoInv, Around, Hand
<1>. QED
  BY <1>4, <1>6, <1>7, <1>8 DEF Around

\* A list is put in order on another queue.
LEMMA FifoPatchElsewhere ==
    ASSUME PlainQueue, FifoInv, MakeInOrder, host.q # TheQueue
    PROVE  RowSame /\ RowInv' /\ Around'
<1>1. /\ host.pc = "patch" /\ host.q \in InOrder /\ host'.pc = "submit" /\ host'.q = host.q
      /\ inOrderJobs' = inOrderJobs \cup {host.j} /\ lastWaitBo'[TheQueue] = lastWaitBo[TheQueue]
      /\ UNCHANGED <<background, inflight, unreported>>
  BY PlainFacts DEF MakeInOrder, MakeInOrderWith, FifoInv, TypeInv, TypeOK
<1>2. \A j \in Accepts[TheQueue] : j # host.j
  BY <1>1, Separate DEF FifoInv
<1>3. \A j \in Accepts[TheQueue] :
          header'[FrontBuf(j)] = header[FrontBuf(j)] /\ fenceValue'[FrontBuf(j)] = fenceValue[FrontBuf(j)]
  <2> SUFFICES ASSUME NEW j \in Accepts[TheQueue]
               PROVE  /\ header'[FrontBuf(j)] = header[FrontBuf(j)]
                      /\ fenceValue'[FrontBuf(j)] = fenceValue[FrontBuf(j)]
    OBVIOUS
  <2>1. /\ FrontBuf(j) \in Bufs /\ FrontBuf(j) # FrontBuf(host.j) /\ FrontBuf(j) # BackBuf(host.j)
        /\ FrontBuf(host.j) \in Bufs /\ BackBuf(host.j) \in Bufs
    BY <1>2, PlainFacts, HostFacts, BufFacts DEF FifoInv, FrontBuf, BackBuf
  <2>. QED
    BY <2>1 DEF MakeInOrder, MakeInOrderWith, FifoInv, TypeInv, TypeOK
<1>4. RowSame
  BY <1>1, RowStays DEF FifoInv, HandedIn
<1>5. RowInv'
  <2>1. \A i \in 1 .. RowLen : header'[RowBuf(i)] = header[RowBuf(i)] /\ RowBuf(i)[1] \in inOrderJobs'
    BY <1>1, <1>3, RowFacts DEF FifoInv, RowInv, Linked
  <2>. QED
    BY <1>1, <1>3, <1>4, <2>1, RowKept DEF FifoInv
<1>6. Plain' /\ LatestIn' /\ Elsewhere' /\ Foreground'
  BY <1>1, <1>2, <1>3 DEF FifoInv, Around, Plain, LatestIn, Elsewhere, Foreground
<1>7. Hand'
  BY <1>1 DEF Hand
<1>. QED
  BY <1>4, <1>5, <1>6, <1>7 DEF Around

\* A list is stripped: nothing of it is in flight.
LEMMA FifoStrip ==
    ASSUME PlainQueue, FifoInv, StripInOrder
    PROVE  RowSame /\ RowInv' /\ Around'
<1>1. /\ host.pc = "patch" /\ host.q \notin InOrder /\ host'.pc = "submit" /\ host'.q = host.q
      /\ host'.j = host.j /\ host.q # TheQueue
      /\ UNCHANGED <<background, inflight, unreported>>
  BY PlainFacts DEF StripInOrder, FifoInv, TypeInv, TypeOK
<1>2. RowSame /\ RowLen = Len(inflight[TheQueue])
  BY <1>1, RowStays, RowFacts DEF FifoInv, HandedIn
<1>3. CASE host.j \notin inOrderJobs
  <2>1. UNCHANGED <<fenceValue, header, lastWaitBo, inOrderJobs>>
    BY <1>3 DEF StripInOrder
  <2>2. RowInv'
    BY <1>2, <2>1, RowKept DEF FifoInv, RowInv, Linked
  <2>. QED
    BY <1>1, <1>2, <1>3, <2>1, <2>2
       DEF FifoInv, Around, Plain, LatestIn, Elsewhere, Foreground, Hand
<1>4. CASE host.j \in inOrderJobs
  <2> DEFINE mine == {b \in Bufs : b[1] = host.j}
             old(b) == IF b \notin mine THEN b
                       ELSE IF fenceValue[b] = "DEVICE_SIGNAL" THEN NoBuf ELSE Lost
  <2>1. /\ fenceValue' = [b \in Bufs |-> IF b \in mine THEN "INITIAL" ELSE fenceValue[b]]
        /\ header' = [b \in Bufs |-> IF b \in mine THEN NewHeader(b)
                                     ELSE [header[b] EXCEPT !.waitOn = old(@)]]
        /\ lastWaitBo' = [q \in Queues |-> old(lastWaitBo[q])]
        /\ inOrderJobs' = inOrderJobs \ {host.j}
    BY <1>4 DEF StripInOrder
  <2>2. \A b : b \in Bufs => (old(b) = b /\ b \notin mine) \/ (b \in mine /\ old(b) \notin Bufs)
    BY NoBufAssumption
  <2>3. \A b : b \notin Bufs => old(b) = b
    OBVIOUS
  <2>4. \A b \in Bufs : b \in mine <=> b[1] = host.j
    OBVIOUS
  <2>. HIDE DEF mine, old
  <2>5. host.j \notin unreported
    BY <1>1 DEF FifoInv, Around, Hand
  <2>6. \A b \in mine : ~InFlight(b)
    BY <2>3, <2>4, <2>5 DEF FifoInv, Reported, mine
  <2>7. \A i \in 1 .. RowLen : RowBuf(i) \in Bufs /\ RowBuf(i) \notin mine
    <3>1. ASSUME NEW i \in 1 .. RowLen PROVE InFlight(RowBuf(i))
      <4>1. TheQueue \in Queues /\ i \in DOMAIN inflight[TheQueue]
        BY <1>2, PlainFacts, HostFacts DEF FifoInv
      <4>2. RowBuf(i) = inflight[TheQueue][i].buf
        BY <4>1, RowFacts DEF FifoInv
      <4>. QED
        BY <4>1, <4>2 DEF InFlight
    <3>. QED
      BY <2>6, <3>1, RowFacts DEF FifoInv
  <2>8. \A b \in Bufs : b \notin mine =>
            /\ fenceValue'[b] = fenceValue[b] /\ header'[b].waitOn = old(header[b].waitOn)
            /\ header'[b].reset = header[b].reset /\ header'[b].signal = header[b].signal
    <3>1. \A b \in Bufs : header[b] \in Header
      BY DEF FifoInv, TypeInv, TypeOK
    <3>. QED
      BY <2>1, <3>1 DEF Header
  <2>9. \A b \in Bufs : fenceValue'[b] = "DEVICE_SIGNAL" => b \notin mine /\ fenceValue[b] = "DEVICE_SIGNAL"
    BY <2>1
  <2>10. PICK n \in Nat : n = RowLen
    BY RowFacts DEF FifoInv
  <2>11. /\ RowLen' = n /\ \A i \in 1 .. n : RowBuf(i)' = RowBuf(i) /\ RowSt(i)' = RowSt(i)
         /\ \A i \in 2 .. n : i \in 1 .. n /\ i - 1 \in 1 .. n
         /\ n # 0 => 1 \in 1 .. n /\ n \in 1 .. n
    BY <1>2, <2>10 DEF RowSame
  <2>12. Chain'
    BY <2>2, <2>7, <2>8, <2>10, <2>11 DEF FifoInv, RowInv, Chain
  <2>13. Linked'
    <3>1. \A i \in 1 .. n : RowBuf(i)[1] \in inOrderJobs'
      BY <2>1, <2>4, <2>7, <2>10 DEF FifoInv, RowInv, Linked
    <3>2. \A i \in 1 .. n : header'[RowBuf(i)].reset /\ header'[RowBuf(i)].waitOn # RowBuf(i)
      BY <2>2, <2>3, <2>7, <2>8, <2>10 DEF FifoInv, RowInv, Linked
    <3>. QED
      BY <2>11, <3>1, <3>2 DEF Linked
  <2>14. RowOnce'
    BY <2>10, <2>11 DEF FifoInv, RowInv, RowOnce
  <2>15. Latest'
    <3> SUFFICES ASSUME n # 0 PROVE lastWaitBo'[TheQueue] = RowBuf(RowLen)'
      BY <2>11 DEF Latest
    <3>1. lastWaitBo[TheQueue] = RowBuf(n) /\ RowBuf(n) \in Bufs /\ RowBuf(n) \notin mine
      BY <2>7, <2>10, <2>11 DEF FifoInv, RowInv, Latest
    <3>2. lastWaitBo'[TheQueue] = RowBuf(n) /\ RowBuf(n)' = RowBuf(n)
      BY <2>1, <2>2, <2>11, <3>1, PlainFacts
    <3>3. RowBuf(RowLen)' = RowBuf(n)'
      BY <2>11 DEF RowBuf
    <3>. QED
      BY <3>2, <3>3
  <2>16. Signals'
    <3> SUFFICES ASSUME NEW j \in Accepts[TheQueue], NEW b, b = FrontBuf(j),
                        fenceValue'[b] = "DEVICE_SIGNAL"
                 PROVE  Awaited(b)'
      BY DEF Signals
    <3>1. b \in Bufs /\ b \notin mine /\ old(b) = b /\ Awaited(b)
      BY <2>2, <2>9, PlainFacts DEF FifoInv, RowInv, Signals
    <3>2. CASE n = 0
      BY <2>1, <2>10, <2>11, <3>1, <3>2, PlainFacts DEF Awaited
    <3>3. CASE n # 0
      <4>1. header[RowBuf(1)].waitOn = b /\ RowSt(1) # "running"
        BY <2>10, <3>1, <3>3 DEF Awaited
      <4>2. header'[RowBuf(1)].waitOn = b /\ RowBuf(1)' = RowBuf(1) /\ RowSt(1)' = RowSt(1)
        BY <2>7, <2>8, <2>10, <2>11, <3>1, <3>3, <4>1
      <4>. QED
        BY <2>11, <3>3, <4>1, <4>2 DEF Awaited
    <3>. QED
      BY <3>2, <3>3
  <2>17. Plain'
    <3> SUFFICES ASSUME NEW j \in Accepts[TheQueue], j \notin inOrderJobs'
                 PROVE  ~header'[FrontBuf(j)].signal
      BY DEF Plain
    <3>1. CASE j = host.j
      <4>1. FrontBuf(j) \in mine /\ FrontBuf(j) \in Bufs /\ FrontBuf(j) = <<j, 1>>
        BY <3>1, <2>4, PlainFacts
      <4>2. header'[FrontBuf(j)] = NewHeader(FrontBuf(j))
        BY <2>1, <4>1
      <4>. QED
        BY <4>2, PlainFacts
    <3>2. CASE j # host.j
      <4>1. FrontBuf(j) \notin mine /\ FrontBuf(j) \in Bufs /\ j \notin inOrderJobs
        BY <2>1, <2>4, <3>2, PlainFacts
      <4>. QED
        BY <2>8, <4>1 DEF FifoInv, Around, Plain
    <3>. QED
      BY <3>1, <3>2
  <2>18. LatestIn'
    <3> SUFFICES ASSUME NEW j \in Jobs, lastWaitBo'[TheQueue] = BackBuf(j) PROVE j \in inOrderJobs'
      BY DEF LatestIn
    <3>1. old(lastWaitBo[TheQueue]) = BackBuf(j) /\ BackBuf(j) \in Bufs
      BY <2>1, PlainFacts, BufFacts
    <3>2. lastWaitBo[TheQueue] = BackBuf(j) /\ BackBuf(j) \notin mine
      BY <2>2, <2>3, <3>1
    <3>3. j # host.j
      BY <2>4, <3>1, <3>2 DEF BackBuf
    <3>. QED
      BY <2>1, <3>2, <3>3 DEF FifoInv, Around, LatestIn
  <2>. QED
    BY <1>1, <1>2, <2>1, <2>12, <2>13, <2>14, <2>15, <2>16, <2>17, <2>18
       DEF FifoInv, Around, Elsewhere, Foreground, Hand, RowInv
<1>. QED
  BY <1>3, <1>4

\* A list is put in order on the queue: its buffer joins the row.
LEMMA FifoPatch ==
    ASSUME PlainQueue, FifoInv, MakeInOrder, host.q = TheQueue
    PROVE  RowInv' /\ Around' /\ inflight' = inflight
<1> DEFINE f == FrontBuf(host.j)
           again == lastWaitBo[TheQueue] = f
<1>1. /\ host.pc = "patch" /\ host'.pc = "submit" /\ host'.q = TheQueue /\ host'.j = host.j
      /\ again => ~InFlight(f)
      /\ inOrderJobs' = inOrderJobs \cup {host.j}
      /\ UNCHANGED <<background, inflight, unreported>>
  BY DEF MakeInOrder, MakeInOrderWith, FifoInv, TypeInv, TypeOK
<1>2. /\ host.j \in Accepts[TheQueue] /\ host.j \in Jobs /\ f \in Bufs /\ BackBuf(host.j) = f
      /\ f = <<host.j, 1>>
  BY <1>1, PlainFacts DEF FifoInv, TypeInv, HostKnows
<1>3. /\ lastWaitBo'[TheQueue] = f
      /\ header'[f].waitOn = (IF again THEN NoBuf ELSE lastWaitBo[TheQueue])
      /\ header'[f].reset
      /\ \A b \in Bufs : b # f => header'[b] = header[b] /\ fenceValue'[b] = fenceValue[b]
      /\ again => fenceValue'[f] # "DEVICE_SIGNAL"
      /\ ~again => fenceValue' = fenceValue
  <2>1. header' = [header EXCEPT ![f].waitOn = IF again THEN NoBuf ELSE lastWaitBo[TheQueue],
                                 ![f].reset = TRUE, ![f].signal = TRUE]
    BY <1>2 DEF MakeInOrder, MakeInOrderWith
  <2>2. header \in [Bufs -> Header] /\ fenceValue \in [Bufs -> FenceValue]
    BY DEF FifoInv, TypeInv, TypeOK
  <2>3. header'[f] = [header[f] EXCEPT !.waitOn = IF again THEN NoBuf ELSE lastWaitBo[TheQueue],
                                       !.reset = TRUE, !.signal = TRUE]
    BY <1>2, <2>1, <2>2
  <2>4. header'[f].waitOn = (IF again THEN NoBuf ELSE lastWaitBo[TheQueue]) /\ header'[f].reset
    BY <1>2, <2>2, <2>3 DEF Header
  <2>5. fenceValue' = IF again THEN [fenceValue EXCEPT ![f] = "HOST_RESET"] ELSE fenceValue
    BY DEF MakeInOrder, MakeInOrderWith
  <2>6. lastWaitBo'[TheQueue] = f
    BY <1>2, PlainFacts DEF MakeInOrder, MakeInOrderWith, FifoInv, TypeInv, TypeOK
  <2>. QED
    BY <1>2, <2>1, <2>2, <2>4, <2>5, <2>6
<1>4. ~InFlight(f)
  <2>1. CASE again
    BY <1>1, <2>1
  <2>2. CASE ~again
    <3>1. host.j \notin unreported
      BY <1>1, <1>2, <2>2 DEF FifoInv, Around, Hand
    <3>. QED
      BY <1>2, <3>1 DEF FifoInv, Reported
  <2>. QED
    BY <2>1, <2>2
<1>. HIDE DEF f
<1>5. PICK n \in Nat : n = RowLen /\ n = Len(inflight[TheQueue])
  BY <1>1, RowFacts DEF FifoInv, HandedIn
<1>6. ASSUME NEW i \in 1 .. n
      PROVE  /\ RowBuf(i) \in Bufs /\ RowBuf(i) # f
             /\ RowBuf(i)' = RowBuf(i) /\ RowSt(i)' = RowSt(i)
  <2>1. i <= n /\ i \in DOMAIN inflight[TheQueue]
    BY <1>5, HostFacts, PlainFacts DEF FifoInv
  <2>2. InFlight(RowBuf(i))
    BY <2>1, RowFacts, PlainFacts DEF FifoInv, InFlight
  <2>3. RowBuf(i) \in Bufs
    BY <1>5, RowFacts DEF FifoInv
  <2>. QED
    BY <1>1, <1>4, <1>5, <2>1, <2>2, <2>3 DEF RowBuf, RowSt
<1>7. RowLen' = n + 1 /\ RowBuf(n + 1)' = f /\ RowSt(n + 1)' = "queued"
  <2>1. ~(n + 1 <= n)
    OBVIOUS
  <2>. QED
    BY <1>1, <1>5, <2>1 DEF RowLen, RowBuf, RowSt, HandedIn, f
<1>8. \A i \in 1 .. n + 1 : i = n + 1 \/ i \in 1 .. n
  OBVIOUS
<1>9. n # 0 => 1 \in 1 .. n /\ n \in 1 .. n /\ lastWaitBo[TheQueue] = RowBuf(n) /\ ~again
  <2>1. n # 0 => 1 \in 1 .. n /\ n \in 1 .. n
    OBVIOUS
  <2>. QED
    BY <1>5, <1>6, <2>1 DEF FifoInv, RowInv, Latest
<1>10. Chain'
  <2> SUFFICES ASSUME NEW i \in 2 .. n + 1
               PROVE  RowSt(i)' = "queued" /\ header'[RowBuf(i)'].waitOn = RowBuf(i-1)'
    BY <1>7 DEF Chain
  <2>1. CASE i = n + 1
    <3>1. n # 0 /\ i - 1 = n
      BY <2>1
    <3>2. header'[f].waitOn = RowBuf(n) /\ RowBuf(n)' = RowBuf(n)
      BY <1>3, <1>6, <1>9, <3>1
    <3>. QED
      BY <1>7, <2>1, <3>1, <3>2
  <2>2. CASE i # n + 1
    <3>1. i \in 2 .. n /\ i \in 1 .. n /\ i - 1 \in 1 .. n
      BY <2>2
    <3>2. RowSt(i) = "queued" /\ header[RowBuf(i)].waitOn = RowBuf(i-1)
      BY <1>5, <3>1 DEF FifoInv, RowInv, Chain
    <3>. QED
      BY <1>3, <1>6, <3>1, <3>2
  <2>. QED
    BY <2>1, <2>2
<1>11. Linked'
  <2> SUFFICES ASSUME NEW i \in 1 .. n + 1
               PROVE  /\ header'[RowBuf(i)'].reset /\ header'[RowBuf(i)'].waitOn # RowBuf(i)'
                      /\ RowBuf(i)'[1] \in inOrderJobs'
    BY <1>7 DEF Linked
  <2>1. CASE i = n + 1
    BY <1>1, <1>2, <1>3, <1>7, <2>1, NoBufAssumption
  <2>2. CASE i # n + 1
    <3>1. i \in 1 .. n
      BY <1>8, <2>2
    <3>2. /\ header[RowBuf(i)].reset /\ header[RowBuf(i)].waitOn # RowBuf(i)
          /\ RowBuf(i)[1] \in inOrderJobs
      BY <1>5, <3>1 DEF FifoInv, RowInv, Linked
    <3>. QED
      BY <1>1, <1>3, <1>6, <3>1, <3>2
  <2>. QED
    BY <2>1, <2>2
<1>12. RowOnce'
  <2> SUFFICES ASSUME NEW h \in 1 .. n + 1, NEW i \in 1 .. n + 1, RowBuf(h)' = RowBuf(i)'
               PROVE  h = i
    BY <1>7 DEF RowOnce
  <2>1. CASE h \in 1 .. n /\ i \in 1 .. n
    BY <1>5, <1>6, <2>1 DEF FifoInv, RowInv, RowOnce
  <2>. QED
    BY <1>6, <1>7, <1>8, <2>1
<1>13. Latest'
  <2>1. RowBuf(RowLen)' = RowBuf(n+1)'
    BY <1>7 DEF RowBuf
  <2>. QED
    BY <1>3, <1>7, <2>1 DEF Latest
<1>14. Signals'
  <2> SUFFICES ASSUME NEW j \in Accepts[TheQueue], NEW b, b = FrontBuf(j),
                      fenceValue'[b] = "DEVICE_SIGNAL"
               PROVE  Awaited(b)'
    BY DEF Signals
  <2>1. again => b # f
    BY <1>3
  <2>2. b \in Bufs /\ fenceValue[b] = "DEVICE_SIGNAL"
    BY <1>3, <2>1, PlainFacts
  <2>3. Awaited(b)
    BY <2>2 DEF FifoInv, RowInv, Signals
  <2>4. RowLen' # 0
    BY <1>7
  <2>5. CASE n = 0
    <3>1. lastWaitBo[TheQueue] = b
      BY <1>5, <2>3, <2>5 DEF Awaited
    <3>2. header'[f].waitOn = b
      BY <1>3, <2>1, <3>1
    <3>3. RowBuf(1)' = f /\ RowSt(1)' = "queued"
      BY <1>7, <2>5
    <3>. QED
      BY <2>4, <3>2, <3>3 DEF Awaited
  <2>6. CASE n # 0
    <3>1. header[RowBuf(1)].waitOn = b /\ RowSt(1) # "running"
      BY <1>5, <2>3, <2>6 DEF Awaited
    <3>2. header'[RowBuf(1)].waitOn = b /\ RowBuf(1)' = RowBuf(1) /\ RowSt(1)' = RowSt(1)
      BY <1>3, <1>6, <1>9, <2>6, <3>1
    <3>. QED
      BY <2>4, <3>1, <3>2 DEF Awaited
  <2>. QED
    BY <2>5, <2>6
<1>15. Plain'
  <2> SUFFICES ASSUME NEW j \in Accepts[TheQueue], j \notin inOrderJobs'
               PROVE  ~header'[FrontBuf(j)].signal
    BY DEF Plain
  <2>1. j # host.j /\ j \notin inOrderJobs /\ FrontBuf(j) \in Bufs /\ FrontBuf(j) # f
    BY <1>1, PlainFacts DEF f
  <2>. QED
    BY <1>3, <2>1 DEF FifoInv, Around, Plain
<1>16. LatestIn'
  <2> SUFFICES ASSUME NEW j \in Jobs, f = BackBuf(j) PROVE j \in inOrderJobs'
    BY <1>3 DEF LatestIn
  <2>1. j = host.j
    BY <1>2 DEF BackBuf
  <2>. QED
    BY <1>1, <2>1
<1>17. Elsewhere'
  <2> SUFFICES ASSUME NEW q \in Queues \ {TheQueue}, NEW i \in DOMAIN inflight[q],
                      inflight[q][i].buf[1] \in Accepts[TheQueue]
               PROVE  inflight[q][i].buf[1] \notin inOrderJobs'
    BY <1>1 DEF Elsewhere
  <2>1. inflight[q][i].buf[1] \notin inOrderJobs
    BY DEF FifoInv, Around, Elsewhere
  <2>2. InFlight(inflight[q][i].buf) /\ inflight[q][i].buf \in Bufs
    BY HostFacts DEF FifoInv, InFlight
  <2>3. inflight[q][i].buf = FrontBuf(inflight[q][i].buf[1])
    BY <2>2, PlainFacts
  <2>4. inflight[q][i].buf[1] # host.j
    BY <1>4, <2>2, <2>3 DEF f
  <2>. QED
    BY <1>1, <2>1, <2>4
<1>18. Hand' /\ Foreground'
  BY <1>1, PlainFacts DEF FifoInv, Around, Hand, Foreground
<1>. QED
  BY <1>1, <1>10, <1>11, <1>12, <1>13, <1>14, <1>15, <1>16, <1>17, <1>18 DEF RowInv, Around

\* The ioctl takes a buffer: one of the queue is in line already.
LEMMA FifoSubmit ==
    ASSUME PlainQueue, FifoInv, SubmitCommandBuffer
    PROVE  RowSame /\ RowInv' /\ Around'
<1>0. PICK e : e = NewEntry
  OBVIOUS
<1>1. /\ host.q \in Queues /\ Joins(inflight, inflight', host.q, e)
      /\ e.st = "queued" /\ e.buf = <<host.j, host.k>> /\ (e.bg <=> host.q \in background)
  BY <1>0, EntryJoins DEF FifoInv
<1>2. /\ host.pc = "submit" /\ UNCHANGED <<inOrderJobs, lastWaitBo, background>>
      /\ UseBusyWait(host.q, <<host.j, host.k>>)
      /\ host' = IF <<host.j, host.k>> = BackBuf(host.j) THEN Idle ELSE [host EXCEPT !.k = @ + 1]
  BY DEF SubmitCommandBuffer
<1>3. \A j \in Accepts[TheQueue] :
          header'[FrontBuf(j)] = header[FrontBuf(j)] /\ fenceValue'[FrontBuf(j)] = fenceValue[FrontBuf(j)]
  BY <1>2, FifoBusyWait
<1>4. host'.pc = "idle" \/ (host'.pc = host.pc /\ host'.q = host.q /\ host'.j = host.j)
  BY <1>2, IdleFacts DEF FifoInv, TypeInv, TypeOK
<1>5. RowSame
  <2>1. CASE host.q # TheQueue
    <3>1. inflight'[TheQueue] = inflight[TheQueue]
      BY <1>1, <2>1, PlainFacts DEF Joins
    <3>2. ~HandedIn' /\ ~HandedIn
      BY <1>4, <2>1 DEF HandedIn
    <3>. QED
      BY <3>1, <3>2, RowStays DEF FifoInv
  <2>2. CASE host.q = TheQueue
    <3> DEFINE n == Len(inflight[TheQueue])
    <3>1. /\ n \in Nat /\ Len(inflight'[TheQueue]) = n + 1 /\ inflight'[TheQueue][n + 1] = e
          /\ \A i \in 1 .. n : inflight'[TheQueue][i] = inflight[TheQueue][i]
      BY <1>1, <2>2 DEF Joins
    <3>2. HandedIn /\ RowLen = n + 1 /\ RowBuf(n + 1) = FrontBuf(host.j)
      BY <1>2, <2>2, RowFacts DEF FifoInv, HandedIn
    <3>3. host.j \in Accepts[TheQueue] /\ <<host.j, host.k>> \in Bufs
      BY <1>2, <2>2, HostFacts DEF FifoInv, TypeInv, HostKnows
    <3>4. <<host.j, host.k>> = FrontBuf(host.j) /\ <<host.j, host.k>> = BackBuf(host.j)
      BY <3>3, PlainFacts
    <3>5. ~HandedIn'
      BY <1>2, <3>4, IdleFacts DEF HandedIn
    <3>6. RowLen' = n + 1
      BY <3>1, <3>5 DEF RowLen
    <3>. HIDE DEF n
    <3>7. ASSUME NEW i \in 1 .. n + 1 PROVE RowBuf(i)' = RowBuf(i) /\ RowSt(i)' = RowSt(i)
      <4>1. CASE i \in 1 .. n
        <5>1. i <= n /\ i <= n + 1
          BY <3>1, <4>1
        <5>. QED
          BY <3>1, <4>1, <5>1 DEF RowBuf, RowSt, n
      <4>2. CASE i = n + 1
        <5>1. ~(i <= n) /\ i <= n + 1
          BY <3>1, <4>2
        <5>. QED
          BY <1>1, <3>1, <3>4, <4>2, <5>1 DEF RowBuf, RowSt, n
      <4>. QED
        BY <3>1, <4>1, <4>2
    <3>. QED
      BY <3>2, <3>6, <3>7 DEF RowSame
  <2>. QED
    BY <2>1, <2>2
<1>6. RowInv'
  <2>1. \A i \in 1 .. RowLen : header'[RowBuf(i)] = header[RowBuf(i)]
    BY <1>3, RowFacts DEF FifoInv
  <2>. QED
    BY <1>2, <1>3, <1>5, <2>1, RowKept DEF FifoInv, RowInv, Linked
<1>7. Plain' /\ LatestIn'
  BY <1>2, <1>3 DEF FifoInv, Around, Plain, LatestIn
<1>8. Hand'
  BY <1>2, <1>4 DEF FifoInv, Around, Hand
<1>9. Elsewhere'
  <2> SUFFICES ASSUME NEW q \in Queues \ {TheQueue}, NEW i \in DOMAIN inflight'[q],
                      inflight'[q][i].buf[1] \in Accepts[TheQueue]
               PROVE  inflight'[q][i].buf[1] \notin inOrderJobs
    BY <1>2 DEF Elsewhere
  <2>1. CASE i \in DOMAIN inflight[q] /\ inflight'[q][i] = inflight[q][i]
    BY <2>1 DEF FifoInv, Around, Elsewhere
  <2>2. CASE q = host.q /\ inflight'[q][i] = e
    <3>1. host.j \in Accepts[TheQueue] /\ inflight'[q][i].buf[1] = host.j
      BY <1>1, <2>2
    <3>2. host.q \notin InOrder
      BY <1>2, <2>2, <3>1, Separate DEF FifoInv
    <3>3. host.j \notin inOrderJobs
      BY <1>2, <3>2 DEF FifoInv, Around, Hand
    <3>. QED
      BY <3>1, <3>3
  <2>3. CASE q # host.q
    <3>1. inflight'[q] = inflight[q]
      BY <1>1, <2>3 DEF Joins
    <3>. QED
      BY <2>1, <3>1
  <2>4. CASE q = host.q
    <3>1. /\ DOMAIN inflight'[q] = 1 .. Len(inflight[q]) + 1 /\ Len(inflight[q]) \in Nat
          /\ DOMAIN inflight[q] = 1 .. Len(inflight[q])
          /\ inflight'[q][Len(inflight[q]) + 1] = e
          /\ \A h \in DOMAIN inflight[q] : inflight'[q][h] = inflight[q][h]
      BY <1>1, <2>4 DEF Joins
    <3>2. i \in DOMAIN inflight[q] \/ i = Len(inflight[q]) + 1
      BY <3>1
    <3>. QED
      BY <2>1, <2>2, <2>4, <3>1, <3>2
  <2>. QED
    BY <2>3, <2>4
<1>10. Foreground'
  <2>0. TheQueue \notin background /\ \A i \in DOMAIN inflight[TheQueue] : ~inflight[TheQueue][i].bg
    BY DEF FifoInv, Around, Foreground
  <2>1. ASSUME NEW i \in DOMAIN inflight'[TheQueue] PROVE ~inflight'[TheQueue][i].bg
    <3>1. CASE i \in DOMAIN inflight[TheQueue] /\ inflight'[TheQueue][i] = inflight[TheQueue][i]
      BY <2>0, <3>1
    <3>2. CASE TheQueue = host.q /\ inflight'[TheQueue][i] = e
      BY <1>1, <2>0, <3>2
    <3>. QED
      BY <1>1, <3>1, <3>2, PlainFacts DEF Joins
  <2>. QED
    BY <1>2, <2>1 DEF FifoInv, Around, Foreground
<1>. QED
  BY <1>5, <1>6, <1>7, <1>8, <1>9, <1>10 DEF Around

\* A step of the device brings no buffer to a queue.
LEMMA BufsStay ==
    ASSUME TypeInv, NEW q \in Queues, NEW i \in DOMAIN inflight[q], DeviceStep(q, i)
    PROVE  \A r \in Queues : \A h \in DOMAIN inflight'[r] :
               \E g \in DOMAIN inflight[r] : inflight'[r][h].buf = inflight[r][g].buf
<1>1. inflight \in Inflights
  BY HostFacts
<1>2. CASE PassWait(q, i) \/ ResetWaited(q, i)
  <2>1. PICK v \in {"resetting", "running"} : inflight' = [inflight EXCEPT ![q][i].st = v]
    BY <1>2 DEF PassWait, ResetWaited
  <2>2. StateChanges(inflight, inflight', q, i, v)
    BY <1>1, <2>1, StateChanged
  <2>. QED
    BY <2>2 DEF StateChanges
<1>3. CASE Finish(q, i)
  <2>1. inflight' = [inflight EXCEPT ![q] = RemoveAt(@, i)]
    BY <1>3 DEF Finish
  <2>2. Leaves(inflight, inflight', q, i)
    BY <1>1, <2>1, Left
  <2>3. ASSUME NEW h \in DOMAIN inflight'[q]
        PROVE  \E g \in DOMAIN inflight[q] : inflight'[q][h] = inflight[q][g]
    <3>1. h \in DOMAIN inflight[q] /\ h + 1 \in DOMAIN inflight[q]
      BY <2>2 DEF Leaves
    <3>. QED
      BY <2>2, <3>1 DEF Leaves
  <2>4. \A r \in Queues \ {q} : inflight'[r] = inflight[r]
    BY <2>2 DEF Leaves
  <2>. QED
    BY <2>3, <2>4
<1>. QED
  BY <1>2, <1>3 DEF DeviceStep

\* The device goes on with a buffer of another queue.
LEMMA FifoDeviceElsewhere ==
    ASSUME PlainQueue, FifoInv, NEW q \in Queues \ {TheQueue}, NEW i \in DOMAIN inflight[q],
           DeviceStep(q, i)
    PROVE  RowSame /\ RowInv' /\ Around'
<1>0. PICK b : b = inflight[q][i].buf
  OBVIOUS
<1>1. /\ b \in Bufs /\ UNCHANGED <<header, inOrderJobs, lastWaitBo, background, unreported, host>>
  BY <1>0, DeviceFlight DEF FifoInv
<1>2. inflight'[TheQueue] = inflight[TheQueue]
  BY PlainFacts, HostFacts DEF FifoInv, Inflights, DeviceStep, PassWait, ResetWaited, Finish
<1>3. RowSame
  BY <1>1, <1>2, RowStays DEF FifoInv, HandedIn
<1>4. \A c \in Bufs : fenceValue'[c] = "DEVICE_SIGNAL" =>
          fenceValue[c] = "DEVICE_SIGNAL" \/ (c = b /\ header[b].signal)
  BY <1>0, <1>1 DEF DeviceStep, PassWait, ResetWaited, Finish, FifoInv, TypeInv, TypeOK
<1>5. \A j \in Accepts[TheQueue] :
          fenceValue'[FrontBuf(j)] = "DEVICE_SIGNAL" => fenceValue[FrontBuf(j)] = "DEVICE_SIGNAL"
  <2> SUFFICES ASSUME NEW j \in Accepts[TheQueue], b = FrontBuf(j), header[b].signal PROVE FALSE
    BY <1>4, PlainFacts
  <2>1. b[1] = j
    BY PlainFacts
  <2>2. j \notin inOrderJobs
    BY <1>0, <2>1 DEF FifoInv, Around, Elsewhere
  <2>. QED
    BY <2>2 DEF FifoInv, Around, Plain
<1>6. RowInv'
  BY <1>1, <1>3, <1>5, RowKept DEF FifoInv, RowInv, Linked
<1>7. Elsewhere'
  <2>1. \A r \in Queues : \A h \in DOMAIN inflight'[r] :
            \E g \in DOMAIN inflight[r] : inflight'[r][h].buf = inflight[r][g].buf
    BY BufsStay DEF FifoInv
  <2>. QED
    BY <1>1, <2>1 DEF FifoInv, Around, Elsewhere
<1>8. Plain' /\ LatestIn' /\ Hand' /\ Foreground'
  BY <1>1, <1>2 DEF FifoInv, Around, Plain, LatestIn, Hand, Foreground
<1>. QED
  BY <1>3, <1>6, <1>7, <1>8 DEF Around

\* The device's steps on the queue are on its first buffer.
LEMMA FirstOnly ==
    ASSUME PlainQueue, FifoInv, NEW i \in DOMAIN inflight[TheQueue], DeviceStep(TheQueue, i)
    PROVE  i = 1
<1>1. /\ RowLen \in Nat /\ i \in 1 .. RowLen /\ RowBuf(i) = inflight[TheQueue][i].buf
      /\ RowSt(i) = inflight[TheQueue][i].st
  BY RowFacts DEF FifoInv
<1>2. SUFFICES ASSUME i # 1 PROVE FALSE
  OBVIOUS
<1>3. i \in 2 .. RowLen /\ i - 1 \in 1 .. RowLen
  BY <1>1, <1>2
<1>4. RowSt(i) = "queued" /\ header[RowBuf(i)].waitOn = RowBuf(i-1) /\ RowBuf(i-1) \in Bufs
  BY <1>3, RowFacts DEF FifoInv, RowInv, Chain
<1>5. PassWait(TheQueue, i)
  BY <1>1, <1>4 DEF DeviceStep, ResetWaited, Finish
<1>6. /\ DOMAIN inflight[TheQueue] = 1 .. Len(inflight[TheQueue]) /\ Len(inflight[TheQueue]) \in Nat
      /\ \A h \in DOMAIN inflight[TheQueue] : inflight[TheQueue][h].bg = FALSE
  <2>1. \A h \in DOMAIN inflight[TheQueue] : inflight[TheQueue][h] \in Entry
    BY HostFacts, PlainFacts DEF FifoInv
  <2>. QED
    BY <2>1, HostFacts, PlainFacts DEF FifoInv, Around, Foreground, Entry
<1>7. CASE i = 2
  <2>1. fenceValue[RowBuf(1)] = "DEVICE_SIGNAL" /\ 1 \in 1 .. RowLen /\ RowLen # 0
    BY <1>1, <1>3, <1>4, <1>5, <1>7, NoBufAssumption DEF PassWait
  <2>2. RowBuf(1) = FrontBuf(RowBuf(1)[1]) /\ RowBuf(1)[1] \in Accepts[TheQueue]
    BY <2>1, RowFacts DEF FifoInv
  <2>3. Awaited(RowBuf(1))
    BY <2>1, <2>2 DEF FifoInv, RowInv, Signals
  <2>. QED
    BY <2>1, <2>3 DEF Awaited, FifoInv, RowInv, Linked
<1>8. CASE i # 2
  <2>1. 2 \in 1 .. i-1 /\ 2 \in DOMAIN inflight[TheQueue] /\ 2 \in 2 .. RowLen
    BY <1>1, <1>3, <1>6, <1>8
  <2>2. inflight[TheQueue][2].st # "queued"
    BY <1>5, <1>6, <2>1 DEF PassWait, PlainQueue
  <2>3. RowSt(2) = "queued" /\ RowSt(2) = inflight[TheQueue][2].st
    BY <2>1, RowFacts DEF FifoInv, RowInv, Chain
  <2>. QED
    BY <2>2, <2>3
<1>. QED
  BY <1>7, <1>8

\* The first buffer passes its wait, or resets what it waited for.
LEMMA FifoStart ==
    ASSUME PlainQueue, FifoInv, 1 \in DOMAIN inflight[TheQueue],
           PassWait(TheQueue, 1) \/ ResetWaited(TheQueue, 1)
    PROVE  RowInv' /\ Around'
<1>0. PICK b : b = inflight[TheQueue][1].buf
  OBVIOUS
<1>1. /\ b \in Bufs /\ UNCHANGED <<header, inOrderJobs, lastWaitBo, background, unreported, host>>
  BY <1>0, PlainFacts, DeviceFlight DEF FifoInv, DeviceStep
<1>2. PICK v \in {"resetting", "running"} :
          /\ StateChanges(inflight, inflight', TheQueue, 1, v)
          /\ v = "running" => ResetWaited(TheQueue, 1)
                              \/ (PassWait(TheQueue, 1) /\ (header[b].waitOn = NoBuf \/ ~header[b].reset))
  <2>1. inflight \in Inflights /\ TheQueue \in Queues
    BY HostFacts, PlainFacts DEF FifoInv
  <2>2. CASE PassWait(TheQueue, 1)
    <3>1. PICK v \in {"resetting", "running"} :
              /\ inflight' = [inflight EXCEPT ![TheQueue][1].st = v]
              /\ v = "running" => header[b].waitOn = NoBuf \/ ~header[b].reset
      BY <1>0, <2>2 DEF PassWait
    <3>2. StateChanges(inflight, inflight', TheQueue, 1, v)
      BY <2>1, <3>1, StateChanged
    <3>. QED
      BY <2>2, <3>1, <3>2
  <2>3. CASE ResetWaited(TheQueue, 1)
    <3>1. inflight' = [inflight EXCEPT ![TheQueue][1].st = "running"]
      BY <2>3 DEF ResetWaited
    <3>2. StateChanges(inflight, inflight', TheQueue, 1, "running")
      BY <2>1, <3>1, StateChanged
    <3>. QED
      BY <2>3, <3>2
  <2>. QED
    BY <2>2, <2>3
<1>3. /\ RowLen \in Nat /\ 1 \in 1 .. RowLen /\ RowLen # 0 /\ RowBuf(1) = b
      /\ RowSt(1) = inflight[TheQueue][1].st /\ b = FrontBuf(b[1]) /\ b[1] \in Accepts[TheQueue]
  BY <1>0, RowFacts DEF FifoInv
<1>4. PICK n \in Nat : n = RowLen
  BY <1>3
<1>5. /\ RowLen' = n
      /\ \A h \in 1 .. n : RowBuf(h)' = RowBuf(h) /\ (h # 1 => RowSt(h)' = RowSt(h))
      /\ RowSt(1)' = v
  <2>1. /\ Len(inflight'[TheQueue]) = Len(inflight[TheQueue])
        /\ DOMAIN inflight[TheQueue] = 1 .. Len(inflight[TheQueue]) /\ Len(inflight[TheQueue]) \in Nat
        /\ \A h \in DOMAIN inflight[TheQueue] :
               /\ inflight'[TheQueue][h].buf = inflight[TheQueue][h].buf
               /\ inflight'[TheQueue][h].st = IF h = 1 THEN v ELSE inflight[TheQueue][h].st
    BY <1>2, HostFacts, PlainFacts DEF FifoInv, StateChanges
  <2>2. RowLen' = RowLen
    BY <1>1, <2>1 DEF RowLen, HandedIn
  <2>3. ASSUME NEW h \in 1 .. n PROVE RowBuf(h)' = RowBuf(h) /\ (h # 1 => RowSt(h)' = RowSt(h))
    <3>1. h <= Len(inflight[TheQueue]) => h \in DOMAIN inflight[TheQueue]
      BY <2>1
    <3>. QED
      BY <1>1, <2>1, <3>1 DEF RowBuf, RowSt
  <2>4. RowSt(1)' = v
    BY <2>1 DEF RowSt
  <2>. QED
    BY <1>4, <2>2, <2>3, <2>4
<1>6. /\ RowSt(1) = "queued" => PassWait(TheQueue, 1)
      /\ RowSt(1) # "queued" => ResetWaited(TheQueue, 1) /\ RowSt(1) = "resetting"
  BY <1>3 DEF PassWait, ResetWaited
<1>7. Chain' /\ Linked' /\ RowOnce'
  <2>1. \A h \in 2 .. n : h \in 1 .. n /\ h - 1 \in 1 .. n /\ h # 1
    BY <1>4
  <2>2. Chain'
    BY <1>1, <1>4, <1>5, <2>1 DEF FifoInv, RowInv, Chain
  <2>3. Linked' /\ RowOnce'
    BY <1>1, <1>4, <1>5 DEF FifoInv, RowInv, Linked, RowOnce
  <2>. QED
    BY <2>2, <2>3
<1>8. Latest'
  <2>1. RowBuf(RowLen)' = RowBuf(n)'
    BY <1>5 DEF RowBuf
  <2>2. n \in 1 .. n
    BY <1>3, <1>4
  <2>. QED
    BY <1>1, <1>3, <1>4, <1>5, <2>1, <2>2 DEF FifoInv, RowInv, Latest
<1>9. Signals'
  <2> SUFFICES ASSUME NEW j \in Accepts[TheQueue], NEW c, c = FrontBuf(j),
                      fenceValue'[c] = "DEVICE_SIGNAL"
               PROVE  Awaited(c)'
    BY DEF Signals
  <2>1. c \in Bufs
    BY PlainFacts
  <2>2. fenceValue[c] = "DEVICE_SIGNAL"
    BY <2>1 DEF PassWait, ResetWaited, FifoInv, TypeInv, TypeOK
  <2>3. header[b].waitOn = c
    BY <1>3, <2>2 DEF FifoInv, RowInv, Signals, Awaited
  <2>4. v # "running"
    <3>1. header[b].reset /\ header[b].waitOn # NoBuf
      BY <1>3, <2>1, <2>3, NoBufAssumption DEF FifoInv, RowInv, Linked
    <3>2. ~ResetWaited(TheQueue, 1)
      <4>1. ResetWaited(TheQueue, 1) => fenceValue' = [fenceValue EXCEPT ![c] = "DEVICE_RESET"]
        BY <1>0, <2>1, <2>3 DEF ResetWaited
      <4>. QED
        BY <2>1, <4>1 DEF FifoInv, TypeInv, TypeOK
    <3>. QED
      BY <1>2, <3>1, <3>2
  <2>5. header'[RowBuf(1)'].waitOn = c /\ RowSt(1)' # "running" /\ RowLen' # 0
    BY <1>1, <1>3, <1>4, <1>5, <2>3, <2>4
  <2>. QED
    BY <2>5 DEF Awaited
<1>10. Plain' /\ LatestIn' /\ Hand'
  BY <1>1 DEF FifoInv, Around, Plain, LatestIn, Hand
<1>11. Elsewhere' /\ Foreground'
  BY <1>1, <1>2, PlainFacts DEF FifoInv, Around, Elsewhere, Foreground, StateChanges
<1>. QED
  BY <1>7, <1>8, <1>9, <1>10, <1>11 DEF RowInv, Around

\* The first buffer is done: the next one waits for its signal.
LEMMA FifoFinish ==
    ASSUME PlainQueue, FifoInv, 1 \in DOMAIN inflight[TheQueue], Finish(TheQueue, 1)
    PROVE  RowInv' /\ Around'
<1>0. PICK b : b = inflight[TheQueue][1].buf
  OBVIOUS
<1>1. /\ b \in Bufs /\ UNCHANGED <<header, inOrderJobs, lastWaitBo, background, unreported, host>>
  BY <1>0, PlainFacts, DeviceFlight DEF FifoInv, DeviceStep
<1>2. Leaves(inflight, inflight', TheQueue, 1)
  BY HostFacts, PlainFacts, Left DEF FifoInv, Finish
<1>3. /\ RowLen \in Nat /\ 1 \in 1 .. RowLen /\ RowLen # 0 /\ RowBuf(1) = b /\ RowSt(1) = "running"
      /\ b = FrontBuf(b[1]) /\ b[1] \in Accepts[TheQueue]
  BY <1>0, RowFacts DEF FifoInv, Finish
<1>4. PICK n \in Nat : n = RowLen
  BY <1>3
<1>5. /\ RowLen' = n - 1 /\ n - 1 \in Nat
      /\ \A h \in 1 .. n - 1 : /\ h \in 1 .. n /\ h + 1 \in 1 .. n /\ h + 1 \in 2 .. n
                               /\ RowBuf(h)' = RowBuf(h+1) /\ RowSt(h)' = RowSt(h+1)
  <2> DEFINE m == Len(inflight[TheQueue])
  <2>1. /\ m \in Nat /\ m >= 1 /\ Len(inflight'[TheQueue]) = m - 1
        /\ \A h \in 1 .. m - 1 : inflight'[TheQueue][h] = inflight[TheQueue][h+1]
    BY <1>2 DEF Leaves
  <2>2. RowLen' = n - 1
    BY <1>1, <1>4, <2>1 DEF RowLen, HandedIn
  <2>. HIDE DEF m
  <2>3. ASSUME NEW h \in 1 .. n - 1 PROVE RowBuf(h)' = RowBuf(h+1) /\ RowSt(h)' = RowSt(h+1)
    <3>1. CASE h <= m - 1
      <4>1. h \in 1 .. m - 1 /\ h + 1 <= m
        BY <2>1, <3>1
      <4>. QED
        BY <2>1, <3>1, <4>1 DEF RowBuf, RowSt, m
    <3>2. CASE ~(h <= m - 1)
      <4>1. ~(h + 1 <= m)
        BY <2>1, <3>2
      <4>. QED
        BY <1>1, <2>1, <3>2, <4>1 DEF RowBuf, RowSt, m
    <3>. QED
      BY <3>1, <3>2
  <2>. QED
    BY <1>3, <1>4, <2>2, <2>3
<1>6. \A c \in Bufs : fenceValue'[c] = "DEVICE_SIGNAL" => c = b \/ fenceValue[c] = "DEVICE_SIGNAL"
  BY <1>0, <1>1 DEF Finish, FifoInv, TypeInv, TypeOK
<1>7. Chain'
  <2> SUFFICES ASSUME NEW h \in 2 .. n - 1
               PROVE  RowSt(h)' = "queued" /\ header'[RowBuf(h)'].waitOn = RowBuf(h-1)'
    BY <1>5 DEF Chain
  <2>1. h \in 1 .. n - 1 /\ h - 1 \in 1 .. n - 1 /\ h + 1 \in 2 .. n /\ h - 1 + 1 = h /\ h + 1 - 1 = h
    BY <1>5
  <2>2. RowSt(h+1) = "queued" /\ header[RowBuf(h+1)].waitOn = RowBuf(h)
    BY <1>4, <2>1 DEF FifoInv, RowInv, Chain
  <2>. QED
    BY <1>1, <1>5, <2>1, <2>2
<1>8. Linked'
  BY <1>1, <1>4, <1>5 DEF FifoInv, RowInv, Linked
<1>9. RowOnce'
  <2> SUFFICES ASSUME NEW g \in 1 .. n - 1, NEW h \in 1 .. n - 1, RowBuf(g)' = RowBuf(h)' PROVE g = h
    BY <1>5 DEF RowOnce
  <2>1. g + 1 = h + 1
    BY <1>4, <1>5 DEF FifoInv, RowInv, RowOnce
  <2>. QED
    BY <2>1
<1>10. Latest'
  <2> SUFFICES ASSUME n - 1 # 0 PROVE lastWaitBo[TheQueue] = RowBuf(RowLen)'
    BY <1>1, <1>5 DEF Latest
  <2>1. RowBuf(RowLen)' = RowBuf(n-1)' /\ n - 1 \in 1 .. n - 1 /\ n - 1 + 1 = n
    BY <1>5 DEF RowBuf
  <2>2. RowBuf(n-1)' = RowBuf(n)
    BY <1>5, <2>1
  <2>. QED
    BY <1>3, <1>4, <2>1, <2>2 DEF FifoInv, RowInv, Latest
<1>11. Signals'
  <2> SUFFICES ASSUME NEW j \in Accepts[TheQueue], NEW c, c = FrontBuf(j),
                      fenceValue'[c] = "DEVICE_SIGNAL"
               PROVE  Awaited(c)'
    BY DEF Signals
  <2>1. c = b
    BY <1>3, <1>6, PlainFacts DEF FifoInv, RowInv, Signals, Awaited
  <2>2. CASE n - 1 = 0
    BY <1>1, <1>3, <1>4, <1>5, <2>1, <2>2 DEF Awaited, FifoInv, RowInv, Latest
  <2>3. CASE n - 1 # 0
    <3>1. 1 \in 1 .. n - 1 /\ 2 \in 2 .. n /\ 1 + 1 = 2
      BY <1>5, <2>3
    <3>2. RowSt(2) = "queued" /\ header[RowBuf(2)].waitOn = b
      BY <1>3, <1>4, <3>1 DEF FifoInv, RowInv, Chain
    <3>3. RowBuf(1)' = RowBuf(2) /\ RowSt(1)' = RowSt(2)
      BY <1>5, <3>1
    <3>. QED
      BY <1>1, <1>5, <2>1, <2>3, <3>2, <3>3 DEF Awaited
  <2>. QED
    BY <2>2, <2>3
<1>12. Plain' /\ LatestIn' /\ Hand'
  BY <1>1 DEF FifoInv, Around, Plain, LatestIn, Hand
<1>13. Elsewhere'
  BY <1>1, <1>2 DEF FifoInv, Around, Elsewhere, Leaves
<1>14. Foreground'
  <2>1. ASSUME NEW h \in DOMAIN inflight'[TheQueue] PROVE ~inflight'[TheQueue][h].bg
    <3>1. h + 1 \in DOMAIN inflight[TheQueue] /\ inflight'[TheQueue][h] = inflight[TheQueue][h+1]
      BY <1>2 DEF Leaves
    <3>. QED
      BY <3>1 DEF FifoInv, Around, Foreground
  <2>. QED
    BY <1>1, <2>1 DEF FifoInv, Around, Foreground
<1>. QED
  BY <1>7, <1>8, <1>9, <1>10, <1>11, <1>12, <1>13, <1>14 DEF RowInv, Around

\* A sequence of entries as the user of the queue sees it.
View(s) ==
    [i \in DOMAIN s |-> [buf |-> s[i].buf,
                         st  |-> IF s[i].st = "running" THEN "running" ELSE "queued"]]

SeenEntry == [buf : Bufs, st : {"queued", "running"}]

LEMMA ViewFacts ==
    ASSUME NEW s \in Seq(Entry)
    PROVE  /\ View(s) \in Seq(SeenEntry)
           /\ Len(View(s)) = Len(s) /\ DOMAIN View(s) = 1 .. Len(s) /\ Len(s) \in Nat
           /\ \A i \in 1 .. Len(s) :
                  /\ View(s)[i] \in SeenEntry /\ View(s)[i].buf = s[i].buf
                  /\ View(s)[i].st = IF s[i].st = "running" THEN "running" ELSE "queued"
<1>1. Len(s) \in Nat /\ DOMAIN s = 1 .. Len(s) /\ \A i \in 1 .. Len(s) : s[i] \in Entry
  BY LenProperties, ElementOfSeq
<1>2. View(s) \in [1 .. Len(s) -> SeenEntry]
  BY <1>1 DEF View, Entry, SeenEntry
<1>3. View(s) \in Seq(SeenEntry) /\ Len(View(s)) = Len(s)
  BY <1>1, <1>2, SeqDef, LenProperties
<1>. QED
  BY <1>1, <1>2, <1>3 DEF View

\* Two views are the same when their entries are.
LEMMA SameView ==
    ASSUME NEW v \in Seq(SeenEntry), NEW w \in Seq(SeenEntry), Len(v) = Len(w),
           \A i \in 1 .. Len(v) : v[i].buf = w[i].buf /\ v[i].st = w[i].st
    PROVE  v = w
<1>1. ASSUME NEW i \in 1 .. Len(v) PROVE v[i] = w[i]
  <2>1. v[i] \in SeenEntry /\ w[i] \in SeenEntry
    BY ElementOfSeq
  <2>. QED
    BY <2>1 DEF SeenEntry
<1>. QED
  BY <1>1, SeqEqual

\* A submission to the queue is one of FifoExecution.
LEMMA SubmitImplements ==
    ASSUME PlainQueue, FifoInv, TypeInv', SubmitCommandBuffer
    PROVE  (\E b \in Bufs : Fifo!Submit(b)) \/ UNCHANGED Line(TheQueue)
<1>0. PICK e : e = NewEntry
  OBVIOUS
<1>1. /\ e \in Entry /\ host.q \in Queues /\ Joins(inflight, inflight', host.q, e)
      /\ e.st = "queued" /\ e.buf \in Bufs
  BY <1>0, EntryJoins DEF FifoInv
<1>2. CASE host.q # TheQueue
  BY <1>1, <1>2, PlainFacts DEF Joins, Line
<1>3. CASE host.q = TheQueue
  <2> DEFINE s == inflight[TheQueue]
             t == inflight'[TheQueue]
             n == Len(s)
             w == [buf |-> e.buf, st |-> "queued"]
  <2>1. /\ s \in Seq(Entry) /\ t \in Seq(Entry) /\ n \in Nat /\ Len(t) = n + 1 /\ t[n+1] = e
        /\ \A i \in 1 .. n : t[i] = s[i]
    BY <1>1, <1>3, HostFacts, PlainFacts DEF FifoInv, Joins, Inflights
  <2>2. Line(TheQueue) = View(s) /\ Line(TheQueue)' = View(t)
    BY DEF Line, View
  <2>. HIDE DEF s, t
  <2>3. /\ View(s) \in Seq(SeenEntry) /\ Len(View(s)) = n
        /\ View(t) \in Seq(SeenEntry) /\ Len(View(t)) = n + 1
        /\ \A i \in 1 .. n : /\ View(s)[i].buf = s[i].buf
                             /\ View(s)[i].st = IF s[i].st = "running" THEN "running" ELSE "queued"
        /\ \A i \in 1 .. n + 1 :
               /\ View(t)[i].buf = t[i].buf
               /\ View(t)[i].st = IF t[i].st = "running" THEN "running" ELSE "queued"
    BY <2>1, ViewFacts
  <2>4. w \in SeenEntry /\ w.buf = e.buf /\ w.st = "queued"
    BY <1>1 DEF SeenEntry
  <2>. HIDE DEF w
  <2>5. /\ Append(View(s), w) \in Seq(SeenEntry) /\ Len(Append(View(s), w)) = n + 1
        /\ \A i \in 1 .. n : Append(View(s), w)[i] = View(s)[i]
        /\ Append(View(s), w)[n+1] = w
    BY <2>3, <2>4, AppendProperties
  <2>6. ASSUME NEW i \in 1 .. n + 1
        PROVE  View(t)[i].buf = Append(View(s), w)[i].buf /\ View(t)[i].st = Append(View(s), w)[i].st
    <3>1. CASE i \in 1 .. n
      BY <2>1, <2>3, <2>5, <3>1
    <3>2. CASE i = n + 1
      BY <1>1, <2>1, <2>3, <2>4, <2>5, <3>2
    <3>3. n \in Nat
      BY <2>1
    <3>. HIDE DEF n
    <3>4. i \in 1 .. n \/ i = n + 1
      BY <3>3
    <3>. QED
      BY <3>1, <3>2, <3>4
  <2>7. View(t) = Append(View(s), w)
    BY <2>3, <2>5, <2>6, SameView
  <2>8. Fifo!Submit(e.buf)
    BY <2>2, <2>7 DEF Fifo!Submit, w
  <2>. QED
    BY <1>1, <2>8
<1>. QED
  BY <1>2, <1>3

\* The first buffer starts when it runs; until then the user sees no change.
LEMMA StartImplements ==
    ASSUME PlainQueue, FifoInv, TypeInv', 1 \in DOMAIN inflight[TheQueue],
           PassWait(TheQueue, 1) \/ ResetWaited(TheQueue, 1)
    PROVE  Fifo!Start \/ UNCHANGED Line(TheQueue)
<1> DEFINE s == inflight[TheQueue]
           t == inflight'[TheQueue]
           n == Len(s)
<1>1. inflight \in Inflights /\ TheQueue \in Queues
  BY HostFacts, PlainFacts DEF FifoInv
<1>2. PICK v \in {"resetting", "running"} : inflight' = [inflight EXCEPT ![TheQueue][1].st = v]
  BY DEF PassWait, ResetWaited
<1>3. StateChanges(inflight, inflight', TheQueue, 1, v)
  BY <1>1, <1>2, StateChanged
<1>4. /\ s \in Seq(Entry) /\ t \in Seq(Entry) /\ n \in Nat /\ Len(t) = n /\ 1 \in 1 .. n
      /\ \A i \in 1 .. n : t[i].buf = s[i].buf /\ t[i].st = IF i = 1 THEN v ELSE s[i].st
      /\ s[1].st # "running"
  <2>1. s \in Seq(Entry) /\ t \in Seq(Entry) /\ n \in Nat /\ Len(t) = n /\ 1 \in 1 .. n
    BY <1>1, <1>3 DEF StateChanges, Inflights
  <2>2. \A i \in 1 .. n : t[i].buf = s[i].buf /\ t[i].st = IF i = 1 THEN v ELSE s[i].st
    BY <1>1, <1>3, <2>1 DEF StateChanges, Inflights
  <2>3. s[1].st # "running"
    BY DEF PassWait, ResetWaited
  <2>. QED
    BY <2>1, <2>2, <2>3
<1>5. Line(TheQueue) = View(s) /\ Line(TheQueue)' = View(t)
  BY DEF Line, View
<1>. HIDE DEF s, t
<1>6. /\ View(s) \in Seq(SeenEntry) /\ Len(View(s)) = n
      /\ View(t) \in Seq(SeenEntry) /\ Len(View(t)) = n
      /\ \A i \in 1 .. n : /\ View(s)[i] \in SeenEntry /\ View(s)[i].buf = s[i].buf
                           /\ View(s)[i].st = IF s[i].st = "running" THEN "running" ELSE "queued"
      /\ \A i \in 1 .. n : /\ View(t)[i].buf = t[i].buf
                           /\ View(t)[i].st = IF t[i].st = "running" THEN "running" ELSE "queued"
  BY <1>4, ViewFacts
<1>7. CASE v = "resetting"
  <2>1. \A i \in 1 .. n : View(t)[i].buf = View(s)[i].buf /\ View(t)[i].st = View(s)[i].st
    BY <1>4, <1>6, <1>7
  <2>. QED
    BY <1>5, <1>6, <2>1, SameView
<1>8. CASE v = "running"
  <2> DEFINE e == [View(s)[1] EXCEPT !.st = "running"]
             w == [View(s) EXCEPT ![1] = e]
  <2>1. e \in SeenEntry /\ e.buf = s[1].buf /\ e.st = "running"
    BY <1>4, <1>6 DEF SeenEntry
  <2>. HIDE DEF e
  <2>2. /\ w \in Seq(SeenEntry) /\ Len(w) = n
        /\ \A i \in 1 .. n : w[i] = IF i = 1 THEN e ELSE View(s)[i]
    BY <1>4, <1>6, <2>1, ExceptSeq
  <2>. HIDE DEF w
  <2>3. \A i \in 1 .. n : View(t)[i].buf = w[i].buf /\ View(t)[i].st = w[i].st
    BY <1>4, <1>6, <1>8, <2>1, <2>2
  <2>4. View(t) = w
    BY <1>6, <2>2, <2>3, SameView
  <2>5. View(t) = [View(s) EXCEPT ![1].st = "running"]
    BY <2>4 DEF w, e
  <2>6. View(s) # <<>> /\ Head(View(s)).st = "queued"
    <3>1. View(s)[1].st = "queued"
      BY <1>4, <1>6
    <3>2. View(s) # <<>>
      BY <1>4, <1>6, EmptySeq
    <3>. QED
      BY <1>6, <3>1, <3>2, HeadTailProperties
  <2>. QED
    BY <1>5, <2>5, <2>6 DEF Fifo!Start
<1>. QED
  BY <1>7, <1>8

\* It finishes.
LEMMA FinishImplements ==
    ASSUME PlainQueue, FifoInv, TypeInv', 1 \in DOMAIN inflight[TheQueue], Finish(TheQueue, 1)
    PROVE  Fifo!Finish
<1> DEFINE s == inflight[TheQueue]
           t == inflight'[TheQueue]
           n == Len(s)
<1>1. Leaves(inflight, inflight', TheQueue, 1)
  BY HostFacts, PlainFacts, Left DEF FifoInv, Finish
<1>2. /\ s \in Seq(Entry) /\ t \in Seq(Entry) /\ n \in Nat /\ Len(t) = n - 1 /\ 1 \in 1 .. n
      /\ \A i \in 1 .. n - 1 : t[i] = s[i+1]
      /\ s[1].st = "running"
  <2>1. s \in Seq(Entry) /\ t \in Seq(Entry) /\ 1 \in 1 .. n
    BY <1>1, HostFacts, PlainFacts DEF FifoInv, Leaves, Inflights
  <2>2. /\ n \in Nat /\ Len(t) = n - 1
        /\ \A i \in 1 .. n - 1 : t[i] = IF i < 1 THEN s[i] ELSE s[i+1]
    BY <1>1 DEF Leaves
  <2>3. \A i \in 1 .. n - 1 : ~(i < 1)
    BY <2>2
  <2>4. s[1].st = "running"
    BY DEF Finish
  <2>. QED
    BY <2>1, <2>2, <2>3, <2>4
<1>3. Line(TheQueue) = View(s) /\ Line(TheQueue)' = View(t)
  BY DEF Line, View
<1>. HIDE DEF s, t
<1>4. /\ View(s) \in Seq(SeenEntry) /\ Len(View(s)) = n
      /\ View(t) \in Seq(SeenEntry) /\ Len(View(t)) = n - 1
      /\ \A i \in 1 .. n : /\ View(s)[i].buf = s[i].buf
                           /\ View(s)[i].st = IF s[i].st = "running" THEN "running" ELSE "queued"
      /\ \A i \in 1 .. n - 1 :
             /\ View(t)[i].buf = t[i].buf
             /\ View(t)[i].st = IF t[i].st = "running" THEN "running" ELSE "queued"
  BY <1>2, ViewFacts
<1>5. View(s) # <<>>
  BY <1>2, <1>4, EmptySeq
<1>6. /\ Head(View(s)) = View(s)[1] /\ Tail(View(s)) \in Seq(SeenEntry)
      /\ Len(Tail(View(s))) = n - 1
      /\ \A i \in 1 .. n - 1 : Tail(View(s))[i] = View(s)[i+1]
  BY <1>4, <1>5, HeadTailProperties
<1>7. ASSUME NEW i \in 1 .. n - 1
      PROVE  View(t)[i].buf = Tail(View(s))[i].buf /\ View(t)[i].st = Tail(View(s))[i].st
  <2>1. i + 1 \in 1 .. n
    BY <1>2
  <2>2. t[i] = s[i+1] /\ Tail(View(s))[i] = View(s)[i+1]
    BY <1>2, <1>6
  <2>. HIDE DEF n
  <2>. QED
    BY <1>4, <2>1, <2>2
<1>8. View(t) = Tail(View(s))
  BY <1>4, <1>6, <1>7, SameView
<1>9. Head(View(s)).st = "running"
  BY <1>2, <1>4, <1>6
<1>. QED
  BY <1>3, <1>5, <1>8, <1>9 DEF Fifo!Finish

LEMMA InitFifo == PlainQueue /\ Init => FifoInv /\ Fifo!Init
<1> SUFFICES ASSUME PlainQueue, Init PROVE FifoInv /\ Fifo!Init
  OBVIOUS
<1>1. /\ \A q \in Queues : inflight[q] = <<>> /\ DOMAIN inflight[q] = {} /\ Len(inflight[q]) = 0
      /\ \A b : ~InFlight(b)
      /\ host.pc = "idle" /\ inOrderJobs = {} /\ background = {}
  BY EmptySeq, IdleFacts DEF Init, InFlight
<1>2. RowLen = 0
  BY <1>1, PlainFacts DEF RowLen, HandedIn
<1>3. \A b \in Bufs : fenceValue[b] = "INITIAL" /\ header[b] = NewHeader(b)
  BY DEF Init
<1>4. RowInv
  <2>1. Chain /\ Linked /\ RowOnce /\ Latest
    BY <1>2 DEF Chain, Linked, RowOnce, Latest
  <2>2. Signals
    BY <1>3, PlainFacts DEF Signals
  <2>. QED
    BY <2>1, <2>2 DEF RowInv
<1>5. Plain
  <2> SUFFICES ASSUME NEW j \in Accepts[TheQueue] PROVE ~header[FrontBuf(j)].signal
    BY DEF Plain
  <2>1. header[FrontBuf(j)] = NewHeader(FrontBuf(j))
    BY <1>3, PlainFacts
  <2>. QED
    BY <2>1, PlainFacts
<1>6. LatestIn
  BY PlainFacts, BufFacts, NoBufAssumption DEF Init, LatestIn
<1>7. Elsewhere /\ Hand /\ Foreground
  BY <1>1, PlainFacts DEF Elsewhere, Hand, Foreground
<1>8. Fifo!Init
  BY <1>1, PlainFacts DEF Fifo!Init, Line
<1>. QED
  BY <1>1, <1>4, <1>5, <1>6, <1>7, <1>8, InitTypes DEF FifoInv, Reported, Around

\* Every step keeps the invariant, and is a step of FifoExecution or none.
LEMMA NextFifo ==
    PlainQueue /\ FifoInv /\ [Next]_vars => FifoInv' /\ [Fifo!Next]_(Line(TheQueue))
<1> SUFFICES ASSUME PlainQueue, FifoInv, [Next]_vars
             PROVE  FifoInv' /\ [Fifo!Next]_(Line(TheQueue))
  OBVIOUS
<1>1. TypeInv' /\ Reported'
  BY NextTypes, ReportedKept DEF FifoInv
<1>2. RowInv' /\ Around' /\ (Fifo!Next \/ UNCHANGED Line(TheQueue))
  <2>1. CASE \/ \E q \in Queues, j \in Jobs : Submit(q, j)
             \/ \E q \in Queues : SetWorkloadType(q)
             \/ \E j \in Jobs : WaitForCompletion(j)
             \/ UNCHANGED vars
    <3>1. UNCHANGED inflight
      BY <2>1 DEF Submit, SetWorkloadType, WaitForCompletion, vars
    <3>. QED
      BY <2>1, <3>1, FifoCalls DEF Line
  <2>2. CASE SubmitBusy \/ SubmitFails
    <3>1. UNCHANGED inflight
      BY <2>2 DEF SubmitBusy, SubmitFails
    <3>. QED
      BY <2>2, <3>1, FifoRetry DEF Line
  <2>3. CASE MakeInOrder
    <3>1. UNCHANGED inflight
      BY <2>3 DEF MakeInOrder, MakeInOrderWith
    <3>. QED
      BY <2>3, <3>1, FifoPatch, FifoPatchElsewhere DEF Line
  <2>4. CASE StripInOrder
    <3>1. UNCHANGED inflight
      BY <2>4 DEF StripInOrder
    <3>. QED
      BY <2>4, <3>1, FifoStrip DEF Line
  <2>5. CASE SubmitCommandBuffer
    BY <1>1, <2>5, FifoSubmit, SubmitImplements DEF Fifo!Next
  <2>6. ASSUME NEW q \in Queues, NEW i \in DOMAIN inflight[q], DeviceStep(q, i)
        PROVE  RowInv' /\ Around' /\ (Fifo!Next \/ UNCHANGED Line(TheQueue))
    <3>1. CASE q # TheQueue
      <4>1. inflight'[TheQueue] = inflight[TheQueue]
        BY <2>6, <3>1, PlainFacts, HostFacts
           DEF FifoInv, Inflights, DeviceStep, PassWait, ResetWaited, Finish
      <4>. QED
        BY <2>6, <3>1, <4>1, FifoDeviceElsewhere DEF Line
    <3>2. CASE q = TheQueue
      <4>1. i = 1 /\ 1 \in DOMAIN inflight[TheQueue] /\ DeviceStep(TheQueue, 1)
        BY <2>6, <3>2, FirstOnly
      <4>2. CASE PassWait(TheQueue, 1) \/ ResetWaited(TheQueue, 1)
        BY <1>1, <4>1, <4>2, FifoStart, StartImplements DEF Fifo!Next
      <4>3. CASE Finish(TheQueue, 1)
        BY <1>1, <4>1, <4>3, FifoFinish, FinishImplements DEF Fifo!Next
      <4>. QED
        BY <4>1, <4>2, <4>3 DEF DeviceStep
    <3>. QED
      BY <3>1, <3>2
  <2>. QED
    BY <2>1, <2>2, <2>3, <2>4, <2>5, <2>6 DEF Next, HostStep
<1>. QED
  BY <1>1, <1>2 DEF FifoInv

\* An in-order queue implements FifoExecution: with the fence commands that makeInOrder
\* patches, no command buffer starts before the one submitted before it has completed
\* (job.cpp:43).
THEOREM QueueIsFifo == PlainQueue => (Spec => FifoOrder)
<1> SUFFICES ASSUME PlainQueue PROVE Spec => FifoOrder
  OBVIOUS
<1>1. FifoInv /\ [Next]_vars => FifoInv' /\ [Fifo!Next]_(Line(TheQueue))
  BY NextFifo
<1>2. Init => FifoInv /\ Fifo!Init
  BY InitFifo
<1>. QED
  BY <1>1, <1>2, PTL DEF Spec, FifoOrder, Fifo!Spec

=============================================================================

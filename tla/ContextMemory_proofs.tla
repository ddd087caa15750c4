------------------------ MODULE ContextMemory_proofs ------------------------
(***************************************************************************)
(* The memory of a context, for any number of threads, buffer objects and  *)
(* pages of any size.  Everything rests on one fact: all buffers begin at  *)
(* a page, so the greatest base below a pointer is that of its own page.   *)
(***************************************************************************)
EXTENDS ContextMemory, FiniteSetTheorems, WellFoundedInduction, TLAPS

Locations == {"Host", "ExternalHost", "Internal", "UserPtr"}

\* The parts of the state have their types.
Shape ==
    /\ bo \in [Alive -> [base : Nat, size : Nat, location : Locations, handle : Bos \cup Fds]]
    /\ pc \in [Threads -> {"idle", "userptr", "emplace", "erase", "release"}]
    /\ local \in [Threads -> [ptr : Nat, size : Nat, bo : Bos \cup {NoBo}, own : Bos \cup {NoBo}]]
    /\ owned \subseteq [ptr : Nat, size : Nat, bo : Bos]

\* A buffer object is one page of its own, or the pages of a block of user memory.
OnePage(b)   == \E page \in MmapPages : bo[b].base = page * PageSize /\ bo[b].size = PageSize
UserPages(b) == \E block \in UserBlocks :
                   /\ bo[b].base = PageStart(block.ptr)
                   /\ bo[b].size = UserPtrSize(block.ptr, block.size)

Pages ==
    /\ \A b \in Alive : IF bo[b].location = "UserPtr" THEN UserPages(b) ELSE OnePage(b)
    /\ \A b, d \in Alive : /\ bo[b].location # "UserPtr" /\ bo[d].location # "UserPtr"
                           /\ bo[b].base = bo[d].base
                           => b = d

\* b is what the application got, or is about to get, for m.
Backs(b, m) ==
    IF bo[b].location = "UserPtr"
    THEN /\ [ptr |-> m.ptr, size |-> m.size] \in UserBlocks
         /\ bo[b].base = PageStart(m.ptr)
         /\ bo[b].size = UserPtrSize(m.ptr, m.size)
    ELSE m.ptr = bo[b].base /\ m.size = PageSize /\ bo[b].size = PageSize

\* The map leads from b's base to b.
Tracked(b) ==
    /\ b \in Alive
    /\ bo[b].base \in DOMAIN trackedBuffers
    /\ trackedBuffers[bo[b].base] = b

\* Memory of the application is tracked, and no two pieces share a buffer object.
Ownership ==
    /\ \A a \in DOMAIN trackedBuffers : bo[trackedBuffers[a]].base = a
    /\ \A o \in owned : Tracked(o.bo) /\ Backs(o.bo, o)
    /\ \A o, p \in owned : o.bo = p.bo => o = p

\* What a thread at `step` holds: an object that is not yet in the map, or one that
\* only it will take out of the map.
CallOf(step, l) ==
    /\ step = "userptr" => [ptr |-> l.ptr, size |-> l.size] \in UserBlocks
    /\ step = "emplace" => l.bo \in Alive /\ ~Tracked(l.bo) /\ Backs(l.bo, l)
    /\ step = "erase" =>
          /\ l.bo = l.own /\ Tracked(l.bo)
          /\ \A o \in owned : o.bo # l.bo
    /\ step \in {"erase", "release"} => l.bo \in Alive /\ bo[l.bo].location # "ExternalHost"

\* No two threads put the same object into the map, or take it out.
Calls ==
    /\ \A t \in Threads : CallOf(pc[t], local[t])
    /\ \A t, u \in Threads :
          /\ pc[t] \in {"emplace", "erase"} /\ pc[u] \in {"emplace", "erase"}
          /\ local[t].bo = local[u].bo
          => t = u

\* External memory that has not been freed is in the map, or will be.
External ==
    \A b \in Alive : bo[b].location = "ExternalHost" =>
        Tracked(b) \/ \E t \in Threads : pc[t] = "emplace" /\ local[t].bo = b

\* A handle belongs to one buffer object, and is open.
Handles ==
    /\ \A b \in Alive : bo[b].handle \in Fds \cup {b} /\ bo[b].handle \in openHandles
    /\ \A b, d \in Alive : bo[b].handle = bo[d].handle => b = d

MemoryInv ==
    /\ TypeOK /\ Shape /\ Pages /\ Ownership /\ Calls /\ External
    /\ NoHandleLeak
    /\ ~ShareFds => Handles

-----------------------------------------------------------------------------
\* Division by the size of a page.
LEMMA Divide ==
  ASSUME NEW x \in Nat
  PROVE  /\ x \div PageSize \in Nat
         /\ (x \div PageSize) * PageSize <= x
         /\ x < (x \div PageSize) * PageSize + PageSize
  BY ParametersAssumption

\* Multiples of the page size are in the order of their factors.
LEMMA Multiples ==
  ASSUME NEW m \in Nat, NEW n \in Nat, m * PageSize < n * PageSize + PageSize
  PROVE  m * PageSize <= n * PageSize
  <1>1. PageSize \in Nat /\ PageSize > 0
    BY ParametersAssumption
  <1>2. CASE m <= n
    BY <1>1, <1>2
  <1>3. CASE n + 1 <= m
    <2>1. (n + 1) * PageSize <= m * PageSize
      BY <1>1, <1>3
    <2>2. (n + 1) * PageSize = n * PageSize + PageSize
      BY <1>1
    <2>3. m * PageSize \in Int /\ n * PageSize \in Int
      BY <1>1
    <2> QED
      BY <1>1, <2>1, <2>2, <2>3
  <1> QED
    BY <1>2, <1>3

\* A page start is a multiple of the page size.
IsPage(x) == \E page \in Nat : x = page * PageSize

\* The start of the page of an address is the greatest multiple not above it.
LEMMA PageStartGreatest ==
  ASSUME NEW x \in Nat
  PROVE  /\ PageStart(x) \in Nat /\ IsPage(PageStart(x))
         /\ PageStart(x) <= x /\ x < PageStart(x) + PageSize
         /\ \A y \in Nat : IsPage(y) /\ y <= x => y <= PageStart(x)
  <1>1. /\ x \div PageSize \in Nat
        /\ (x \div PageSize) * PageSize <= x
        /\ x < (x \div PageSize) * PageSize + PageSize
    BY Divide
  <1>2. PageStart(x) \in Nat /\ PageSize \in Nat
    BY <1>1, ParametersAssumption DEF PageStart
  <1>3. ASSUME NEW y \in Nat, IsPage(y), y <= x PROVE y <= PageStart(x)
    <2>1. PICK page \in Nat : y = page * PageSize
      BY <1>3 DEF IsPage
    <2>2. page * PageSize < (x \div PageSize) * PageSize + PageSize
      BY <1>1, <1>2, <1>3, <2>1 DEF PageStart
    <2> QED
      BY <1>1, <2>1, <2>2, Multiples DEF PageStart
  <1> QED
    BY <1>1, <1>2, <1>3 DEF PageStart, IsPage

\* getPageAlignedSize rounds up.
LEMMA PageAlignedRoundsUp ==
  ASSUME NEW x \in Nat
  PROVE  PageAligned(x) \in Nat /\ x <= PageAligned(x)
  <1>1. PageSize \in Nat /\ PageSize > 0 /\ x + PageSize - 1 \in Nat
    BY ParametersAssumption
  <1>2. /\ (x + PageSize - 1) \div PageSize \in Nat
        /\ x + PageSize - 1 < ((x + PageSize - 1) \div PageSize) * PageSize + PageSize
    BY <1>1, Divide
  <1> DEFINE n == (x + PageSize - 1) \div PageSize
  <1> HIDE DEF n
  <1>3. n * PageSize \in Nat
    BY <1>1, <1>2 DEF n
  <1> QED
    BY <1>1, <1>2, <1>3 DEF n, PageAligned

\* The pages of a block cover it.
LEMMA UserPtrCovers ==
  ASSUME NEW ptr \in Nat, NEW size \in Nat
  PROVE  /\ UserPtrSize(ptr, size) \in Nat
         /\ ptr + size <= PageStart(ptr) + UserPtrSize(ptr, size)
  <1>1. PageSize \in Nat
    BY ParametersAssumption
  <1>2. PageStart(ptr) \in Nat /\ PageStart(ptr) <= ptr /\ ptr < PageStart(ptr) + PageSize
    BY PageStartGreatest
  <1>3. PageAligned(size) \in Nat /\ size <= PageAligned(size)
    BY PageAlignedRoundsUp
  <1> HIDE DEF PageStart, PageAligned
  <1> QED
    BY <1>1, <1>2, <1>3 DEF UserPtrSize

\* A non-empty set of numbers up to n has a greatest element.
LEMMA GreatestBelow ==
  ASSUME NEW n \in Nat, NEW S \in SUBSET (0 .. n), S # {}
  PROVE  Max(S) \in S /\ \A x \in S : x <= Max(S)
  <1> DEFINE T == {x .. n : x \in S}
  <1>1. T \subseteq FiniteSubsetsOf(Nat)
    BY FS_Interval DEF FiniteSubsetsOf
  <1>2. PICK t \in T : \A u \in T : <<u, t>> \notin StrictSubsetOrdering(Nat)
    <2>1. T # {}
      OBVIOUS
    <2> HIDE DEF T
    <2> QED
      BY WFMin, FS_StrictSubsetOrderingWellFounded, <1>1, <2>1
  <1>3. PICK x \in S : t = x .. n
    OBVIOUS
  <1>4. \A y \in S : y <= x
    <2> SUFFICES ASSUME NEW y \in S, x < y PROVE FALSE
      OBVIOUS
    <2>1. y .. n \subseteq x .. n /\ x \in x .. n /\ x \notin y .. n /\ x .. n \in SUBSET Nat
      OBVIOUS
    <2>2. <<y .. n, x .. n>> \in StrictSubsetOrdering(Nat)
      BY <2>1 DEF StrictSubsetOrdering
    <2> QED
      BY <1>2, <1>3, <2>2
  <1>5. \E z \in S : \A y \in S : z >= y
    BY <1>4
  <1> QED
    BY <1>5 DEF Max

-----------------------------------------------------------------------------
\* A context without memory satisfies the invariant.
LEMMA InitMemory == Init => MemoryInv
  <1> SUFFICES ASSUME Init PROVE MemoryInv
    OBVIOUS
  <1> USE ParametersAssumption DEF Init, Alive
  <1>1. TypeOK /\ Shape
    BY DEF TypeOK, Shape, NoLocal
  <1>2. Pages /\ Ownership
    BY DEF Pages, Ownership
  <1>3. Calls
    BY DEF Calls, CallOf, NoLocal
  <1>4. External /\ NoHandleLeak /\ Handles
    BY DEF External, NoHandleLeak, Handles
  <1> QED
    BY <1>1, <1>2, <1>3, <1>4 DEF MemoryInv

\* A thread that goes to a step leaves the others where they are.
LEMMA GotoEffect ==
  ASSUME Shape, NEW t \in Threads, NEW step, NEW l, Goto(t, step, l)
  PROVE  /\ pc'[t] = step /\ local'[t] = l
         /\ \A u \in Threads \ {t} : pc'[u] = pc[u] /\ local'[u] = local[u]
         /\ step \in {"idle", "userptr", "emplace", "erase", "release"} =>
                pc' \in [Threads -> {"idle", "userptr", "emplace", "erase", "release"}]
         /\ l \in [ptr : Nat, size : Nat, bo : Bos \cup {NoBo}, own : Bos \cup {NoBo}] =>
                local' \in [Threads -> [ptr : Nat, size : Nat, bo : Bos \cup {NoBo},
                                        own : Bos \cup {NoBo}]]
  BY DEF Shape, Goto

\* A tracked object is one of the map's, and all bases are page starts.
LEMMA TrackedBases ==
  ASSUME MemoryInv
  PROVE  /\ \A a \in DOMAIN trackedBuffers :
               /\ Tracked(trackedBuffers[a]) /\ bo[trackedBuffers[a]].base = a
               /\ a \in Nat /\ IsPage(a)
         /\ \A b \in Alive : bo[b].base \in Nat /\ IsPage(bo[b].base)
  <1>1. ASSUME NEW b \in Alive PROVE bo[b].base \in Nat /\ IsPage(bo[b].base)
    <2>1. bo[b].base \in Nat
      BY DEF MemoryInv, Shape
    <2>2. CASE UserPages(b)
      BY <2>1, <2>2, PageStartGreatest, ParametersAssumption DEF UserPages
    <2>3. CASE OnePage(b)
      BY <2>1, <2>3, ParametersAssumption DEF OnePage, IsPage
    <2> QED
      BY <2>2, <2>3 DEF MemoryInv, Pages
  <1> QED
    BY <1>1 DEF MemoryInv, TypeOK, Ownership, Tracked

\* What a lookup returns is in the map and covers the address.
LEMMA FoundIsTracked ==
  ASSUME MemoryInv, NEW ptr \in Nat, FindBufferObject(ptr) # NoBo
  PROVE  LET b == FindBufferObject(ptr)
         IN  Tracked(b) /\ ptr \in Addresses(bo[b].base, bo[b].size)
  <1> DEFINE below == {base \in DOMAIN trackedBuffers : base <= ptr}
             b     == trackedBuffers[Max(below)]
  <1>1. below # {} /\ ptr \in Addresses(bo[b].base, bo[b].size) /\ FindBufferObject(ptr) = b
    BY DEF FindBufferObject
  <1>2. below \in SUBSET (0 .. ptr)
    BY TrackedBases
  <1>3. Max(below) \in below
    BY <1>1, <1>2, GreatestBelow
  <1> QED
    BY <1>1, <1>3, TrackedBases

\* The lookup of an address in the first page of a tracked object finds the object,
\* since no other base lies in between.
LEMMA FirstPageFound ==
  ASSUME MemoryInv, NEW b \in Alive, Tracked(b), NEW ptr \in Nat,
         bo[b].base <= ptr, ptr < bo[b].base + PageSize,
         ptr \in Addresses(bo[b].base, bo[b].size)
  PROVE  FindBufferObject(ptr) = b
  <1> DEFINE below == {base \in DOMAIN trackedBuffers : base <= ptr}
             a     == bo[b].base
  <1>1. a \in below /\ trackedBuffers[a] = b /\ a \in Nat /\ IsPage(a)
    BY TrackedBases DEF Tracked
  <1>2. below \in SUBSET (0 .. ptr)
    BY TrackedBases
  <1> HIDE DEF a
  <1>3. \A x \in below : x <= a
    <2> SUFFICES ASSUME NEW x \in below PROVE x <= a
      OBVIOUS
    <2>1. x \in Nat /\ IsPage(x) /\ x <= ptr
      BY TrackedBases
    <2>2. PICK m, n \in Nat : x = m * PageSize /\ a = n * PageSize
      BY <1>1, <2>1 DEF IsPage
    <2>3. m * PageSize < n * PageSize + PageSize
      BY <1>1, <2>1, <2>2, ParametersAssumption DEF a
    <2> QED
      BY <2>2, <2>3, Multiples
  <1>4. Max(below) = a
    <2>1. Max(below) \in below /\ \A x \in below : x <= Max(below)
      BY <1>1, <1>2, GreatestBelow
    <2>2. Max(below) <= a
      BY <1>3, <2>1, Zenon
    <2>3. a <= Max(below)
      BY <1>1, <2>1, Zenon
    <2>4. Max(below) \in Nat
      BY <1>2, <2>1
    <2> HIDE DEF below
    <2> QED
      BY <1>1, <2>2, <2>3, <2>4
  <1> QED
    BY <1>1, <1>4 DEF FindBufferObject, a

\* The first address of memory backed by a tracked object leads to it.
LEMMA OwnPointerFound ==
  ASSUME MemoryInv, NEW b \in Alive, Tracked(b),
         NEW m, Backs(b, m), m.ptr \in Nat
  PROVE  FindBufferObject(m.ptr) = b
  <1>1. bo[b].base \in Nat /\ bo[b].size \in Nat
    BY DEF MemoryInv, Shape
  <1>2. PageSize \in Nat /\ PageSize > 0
    BY ParametersAssumption
  <1>3. CASE bo[b].location = "UserPtr"
    <2>1. /\ m.size \in Nat /\ m.size > 0 /\ bo[b].base = PageStart(m.ptr)
          /\ bo[b].size = UserPtrSize(m.ptr, m.size)
      <3>1. [ptr |-> m.ptr, size |-> m.size] \in [ptr : Nat, size : Nat \ {0}]
        BY <1>3, ParametersAssumption DEF Backs
      <3> QED
        BY <1>3, <3>1 DEF Backs
    <2>2. m.ptr + m.size <= bo[b].base + bo[b].size
      BY <2>1, UserPtrCovers
    <2>3. bo[b].base <= m.ptr /\ m.ptr < bo[b].base + PageSize
      BY <2>1, PageStartGreatest
    <2>4. m.ptr \in Addresses(bo[b].base, bo[b].size)
      BY <1>1, <2>1, <2>2, <2>3 DEF Addresses
    <2> QED
      BY <2>3, <2>4, FirstPageFound
  <1>4. CASE bo[b].location # "UserPtr"
    <2>1. m.ptr = bo[b].base /\ bo[b].size = PageSize
      BY <1>4 DEF Backs
    <2> QED
      BY <1>1, <1>2, <2>1, FirstPageFound DEF Addresses
  <1> QED
    BY <1>3, <1>4

-----------------------------------------------------------------------------
\* A new buffer object is one that is not alive; its pages and its handle are no
\* other's.
LEMMA NewObjectEffect ==
  ASSUME MemoryInv, NEW location \in Locations, NEW handle, NEW base \in Nat, NEW size \in Nat,
         NewBufferObject(location, handle, base, size),
         handle = NewBo \/ (handle \in Fds /\ (~ShareFds => handle \notin openHandles)),
         IF location = "UserPtr"
         THEN \E block \in UserBlocks :
                 base = PageStart(block.ptr) /\ size = UserPtrSize(block.ptr, block.size)
         ELSE \E page \in FreePage : base = page * PageSize /\ size = PageSize
  PROVE  /\ NewBo \in Bos /\ NewBo \notin Alive /\ Alive' = Alive \cup {NewBo}
         /\ \A b \in Alive : bo'[b] = bo[b]
         /\ bo'[NewBo].base = base /\ bo'[NewBo].size = size /\ bo'[NewBo].location = location
         /\ bo' \in [Alive' -> [base : Nat, size : Nat, location : Locations, handle : Bos \cup Fds]]
         /\ Pages' /\ NoHandleLeak' /\ (~ShareFds => Handles')
  <1> DEFINE r == [base |-> base, size |-> size, location |-> location, handle |-> handle]
  <1>1. PICK n \in Bos : n = NewBo /\ n \notin Alive
    BY DEF MemoryInv, TypeOK, NewBufferObject, MayCreate, NewBo
  <1>2. /\ bo' = [b \in Alive \cup {n} |-> IF b = n THEN r ELSE bo[b]]
        /\ openHandles' = openHandles \cup {handle}
    BY <1>1 DEF NewBufferObject
  <1>3. handle = n \/ (handle \in Fds /\ (~ShareFds => handle \notin openHandles))
    BY <1>1
  <1>4. /\ Alive' = Alive \cup {n} /\ bo'[n] = r /\ \A b \in Alive : bo'[b] = bo[b]
    BY <1>1, <1>2 DEF Alive
  <1>5. bo' \in [Alive' -> [base : Nat, size : Nat, location : Locations, handle : Bos \cup Fds]]
    <2>1. r \in [base : Nat, size : Nat, location : Locations, handle : Bos \cup Fds]
      BY <1>1, <1>3
    <2>2. \A b \in Alive : bo[b] \in [base : Nat, size : Nat, location : Locations,
                                      handle : Bos \cup Fds]
      BY DEF MemoryInv, Shape
    <2> HIDE DEF r
    <2> QED
      BY <1>2, <1>4, <2>1, <2>2
  <1>6. Pages'
    <2>1. IF location = "UserPtr" THEN UserPages(n)' ELSE OnePage(n)'
      BY <1>4 DEF UserPages, OnePage, FreePage
    <2>2. \A b \in Alive : IF bo'[b].location = "UserPtr" THEN UserPages(b)' ELSE OnePage(b)'
      BY <1>4 DEF MemoryInv, Pages, UserPages, OnePage
    <2>3. ASSUME location # "UserPtr", NEW b \in Alive, bo[b].location # "UserPtr",
                 bo[b].base = base
          PROVE  FALSE
      <3>1. PICK page \in FreePage : base = page * PageSize
        BY <2>3
      <3>2. base \notin Mapped
        BY <3>1 DEF FreePage
      <3>3. bo[b].size = PageSize /\ PageSize \in Nat /\ PageSize > 0
        BY <2>3, ParametersAssumption DEF MemoryInv, Pages, OnePage
      <3>4. base \in Addresses(bo[b].base, bo[b].size)
        BY <2>3, <3>3 DEF Addresses
      <3> QED
        BY <2>3, <3>2, <3>4 DEF Mapped
    <2>4. \A b, d \in Alive : /\ bo'[b].location # "UserPtr" /\ bo'[d].location # "UserPtr"
                              /\ bo'[b].base = bo'[d].base
                              => b = d
      BY <1>4 DEF MemoryInv, Pages
    <2>5. \A b, d \in Alive' : /\ bo'[b].location # "UserPtr" /\ bo'[d].location # "UserPtr"
                               /\ bo'[b].base = bo'[d].base
                               => b = d
      BY <1>4, <2>3, <2>4
    <2>6. \A b \in Alive' : IF bo'[b].location = "UserPtr" THEN UserPages(b)' ELSE OnePage(b)'
      BY <1>4, <2>1, <2>2
    <2> QED
      BY <2>5, <2>6 DEF Pages
  <1>7. NoHandleLeak'
    BY <1>2, <1>4 DEF MemoryInv, NoHandleLeak
  <1>8. ASSUME ~ShareFds PROVE Handles'
    <2>1. Handles /\ NoHandleLeak
      BY <1>8 DEF MemoryInv
    <2>2. handle \notin openHandles
      BY <1>1, <1>3, <1>8, <2>1, ParametersAssumption DEF Handles, NoHandleLeak
    <2> QED
      BY <1>2, <1>3, <1>4, <2>1, <2>2 DEF Handles
  <1> QED
    BY <1>1, <1>4, <1>5, <1>6, <1>7, <1>8

\* A thread creates an object: it has it until it puts it into the map.
LEMMA CreatedKeeps ==
  ASSUME MemoryInv, NEW t \in Threads, pc[t] \in {"idle", "userptr"},
         NEW location \in Locations, NEW handle, NEW base \in Nat, NEW size \in Nat,
         NEW ptr \in Nat, NEW len \in Nat,
         Created(t, location, handle, base, size, ptr, len),
         handle = NewBo \/ (handle \in Fds /\ (~ShareFds => handle \notin openHandles)),
         IF location = "UserPtr"
         THEN /\ [ptr |-> ptr, size |-> len] \in UserBlocks
              /\ base = PageStart(ptr) /\ size = UserPtrSize(ptr, len)
         ELSE /\ \E page \in FreePage : base = page * PageSize
              /\ ptr = base /\ size = PageSize /\ len = PageSize
  PROVE  MemoryInv'
  <1>0. PICK n : n = NewBo
    OBVIOUS
  <1> DEFINE l == [ptr |-> ptr, size |-> len, bo |-> n, own |-> n]
  <1>1. /\ NewBufferObject(location, handle, base, size) /\ Goto(t, "emplace", l)
        /\ UNCHANGED <<trackedBuffers, cmdRefs, owned>>
    BY <1>0 DEF Created
  <1>2. IF location = "UserPtr"
        THEN \E block \in UserBlocks :
                base = PageStart(block.ptr) /\ size = UserPtrSize(block.ptr, block.size)
        ELSE \E page \in FreePage : base = page * PageSize /\ size = PageSize
    <2>1. CASE location = "UserPtr"
      <3> DEFINE block == [ptr |-> ptr, size |-> len]
      <3>1. block \in UserBlocks /\ block.ptr = ptr /\ block.size = len
        BY <2>1
      <3> HIDE DEF block
      <3> QED
        BY <2>1, <3>1
    <2>2. CASE location # "UserPtr"
      BY <2>2
    <2> QED
      BY <2>1, <2>2
  <1>3. /\ n \in Bos /\ n \notin Alive /\ Alive' = Alive \cup {n}
        /\ \A b \in Alive : bo'[b] = bo[b]
        /\ bo'[n].base = base /\ bo'[n].size = size /\ bo'[n].location = location
        /\ bo' \in [Alive' -> [base : Nat, size : Nat, location : Locations, handle : Bos \cup Fds]]
        /\ Pages' /\ NoHandleLeak' /\ (~ShareFds => Handles')
    BY <1>0, <1>1, <1>2, NewObjectEffect
  <1>4. /\ pc'[t] = "emplace" /\ local'[t] = l
        /\ \A u \in Threads \ {t} : pc'[u] = pc[u] /\ local'[u] = local[u]
        /\ pc' \in [Threads -> {"idle", "userptr", "emplace", "erase", "release"}]
        /\ local' \in [Threads -> [ptr : Nat, size : Nat, bo : Bos \cup {NoBo}, own : Bos \cup {NoBo}]]
    <2>1. l \in [ptr : Nat, size : Nat, bo : Bos \cup {NoBo}, own : Bos \cup {NoBo}]
      BY <1>3
    <2> QED
      BY <1>1, <2>1, GotoEffect DEF MemoryInv
  <1>5. TypeOK'
    BY <1>1, <1>3, <1>4 DEF MemoryInv, TypeOK
  <1>6. Shape'
    BY <1>1, <1>3, <1>4 DEF MemoryInv, Shape
  <1>7. \A b \in Alive : Tracked(b) <=> Tracked(b)'
    BY <1>1, <1>3 DEF Tracked
  <1>8. ~Tracked(n)'
    BY <1>1, <1>3 DEF Tracked, MemoryInv, TypeOK
  <1>9. Ownership'
    <2>1. \A o \in owned : Tracked(o.bo)' /\ Backs(o.bo, o)'
      BY <1>3, <1>7 DEF MemoryInv, TypeOK, Ownership, Backs
    <2>2. \A a \in DOMAIN trackedBuffers : bo'[trackedBuffers[a]].base = a
      BY <1>3 DEF MemoryInv, Ownership, TypeOK
    <2> QED
      BY <1>1, <2>1, <2>2 DEF MemoryInv, Ownership
  <1>10. Calls'
    <2>1. \A b \in Alive : b # n /\ (Tracked(b) <=> Tracked(b)') /\ \A m : Backs(b, m) => Backs(b, m)'
      BY <1>3, <1>7 DEF Backs
    <2>2. \A o \in owned : o.bo \in Alive
      BY DEF MemoryInv, TypeOK
    <2>3. l.bo = n /\ Backs(n, l)'
      BY <1>3 DEF Backs
    <2>4. (\A u \in Threads : CallOf(pc[u], local[u]))'
      <3> SUFFICES ASSUME NEW u \in Threads, NEW step, NEW k, step = pc'[u], k = local'[u]
                   PROVE  CallOf(step, k)'
        OBVIOUS
      <3>1. CASE u = t
        BY <1>3, <1>4, <1>8, <2>3, <3>1 DEF CallOf
      <3>2. CASE u # t
        <4>1. CallOf(step, k)
          BY <1>4, <3>2 DEF MemoryInv, Calls
        <4> QED
          BY <1>1, <1>3, <2>1, <2>2, <4>1 DEF CallOf
      <3> QED
        BY <3>1, <3>2
    <2>5. \A u, v \in Threads :
             /\ pc'[u] \in {"emplace", "erase"} /\ pc'[v] \in {"emplace", "erase"}
             /\ local'[u].bo = local'[v].bo
             => u = v
      <3>1. \A u \in Threads : pc[u] \in {"emplace", "erase"} => local[u].bo \in Alive
        BY DEF MemoryInv, Calls, CallOf
      <3>2. \A u \in Threads : pc[u] \in {"emplace", "erase"} => local[u].bo # n
        BY <1>3, <3>1
      <3> QED
        BY <1>4, <3>2 DEF MemoryInv, Calls
    <2> QED
      BY <2>4, <2>5 DEF Calls
  <1>11. External'
    BY <1>3, <1>4, <1>7 DEF MemoryInv, External
  <1> QED
    BY <1>3, <1>5, <1>6, <1>9, <1>10, <1>11 DEF MemoryInv

\* The three ways to memory: a new allocation, a dma-buf, a block of user memory.
LEMMA CreationsKeep ==
  ASSUME MemoryInv, NEW t \in Threads,
         CreateMemAlloc(t) \/ (\E fd \in Fds : ImportFromFd(t, fd)) \/ CreateFromUserPtr(t)
  PROVE  MemoryInv'
  <1>1. CASE CreateMemAlloc(t)
    <2>1. PICK page \in FreePage, loc \in {"Host", "ExternalHost"} :
             Created(t, loc, NewBo, page * PageSize, PageSize, page * PageSize, PageSize)
      BY <1>1 DEF CreateMemAlloc
    <2>2. page * PageSize \in Nat /\ PageSize \in Nat /\ pc[t] = "idle" /\ loc \in Locations
      BY <1>1, ParametersAssumption DEF CreateMemAlloc, FreePage, Locations
    <2>3. PICK n, base : n = NewBo /\ base = page * PageSize
      OBVIOUS
    <2>4. Created(t, loc, n, base, PageSize, base, PageSize)
      BY <2>1, <2>3
    <2>5. loc # "UserPtr" /\ \E p \in FreePage : base = p * PageSize
      BY <2>3
    <2> QED
      BY <2>2, <2>3, <2>4, <2>5, CreatedKeeps
  <1>2. ASSUME NEW fd \in Fds, ImportFromFd(t, fd) PROVE MemoryInv'
    <2>1. PICK page \in FreePage :
             Created(t, "ExternalHost", fd, page * PageSize, PageSize, page * PageSize, PageSize)
      BY <1>2 DEF ImportFromFd
    <2>2. /\ page * PageSize \in Nat /\ PageSize \in Nat /\ pc[t] = "idle"
          /\ "ExternalHost" \in Locations /\ (~ShareFds => fd \notin openHandles)
      BY <1>2, ParametersAssumption DEF ImportFromFd, FreePage, Locations
    <2> QED
      BY <2>1, <2>2, CreatedKeeps
  <1>3. CASE CreateFromUserPtr(t)
    <2>0. PICK l : l = local[t]
      OBVIOUS
    <2>1. /\ pc[t] = "userptr"
          /\ Created(t, "UserPtr", NewBo, PageStart(l.ptr), UserPtrSize(l.ptr, l.size), l.ptr, l.size)
      BY <1>3, <2>0 DEF CreateFromUserPtr
    <2>2. l.ptr \in Nat /\ l.size \in Nat /\ [ptr |-> l.ptr, size |-> l.size] \in UserBlocks
      BY <2>0, <2>1 DEF MemoryInv, Shape, Calls, CallOf
    <2>3. PageStart(l.ptr) \in Nat /\ UserPtrSize(l.ptr, l.size) \in Nat /\ "UserPtr" \in Locations
      BY <2>2, PageStartGreatest, UserPtrCovers DEF Locations
    <2>4. PICK n, base, size : /\ n = NewBo /\ base = PageStart(l.ptr)
                              /\ size = UserPtrSize(l.ptr, l.size)
      OBVIOUS
    <2>5. Created(t, "UserPtr", n, base, size, l.ptr, l.size)
      BY <2>1, <2>4
    <2> QED
      BY <2>1, <2>2, <2>3, <2>4, <2>5, CreatedKeeps
  <1> QED
    BY <1>1, <1>2, <1>3

\* importUserPtr has a block to import.
LEMMA ImportUserPtrKeeps ==
  ASSUME MemoryInv, NEW t \in Threads, NEW block \in UserBlocks, ImportUserPtr(t, block)
  PROVE  MemoryInv'
  <1> DEFINE l == [NoLocal EXCEPT !.ptr = block.ptr, !.size = block.size]
  <1>1. /\ Goto(t, "userptr", l) /\ UNCHANGED <<bo, trackedBuffers, openHandles, cmdRefs, owned>>
    BY DEF ImportUserPtr
  <1>2. block \in [ptr : Nat, size : Nat]
    BY ParametersAssumption
  <1>3. /\ l \in [ptr : Nat, size : Nat, bo : Bos \cup {NoBo}, own : Bos \cup {NoBo}]
        /\ l.ptr = block.ptr /\ l.size = block.size /\ l.bo = NoBo
    BY <1>2 DEF NoLocal
  <1>4. [ptr |-> l.ptr, size |-> l.size] \in UserBlocks
    <2>1. [ptr |-> block.ptr, size |-> block.size] = block
      BY <1>2
    <2> QED
      BY <1>3, <2>1
  <1> HIDE DEF l
  <1>5. /\ pc'[t] = "userptr" /\ local'[t] = l
        /\ \A u \in Threads \ {t} : pc'[u] = pc[u] /\ local'[u] = local[u]
        /\ pc' \in [Threads -> {"idle", "userptr", "emplace", "erase", "release"}]
        /\ local' \in [Threads -> [ptr : Nat, size : Nat, bo : Bos \cup {NoBo}, own : Bos \cup {NoBo}]]
    BY <1>1, <1>3, GotoEffect DEF MemoryInv
  <1>6. Calls'
    <2>1. (\A u \in Threads : CallOf(pc[u], local[u]))'
      BY <1>1, <1>4, <1>5 DEF MemoryInv, Calls, CallOf, Tracked, Alive, Backs
    <2> QED
      BY <1>5, <2>1 DEF MemoryInv, Calls
  <1>7. External'
    BY <1>1, <1>5 DEF MemoryInv, External, Tracked, Alive, ImportUserPtr
  <1>8. TypeOK' /\ Shape'
    BY <1>1, <1>3, <1>5 DEF MemoryInv, TypeOK, Shape, Alive
  <1>9. Pages' /\ Ownership' /\ NoHandleLeak' /\ (~ShareFds => Handles')
    BY <1>1 DEF MemoryInv, Pages, OnePage, UserPages, Ownership, Tracked, Backs, NoHandleLeak, Handles,
                Alive
  <1> QED
    BY <1>6, <1>7, <1>8, <1>9 DEF MemoryInv

\* An object that is not put into the map.
LEMMA CreateUntrackedKeeps ==
  ASSUME MemoryInv, CreateUntracked
  PROVE  MemoryInv'
  <1>0. PICK n : n = NewBo
    OBVIOUS
  <1>1. UNCHANGED <<trackedBuffers, owned, pc, local>> /\ cmdRefs' = cmdRefs \cup {n}
    BY <1>0 DEF CreateUntracked
  <1>2. /\ n \in Bos /\ n \notin Alive /\ Alive' = Alive \cup {n}
        /\ \A b \in Alive : bo'[b] = bo[b]
        /\ bo'[n].location \in {"Internal", "UserPtr"}
        /\ bo' \in [Alive' -> [base : Nat, size : Nat, location : Locations, handle : Bos \cup Fds]]
        /\ Pages' /\ NoHandleLeak' /\ (~ShareFds => Handles')
    <2>1. CASE \E page \in FreePage : NewBufferObject("Internal", NewBo, page * PageSize, PageSize)
      <3>1. PICK page \in FreePage : NewBufferObject("Internal", NewBo, page * PageSize, PageSize)
        BY <2>1
      <3>2. page * PageSize \in Nat /\ PageSize \in Nat /\ "Internal" \in Locations
        BY ParametersAssumption DEF FreePage, Locations
      <3>3. PICK base \in Nat : base = page * PageSize
        BY <3>2
      <3>4. /\ NewBufferObject("Internal", n, base, PageSize) /\ "Internal" # "UserPtr"
            /\ \E p \in FreePage : base = p * PageSize /\ PageSize = PageSize
        BY <1>0, <3>1, <3>3
      <3> QED
        BY <1>0, <3>2, <3>4, NewObjectEffect
    <2>2. ASSUME NEW block \in UserBlocks,
                 NewBufferObject("UserPtr", NewBo, PageStart(block.ptr), UserPtrSize(block.ptr, block.size))
          PROVE  <1>2!:
      <3>1. block.ptr \in Nat /\ block.size \in Nat /\ "UserPtr" \in Locations
        BY ParametersAssumption DEF Locations
      <3>2. PageStart(block.ptr) \in Nat /\ UserPtrSize(block.ptr, block.size) \in Nat
        BY <3>1, PageStartGreatest, UserPtrCovers
      <3>3. PICK base, size \in Nat : base = PageStart(block.ptr) /\ size = UserPtrSize(block.ptr, block.size)
        BY <3>2
      <3>4. /\ NewBufferObject("UserPtr", n, base, size)
            /\ \E p \in UserBlocks : base = PageStart(p.ptr) /\ size = UserPtrSize(p.ptr, p.size)
        BY <1>0, <2>2, <3>3
      <3> QED
        BY <1>0, <3>1, <3>4, NewObjectEffect
    <2> QED
      BY <2>1, <2>2 DEF CreateUntracked
  <1>3. TypeOK' /\ Shape'
    BY <1>1, <1>2 DEF MemoryInv, TypeOK, Shape
  <1>4. \A b \in Alive : b # n /\ (Tracked(b) <=> Tracked(b)') /\ \A m : Backs(b, m) <=> Backs(b, m)'
    BY <1>1, <1>2 DEF Tracked, Backs
  <1>5. \A o \in owned : o.bo \in Alive
    BY DEF MemoryInv, TypeOK
  <1>6. Ownership'
    <2>1. \A o \in owned : Tracked(o.bo)' /\ Backs(o.bo, o)'
      BY <1>4, <1>5 DEF MemoryInv, Ownership
    <2>2. \A a \in DOMAIN trackedBuffers : bo'[trackedBuffers[a]].base = a
      BY <1>2 DEF MemoryInv, Ownership, TypeOK
    <2> QED
      BY <1>1, <2>1, <2>2 DEF MemoryInv, Ownership
  <1>7. Calls'
    <2>1. \A step, l : CallOf(step, l) => CallOf(step, l)'
      BY <1>1, <1>2, <1>4 DEF CallOf
    <2> QED
      BY <1>1, <2>1 DEF MemoryInv, Calls
  <1>8. External'
    BY <1>1, <1>2, <1>4 DEF MemoryInv, External
  <1> QED
    BY <1>2, <1>3, <1>6, <1>7, <1>8 DEF MemoryInv

-----------------------------------------------------------------------------
\* Destroying what nobody holds leaves the rest as it is, and no handle open.
LEMMA DestroyEffect ==
  ASSUME MemoryInv, NEW held, Destroy(held),
         \A b \in Alive \ held : bo[b].location # "ExternalHost"
  PROVE  /\ Alive' = Alive \cap held /\ \A b \in Alive' : bo'[b] = bo[b]
         /\ bo' \in [Alive' -> [base : Nat, size : Nat, location : Locations, handle : Bos \cup Fds]]
         /\ Pages' /\ NoHandleLeak' /\ (~ShareFds => Handles')
  <1>1. /\ bo' = [b \in Alive \cap held |-> bo[b]]
        /\ openHandles' = openHandles \ {bo[b].handle : b \in Alive \ held}
    BY DEF Destroy
  <1>2. Alive' = Alive \cap held /\ \A b \in Alive' : bo'[b] = bo[b]
    BY <1>1 DEF Alive
  <1>3. bo' \in [Alive' -> [base : Nat, size : Nat, location : Locations, handle : Bos \cup Fds]]
    <2>1. bo \in [Alive -> [base : Nat, size : Nat, location : Locations, handle : Bos \cup Fds]]
      BY DEF MemoryInv, Shape
    <2> QED
      BY <1>1, <1>2, <2>1
  <1>4. Pages'
    BY <1>2 DEF MemoryInv, Pages, OnePage, UserPages
  <1>5. NoHandleLeak'
    BY <1>1, <1>2 DEF MemoryInv, NoHandleLeak
  <1>6. ~ShareFds => Handles'
    BY <1>1, <1>2 DEF MemoryInv, Handles
  <1> QED
    BY <1>2, <1>3, <1>4, <1>5, <1>6

\* A thread, or a command, lets go of its reference, and what nobody holds then dies.
LEMMA LettingGoKeeps ==
  ASSUME MemoryInv, NEW t, NEW refs \in SUBSET cmdRefs,
         Destroy(Held(trackedBuffers, refs, t)), cmdRefs' = refs,
         UNCHANGED <<trackedBuffers, owned>>,
         \A b \in Alive : bo[b].location = "ExternalHost" =>
             Tracked(b) \/ \E u \in Threads \ {t} : pc[u] = "emplace" /\ local[u].bo = b,
         \A u \in Threads \ {t} : pc'[u] = pc[u] /\ local'[u] = local[u],
         t \in Threads => pc'[t] = "idle" /\ local'[t] = NoLocal,
         pc' \in [Threads -> {"idle", "userptr", "emplace", "erase", "release"}],
         local' \in [Threads -> [ptr : Nat, size : Nat, bo : Bos \cup {NoBo}, own : Bos \cup {NoBo}]]
  PROVE  MemoryInv'
  <1>0. PICK held : held = Held(trackedBuffers, refs, t)
    OBVIOUS
  <1>1. /\ \A b \in Alive : Tracked(b) => b \in held
        /\ \A a \in DOMAIN trackedBuffers : trackedBuffers[a] \in held
        /\ refs \subseteq held
        /\ \A u \in Threads \ {t} : local[u].bo \in held
    BY <1>0 DEF Held, Tracked
  <1>2. \A b \in Alive \ held : bo[b].location # "ExternalHost"
    BY <1>1
  <1>3. /\ Alive' = Alive \cap held /\ \A b \in Alive' : bo'[b] = bo[b]
        /\ bo' \in [Alive' -> [base : Nat, size : Nat, location : Locations, handle : Bos \cup Fds]]
        /\ Pages' /\ NoHandleLeak' /\ (~ShareFds => Handles')
    BY <1>0, <1>2, DestroyEffect
  <1>4. \A o \in owned : o.bo \in Alive /\ Tracked(o.bo)
    BY DEF MemoryInv, TypeOK, Ownership
  <1>5. TypeOK'
    <2>1. \A u \in Threads : local'[u].bo \in Alive' \cup {NoBo}
      BY <1>1, <1>3 DEF MemoryInv, TypeOK, NoLocal
    <2> QED
      BY <1>1, <1>3, <1>4, <2>1 DEF MemoryInv, TypeOK
  <1>6. Shape'
    BY <1>3 DEF MemoryInv, Shape
  <1>7. \A b \in Alive' : (Tracked(b) <=> Tracked(b)') /\ \A m : Backs(b, m) <=> Backs(b, m)'
    BY <1>3 DEF Tracked, Backs
  <1>8. Ownership'
    <2>1. \A o \in owned : Tracked(o.bo)' /\ Backs(o.bo, o)'
      BY <1>1, <1>3, <1>4, <1>7 DEF MemoryInv, Ownership
    <2>2. \A a \in DOMAIN trackedBuffers : bo'[trackedBuffers[a]].base = a
      BY <1>1, <1>3 DEF MemoryInv, Ownership, TypeOK
    <2> QED
      BY <2>1, <2>2 DEF MemoryInv, Ownership
  <1>9. Calls'
    <2>1. (\A u \in Threads : CallOf(pc[u], local[u]))'
      <3> SUFFICES ASSUME NEW u \in Threads, NEW step, NEW k, step = pc'[u], k = local'[u]
                   PROVE  CallOf(step, k)'
        OBVIOUS
      <3>1. CASE u = t
        BY <3>1 DEF CallOf
      <3>2. CASE u # t
        <4>1. CallOf(step, k) /\ k.bo \in held
          BY <1>1, <3>2 DEF MemoryInv, Calls
        <4> QED
          BY <1>3, <1>7, <4>1 DEF CallOf
      <3> QED
        BY <3>1, <3>2
    <2> QED
      BY <2>1 DEF MemoryInv, Calls
  <1>10. External'
    BY <1>3, <1>7 DEF MemoryInv, External
  <1> QED
    BY <1>3, <1>5, <1>6, <1>8, <1>9, <1>10 DEF MemoryInv

\* No one is left behind when a thread releases, or a command is destroyed.
LEMMA ReleasesKeep ==
  ASSUME MemoryInv, (\E t \in Threads : Release(t)) \/ (\E b \in Bos : DestroyCommand(b))
  PROVE  MemoryInv'
  <1>1. ASSUME NEW t \in Threads, Release(t) PROVE MemoryInv'
    <2>1. /\ pc[t] = "release" /\ Destroy(Held(trackedBuffers, cmdRefs, t))
          /\ Goto(t, "idle", NoLocal) /\ UNCHANGED <<trackedBuffers, cmdRefs, owned>>
      BY <1>1 DEF Release
    <2>2. NoLocal \in [ptr : Nat, size : Nat, bo : Bos \cup {NoBo}, own : Bos \cup {NoBo}]
      BY DEF NoLocal
    <2>3. /\ pc'[t] = "idle" /\ local'[t] = NoLocal
          /\ \A u \in Threads \ {t} : pc'[u] = pc[u] /\ local'[u] = local[u]
          /\ pc' \in [Threads -> {"idle", "userptr", "emplace", "erase", "release"}]
          /\ local' \in [Threads -> [ptr : Nat, size : Nat, bo : Bos \cup {NoBo}, own : Bos \cup {NoBo}]]
      BY <2>1, <2>2, GotoEffect DEF MemoryInv
    <2>4. PICK refs : refs = cmdRefs
      OBVIOUS
    <2>5. \A b \in Alive : bo[b].location = "ExternalHost" =>
             Tracked(b) \/ \E u \in Threads \ {t} : pc[u] = "emplace" /\ local[u].bo = b
      BY <2>1 DEF MemoryInv, External
    <2>6. Destroy(Held(trackedBuffers, refs, t)) /\ cmdRefs' = refs /\ refs \in SUBSET cmdRefs
      BY <2>1, <2>4
    <2> QED
      BY <2>1, <2>3, <2>5, <2>6, LettingGoKeeps
  <1>2. ASSUME NEW b \in Bos, DestroyCommand(b) PROVE MemoryInv'
    <2>1. PICK refs : refs = cmdRefs \ {b}
      OBVIOUS
    <2>2. /\ Destroy(Held(trackedBuffers, refs, NoBo)) /\ cmdRefs' = refs /\ refs \in SUBSET cmdRefs
          /\ UNCHANGED <<trackedBuffers, owned, pc, local>>
      BY <1>2, <2>1 DEF DestroyCommand
    <2>3. NoBo \notin Threads /\ Threads \ {NoBo} = Threads
      BY ParametersAssumption
    <2>4. /\ \A d \in Alive : bo[d].location = "ExternalHost" =>
                Tracked(d) \/ \E u \in Threads \ {NoBo} : pc[u] = "emplace" /\ local[u].bo = d
          /\ \A u \in Threads \ {NoBo} : pc'[u] = pc[u] /\ local'[u] = local[u]
          /\ pc' \in [Threads -> {"idle", "userptr", "emplace", "erase", "release"}]
          /\ local' \in [Threads -> [ptr : Nat, size : Nat, bo : Bos \cup {NoBo}, own : Bos \cup {NoBo}]]
      BY <2>2, <2>3 DEF MemoryInv, External, Shape
    <2> QED
      BY <2>2, <2>3, <2>4, LettingGoKeeps
  <1> QED
    BY <1>1, <1>2

\* An entry that is there already is another object's of the same user pages: no page
\* the kernel maps twice, and none over user memory.
LEMMA NoExternalCollision ==
  ASSUME MemoryInv, NEW b \in Alive, ~Tracked(b), bo[b].base \in DOMAIN trackedBuffers
  PROVE  bo[b].location = "UserPtr"
  <1> SUFFICES ASSUME bo[b].location # "UserPtr" PROVE FALSE
    OBVIOUS
  <1>1. PICK d \in Alive : d = trackedBuffers[bo[b].base] /\ bo[d].base = bo[b].base /\ d # b
    BY DEF MemoryInv, TypeOK, Ownership, Tracked
  <1>2. bo[d].location = "UserPtr"
    BY <1>1 DEF MemoryInv, Pages
  <1>3. PICK block \in UserBlocks : /\ bo[d].base = PageStart(block.ptr)
                                   /\ bo[d].size = UserPtrSize(block.ptr, block.size)
    BY <1>2 DEF MemoryInv, Pages, UserPages
  <1>4. PICK page \in MmapPages : bo[b].base = page * PageSize
    BY DEF MemoryInv, Pages, OnePage
  <1>5. /\ block.ptr \in Nat /\ block.size \in Nat /\ block.size > 0
    BY ParametersAssumption
  <1>6. /\ PageStart(block.ptr) \in Nat /\ PageStart(block.ptr) <= block.ptr
        /\ UserPtrSize(block.ptr, block.size) \in Nat
        /\ block.ptr + block.size <= PageStart(block.ptr) + UserPtrSize(block.ptr, block.size)
    BY <1>5, PageStartGreatest, UserPtrCovers
  <1>7. PageStart(block.ptr) \in Addresses(PageStart(block.ptr), UserPtrSize(block.ptr, block.size))
    <2> HIDE DEF PageStart, UserPtrSize
    <2> QED
      BY <1>5, <1>6 DEF Addresses
  <1>8. page * PageSize = PageStart(block.ptr)
    BY <1>1, <1>3, <1>4
  <1> QED
    BY <1>7, <1>8, MappingsAssumption

\* trackedBuffers.emplace: the object is tracked and the application has the memory,
\* or the object goes.
LEMMA EmplaceKeeps ==
  ASSUME MemoryInv, NEW t \in Threads, Emplace(t)
  PROVE  MemoryInv'
  <1>0. PICK l, n, base : l = local[t] /\ n = l.bo /\ base = bo[n].base
    OBVIOUS
  <1>1. /\ pc[t] = "emplace" /\ Goto(t, "idle", NoLocal) /\ UNCHANGED cmdRefs
        /\ IF base \in DOMAIN trackedBuffers
           THEN Destroy(Held(trackedBuffers, cmdRefs, t)) /\ UNCHANGED <<trackedBuffers, owned>>
           ELSE /\ trackedBuffers' = [a \in DOMAIN trackedBuffers \cup {base} |->
                                         IF a = base THEN n ELSE trackedBuffers[a]]
                /\ owned' = owned \cup {[ptr |-> l.ptr, size |-> l.size, bo |-> n]}
                /\ UNCHANGED <<bo, openHandles>>
    BY <1>0 DEF Emplace
  <1>2. NoLocal \in [ptr : Nat, size : Nat, bo : Bos \cup {NoBo}, own : Bos \cup {NoBo}]
    BY DEF NoLocal
  <1>3. /\ pc'[t] = "idle" /\ local'[t] = NoLocal
        /\ \A u \in Threads \ {t} : pc'[u] = pc[u] /\ local'[u] = local[u]
        /\ pc' \in [Threads -> {"idle", "userptr", "emplace", "erase", "release"}]
        /\ local' \in [Threads -> [ptr : Nat, size : Nat, bo : Bos \cup {NoBo}, own : Bos \cup {NoBo}]]
    BY <1>1, <1>2, GotoEffect DEF MemoryInv
  <1>4. /\ l.ptr \in Nat /\ l.size \in Nat /\ n \in Alive /\ n \in Bos /\ ~Tracked(n) /\ Backs(n, l)
    BY <1>0, <1>1 DEF MemoryInv, TypeOK, Shape, Calls, CallOf
  <1>5. CASE base \in DOMAIN trackedBuffers
    <2>1. bo[n].location = "UserPtr"
      BY <1>0, <1>4, <1>5, NoExternalCollision
    <2>2. \A b \in Alive : bo[b].location = "ExternalHost" =>
             Tracked(b) \/ \E u \in Threads \ {t} : pc[u] = "emplace" /\ local[u].bo = b
      BY <1>0, <2>1 DEF MemoryInv, External
    <2>3. PICK refs : refs = cmdRefs
      OBVIOUS
    <2>4. /\ Destroy(Held(trackedBuffers, refs, t)) /\ UNCHANGED <<trackedBuffers, owned>>
          /\ cmdRefs' = refs /\ refs \in SUBSET cmdRefs
      BY <1>1, <1>5, <2>3
    <2> QED
      BY <1>3, <2>2, <2>4, LettingGoKeeps
  <1>6. CASE base \notin DOMAIN trackedBuffers
    <2> DEFINE o == [ptr |-> l.ptr, size |-> l.size, bo |-> n]
    <2>1. /\ trackedBuffers' = [a \in DOMAIN trackedBuffers \cup {base} |->
                                   IF a = base THEN n ELSE trackedBuffers[a]]
          /\ owned' = owned \cup {o} /\ UNCHANGED <<bo, openHandles, cmdRefs>> /\ Alive' = Alive
      BY <1>1, <1>6 DEF Alive
    <2>2. /\ DOMAIN trackedBuffers' = DOMAIN trackedBuffers \cup {base}
          /\ trackedBuffers'[base] = n
          /\ \A a \in DOMAIN trackedBuffers : trackedBuffers'[a] = trackedBuffers[a]
      BY <1>6, <2>1
    <2>3. /\ Tracked(n)' /\ \A b \in Alive : Tracked(b) => Tracked(b)'
          /\ \A b \in Alive \ {n} : Tracked(b) <=> Tracked(b)'
      BY <1>0, <1>4, <1>6, <2>1, <2>2 DEF Tracked
    <2>4. \A b \in Alive : \A m : Backs(b, m) <=> Backs(b, m)'
      BY <2>1 DEF Backs
    <2>5. \A p \in owned : p.bo \in Alive /\ Tracked(p.bo) /\ Backs(p.bo, p)
      BY DEF MemoryInv, TypeOK, Ownership
    <2>6. o.bo = n /\ Backs(n, o) /\ o \in [ptr : Nat, size : Nat, bo : Bos]
      BY <1>4 DEF Backs
    <2> HIDE DEF o
    <2>7. TypeOK' /\ Shape'
      <3>1. \A a \in DOMAIN trackedBuffers' : trackedBuffers'[a] \in Alive'
        BY <1>4, <2>1, <2>2 DEF MemoryInv, TypeOK
      <3>2. \A p \in owned' : p.bo \in Alive'
        BY <1>4, <2>1, <2>5, <2>6
      <3>3. \A u \in Threads : local'[u].bo \in Alive' \cup {NoBo}
        BY <1>3, <2>1 DEF MemoryInv, TypeOK, NoLocal
      <3> QED
        BY <1>3, <2>1, <2>6, <3>1, <3>2, <3>3 DEF MemoryInv, TypeOK, Shape
    <2>8. Pages' /\ NoHandleLeak' /\ (~ShareFds => Handles')
      BY <2>1 DEF MemoryInv, Pages, OnePage, UserPages, NoHandleLeak, Handles
    <2>9. Ownership'
      <3>1. \A a \in DOMAIN trackedBuffers' : bo'[trackedBuffers'[a]].base = a
        BY <1>0, <2>1, <2>2 DEF MemoryInv, Ownership
      <3>2. \A p \in owned' : Tracked(p.bo)' /\ Backs(p.bo, p)'
        BY <1>4, <2>1, <2>3, <2>4, <2>5, <2>6
      <3>3. \A p \in owned : p.bo # n
        BY <1>4, <2>5
      <3>4. \A p, q \in owned' : p.bo = q.bo => p = q
        BY <2>1, <2>6, <3>3 DEF MemoryInv, Ownership
      <3> QED
        BY <3>1, <3>2, <3>4 DEF Ownership
    <2>10. Calls'
      <3>1. (\A u \in Threads : CallOf(pc[u], local[u]))'
        <4> SUFFICES ASSUME NEW u \in Threads, NEW step, NEW k, step = pc'[u], k = local'[u]
                     PROVE  CallOf(step, k)'
          OBVIOUS
        <4>1. CASE u = t
          BY <1>3, <4>1 DEF CallOf
        <4>2. CASE u # t
          <5>1. CallOf(step, k) /\ step = pc[u] /\ k = local[u]
            BY <1>3, <4>2 DEF MemoryInv, Calls
          <5>2. step \in {"emplace", "erase"} => k.bo # n
            BY <1>0, <1>1, <4>2, <5>1 DEF MemoryInv, Calls
          <5> QED
            BY <2>1, <2>3, <2>4, <2>6, <5>1, <5>2 DEF CallOf
        <4> QED
          BY <4>1, <4>2
      <3> QED
        BY <1>3, <3>1 DEF MemoryInv, Calls
    <2>11. External'
      BY <1>0, <1>3, <2>1, <2>3 DEF MemoryInv, External
    <2> QED
      BY <2>7, <2>8, <2>9, <2>10, <2>11 DEF MemoryInv
  <1> QED
    BY <1>5, <1>6

\* freeMemAlloc finds the object the memory is of, and takes it from the application.
LEMMA FreeMemAllocKeeps ==
  ASSUME MemoryInv, NEW t \in Threads, NEW o \in owned, FreeMemAlloc(t, o)
  PROVE  MemoryInv'
  <1> DEFINE b == o.bo
             l == [ptr |-> o.ptr, size |-> o.size, bo |-> b, own |-> b]
             freed == IF bo[b].location = "ExternalHost" THEN "Host" ELSE bo[b].location
  <1>1. /\ o \in [ptr : Nat, size : Nat, bo : Bos] /\ b \in Alive /\ b # NoBo
        /\ Tracked(b) /\ Backs(b, o)
    BY ParametersAssumption DEF MemoryInv, TypeOK, Shape, Ownership
  <1>2. FindBufferObject(o.ptr) = b
    BY <1>1, OwnPointerFound
  <1>3. bo[b].base = o.ptr \/ bo[b].location = "UserPtr"
    BY <1>1 DEF Backs
  <1>4. /\ bo' = [bo EXCEPT ![b].location = IF @ = "ExternalHost" THEN "Host" ELSE @]
        /\ owned' = owned \ {o} /\ Goto(t, "erase", l)
        /\ UNCHANGED <<trackedBuffers, openHandles, cmdRefs>>
        /\ pc[t] = "idle"
    BY <1>1, <1>2, <1>3 DEF FreeMemAlloc
  <1>5. l \in [ptr : Nat, size : Nat, bo : Bos \cup {NoBo}, own : Bos \cup {NoBo}]
    BY <1>1
  <1>6. /\ pc'[t] = "erase" /\ local'[t] = l
        /\ \A u \in Threads \ {t} : pc'[u] = pc[u] /\ local'[u] = local[u]
        /\ pc' \in [Threads -> {"idle", "userptr", "emplace", "erase", "release"}]
        /\ local' \in [Threads -> [ptr : Nat, size : Nat, bo : Bos \cup {NoBo}, own : Bos \cup {NoBo}]]
    BY <1>4, <1>5, GotoEffect DEF MemoryInv
  <1>7. /\ Alive' = Alive
        /\ \A d \in Alive : /\ bo'[d].base = bo[d].base /\ bo'[d].size = bo[d].size
                            /\ bo'[d].handle = bo[d].handle
                            /\ bo'[d].location \in Locations
                            /\ bo'[d].location = "UserPtr" <=> bo[d].location = "UserPtr"
                            /\ bo'[d].location = "ExternalHost" => bo[d].location = "ExternalHost"
        /\ bo'[b].location # "ExternalHost"
        /\ bo' \in [Alive -> [base : Nat, size : Nat, location : Locations, handle : Bos \cup Fds]]
    <2>1. bo \in [Alive -> [base : Nat, size : Nat, location : Locations, handle : Bos \cup Fds]]
      BY DEF MemoryInv, Shape
    <2>2. freed \in Locations /\ (freed = "UserPtr" <=> bo[b].location = "UserPtr")
          /\ freed # "ExternalHost"
      BY <1>1, <2>1 DEF Locations
    <2>3. bo' = [bo EXCEPT ![b] = [bo[b] EXCEPT !.location = freed]]
      BY <1>4
    <2> HIDE DEF freed
    <2>4. [bo[b] EXCEPT !.location = freed] \in
             [base : Nat, size : Nat, location : Locations, handle : Bos \cup Fds]
      BY <1>1, <2>1, <2>2
    <2>5. bo' \in [Alive -> [base : Nat, size : Nat, location : Locations, handle : Bos \cup Fds]]
      BY <2>1, <2>3, <2>4
    <2>6. \A d \in Alive : bo'[d] = IF d = b THEN [bo[b] EXCEPT !.location = freed] ELSE bo[d]
      BY <2>1, <2>3
    <2>7. DOMAIN bo' = Alive
      BY <2>5
    <2> QED
      BY <1>1, <2>1, <2>2, <2>5, <2>6, <2>7 DEF Alive
  <1>8. \A d \in Alive : (Tracked(d) <=> Tracked(d)') /\ \A m : Backs(d, m) <=> Backs(d, m)'
    BY <1>4, <1>7 DEF Tracked, Backs
  <1>9. \A p \in owned' : p \in owned /\ p.bo \in Alive /\ p.bo # b
    BY <1>1, <1>4 DEF MemoryInv, TypeOK, Ownership
  <1>10. TypeOK' /\ Shape'
    <2>1. \A u \in Threads : local'[u].bo \in Alive' \cup {NoBo}
      BY <1>1, <1>6, <1>7 DEF MemoryInv, TypeOK
    <2>2. TypeOK'
      BY <1>4, <1>7, <1>9, <2>1 DEF MemoryInv, TypeOK
    <2> QED
      BY <1>4, <1>6, <1>7, <1>9, <2>2 DEF MemoryInv, Shape
  <1>11. Pages'
    <2>1. \A d \in Alive : IF bo'[d].location = "UserPtr" THEN UserPages(d)' ELSE OnePage(d)'
      BY <1>7 DEF MemoryInv, Pages, UserPages, OnePage
    <2>2. \A d, e \in Alive : /\ bo'[d].location # "UserPtr" /\ bo'[e].location # "UserPtr"
                              /\ bo'[d].base = bo'[e].base
                              => d = e
      BY <1>7 DEF MemoryInv, Pages
    <2> QED
      BY <1>7, <2>1, <2>2 DEF Pages
  <1>12. NoHandleLeak' /\ (~ShareFds => Handles')
    BY <1>4, <1>7 DEF MemoryInv, NoHandleLeak, Handles
  <1>13. Ownership'
    <2>1. \A p \in owned' : Tracked(p.bo)' /\ Backs(p.bo, p)'
      BY <1>8, <1>9 DEF MemoryInv, Ownership
    <2>2. \A a \in DOMAIN trackedBuffers : bo'[trackedBuffers[a]].base = a
      BY <1>7 DEF MemoryInv, Ownership, TypeOK
    <2> QED
      BY <1>4, <1>9, <2>1, <2>2 DEF MemoryInv, Ownership
  <1>14. Calls'
    <2>1. \A u \in Threads : pc[u] \in {"emplace", "erase"} => local[u].bo # b
      BY <1>1 DEF MemoryInv, Calls, CallOf
    <2>2. (\A u \in Threads : CallOf(pc[u], local[u]))'
      <3> SUFFICES ASSUME NEW u \in Threads, NEW step, NEW k, step = pc'[u], k = local'[u]
                   PROVE  CallOf(step, k)'
        OBVIOUS
      <3>1. CASE u = t
        BY <1>1, <1>6, <1>7, <1>8, <1>9, <3>1 DEF CallOf
      <3>2. CASE u # t
        <4>1. CallOf(step, k)
          BY <1>6, <3>2 DEF MemoryInv, Calls
        <4> QED
          BY <1>7, <1>8, <1>9, <4>1 DEF CallOf
      <3> QED
        BY <3>1, <3>2
    <2> QED
      BY <1>6, <2>1, <2>2 DEF MemoryInv, Calls
  <1>15. External'
    BY <1>4, <1>6, <1>7, <1>8 DEF MemoryInv, External
  <1> QED
    BY <1>10, <1>11, <1>12, <1>13, <1>14, <1>15 DEF MemoryInv

\* trackedBuffers.erase takes out that object's entry and no other.
LEMMA EraseKeeps ==
  ASSUME MemoryInv, NEW t \in Threads, Erase(t)
  PROVE  MemoryInv'
  <1>0. PICK l, b, base : l = local[t] /\ b = l.bo /\ base = bo[b].base
    OBVIOUS
  <1>1. /\ pc[t] = "erase" /\ Goto(t, "release", l)
        /\ trackedBuffers' = [a \in DOMAIN trackedBuffers \ {base} |-> trackedBuffers[a]]
        /\ UNCHANGED <<bo, openHandles, cmdRefs, owned>> /\ Alive' = Alive
    BY <1>0 DEF Erase, Alive
  <1>2. /\ l \in [ptr : Nat, size : Nat, bo : Bos \cup {NoBo}, own : Bos \cup {NoBo}]
        /\ Tracked(b) /\ b \in Alive /\ bo[b].location # "ExternalHost"
        /\ \A o \in owned : o.bo # b
    BY <1>0, <1>1 DEF MemoryInv, Shape, Calls, CallOf
  <1>3. /\ pc'[t] = "release" /\ local'[t] = l
        /\ \A u \in Threads \ {t} : pc'[u] = pc[u] /\ local'[u] = local[u]
        /\ pc' \in [Threads -> {"idle", "userptr", "emplace", "erase", "release"}]
        /\ local' \in [Threads -> [ptr : Nat, size : Nat, bo : Bos \cup {NoBo}, own : Bos \cup {NoBo}]]
    BY <1>1, <1>2, GotoEffect DEF MemoryInv
  <1>4. /\ DOMAIN trackedBuffers' = DOMAIN trackedBuffers \ {base}
        /\ \A a \in DOMAIN trackedBuffers' : trackedBuffers'[a] = trackedBuffers[a]
    BY <1>1
  <1>5. /\ \A d \in Alive \ {b} : Tracked(d) <=> Tracked(d)'
        /\ \A d \in Alive : Tracked(d)' => Tracked(d)
        /\ \A d \in Alive : \A m : Backs(d, m) <=> Backs(d, m)'
    BY <1>0, <1>1, <1>2, <1>4 DEF Tracked, Backs
  <1>6. TypeOK' /\ Shape'
    BY <1>0, <1>1, <1>3, <1>4 DEF MemoryInv, TypeOK, Shape
  <1>7. Pages' /\ NoHandleLeak' /\ (~ShareFds => Handles')
    BY <1>1 DEF MemoryInv, Pages, OnePage, UserPages, NoHandleLeak, Handles
  <1>8. Ownership'
    <2>1. \A o \in owned : o.bo \in Alive
      BY DEF MemoryInv, TypeOK
    <2>2. \A o \in owned : Tracked(o.bo)' /\ Backs(o.bo, o)'
      BY <1>2, <1>5, <2>1 DEF MemoryInv, Ownership
    <2>3. \A a \in DOMAIN trackedBuffers' : bo'[trackedBuffers'[a]].base = a
      BY <1>1, <1>4 DEF MemoryInv, Ownership
    <2> QED
      BY <1>1, <2>2, <2>3 DEF MemoryInv, Ownership
  <1>9. Calls'
    <2>1. (\A u \in Threads : CallOf(pc[u], local[u]))'
      <3> SUFFICES ASSUME NEW u \in Threads, NEW step, NEW k, step = pc'[u], k = local'[u]
                   PROVE  CallOf(step, k)'
        OBVIOUS
      <3>1. CASE u = t
        BY <1>0, <1>1, <1>2, <1>3, <3>1 DEF CallOf
      <3>2. CASE u # t
        <4>1. CallOf(step, k) /\ step = pc[u] /\ k = local[u]
          BY <1>3, <3>2 DEF MemoryInv, Calls
        <4>2. step = "erase" => k.bo # b
          BY <1>0, <1>1, <3>2, <4>1 DEF MemoryInv, Calls
        <4> QED
          BY <1>1, <1>5, <4>1, <4>2 DEF CallOf
      <3> QED
        BY <3>1, <3>2
    <2> QED
      BY <1>3, <2>1 DEF MemoryInv, Calls
  <1>10. External'
    BY <1>0, <1>1, <1>2, <1>3, <1>5 DEF MemoryInv, External
  <1> QED
    BY <1>6, <1>7, <1>8, <1>9, <1>10 DEF MemoryInv

\* A command refers to what the lookup returned.
LEMMA AppendCommandKeeps ==
  ASSUME MemoryInv, NEW o \in owned, NEW ptr \in Addresses(o.ptr, o.size), AppendCommand(o, ptr)
  PROVE  MemoryInv'
  <1>1. ptr \in Nat
    BY DEF MemoryInv, Shape, Addresses
  <1>2. PICK b : b = FindBufferObject(ptr)
    OBVIOUS
  <1>3. /\ b \in Alive /\ cmdRefs' = cmdRefs \cup {b}
        /\ UNCHANGED <<bo, trackedBuffers, openHandles, owned, pc, local>>
    BY <1>1, <1>2, FoundIsTracked DEF AppendCommand, Tracked
  <1>4. TypeOK' /\ Shape'
    BY <1>3 DEF MemoryInv, TypeOK, Shape, Alive
  <1>5. Pages' /\ Ownership' /\ NoHandleLeak' /\ (~ShareFds => Handles')
    BY <1>3 DEF MemoryInv, Pages, OnePage, UserPages, Ownership, Tracked, Backs, NoHandleLeak, Handles,
                Alive
  <1>6. Calls' /\ External'
    BY <1>3 DEF MemoryInv, Calls, CallOf, External, Tracked, Backs, Alive
  <1> QED
    BY <1>4, <1>5, <1>6 DEF MemoryInv

-----------------------------------------------------------------------------
\* Every step preserves the invariant.
LEMMA NextMemory == MemoryInv /\ [Next]_vars => MemoryInv'
  <1> SUFFICES ASSUME MemoryInv, [Next]_vars PROVE MemoryInv'
    OBVIOUS
  <1>1. CASE UNCHANGED vars
    <2>1. UNCHANGED <<bo, trackedBuffers, openHandles, cmdRefs, owned, pc, local>>
      BY <1>1 DEF vars
    <2>2. TypeOK' /\ Shape' /\ Pages' /\ Ownership'
      BY <2>1 DEF MemoryInv, TypeOK, Shape, Pages, OnePage, UserPages, Ownership, Tracked, Backs, Alive
    <2>3. Calls' /\ External' /\ NoHandleLeak' /\ (~ShareFds => Handles')
      BY <2>1 DEF MemoryInv, Calls, CallOf, External, Tracked, Backs, NoHandleLeak, Handles, Alive
    <2> QED
      BY <2>2, <2>3 DEF MemoryInv
  <1>2. ASSUME NEW t \in Threads,
               CreateMemAlloc(t) \/ (\E fd \in Fds : ImportFromFd(t, fd)) \/ CreateFromUserPtr(t)
        PROVE  MemoryInv'
    BY <1>2, CreationsKeep
  <1>3. ASSUME NEW t \in Threads, NEW block \in UserBlocks, ImportUserPtr(t, block) PROVE MemoryInv'
    BY <1>3, ImportUserPtrKeeps
  <1>4. ASSUME NEW t \in Threads, Emplace(t) PROVE MemoryInv'
    BY <1>4, EmplaceKeeps
  <1>5. ASSUME NEW t \in Threads, NEW o \in owned, FreeMemAlloc(t, o) PROVE MemoryInv'
    BY <1>5, FreeMemAllocKeeps
  <1>6. ASSUME NEW t \in Threads, Erase(t) PROVE MemoryInv'
    BY <1>6, EraseKeeps
  <1>7. CASE (\E t \in Threads : Release(t)) \/ (\E b \in Bos : DestroyCommand(b))
    BY <1>7, ReleasesKeep
  <1>8. CASE CreateUntracked
    BY <1>8, CreateUntrackedKeeps
  <1>9. ASSUME NEW o \in owned, NEW ptr \in Addresses(o.ptr, o.size), AppendCommand(o, ptr)
        PROVE  MemoryInv'
    BY <1>9, AppendCommandKeeps
  <1> QED
    BY <1>1, <1>2, <1>3, <1>4, <1>5, <1>6, <1>7, <1>8, <1>9 DEF Next

LEMMA MemoryInvariant == Spec => []MemoryInv
  BY InitMemory, NextMemory, PTL DEF Spec

\* The map, the commands and the calls in progress refer to objects that are alive:
\* no destructor of VPUBufferObject runs while something still points to it.
THEOREM MemoryTypeCorrect == Spec => []TypeOK
  <1>1. MemoryInv => TypeOK
    BY DEF MemoryInv
  <1> QED
    BY <1>1, MemoryInvariant, PTL

\* freeMemAlloc succeeds for memory the application has, and takes that memory's own
\* entry out of the map, although it lets go of the lock between the lookup and the
\* erase, and however pages are shared by blocks of user memory.
THEOREM FreeTakesOwn == Spec => []FreeTakesItsOwn
  <1>1. MemoryInv => FreeTakesItsOwn
    <2> SUFFICES ASSUME MemoryInv, NEW t \in Threads
                 PROVE  /\ pc[t] # "failed"
                        /\ pc[t] = "erase" =>
                              /\ local[t].bo = local[t].own
                              /\ bo[local[t].own].base \in DOMAIN trackedBuffers
                              /\ trackedBuffers[bo[local[t].own].base] = local[t].own
      BY DEF FreeTakesItsOwn
    <2>1. pc[t] # "failed"
      BY DEF MemoryInv, Shape
    <2>2. CallOf(pc[t], local[t])
      BY DEF MemoryInv, Calls
    <2> QED
      BY <2>1, <2>2 DEF CallOf, Tracked
  <1> QED
    BY <1>1, MemoryInvariant, PTL

\* Every GEM handle that is open is the handle of an object that is alive: each
\* external object is freed, and with it allowDeleteExternalHandle, before it goes.
THEOREM NoHandleLeaks == Spec => []NoHandleLeak
  <1>1. MemoryInv => NoHandleLeak
    BY DEF MemoryInv
  <1> QED
    BY <1>1, MemoryInvariant, PTL

\* If no dma-buf is imported again while it is in use, no destructor closes the handle
\* of another object.
THEOREM HandlesOpen ==
  ASSUME ~ShareFds
  PROVE  Spec => []HandlesStayOpen
  <1>1. MemoryInv => HandlesStayOpen
    BY DEF MemoryInv, Handles, HandlesStayOpen
  <1> QED
    BY <1>1, MemoryInvariant, PTL

\* No block of user memory lies inside one that begins before it; blocks of an
\* allocator do not even overlap.
NotNested ==
    \A x, y \in UserBlocks : x.ptr < y.ptr => x.ptr + x.size <= y.ptr + y.size

\* Where the lookup ends up when the address is not in the first page of its buffer: in
\* another buffer that begins in between, and ends no earlier.
LEMMA OwnedFound ==
  ASSUME MemoryInv, NotNested, NEW o \in owned, NEW ptr \in Addresses(o.ptr, o.size)
  PROVE  FindBufferObject(ptr) # NoBo
  <1> DEFINE b     == o.bo
             base  == bo[b].base
             below == {x \in DOMAIN trackedBuffers : x <= ptr}
             a     == Max(below)
             d     == trackedBuffers[a]
  <1>1. /\ o.ptr \in Nat /\ o.size \in Nat /\ ptr \in Nat /\ o.ptr <= ptr /\ ptr < o.ptr + o.size
        /\ b \in Alive /\ b # NoBo /\ Tracked(b) /\ Backs(b, o)
        /\ base \in Nat /\ bo[b].size \in Nat
    BY ParametersAssumption DEF MemoryInv, TypeOK, Shape, Ownership, Addresses
  <1>2. CASE bo[b].location # "UserPtr"
    <2>1. o.ptr = base /\ o.size = PageSize /\ bo[b].size = PageSize
      BY <1>1, <1>2 DEF Backs
    <2>2. ptr < base + PageSize /\ ptr \in Addresses(base, bo[b].size)
      BY <1>1, <2>1, ParametersAssumption DEF Addresses
    <2> QED
      BY <1>1, <2>1, <2>2, FirstPageFound
  <1>3. CASE bo[b].location = "UserPtr"
    <2>1. /\ [ptr |-> o.ptr, size |-> o.size] \in UserBlocks
          /\ base = PageStart(o.ptr) /\ bo[b].size = UserPtrSize(o.ptr, o.size)
      BY <1>1, <1>3 DEF Backs
    <2>2. base <= o.ptr /\ o.ptr + o.size <= base + bo[b].size
      BY <1>1, <2>1, PageStartGreatest, UserPtrCovers
    <2>3. base \in below /\ below \in SUBSET (0 .. ptr) /\ trackedBuffers[base] = b
      BY <1>1, <2>2, TrackedBases DEF Tracked
    <2>4. a \in below /\ base <= a
      <3> HIDE DEF below, base
      <3> QED
        BY <1>1, <2>3, GreatestBelow
    <2>5. a \in Nat /\ a <= ptr /\ d \in Alive /\ d # NoBo /\ bo[d].base = a /\ bo[d].size \in Nat
      BY <2>4, TrackedBases, ParametersAssumption DEF Tracked, MemoryInv, TypeOK, Shape
    <2> HIDE DEF a, d
    <2>6. ptr < a + bo[d].size
      <3>1. CASE a = base
        BY <1>1, <2>2, <2>3, <3>1 DEF d
      <3>2. CASE a # base /\ bo[d].location # "UserPtr"
        <4>1. PICK page \in MmapPages : a = page * PageSize
          BY <2>5, <3>2 DEF MemoryInv, Pages, OnePage
        <4>2. a \in Addresses(base, bo[b].size)
          BY <1>1, <2>2, <2>4, <2>5 DEF Addresses
        <4> QED
          BY <2>1, <4>1, <4>2, MappingsAssumption
      <3>3. CASE a # base /\ bo[d].location = "UserPtr"
        <4>1. PICK block \in UserBlocks : /\ a = PageStart(block.ptr)
                                         /\ bo[d].size = UserPtrSize(block.ptr, block.size)
          BY <2>5, <3>3 DEF MemoryInv, Pages, UserPages
        <4>2. block.ptr \in Nat /\ block.size \in Nat
          BY ParametersAssumption
        <4>3. /\ a <= block.ptr /\ IsPage(a)
              /\ block.ptr + block.size <= a + bo[d].size
          BY <4>1, <4>2, PageStartGreatest, UserPtrCovers
        <4>4. base < a
          BY <1>1, <2>4, <2>5, <3>3
        <4>5. o.ptr < block.ptr
          <5> SUFFICES ASSUME block.ptr <= o.ptr PROVE FALSE
            BY <1>1, <4>2
          <5>1. a <= o.ptr
            BY <1>1, <2>5, <4>2, <4>3
          <5>2. a <= base
            BY <1>1, <2>1, <2>5, <4>3, <5>1, PageStartGreatest
          <5> QED
            BY <1>1, <2>5, <4>4, <5>2
        <4>6. o.ptr + o.size <= block.ptr + block.size
          BY <2>1, <4>5 DEF NotNested
        <4> QED
          BY <1>1, <2>5, <4>2, <4>3, <4>6
      <3> QED
        BY <3>1, <3>2, <3>3
    <2>7. ptr \in Addresses(bo[d].base, bo[d].size)
      BY <1>1, <2>5, <2>6 DEF Addresses
    <2> QED
      BY <2>3, <2>5, <2>7 DEF FindBufferObject, a, d
  <1> QED
    BY <1>2, <1>3

\* Unless the application imports memory inside memory it has imported, every address
\* of what it has is found by findBufferObject, in a buffer that covers the address.
THEOREM OwnedMemoryIsFound ==
  ASSUME NotNested
  PROVE  Spec => []OwnedMemoryFound
  <1>1. MemoryInv => OwnedMemoryFound
    <2> SUFFICES ASSUME MemoryInv, NEW o \in owned, NEW ptr \in Addresses(o.ptr, o.size)
                 PROVE  LET b == FindBufferObject(ptr)
                        IN  b # NoBo /\ ptr \in Addresses(bo[b].base, bo[b].size)
      BY DEF OwnedMemoryFound
    <2>1. ptr \in Nat
      BY DEF MemoryInv, Shape, Addresses
    <2> QED
      BY <2>1, OwnedFound, FoundIsTracked
  <1> QED
    BY <1>1, MemoryInvariant, PTL
=============================================================================

--------------------------- MODULE ContextMemory ----------------------------
(***************************************************************************)
(* The memory of a context: the map trackedBuffers from base addresses to  *)
(* buffer objects, its lookup by any address inside a buffer, and the life *)
(* of a buffer object from its ioctl to its destructor.  Threads allocate, *)
(* import dma-bufs and user memory, free, and append commands that keep    *)
(* buffer objects alive after the application has freed them.              *)
(*                                                                         *)
(* Each step is one critical section of mtx or one piece of code between   *)
(* two of them.  Addresses are small numbers; pages are PageSize addresses *)
(* long, so that two blocks of user memory may share a page.               *)
(***************************************************************************)
EXTENDS Integers, FiniteSets, FiniteSetsExt

CONSTANTS
    Threads,
    PageSize,
    MmapPages,   \* pages the kernel may map buffers at
    UserBlocks,  \* blocks of user memory the application may import: [ptr, size]
    Fds,         \* dma-bufs of other drivers, one page each
    Bos,         \* buffer objects
    NoBo,
    ShareFds     \* is a dma-buf imported again while it is in use?

ASSUME ParametersAssumption ==
    /\ PageSize \in Nat \ {0}
    /\ MmapPages \subseteq Nat
    /\ UserBlocks \subseteq [ptr : Nat, size : Nat \ {0}]
    /\ Fds \cap Bos = {} /\ NoBo \notin Bos \cup Threads
    /\ ShareFds \in BOOLEAN

Addresses(base, size) == base .. base + size - 1

\* getPageAlignedSize, and the start of the page an address is in.
PageAligned(x) == ((x + PageSize - 1) \div PageSize) * PageSize
PageStart(x)   == (x \div PageSize) * PageSize

\* Size of the pages a block of user memory touches.
UserPtrSize(ptr, size) ==
    IF PageStart(ptr) # ptr /\ PageAligned(size) < size + (ptr - PageStart(ptr))
    THEN PageAligned(size) + PageSize ELSE PageAligned(size)

\* The kernel maps no buffer over user memory that is imported.
ASSUME MappingsAssumption ==
    \A page \in MmapPages, block \in UserBlocks :
        page * PageSize \notin Addresses(PageStart(block.ptr), UserPtrSize(block.ptr, block.size))

VARIABLES
    bo,             \* the VPUBufferObjects that are not destroyed
    trackedBuffers, \* base address -> buffer object
    openHandles,    \* GEM handles of the context's file
    cmdRefs,        \* buffer objects commands, graphs and the driver itself hold
    owned,          \* what the application got and has not freed: [ptr, size, bo]
    pc, local       \* where each thread is, and the buffer object it holds there

vars == <<bo, trackedBuffers, openHandles, cmdRefs, owned, pc, local>>

Alive     == DOMAIN bo
NoLocal   == [ptr |-> 0, size |-> 0, bo |-> NoBo, own |-> NoBo]
MayCreate == Alive # Bos
NewBo     == CHOOSE b \in Bos : b \notin Alive

\* Addresses under a mapping of the driver, which ends in the destructor.
Mapped   == UNION {Addresses(bo[b].base, bo[b].size) :
                      b \in {c \in Alive : bo[c].location # "UserPtr"}}
FreePage == {page \in MmapPages : page * PageSize \notin Mapped}

\* lower_bound of a map in descending order: the largest base not above ptr; then
\* isInRange.
FindBufferObject(ptr) ==
    LET below == {base \in DOMAIN trackedBuffers : base <= ptr}
        b     == trackedBuffers[Max(below)]
    IN  IF below # {} /\ ptr \in Addresses(bo[b].base, bo[b].size) THEN b ELSE NoBo

\* Mutant: a call in progress holds no reference.
HeldWithoutCalls(tracked, refs, t) == {tracked[base] : base \in DOMAIN tracked} \cup refs

\* The buffer object a shared_ptr still points to, once t lets go of its own and the
\* map and the commands are as given.
Held(tracked, refs, t) ==
    {tracked[base] : base \in DOMAIN tracked} \cup refs \cup {local[u].bo : u \in Threads \ {t}}

\* ~VPUBufferObject of those nobody holds: unmapped, and the handle closed unless the
\* object is still external.
Destroy(held) ==
    LET dead == Alive \ held
    IN  /\ bo' = [b \in Alive \cap held |-> bo[b]]
        /\ openHandles' = openHandles \ {bo[b].handle : b \in {d \in dead : bo[d].location # "ExternalHost"}}

Goto(t, step, l) == pc' = [pc EXCEPT ![t] = step] /\ local' = [local EXCEPT ![t] = l]

Init ==
    /\ bo = [b \in {} |-> NoBo]
    /\ trackedBuffers = [a \in {} |-> NoBo]
    /\ openHandles = {} /\ cmdRefs = {} /\ owned = {}
    /\ pc = [t \in Threads |-> "idle"]
    /\ local = [t \in Threads |-> NoLocal]

-----------------------------------------------------------------------------
\* A new buffer object.
NewBufferObject(location, handle, base, size) ==
    /\ MayCreate
    /\ bo' = [b \in Alive \cup {NewBo} |->
                 IF b = NewBo THEN [base |-> base, size |-> size, location |-> location,
                                    handle |-> handle]
                 ELSE bo[b]]
    /\ openHandles' = openHandles \cup {handle}

\* A new buffer object of t, next to be put into the map.
Created(t, location, handle, base, size, ptr, len) ==
    /\ NewBufferObject(location, handle, base, size)
    /\ Goto(t, "emplace", [ptr |-> ptr, size |-> len, bo |-> NewBo, own |-> NewBo])
    /\ UNCHANGED <<trackedBuffers, cmdRefs, owned>>

\* createMemAlloc: a new handle and a new mapping.
CreateMemAlloc(t) ==
    /\ pc[t] = "idle"
    /\ \E page \in FreePage, loc \in {"Host", "ExternalHost"} :
          Created(t, loc, NewBo, page * PageSize, PageSize, page * PageSize, PageSize)

\* importFromFd: the kernel returns the handle it has for the dma-buf, if it has one.
ImportFromFd(t, fd) ==
    /\ pc[t] = "idle"
    /\ ~ShareFds => fd \notin openHandles
    /\ \E page \in FreePage :
          Created(t, "ExternalHost", fd, page * PageSize, PageSize, page * PageSize, PageSize)

\* importUserPtr: the pointer must not be in a buffer already.
ImportUserPtr(t, block) ==
    /\ pc[t] = "idle"
    /\ FindBufferObject(block.ptr) = NoBo
    /\ Goto(t, "userptr", [NoLocal EXCEPT !.ptr = block.ptr, !.size = block.size])
    /\ UNCHANGED <<bo, trackedBuffers, openHandles, cmdRefs, owned>>

\* Mutant: the size is aligned, the start of the block in its page forgotten.
CreateFromUserPtrShort(t) ==
    /\ pc[t] = "userptr"
    /\ LET l == local[t]
       IN  Created(t, "UserPtr", NewBo, PageStart(l.ptr), PageAligned(l.size), l.ptr, l.size)

\* createBufferObjectFromUserPtr: the pages the block touches.
CreateFromUserPtr(t) ==
    /\ pc[t] = "userptr"
    /\ LET l == local[t]
       IN  Created(t, "UserPtr", NewBo, PageStart(l.ptr), UserPtrSize(l.ptr, l.size), l.ptr, l.size)

\* createUntrackedBufferObject and createUntrackedBufferObjectFromUserPtr: a graph,
\* a command buffer or an event pool holds the object, no lookup finds it.
CreateUntracked ==
    /\ \/ \E page \in FreePage : NewBufferObject("Internal", NewBo, page * PageSize, PageSize)
       \/ \E block \in UserBlocks :
             /\ FindBufferObject(block.ptr) = NoBo
             /\ NewBufferObject("UserPtr", NewBo, PageStart(block.ptr), UserPtrSize(block.ptr, block.size))
    /\ cmdRefs' = cmdRefs \cup {NewBo}
    /\ UNCHANGED <<trackedBuffers, owned, pc, local>>

\* trackedBuffers.emplace, which leaves an entry that is there alone; the object that
\* got no entry is destroyed.
Emplace(t) ==
    /\ pc[t] = "emplace"
    /\ LET l    == local[t]
           base == bo[l.bo].base
       IN  IF base \in DOMAIN trackedBuffers
           THEN /\ Destroy(Held(trackedBuffers, cmdRefs, t))
                /\ UNCHANGED <<trackedBuffers, owned>>
           ELSE /\ trackedBuffers' = [a \in DOMAIN trackedBuffers \cup {base} |->
                                         IF a = base THEN l.bo ELSE trackedBuffers[a]]
                /\ owned' = owned \cup {[ptr |-> l.ptr, size |-> l.size, bo |-> l.bo]}
                /\ UNCHANGED <<bo, openHandles>>
    /\ Goto(t, "idle", NoLocal)
    /\ UNCHANGED cmdRefs

\* Mutants: only base pointers are freed; external memory is never closed; the
\* handle is closed at once.
FreeMemAllocBaseOnly(t, o) ==
    /\ pc[t] = "idle" /\ o \in owned
    /\ owned' = owned \ {o}
    /\ LET b == FindBufferObject(o.ptr)
       IN  IF b # NoBo /\ bo[b].base = o.ptr
           THEN /\ bo' = [bo EXCEPT ![b].location = IF @ = "ExternalHost" THEN "Host" ELSE @]
                /\ Goto(t, "erase", [ptr |-> o.ptr, size |-> o.size, bo |-> b, own |-> o.bo])
           ELSE /\ UNCHANGED bo
                /\ Goto(t, "failed", [ptr |-> o.ptr, size |-> o.size, bo |-> NoBo, own |-> o.bo])
    /\ UNCHANGED <<trackedBuffers, openHandles, cmdRefs>>

FreeMemAllocExternal(t, o) ==
    /\ pc[t] = "idle" /\ o \in owned
    /\ owned' = owned \ {o}
    /\ LET b == FindBufferObject(o.ptr)
       IN  IF b # NoBo /\ (bo[b].base = o.ptr \/ bo[b].location = "UserPtr")
           THEN /\ UNCHANGED bo
                /\ Goto(t, "erase", [ptr |-> o.ptr, size |-> o.size, bo |-> b, own |-> o.bo])
           ELSE /\ UNCHANGED bo
                /\ Goto(t, "failed", [ptr |-> o.ptr, size |-> o.size, bo |-> NoBo, own |-> o.bo])
    /\ UNCHANGED <<trackedBuffers, openHandles, cmdRefs>>

FreeMemAllocCloses(t, o) ==
    /\ pc[t] = "idle" /\ o \in owned
    /\ owned' = owned \ {o}
    /\ LET b == FindBufferObject(o.ptr)
       IN  IF b # NoBo /\ (bo[b].base = o.ptr \/ bo[b].location = "UserPtr")
           THEN /\ bo' = [bo EXCEPT ![b].location = IF @ = "ExternalHost" THEN "Host" ELSE @]
                /\ openHandles' = openHandles \ {bo[b].handle}
                /\ Goto(t, "erase", [ptr |-> o.ptr, size |-> o.size, bo |-> b, own |-> o.bo])
           ELSE /\ UNCHANGED <<bo, openHandles>>
                /\ Goto(t, "failed", [ptr |-> o.ptr, size |-> o.size, bo |-> NoBo, own |-> o.bo])
    /\ UNCHANGED <<trackedBuffers, cmdRefs>>

\* freeMemAlloc(ptr), up to its second critical section.  The application frees what
\* it got, once.  allowDeleteExternalHandle makes the destructor close the handle.
FreeMemAlloc(t, o) ==
    /\ pc[t] = "idle" /\ o \in owned
    /\ owned' = owned \ {o}
    /\ LET b == FindBufferObject(o.ptr)
       IN  IF b # NoBo /\ (bo[b].base = o.ptr \/ bo[b].location = "UserPtr")
           THEN /\ bo' = [bo EXCEPT ![b].location = IF @ = "ExternalHost" THEN "Host" ELSE @]
                /\ Goto(t, "erase", [ptr |-> o.ptr, size |-> o.size, bo |-> b, own |-> o.bo])
           ELSE /\ UNCHANGED bo
                /\ Goto(t, "failed", [ptr |-> o.ptr, size |-> o.size, bo |-> NoBo, own |-> o.bo])
    /\ UNCHANGED <<trackedBuffers, openHandles, cmdRefs>>

\* trackedBuffers.erase, under the lock.
Erase(t) ==
    /\ pc[t] = "erase"
    /\ trackedBuffers' = [a \in DOMAIN trackedBuffers \ {bo[local[t].bo].base} |-> trackedBuffers[a]]
    /\ Goto(t, "release", local[t])
    /\ UNCHANGED <<bo, openHandles, cmdRefs, owned>>

\* The last reference of the call goes after the unlock.
Release(t) ==
    /\ pc[t] = "release"
    /\ Destroy(Held(trackedBuffers, cmdRefs, t))
    /\ Goto(t, "idle", NoLocal)
    /\ UNCHANGED <<trackedBuffers, cmdRefs, owned>>

\* A command is appended that names an address of the application's memory.
AppendCommand(o, ptr) ==
    /\ o \in owned /\ ptr \in Addresses(o.ptr, o.size)
    /\ FindBufferObject(ptr) # NoBo
    /\ cmdRefs' = cmdRefs \cup {FindBufferObject(ptr)}
    /\ UNCHANGED <<bo, trackedBuffers, openHandles, owned, pc, local>>

\* The last command that holds b is destroyed.
DestroyCommand(b) ==
    /\ b \in cmdRefs
    /\ cmdRefs' = cmdRefs \ {b}
    /\ Destroy(Held(trackedBuffers, cmdRefs \ {b}, NoBo))
    /\ UNCHANGED <<trackedBuffers, owned, pc, local>>

Next ==
    \/ \E t \in Threads :
          \/ CreateMemAlloc(t)
          \/ \E fd \in Fds : ImportFromFd(t, fd)
          \/ \E block \in UserBlocks : ImportUserPtr(t, block)
          \/ CreateFromUserPtr(t)
          \/ Emplace(t)
          \/ \E o \in owned : FreeMemAlloc(t, o)
          \/ Erase(t)
          \/ Release(t)
    \/ CreateUntracked
    \/ \E o \in owned : \E ptr \in Addresses(o.ptr, o.size) : AppendCommand(o, ptr)
    \/ \E b \in Bos : DestroyCommand(b)

Spec == Init /\ [][Next]_vars

-----------------------------------------------------------------------------
\* The shape of the state: the map and everyone's references lead to live objects.
TypeOK ==
    /\ Alive \subseteq Bos /\ cmdRefs \subseteq Alive
    /\ \A a \in DOMAIN trackedBuffers : trackedBuffers[a] \in Alive
    /\ \A o \in owned : o.bo \in Alive
    /\ \A t \in Threads : local[t].bo \in Alive \cup {NoBo}

\* Everything a lookup, a command or a thread can reach still has its GEM handle: no
\* destructor closes a handle another buffer object uses.
HandlesStayOpen == \A b \in Alive : bo[b].handle \in openHandles

\* Every address of memory the application has is found, in a buffer that covers it.
OwnedMemoryFound ==
    \A o \in owned : \A ptr \in Addresses(o.ptr, o.size) :
        LET b == FindBufferObject(ptr)
        IN  b # NoBo /\ ptr \in Addresses(bo[b].base, bo[b].size)

\* A free the application is entitled to succeeds, and takes that buffer's own entry
\* out of the map, whatever other threads do between its two critical sections.
FreeTakesItsOwn ==
    \A t \in Threads :
        /\ pc[t] # "failed"
        /\ pc[t] = "erase" =>
              /\ local[t].bo = local[t].own
              /\ bo[local[t].own].base \in DOMAIN trackedBuffers
              /\ trackedBuffers[bo[local[t].own].base] = local[t].own

\* A handle stays open only while a buffer object uses it.
NoHandleLeak == \A h \in openHandles : \E b \in Alive : bo[b].handle = h
=============================================================================

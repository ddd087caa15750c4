---------------------------- MODULE BufferCaches ----------------------------
(***************************************************************************)
(* The two caches of internal device buffers that a VPUDeviceContext keeps *)
(* (vpu_device_context.cpp): ScratchCacheFactory, whose buffers have a     *)
(* size, and PreemptionCacheFactory, whose buffers are interchangeable and *)
(* counted against the number of command queues.                           *)
(*                                                                         *)
(* A cache is a set of buffers.  Each entry is a std::shared_ptr, and      *)
(* use_count() = 1 means that only the cache holds the buffer: the callers *)
(* pass the set of such buffers as "idle".  Every operator below is the    *)
(* body of one critical section of the cache's mutex.  Where the code's    *)
(* answer depends on the order of its vector, the operator returns the set *)
(* of the answers that some order gives.                                   *)
(***************************************************************************)
EXTENDS Naturals, FiniteSets

(***************************************************************************)
(* ScratchCacheFactory::acquire, the search: an idle buffer of exactly the *)
(* requested size, else the smallest larger one.                           *)
(***************************************************************************)
BestFit(idle, sizeOf, size) ==
    LET fits == {b \in idle : sizeOf[b] >= size}
    IN  {b \in fits : \A c \in fits : sizeOf[b] <= sizeOf[c]}

\* Mutant: prune forgets use_count().
ScratchPruneHeld(cache, idle, sizeOf, size) == {b \in cache : sizeOf[b] > size}

(***************************************************************************)
(* ScratchCacheFactory::prune(size): what stays in the cache.  A size of 0 *)
(* returns before the lock is taken.                                       *)
(***************************************************************************)
ScratchPrune(cache, idle, sizeOf, size) ==
    IF size = 0 THEN cache
    ELSE {b \in cache : ~(b \in idle /\ sizeOf[b] <= size)}

\* Mutants: the counter passes 0; one buffer too few is removed.
QueuesAfterPruneUnguarded(numQueues) == numQueues - 1
NumToRemoveOneLess(count, numQueues) ==
    IF count > numQueues THEN count - numQueues - 1 ELSE count

\* Mutant: prune forgets use_count().
PreemptionPruneHeld(cache, idle, numQueues) == {{}}

(***************************************************************************)
(* PreemptionCacheFactory::prune: the counter it leaves, how many buffers  *)
(* it tries to remove with that counter, and the caches it may leave.      *)
(***************************************************************************)
QueuesAfterPrune(numQueues) == IF numQueues > 0 THEN numQueues - 1 ELSE numQueues

NumToRemove(count, numQueues) ==
    IF count > numQueues THEN count - numQueues ELSE count

PreemptionPrune(cache, idle, numQueues) ==
    LET want == NumToRemove(Cardinality(cache), numQueues)
        n    == IF want <= Cardinality(idle) THEN want ELSE Cardinality(idle)
    IN  {cache \ R : R \in {R \in SUBSET idle : Cardinality(R) = n}}
=============================================================================

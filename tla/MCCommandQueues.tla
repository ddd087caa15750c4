-------------------------- MODULE MCCommandQueues --------------------------
(***************************************************************************)
(* Instances of CommandQueues for TLC.                                     *)
(***************************************************************************)
EXTENDS CommandQueues, TLC

CONSTANTS t1, t2, q1, q2, j1, j2, f1, s1, s2, p1, p2

\* One scratch buffer object of each size: a second allocation of a size fails.
BufSizes == (s1 :> 1) @@ (s2 :> 2)
NoBufs   == [b \in {} |-> 0]

\* Both jobs need scratch memory, of different sizes, or none does.
TwoSizes  == (j1 :> 1) @@ (j2 :> 2)
NoScratch == [j \in Jobs |-> 0]

\* Each thread has its own queue.
OwnQueue == [t \in Threads |-> IF t = t1 THEN {q1} ELSE Queues \ {q1}]

\* Both threads use the first queue, one of them the second one too.
SharedQueue == [t \in Threads |-> IF t = t1 THEN {q1} ELSE {q1, q2}]

\* Every thread uses every queue.
AllQueues == [t \in Threads |-> Queues]

FenceOnFirst == [f \in Fences |-> q1]

\* The preemption buffers are interchangeable.
PreemptSymmetry == Permutations({p1, p2})
=============================================================================

--------------------------- MODULE MCContextMemory --------------------------
(***************************************************************************)
(* Instances of ContextMemory for TLC.                                     *)
(***************************************************************************)
EXTENDS ContextMemory, TLC

\* Pages of two addresses.  The blocks 1-2 and 3-6 meet in the middle of the page 2-3.
Blocks == {[ptr |-> 1, size |-> 2], [ptr |-> 3, size |-> 4]}

\* Threads are interchangeable, and so are buffer objects: NewBo takes one that nothing
\* mentions, so whichever it chooses makes no difference.
MemorySymmetry == Permutations(Threads) \cup Permutations(Bos)

\* A block inside another one.
NestedBlocks == {[ptr |-> 0, size |-> 6], [ptr |-> 2, size |-> 2]}
=============================================================================

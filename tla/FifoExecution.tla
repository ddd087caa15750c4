--------------------------- MODULE FifoExecution ---------------------------
(***************************************************************************)
(* What an in-order command queue promises: the command buffers submitted  *)
(* to it run one after the other in the order of their submission, each    *)
(* starting only when the one before it has completed.                     *)
(***************************************************************************)
EXTENDS Naturals, Sequences

CONSTANT Bufs          \* the command buffers

VARIABLE line          \* the submissions that have not completed, oldest first

Entry == [buf : Bufs, st : {"queued", "running"}]

Init == line = <<>>

Submit(b) == line' = Append(line, [buf |-> b, st |-> "queued"])

Start ==
    /\ line # <<>> /\ Head(line).st = "queued"
    /\ line' = [line EXCEPT ![1].st = "running"]

Finish ==
    /\ line # <<>> /\ Head(line).st = "running"
    /\ line' = Tail(line)

Next == (\E b \in Bufs : Submit(b)) \/ Start \/ Finish

Spec == Init /\ [][Next]_line

\* Whatever is submitted runs.
Progress == WF_line(Start) /\ WF_line(Finish)
=============================================================================

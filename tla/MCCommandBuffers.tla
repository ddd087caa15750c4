-------------------------- MODULE MCCommandBuffers --------------------------
(***************************************************************************)
(* Instances of CommandBuffers for TLC.                                    *)
(***************************************************************************)
EXTENDS CommandBuffers

\* No inference needs scratch memory, or all do.
AnyScratch == {{}, Cmds}

\* The device has preemption buffers, or not.
AnyPreemption == BOOLEAN
=============================================================================

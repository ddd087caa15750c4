--------------------------- MODULE MCInOrderQueue ---------------------------
(***************************************************************************)
(* Instances of InOrderQueue for TLC.                                      *)
(***************************************************************************)
EXTENDS InOrderQueue, TLC

CONSTANTS la, lb, lc, ld, inorder, other, turbo

\* The first list is split in two command buffers.
FirstTwo == [j \in Jobs |-> IF j = la THEN 2 ELSE 1]

\* The split list goes to the turbo queue only, which gets no other, and some lists
\* to the in-order queue only.
Apart == (inorder :> Jobs \ {la}) @@ (other :> {lb}) @@ (turbo :> {la})
=============================================================================

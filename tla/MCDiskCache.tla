----------------------------- MODULE MCDiskCache -----------------------------
(***************************************************************************)
(* Instances of DiskCache for TLC.                                         *)
(***************************************************************************)
EXTENDS DiskCache, TLC

CONSTANTS p1, p2, k1, k2, i1, i2, i3, i4

\* One unit for the blob, one for its checksum: an entry is empty, broken or whole.
Sizes == [k \in Keys |-> 1]

\* Two inodes for each key: one may be open when another is created.
FileModel == [i \in Files |-> IF i \in {i1, i2} THEN k1 ELSE k2]

\* The processes are interchangeable, and so are the inodes of a key.
CacheSymmetry == {f @@ g @@ h : f \in Permutations({i1, i2}), g \in Permutations({i3, i4}),
                                h \in Permutations({p1, p2})}
=============================================================================

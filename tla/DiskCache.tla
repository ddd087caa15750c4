------------------------------ MODULE DiskCache ------------------------------
(***************************************************************************)
(* The cache of compiled models on disk: Graph::getBlobContainerNGraphLite  *)
(* and L0::DiskCache (disk_cache.cpp) over VPU::OsFile (os_interface_imp.cpp), *)
(* used at once by threads of many processes, which may be killed.         *)
(*                                                                         *)
(* Each of Procs creates one graph at a time and keeps the blob while the   *)
(* graph lives.  A file of the cache directory is a directory entry, its   *)
(* key, and an inode, which outlives the entry while someone has it open.  *)
(* Sizes count small units, the checksum being one.  The checksum is taken *)
(* to tell a blob from anything else, and a file is never shorter than it  *)
(* unless it is empty.  In which order eviction tries the files is left    *)
(* open, and so is which of the files with equal access times it sees.     *)
(***************************************************************************)
EXTENDS Integers

CONSTANTS
    Procs,             \* creators of graphs
    Keys,              \* hashes of model, flags and versions, computeKey
    Files,             \* inodes
    Model,             \* the key each inode is used for, as its identity
    NoKey, NoFile,
    BlobSize,          \* size of the compiled blob of each key
    MaxSize,           \* DiskCache::maxSize
    Errors,            \* may the compiler or a write fail
    Crashes            \* may a process be killed

ASSUME CacheAssumption ==
    /\ NoFile \notin Files /\ NoKey \notin Keys
    /\ Model \in [Files -> Keys]
    /\ BlobSize \in [Keys -> Nat \ {0}]
    /\ MaxSize \in Nat
    /\ Errors \in BOOLEAN /\ Crashes \in BOOLEAN

VARIABLES
    dir,               \* the inode each entry of the directory names
    written,           \* the size of each inode
    proc               \* the graph creation each process is in

vars == <<dir, written, proc>>

\* The size of a cache file: the blob and its checksum.
FullSize(k) == BlobSize[k] + 1

\* A creation: where it is, its key, the blob it compiled (own), the open file with
\* the size fstat reported and the lock held on it; the bytes counted, then to remove
\* (need), the entries still to count or to try (left) and the one being tried.
Creation == [pc : {"idle", "lookup", "opened", "sized", "locked", "corrupt", "compile", "size",
                   "scan", "evict", "evopened", "evlocked", "create", "created", "write", "graph"},
             key : Keys \cup {NoKey}, own : BOOLEAN,
             file : Files \cup {NoFile}, size : Nat, lock : {"none", "shared", "exclusive"},
             need : Int, left : SUBSET Keys, victim : Keys \cup {NoKey}]

\* Types of the state; only an idle process has no key.
TypeOK ==
    /\ dir \in [Keys -> Files \cup {NoFile}]
    /\ written \in [Files -> Nat]
    /\ proc \in [Procs -> Creation]
    /\ \A p \in Procs : proc[p].key \in Keys <=> proc[p].pc # "idle"

Idle == [pc |-> "idle", key |-> NoKey, own |-> FALSE, file |-> NoFile, size |-> 0,
         lock |-> "none", need |-> 0, left |-> {}, victim |-> NoKey]

Init ==
    /\ dir = [k \in Keys |-> NoFile]
    /\ written = [i \in Files |-> 0]
    /\ proc = [p \in Procs |-> Idle]

Goes(p, c) == proc' = [proc EXCEPT ![p] = c]

\* Mutant: the key is forgotten with the file.
ClosingForgets(p, pc) == [Idle EXCEPT !.pc = pc, !.own = proc[p].own, !.need = proc[p].need]

\* The file is closed, its lock and its mapping with it; the creation goes on at pc.
Closing(p, pc) == [proc[p] EXCEPT !.pc = pc, !.file = NoFile, !.size = 0, !.lock = "none"]

\* flock with LOCK_NB would succeed.
MayShare(p, i) == \A q \in Procs \ {p} : proc[q].file = i => proc[q].lock # "exclusive"
MayExclude(p, i) == \A q \in Procs \ {p} : proc[q].file = i => proc[q].lock = "none"

-----------------------------------------------------------------------------
(* DiskCache::getBlob.                                                     *)

\* A cache miss: the model is compiled, or, in setBlob, the own blob is used.
AfterMiss(p) == IF proc[p].own THEN "graph" ELSE "compile"

\* Graph::getBlobContainerNGraphLite computes the key and looks it up.
CreateGraph(p, k) ==
    /\ proc[p].pc = "idle"
    /\ Goes(p, [Idle EXCEPT !.pc = "lookup", !.key = k])
    /\ UNCHANGED <<dir, written>>

\* OsFileImp's constructor: open, with O_RDONLY ...
Open(p) ==
    LET i == dir[proc[p].key]
    IN  /\ proc[p].pc = "lookup"
        /\ Goes(p, IF i = NoFile THEN Closing(p, AfterMiss(p))
                   ELSE [proc[p] EXCEPT !.pc = "opened", !.file = i])
        /\ UNCHANGED <<dir, written>>

\* ... and fstat, the only time the size is read.
Fstat(p) ==
    /\ proc[p].pc = "opened"
    /\ Goes(p, [proc[p] EXCEPT !.pc = "sized", !.size = written[proc[p].file]])
    /\ UNCHANGED <<dir, written>>

\* osiOpenWithSharedLock: flock, or a miss.
SharedLock(p) ==
    /\ proc[p].pc = "sized"
    /\ Goes(p, IF MayShare(p, proc[p].file) THEN [proc[p] EXCEPT !.pc = "locked", !.lock = "shared"]
               ELSE Closing(p, AfterMiss(p)))
    /\ UNCHANGED <<dir, written>>

\* Mutant: the file is used without its checksum.
ValidateNothing(p) ==
    /\ proc[p].pc = "locked"
    /\ Goes(p, IF proc[p].size = 0 THEN Closing(p, AfterMiss(p))
               ELSE [proc[p] EXCEPT !.pc = "graph"])
    /\ UNCHANGED <<dir, written>>

\* An empty file is a miss, and stays.  The checksum of the mapped bytes is right
\* when they are all of the blob.
Validate(p) ==
    /\ proc[p].pc = "locked"
    /\ Goes(p, IF proc[p].size = 0 THEN Closing(p, AfterMiss(p))
               ELSE [proc[p] EXCEPT !.pc = IF proc[p].size = FullSize(Model[proc[p].file])
                                           THEN "graph" ELSE "corrupt"])
    /\ UNCHANGED <<dir, written>>

\* It is not: whatever file has the name now is removed.
RemoveCorrupt(p) ==
    /\ proc[p].pc = "corrupt"
    /\ dir' = [dir EXCEPT ![proc[p].key] = NoFile]
    /\ Goes(p, Closing(p, AfterMiss(p)))
    /\ UNCHANGED written

-----------------------------------------------------------------------------
(* DiskCache::setBlob.                                                     *)

\* Compiler::getCompiledBlob; when it fails, so does the creation.
Compile(p) ==
    /\ proc[p].pc = "compile"
    /\ Goes(p, [proc[p] EXCEPT !.pc = "size", !.own = TRUE, !.left = Keys])
    /\ UNCHANGED <<dir, written>>

CompileFails(p) ==
    /\ Errors
    /\ proc[p].pc = "compile"
    /\ Goes(p, Idle)
    /\ UNCHANGED <<dir, written>>

\* getCacheSize, one entry of the directory after the other.
CountFile(p, k) ==
    /\ proc[p].pc = "size"
    /\ k \in proc[p].left
    /\ Goes(p, [proc[p] EXCEPT !.left = @ \ {k},
                               !.need = IF dir[k] = NoFile THEN @ ELSE @ + written[dir[k]]])
    /\ UNCHANGED <<dir, written>>

\* A blob that can never fit is not stored; else there is room, or some must be made.
CheckSize(p) ==
    LET full == FullSize(proc[p].key)
        over == proc[p].need + full - MaxSize
    IN  /\ proc[p].pc = "size"
        /\ proc[p].left = {}
        /\ Goes(p, [proc[p] EXCEPT !.need = IF full <= MaxSize /\ over > 0 THEN over ELSE 0,
                                   !.pc = IF full > MaxSize THEN "graph"
                                          ELSE IF over > 0 THEN "scan" ELSE "create"])
        /\ UNCHANGED <<dir, written>>

\* removeLeastUsedFiles lists the directory while others change it; its map from
\* access times keeps one file of each second.
ScanLeastUsed(p) ==
    /\ proc[p].pc = "scan"
    /\ \E seen \in SUBSET Keys : Goes(p, [proc[p] EXCEPT !.pc = "evict", !.left = seen])
    /\ UNCHANGED <<dir, written>>

\* The file tried is dealt with, and `size` was removed.
Tried(p, size) == [Closing(p, "evict") EXCEPT !.left = @ \ {proc[p].victim}, !.victim = NoKey,
                                              !.need = @ - size]

\* The next file is opened and its size read, if it still exists.
EvictOpen(p, v) ==
    /\ proc[p].pc = "evict" /\ proc[p].need > 0
    /\ v \in proc[p].left
    /\ Goes(p, IF dir[v] = NoFile THEN [proc[p] EXCEPT !.left = @ \ {v}]
               ELSE [proc[p] EXCEPT !.pc = "evopened", !.victim = v, !.file = dir[v],
                                    !.size = written[dir[v]]])
    /\ UNCHANGED <<dir, written>>

\* Mutant: the lock is waited for.
EvictLockBlocking(p) ==
    /\ proc[p].pc = "evopened"
    /\ MayExclude(p, proc[p].file)
    /\ Goes(p, [proc[p] EXCEPT !.pc = "evlocked", !.lock = "exclusive"])
    /\ UNCHANGED <<dir, written>>

\* osiOpenWithExclusiveLock; a file in use is passed over.
EvictLock(p) ==
    /\ proc[p].pc = "evopened"
    /\ Goes(p, IF MayExclude(p, proc[p].file)
               THEN [proc[p] EXCEPT !.pc = "evlocked", !.lock = "exclusive"]
               ELSE Tried(p, 0))
    /\ UNCHANGED <<dir, written>>

\* osiFileRemove, by name; a name that is gone is passed over.
EvictRemove(p) ==
    LET v == proc[p].victim
    IN  /\ proc[p].pc = "evlocked"
        /\ dir' = [dir EXCEPT ![v] = NoFile]
        /\ Goes(p, Tried(p, IF dir[v] = NoFile THEN 0 ELSE proc[p].size))
        /\ UNCHANGED written

\* Enough is removed, or nothing more can be: the blob is stored in any case.
EvictDone(p) ==
    /\ proc[p].pc = "evict"
    /\ proc[p].need <= 0 \/ proc[p].left = {}
    /\ Goes(p, [proc[p] EXCEPT !.pc = "create", !.left = {}, !.need = 0])
    /\ UNCHANGED <<dir, written>>

\* An inode nobody refers to.
Free(i) == (\A k \in Keys : dir[k] # i) /\ (\A p \in Procs : proc[p].file # i)

\* open with O_CREAT | O_EXCL: an existing file of that name is left alone.
CreateExists(p) ==
    /\ proc[p].pc = "create"
    /\ dir[proc[p].key] # NoFile
    /\ Goes(p, [proc[p] EXCEPT !.pc = "graph"])
    /\ UNCHANGED <<dir, written>>

CreateFile(p, i) ==
    LET k == proc[p].key
    IN  /\ proc[p].pc = "create"
        /\ dir[k] = NoFile
        /\ Free(i) /\ Model[i] = k
        /\ dir' = [dir EXCEPT ![k] = i]
        /\ written' = [written EXCEPT ![i] = 0]
        /\ Goes(p, [proc[p] EXCEPT !.pc = "created", !.file = i])

\* flock, after the file is visible: if someone has locked it, it stays as it is.
ExclusiveLock(p) ==
    /\ proc[p].pc = "created"
    /\ Goes(p, IF MayExclude(p, proc[p].file)
               THEN [proc[p] EXCEPT !.pc = "write", !.lock = "exclusive"]
               ELSE Closing(p, "graph"))
    /\ UNCHANGED <<dir, written>>

\* OsFile::write, first the blob, then the checksum, as many units as the kernel takes.
Write(p) ==
    LET i == proc[p].file
    IN  /\ proc[p].pc = "write"
        /\ written[i] < FullSize(proc[p].key)
        /\ written' = [written EXCEPT ![i] = @ + 1]
        /\ UNCHANGED <<dir, proc>>

\* A write fails: the file is removed and the blob used as it is.
WriteFails(p) ==
    /\ Errors
    /\ proc[p].pc = "write"
    /\ written[proc[p].file] < FullSize(proc[p].key)
    /\ dir' = [dir EXCEPT ![proc[p].key] = NoFile]
    /\ Goes(p, Closing(p, "graph"))
    /\ UNCHANGED written

\* The file is closed and read back with getBlob.
ReadBack(p) ==
    /\ proc[p].pc = "write"
    /\ written[proc[p].file] = FullSize(proc[p].key)
    /\ Goes(p, Closing(p, "lookup"))
    /\ UNCHANGED <<dir, written>>

-----------------------------------------------------------------------------

\* The graph is destroyed, its BlobContainer with it.
DestroyGraph(p) ==
    /\ proc[p].pc = "graph"
    /\ Goes(p, Idle)
    /\ UNCHANGED <<dir, written>>

\* The process is killed; what it wrote stays (external).
Killed(p) ==
    /\ Crashes
    /\ proc[p].pc # "idle"
    /\ Goes(p, Idle)
    /\ UNCHANGED <<dir, written>>

CreationStep(p) ==
    \/ Open(p) \/ Fstat(p) \/ SharedLock(p) \/ Validate(p) \/ RemoveCorrupt(p)
    \/ Compile(p) \/ CompileFails(p) \/ (\E k \in Keys : CountFile(p, k))
    \/ CheckSize(p) \/ ScanLeastUsed(p)
    \/ (\E v \in Keys : EvictOpen(p, v)) \/ EvictLock(p) \/ EvictRemove(p) \/ EvictDone(p)
    \/ CreateExists(p) \/ (\E i \in Files : CreateFile(p, i)) \/ ExclusiveLock(p)
    \/ Write(p) \/ WriteFails(p) \/ ReadBack(p)

Next == \E p \in Procs :
    \/ \E k \in Keys : CreateGraph(p, k)
    \/ CreationStep(p) \/ DestroyGraph(p) \/ Killed(p)

Spec == Init /\ [][Next]_vars

-----------------------------------------------------------------------------
(* Properties.                                                             *)

\* A blob mapped from the cache is the whole blob of its model, and stays it while
\* the graph uses it, whoever writes, evicts, removes or dies meanwhile: the checksum
\* is right and no one writes a file that is mapped.
BlobIntact ==
    \A p \in Procs : proc[p].pc = "graph" /\ proc[p].file # NoFile =>
        LET i == proc[p].file
        IN  Model[i] = proc[p].key /\ proc[p].size = FullSize(Model[i]) /\ written[i] = proc[p].size

\* Creating a graph never waits: no lock, no eviction and no graph of another process
\* that holds a cache file for as long as it likes blocks a step of getBlob or setBlob.
NeverWaits ==
    \A p \in Procs : proc[p].pc \notin {"idle", "graph"} => ENABLED CreationStep(p)
=============================================================================

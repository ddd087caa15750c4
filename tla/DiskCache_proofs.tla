-------------------------- MODULE DiskCache_proofs --------------------------
(***************************************************************************)
(* A blob mapped from the disk cache is whole, for any number of processes, *)
(* models and files.  The locks are not needed for it: a file only grows,  *)
(* its inode is not used again while it is open, and the size a reader     *)
(* checks the checksum with is one the file had.                           *)
(***************************************************************************)
EXTENDS DiskCache, TLAPS

\* The creations that have no file open.
NoFileOpen == {"idle", "lookup", "compile", "size", "scan", "evict", "create"}

\* The creations that have the file of their own key open.
OwnFileOpen == {"opened", "sized", "locked", "corrupt", "created", "write"}

\* An entry names an inode of its key.
Entries == \A k \in Keys : dir[k] # NoFile => Model[dir[k]] = k

\* A file is never larger than its blob with the checksum.
Sizes == \A i \in Files : written[i] <= FullSize(Model[i])

\* What a creation knows of the file it has open: it belongs to its key, and the
\* size it had at fstat is not more than it has now.
Opened(p) ==
    /\ proc[p].pc \in NoFileOpen => proc[p].file = NoFile
    /\ proc[p].pc \in OwnFileOpen => proc[p].file \in Files /\ Model[proc[p].file] = proc[p].key
    /\ proc[p].pc \in {"sized", "locked", "corrupt"} => proc[p].size <= written[proc[p].file]
    /\ proc[p].pc \in {"evopened", "evlocked"} => proc[p].file \in Files /\ proc[p].victim \in Keys
    /\ proc[p].pc = "graph" /\ proc[p].file # NoFile =>
            /\ Model[proc[p].file] = proc[p].key
            /\ proc[p].size = FullSize(Model[proc[p].file])
            /\ proc[p].size <= written[proc[p].file]

CacheInv == TypeOK /\ Entries /\ Sizes /\ \A p \in Procs : Opened(p)

\* The sizes of cache files are natural numbers.
LEMMA FullSizeNat == \A k \in Keys : FullSize(k) \in Nat
  BY CacheAssumption DEF FullSize

\* A cache that is empty satisfies the invariant.
LEMMA InitCache == Init => CacheInv
  <1> SUFFICES ASSUME Init PROVE CacheInv
    OBVIOUS
  <1> USE CacheAssumption, FullSizeNat DEF Init, Idle
  <1>1. TypeOK
    BY DEF TypeOK, Creation
  <1>2. Entries
    BY DEF Entries
  <1>3. Sizes
    BY DEF Sizes
  <1>4. \A p \in Procs : Opened(p)
    BY DEF Opened, NoFileOpen, OwnFileOpen
  <1> QED
    BY <1>1, <1>2, <1>3, <1>4 DEF CacheInv

\* A creation that becomes c leaves the others as they are.
LEMMA GoesEffect ==
  ASSUME TypeOK, NEW p \in Procs, NEW c, Goes(p, c)
  PROVE  proc'[p] = c /\ \A q \in Procs \ {p} : proc'[q] = proc[q]
  BY DEF TypeOK, Goes

\* The types after a step of process p that becomes c.
LEMMA GoesType ==
  ASSUME TypeOK, NEW p \in Procs, NEW c \in Creation, Goes(p, c),
         c.key \in Keys <=> c.pc # "idle",
         dir' \in [Keys -> Files \cup {NoFile}], written' \in [Files -> Nat]
  PROVE  TypeOK'
  <1>1. proc' \in [Procs -> Creation]
    BY DEF TypeOK, Goes
  <1>2. \A q \in Procs : proc'[q].key \in Keys <=> proc'[q].pc # "idle"
    BY GoesEffect DEF TypeOK
  <1> QED
    BY <1>1, <1>2 DEF TypeOK

\* What another creation knows survives a step in which no file shrinks that it has open.
LEMMA OpenedStays ==
  ASSUME CacheInv, NEW q \in Procs, proc'[q] = proc[q], written' \in [Files -> Nat],
         proc[q].file \in Files => written[proc[q].file] <= written'[proc[q].file]
  PROVE  Opened(q)'
  <1>1. proc[q] \in Creation /\ Opened(q) /\ written \in [Files -> Nat]
    BY DEF CacheInv, TypeOK
  <1>2. proc[q].file \in Files \cup {NoFile} /\ proc[q].size \in Nat
    BY <1>1 DEF Creation
  <1> QED
    BY <1>1, <1>2 DEF Opened, NoFileOpen, OwnFileOpen

\* The invariant after a step of process p that becomes c, changes no file and at most
\* removes entries.
LEMMA Keeps ==
  ASSUME CacheInv, NEW p \in Procs, NEW c \in Creation, Goes(p, c),
         c.key \in Keys <=> c.pc # "idle",
         dir' \in [Keys -> Files \cup {NoFile}],
         \A k \in Keys : dir'[k] \in {dir[k], NoFile},
         written' = written, Opened(p)'
  PROVE  CacheInv'
  <1>1. TypeOK'
    BY GoesType DEF CacheInv, TypeOK
  <1>2. Entries' /\ Sizes'
    BY CacheAssumption DEF CacheInv, Entries, Sizes, FullSize
  <1>3. ASSUME NEW q \in Procs \ {p} PROVE Opened(q)'
    <2>1. proc'[q] = proc[q]
      BY GoesEffect DEF CacheInv
    <2>2. written' \in [Files -> Nat] /\ \A i \in Files : written[i] <= written'[i]
      BY DEF CacheInv, TypeOK
    <2> QED
      BY <2>1, <2>2, OpenedStays
  <1> QED
    BY <1>1, <1>2, <1>3 DEF CacheInv

\* A creation that closes its file goes on at a place where it has none, or is over
\* with the blob it compiled.
LEMMA ClosingOpened ==
  ASSUME CacheInv, NEW p \in Procs, NEW pc \in NoFileOpen \cup {"graph"}, proc[p].pc # "idle", pc # "idle"
  PROVE  /\ Closing(p, pc) \in Creation
         /\ Closing(p, pc).key \in Keys /\ Closing(p, pc).pc = pc /\ Closing(p, pc).file = NoFile
  <1>1. proc[p] \in Creation /\ proc[p].key \in Keys
    BY DEF CacheInv, TypeOK
  <1> QED
    BY <1>1 DEF Closing, Creation, NoFileOpen

\* A creation without a file knows nothing of files.
LEMMA NoFileOpened ==
  ASSUME NEW p \in Procs, proc'[p].file = NoFile, proc'[p].pc \in NoFileOpen \cup {"graph"}
  PROVE  Opened(p)'
  BY DEF Opened, NoFileOpen, OwnFileOpen

\* Closing the file, with no file changed and at most entries removed.
LEMMA ClosingKeeps ==
  ASSUME CacheInv, NEW p \in Procs, NEW pc \in NoFileOpen \cup {"graph"}, proc[p].pc # "idle",
         pc # "idle", Goes(p, Closing(p, pc)),
         dir' \in [Keys -> Files \cup {NoFile}],
         \A k \in Keys : dir'[k] \in {dir[k], NoFile},
         written' = written
  PROVE  CacheInv'
  <1>1. /\ Closing(p, pc) \in Creation
        /\ Closing(p, pc).key \in Keys /\ Closing(p, pc).pc = pc /\ Closing(p, pc).file = NoFile
    BY ClosingOpened
  <1>2. proc'[p] = Closing(p, pc)
    BY GoesEffect DEF CacheInv
  <1>3. Opened(p)'
    BY <1>1, <1>2, NoFileOpened
  <1> QED
    BY <1>1, <1>3, Keeps

\* A miss leads to the compiler or to the blob it made.
LEMMA AfterMissPlace == \A p \in Procs : AfterMiss(p) \in (NoFileOpen \cup {"graph"}) \ {"idle"}
  BY DEF AfterMiss, NoFileOpen

\* The creation is over, without a graph.
LEMMA IdleKeeps ==
  ASSUME CacheInv, NEW p \in Procs, Goes(p, Idle), UNCHANGED <<dir, written>>
  PROVE  CacheInv'
  <1>1. Idle \in Creation /\ Idle.pc = "idle" /\ Idle.key \notin Keys /\ Idle.file = NoFile
    BY CacheAssumption DEF Idle, Creation
  <1>2. proc'[p] = Idle
    BY GoesEffect DEF CacheInv
  <1>3. Opened(p)'
    BY <1>1, <1>2, NoFileOpened DEF NoFileOpen
  <1>4. dir \in [Keys -> Files \cup {NoFile}]
    BY DEF CacheInv, TypeOK
  <1> QED
    BY <1>1, <1>3, <1>4, Keeps

\* A step that changes only where the creation is and what it has noted.
LEMMA LocalKeeps ==
  ASSUME CacheInv, NEW p \in Procs, NEW c \in Creation, Goes(p, c),
         c.key \in Keys, c.pc # "idle", UNCHANGED <<dir, written>>,
         proc'[p] = c => Opened(p)'
  PROVE  CacheInv'
  <1>1. proc'[p] = c
    BY GoesEffect DEF CacheInv
  <1>2. dir \in [Keys -> Files \cup {NoFile}]
    BY DEF CacheInv, TypeOK
  <1> QED
    BY <1>1, <1>2, Keeps

\* The steps of getBlob preserve the invariant.
LEMMA GetBlobKeeps ==
  ASSUME CacheInv, NEW p \in Procs,
         \/ \E k \in Keys : CreateGraph(p, k)
         \/ Open(p) \/ Fstat(p) \/ SharedLock(p) \/ Validate(p) \/ RemoveCorrupt(p)
  PROVE  CacheInv'
  <1>1. /\ proc[p] \in Creation /\ Opened(p) /\ Entries
        /\ proc[p].key \in Keys <=> proc[p].pc # "idle"
        /\ dir \in [Keys -> Files \cup {NoFile}] /\ written \in [Files -> Nat]
    BY DEF CacheInv, TypeOK
  <1>2. ASSUME NEW k \in Keys, CreateGraph(p, k) PROVE CacheInv'
    <2> DEFINE c == [Idle EXCEPT !.pc = "lookup", !.key = k]
    <2>0. Idle \in Creation /\ Idle.file = NoFile
      BY DEF Idle, Creation
    <2>1. c \in Creation /\ c.key \in Keys /\ c.pc = "lookup" /\ c.file = NoFile
      BY <2>0 DEF Creation
    <2>2. proc'[p] = c => Opened(p)'
      BY <2>1, NoFileOpened DEF NoFileOpen
    <2> HIDE DEF c
    <2> QED
      BY <1>2, <2>1, <2>2, LocalKeeps DEF CreateGraph, c
  <1>3. CASE Open(p)
    <2>1. proc[p].pc = "lookup" /\ proc[p].key \in Keys
      BY <1>1, <1>3 DEF Open
    <2>2. CASE dir[proc[p].key] = NoFile
      BY <1>1, <1>3, <2>1, <2>2, ClosingKeeps, AfterMissPlace DEF Open
    <2>3. CASE dir[proc[p].key] # NoFile
      <3> DEFINE c == [proc[p] EXCEPT !.pc = "opened", !.file = dir[proc[p].key]]
      <3>1. c \in Creation /\ c.key = proc[p].key /\ c.pc = "opened" /\ c.file = dir[proc[p].key]
        BY <1>1, <2>1 DEF Creation
      <3>2. c.file \in Files /\ Model[c.file] = c.key
        BY <1>1, <2>1, <2>3, <3>1 DEF Entries
      <3>3. Goes(p, c) /\ UNCHANGED <<dir, written>>
        BY <1>3, <2>3 DEF Open
      <3> HIDE DEF c
      <3>4. proc'[p] = c => Opened(p)'
        BY <3>1, <3>2 DEF Opened, NoFileOpen, OwnFileOpen
      <3> QED
        BY <2>1, <3>1, <3>3, <3>4, LocalKeeps
    <2> QED
      BY <2>2, <2>3
  <1>4. CASE Fstat(p)
    <2> DEFINE c == [proc[p] EXCEPT !.pc = "sized", !.size = written[proc[p].file]]
    <2>1. proc[p].pc = "opened" /\ proc[p].key \in Keys /\ Goes(p, c) /\ UNCHANGED <<dir, written>>
      BY <1>1, <1>4 DEF Fstat
    <2>2. proc[p].file \in Files /\ Model[proc[p].file] = proc[p].key
      BY <1>1, <2>1 DEF Opened, OwnFileOpen
    <2>3. written[proc[p].file] \in Nat
      BY <1>1, <2>2
    <2>4. /\ c \in Creation /\ c.key = proc[p].key /\ c.pc = "sized"
          /\ c.file = proc[p].file /\ c.size = written[proc[p].file]
      BY <1>1, <2>3 DEF Creation
    <2> HIDE DEF c
    <2>5. proc'[p] = c => Opened(p)'
      BY <2>1, <2>2, <2>3, <2>4 DEF Opened, NoFileOpen, OwnFileOpen
    <2> QED
      BY <2>1, <2>4, <2>5, LocalKeeps
  <1>5. CASE SharedLock(p)
    <2>1. proc[p].pc = "sized" /\ proc[p].key \in Keys /\ UNCHANGED <<dir, written>>
      BY <1>1, <1>5 DEF SharedLock
    <2>2. CASE ~MayShare(p, proc[p].file)
      BY <1>1, <1>5, <2>1, <2>2, ClosingKeeps, AfterMissPlace DEF SharedLock
    <2>3. CASE MayShare(p, proc[p].file)
      <3> DEFINE c == [proc[p] EXCEPT !.pc = "locked", !.lock = "shared"]
      <3>1. Goes(p, c)
        BY <1>5, <2>3 DEF SharedLock
      <3>2. /\ c \in Creation /\ c.key = proc[p].key /\ c.pc = "locked"
            /\ c.file = proc[p].file /\ c.size = proc[p].size
        BY <1>1 DEF Creation
      <3> HIDE DEF c
      <3>3. proc'[p] = c => Opened(p)'
        BY <1>1, <2>1, <3>2 DEF Opened, NoFileOpen, OwnFileOpen
      <3> QED
        BY <2>1, <3>1, <3>2, <3>3, LocalKeeps
    <2> QED
      BY <2>2, <2>3
  <1>6. CASE Validate(p)
    <2>1. proc[p].pc = "locked" /\ proc[p].key \in Keys /\ UNCHANGED <<dir, written>>
      BY <1>1, <1>6 DEF Validate
    <2>2. CASE proc[p].size = 0
      BY <1>1, <1>6, <2>1, <2>2, ClosingKeeps, AfterMissPlace DEF Validate
    <2>3. CASE proc[p].size # 0
      <3> DEFINE whole == proc[p].size = FullSize(Model[proc[p].file])
      <3> DEFINE c == [proc[p] EXCEPT !.pc = IF whole THEN "graph" ELSE "corrupt"]
      <3>1. Goes(p, c)
        BY <1>6, <2>3 DEF Validate
      <3>2. /\ c \in Creation /\ c.key = proc[p].key /\ c.pc = (IF whole THEN "graph" ELSE "corrupt")
            /\ c.file = proc[p].file /\ c.size = proc[p].size
        BY <1>1 DEF Creation
      <3> HIDE DEF c
      <3>3. proc'[p] = c => Opened(p)'
        BY <1>1, <2>1, <3>2 DEF Opened, NoFileOpen, OwnFileOpen
      <3> QED
        BY <2>1, <3>1, <3>2, <3>3, LocalKeeps
    <2> QED
      BY <2>2, <2>3
  <1>7. CASE RemoveCorrupt(p)
    <2>1. /\ proc[p].pc = "corrupt" /\ proc[p].key \in Keys /\ written' = written
          /\ dir' = [dir EXCEPT ![proc[p].key] = NoFile]
          /\ Goes(p, Closing(p, AfterMiss(p)))
      BY <1>1, <1>7 DEF RemoveCorrupt
    <2>2. dir' \in [Keys -> Files \cup {NoFile}] /\ \A k \in Keys : dir'[k] \in {dir[k], NoFile}
      BY <1>1, <2>1
    <2> QED
      BY <2>1, <2>2, ClosingKeeps, AfterMissPlace
  <1> QED
    BY <1>2, <1>3, <1>4, <1>5, <1>6, <1>7

\* A step between places without an open file that changes no file or entry.
LEMMA NotedKeeps ==
  ASSUME CacheInv, NEW p \in Procs, NEW c \in Creation, Goes(p, c),
         c.key \in Keys, c.pc \in (NoFileOpen \cup {"graph"}) \ {"idle"}, c.file = NoFile,
         UNCHANGED <<dir, written>>
  PROVE  CacheInv'
  <1>1. proc'[p] = c => Opened(p)'
    BY NoFileOpened
  <1> QED
    BY <1>1, LocalKeeps

\* The steps of setBlob up to the choice of the files to evict preserve the invariant.
LEMMA CountKeeps ==
  ASSUME CacheInv, NEW p \in Procs,
         Compile(p) \/ CompileFails(p) \/ (\E k \in Keys : CountFile(p, k)) \/ CheckSize(p)
            \/ ScanLeastUsed(p) \/ EvictDone(p) \/ CreateExists(p)
  PROVE  CacheInv'
  <1>1. /\ proc[p] \in Creation /\ Opened(p)
        /\ proc[p].key \in Keys <=> proc[p].pc # "idle"
        /\ dir \in [Keys -> Files \cup {NoFile}] /\ written \in [Files -> Nat]
    BY DEF CacheInv, TypeOK
  <1>2. CASE Compile(p)
    <2> DEFINE c == [proc[p] EXCEPT !.pc = "size", !.own = TRUE, !.left = Keys]
    <2>1. proc[p].pc = "compile" /\ proc[p].key \in Keys /\ proc[p].file = NoFile
      BY <1>1, <1>2 DEF Compile, Opened, NoFileOpen
    <2>2. c \in Creation /\ c.key = proc[p].key /\ c.pc = "size" /\ c.file = proc[p].file
      BY <1>1 DEF Creation
    <2>3. Goes(p, c) /\ UNCHANGED <<dir, written>>
      BY <1>2 DEF Compile
    <2> HIDE DEF c
    <2> QED
      BY <2>1, <2>2, <2>3, NotedKeeps DEF NoFileOpen
  <1>3. CASE CompileFails(p)
    BY <1>3, IdleKeeps DEF CompileFails
  <1>4. ASSUME NEW k \in Keys, CountFile(p, k) PROVE CacheInv'
    <2> DEFINE sum == IF dir[k] = NoFile THEN proc[p].need ELSE proc[p].need + written[dir[k]]
    <2> DEFINE c == [proc[p] EXCEPT !.left = proc[p].left \ {k}, !.need = sum]
    <2>1. proc[p].pc = "size" /\ proc[p].key \in Keys /\ proc[p].file = NoFile
      BY <1>1, <1>4 DEF CountFile, Opened, NoFileOpen
    <2>2. sum \in Int
      BY <1>1 DEF Creation
    <2>3. Goes(p, c) /\ UNCHANGED <<dir, written>>
      BY <1>1, <1>4 DEF CountFile, Creation
    <2> HIDE DEF sum
    <2>4. c \in Creation /\ c.key = proc[p].key /\ c.pc = proc[p].pc /\ c.file = proc[p].file
      BY <1>1, <2>2 DEF Creation
    <2> HIDE DEF c
    <2> QED
      BY <2>1, <2>3, <2>4, NotedKeeps DEF NoFileOpen
  <1>5. CASE CheckSize(p)
    <2> DEFINE full == FullSize(proc[p].key)
               over == proc[p].need + full - MaxSize
               need == IF full <= MaxSize /\ over > 0 THEN over ELSE 0
               pc == IF full > MaxSize THEN "graph" ELSE IF over > 0 THEN "scan" ELSE "create"
               c == [proc[p] EXCEPT !.need = need, !.pc = pc]
    <2>1. proc[p].pc = "size" /\ proc[p].key \in Keys /\ proc[p].file = NoFile
      BY <1>1, <1>5 DEF CheckSize, Opened, NoFileOpen
    <2>2. Goes(p, c) /\ UNCHANGED <<dir, written>>
      BY <1>5 DEF CheckSize
    <2>3. need \in Int
      BY <1>1, <2>1, FullSizeNat, CacheAssumption DEF Creation
    <2>4. pc \in {"graph", "scan", "create"}
      OBVIOUS
    <2> HIDE DEF need, pc
    <2>5. c \in Creation /\ c.key = proc[p].key /\ c.pc = pc /\ c.file = proc[p].file
      BY <1>1, <2>3, <2>4 DEF Creation
    <2> HIDE DEF c
    <2> QED
      BY <2>1, <2>2, <2>4, <2>5, NotedKeeps DEF NoFileOpen
  <1>6. CASE ScanLeastUsed(p)
    <2>1. PICK seen \in SUBSET Keys : Goes(p, [proc[p] EXCEPT !.pc = "evict", !.left = seen])
      BY <1>6 DEF ScanLeastUsed
    <2> DEFINE c == [proc[p] EXCEPT !.pc = "evict", !.left = seen]
    <2>2. proc[p].pc = "scan" /\ proc[p].key \in Keys /\ proc[p].file = NoFile /\ UNCHANGED <<dir, written>>
      BY <1>1, <1>6 DEF ScanLeastUsed, Opened, NoFileOpen
    <2>3. c \in Creation /\ c.key = proc[p].key /\ c.pc = "evict" /\ c.file = proc[p].file
      BY <1>1 DEF Creation
    <2> HIDE DEF c
    <2> QED
      BY <2>1, <2>2, <2>3, NotedKeeps DEF NoFileOpen, c
  <1>7. CASE EvictDone(p)
    <2> DEFINE none == 0
               c == [proc[p] EXCEPT !.pc = "create", !.left = {}, !.need = none]
    <2>1. proc[p].pc = "evict" /\ proc[p].key \in Keys /\ proc[p].file = NoFile
      BY <1>1, <1>7 DEF EvictDone, Opened, NoFileOpen
    <2>3. Goes(p, c) /\ UNCHANGED <<dir, written>>
      BY <1>7 DEF EvictDone
    <2>4. none \in Int
      OBVIOUS
    <2> HIDE DEF none
    <2>2. c \in Creation /\ c.key = proc[p].key /\ c.pc = "create" /\ c.file = proc[p].file
      BY <1>1, <2>4 DEF Creation
    <2> HIDE DEF c
    <2> QED
      BY <2>1, <2>2, <2>3, NotedKeeps DEF NoFileOpen
  <1>8. CASE CreateExists(p)
    <2> DEFINE c == [proc[p] EXCEPT !.pc = "graph"]
    <2>1. proc[p].pc = "create" /\ proc[p].key \in Keys /\ proc[p].file = NoFile
      BY <1>1, <1>8 DEF CreateExists, Opened, NoFileOpen
    <2>2. c \in Creation /\ c.key = proc[p].key /\ c.pc = "graph" /\ c.file = proc[p].file
      BY <1>1 DEF Creation
    <2>3. Goes(p, c) /\ UNCHANGED <<dir, written>>
      BY <1>8 DEF CreateExists
    <2> HIDE DEF c
    <2> QED
      BY <2>1, <2>2, <2>3, NotedKeeps
  <1> QED
    BY <1>2, <1>3, <1>4, <1>5, <1>6, <1>7, <1>8

\* A creation that has dealt with a victim has no file open.
LEMMA TriedKeeps ==
  ASSUME CacheInv, NEW p \in Procs, NEW size \in Nat, proc[p].pc # "idle", Goes(p, Tried(p, size)),
         dir' \in [Keys -> Files \cup {NoFile}],
         \A k \in Keys : dir'[k] \in {dir[k], NoFile},
         written' = written
  PROVE  CacheInv'
  <1> DEFINE closed == Closing(p, "evict")
  <1>1. closed \in Creation /\ closed.key \in Keys /\ closed.pc = "evict" /\ closed.file = NoFile
    BY ClosingOpened DEF NoFileOpen
  <1> DEFINE rest == closed.need - size
             c == [closed EXCEPT !.left = closed.left \ {proc[p].victim}, !.victim = NoKey,
                                 !.need = rest]
  <1>2. Tried(p, size) = c
    BY <1>1 DEF Tried, Creation
  <1> HIDE DEF closed
  <1>0. rest \in Int
    BY <1>1 DEF Creation
  <1> HIDE DEF rest
  <1>3. c \in Creation /\ c.key \in Keys /\ c.pc = "evict" /\ c.file = NoFile
    BY <1>0, <1>1 DEF Creation
  <1> HIDE DEF c
  <1>4. proc'[p] = c
    BY <1>2, GoesEffect DEF CacheInv
  <1>5. Opened(p)'
    BY <1>3, <1>4, NoFileOpened DEF NoFileOpen
  <1> QED
    BY <1>2, <1>3, <1>5, Keeps

\* Evicting a file preserves the invariant.
LEMMA EvictKeeps ==
  ASSUME CacheInv, NEW p \in Procs,
         (\E v \in Keys : EvictOpen(p, v)) \/ EvictLock(p) \/ EvictRemove(p)
  PROVE  CacheInv'
  <1>1. /\ proc[p] \in Creation /\ Opened(p)
        /\ proc[p].key \in Keys <=> proc[p].pc # "idle"
        /\ dir \in [Keys -> Files \cup {NoFile}] /\ written \in [Files -> Nat]
    BY DEF CacheInv, TypeOK
  <1>2. ASSUME NEW v \in Keys, EvictOpen(p, v) PROVE CacheInv'
    <2>1. proc[p].pc = "evict" /\ proc[p].key \in Keys /\ proc[p].file = NoFile /\ UNCHANGED <<dir, written>>
      BY <1>1, <1>2 DEF EvictOpen, Opened, NoFileOpen
    <2>2. CASE dir[v] = NoFile
      <3> DEFINE c == [proc[p] EXCEPT !.left = proc[p].left \ {v}]
      <3>1. Goes(p, c)
        BY <1>1, <1>2, <2>2 DEF EvictOpen, Creation
      <3>2. c \in Creation /\ c.key = proc[p].key /\ c.pc = proc[p].pc /\ c.file = proc[p].file
        BY <1>1 DEF Creation
      <3> HIDE DEF c
      <3> QED
        BY <2>1, <3>1, <3>2, NotedKeeps DEF NoFileOpen
    <2>3. CASE dir[v] # NoFile
      <3> DEFINE c == [proc[p] EXCEPT !.pc = "evopened", !.victim = v, !.file = dir[v],
                                      !.size = written[dir[v]]]
      <3>1. Goes(p, c)
        BY <1>2, <2>3 DEF EvictOpen
      <3>2. dir[v] \in Files /\ written[dir[v]] \in Nat
        BY <1>1, <2>3
      <3>3. /\ c \in Creation /\ c.key = proc[p].key /\ c.pc = "evopened"
            /\ c.file \in Files /\ c.victim = v
        BY <1>1, <3>2 DEF Creation
      <3> HIDE DEF c
      <3>4. proc'[p] = c => Opened(p)'
        BY <3>3 DEF Opened, NoFileOpen, OwnFileOpen
      <3> QED
        BY <2>1, <3>1, <3>3, <3>4, LocalKeeps
    <2> QED
      BY <2>2, <2>3
  <1>3. CASE EvictLock(p)
    <2>1. /\ proc[p].pc = "evopened" /\ proc[p].key \in Keys /\ UNCHANGED <<dir, written>>
          /\ proc[p].file \in Files /\ proc[p].victim \in Keys
      BY <1>1, <1>3 DEF EvictLock, Opened
    <2>2. CASE ~MayExclude(p, proc[p].file)
      BY <1>1, <1>3, <2>1, <2>2, TriedKeeps DEF EvictLock
    <2>3. CASE MayExclude(p, proc[p].file)
      <3> DEFINE c == [proc[p] EXCEPT !.pc = "evlocked", !.lock = "exclusive"]
      <3>1. Goes(p, c)
        BY <1>3, <2>3 DEF EvictLock
      <3>2. /\ c \in Creation /\ c.key = proc[p].key /\ c.pc = "evlocked"
            /\ c.file = proc[p].file /\ c.victim = proc[p].victim
        BY <1>1 DEF Creation
      <3> HIDE DEF c
      <3>3. proc'[p] = c => Opened(p)'
        BY <2>1, <3>2 DEF Opened, NoFileOpen, OwnFileOpen
      <3> QED
        BY <2>1, <3>1, <3>2, <3>3, LocalKeeps
    <2> QED
      BY <2>2, <2>3
  <1>4. CASE EvictRemove(p)
    <2> DEFINE size == IF dir[proc[p].victim] = NoFile THEN 0 ELSE proc[p].size
    <2>1. /\ proc[p].pc = "evlocked" /\ proc[p].victim \in Keys /\ written' = written
          /\ dir' = [dir EXCEPT ![proc[p].victim] = NoFile]
          /\ Goes(p, Tried(p, size))
      BY <1>1, <1>4 DEF EvictRemove, Opened
    <2>2. size \in Nat
      BY <1>1 DEF Creation
    <2>3. dir' \in [Keys -> Files \cup {NoFile}] /\ \A k \in Keys : dir'[k] \in {dir[k], NoFile}
      BY <1>1, <2>1
    <2> HIDE DEF size
    <2> QED
      BY <2>1, <2>2, <2>3, TriedKeeps
  <1> QED
    BY <1>2, <1>3, <1>4

\* Storing the blob preserves the invariant: the new inode is one nobody has open, and
\* the file grows up to its full size.
LEMMA StoreKeeps ==
  ASSUME CacheInv, NEW p \in Procs,
         (\E i \in Files : CreateFile(p, i)) \/ ExclusiveLock(p) \/ Write(p) \/ WriteFails(p) \/ ReadBack(p)
  PROVE  CacheInv'
  <1>1. /\ proc[p] \in Creation /\ Opened(p) /\ Entries /\ Sizes
        /\ proc[p].key \in Keys <=> proc[p].pc # "idle"
        /\ dir \in [Keys -> Files \cup {NoFile}] /\ written \in [Files -> Nat]
    BY DEF CacheInv, TypeOK
  <1>2. ASSUME NEW i \in Files, CreateFile(p, i) PROVE CacheInv'
    <2> DEFINE k == proc[p].key
               c == [proc[p] EXCEPT !.pc = "created", !.file = i]
    <2>1. /\ proc[p].pc = "create" /\ k \in Keys /\ Model[i] = k /\ Free(i) /\ Goes(p, c)
          /\ dir' = [dir EXCEPT ![k] = i] /\ written' = [written EXCEPT ![i] = 0]
      BY <1>1, <1>2 DEF CreateFile
    <2>2. c \in Creation /\ c.key = k /\ c.pc = "created" /\ c.file = i
      BY <1>1 DEF Creation
    <2> HIDE DEF c
    <2>3. dir' \in [Keys -> Files \cup {NoFile}] /\ written' \in [Files -> Nat]
      BY <1>1, <2>1
    <2>4. TypeOK'
      BY <2>1, <2>2, <2>3, GoesType DEF CacheInv
    <2>5. Entries'
      BY <1>1, <2>1 DEF Entries
    <2>6. Sizes'
      <3>1. 0 <= FullSize(Model[i])
        BY CacheAssumption, FullSizeNat
      <3>2. \A h \in Files : FullSize(Model[h]) \in Nat
        BY CacheAssumption, FullSizeNat
      <3> QED
        BY <1>1, <2>1, <3>1, <3>2 DEF Sizes, FullSize
    <2>7. proc'[p] = c /\ \A q \in Procs \ {p} : proc'[q] = proc[q]
      BY <2>1, GoesEffect DEF CacheInv
    <2>8. Opened(p)'
      BY <2>1, <2>2, <2>7 DEF Opened, NoFileOpen, OwnFileOpen
    <2>9. ASSUME NEW q \in Procs \ {p} PROVE Opened(q)'
      <3>1. proc[q].file # i
        BY <2>1 DEF Free
      <3>2. proc[q].file \in Files => written[proc[q].file] <= written'[proc[q].file]
        BY <1>1, <2>1, <3>1
      <3> QED
        BY <2>3, <2>7, <3>2, OpenedStays
    <2> QED
      BY <2>4, <2>5, <2>6, <2>8, <2>9 DEF CacheInv
  <1>3. CASE ExclusiveLock(p)
    <2>1. proc[p].pc = "created" /\ proc[p].key \in Keys /\ UNCHANGED <<dir, written>>
      BY <1>1, <1>3 DEF ExclusiveLock
    <2>2. CASE ~MayExclude(p, proc[p].file)
      BY <1>1, <1>3, <2>1, <2>2, ClosingKeeps DEF ExclusiveLock
    <2>3. CASE MayExclude(p, proc[p].file)
      <3> DEFINE c == [proc[p] EXCEPT !.pc = "write", !.lock = "exclusive"]
      <3>1. Goes(p, c)
        BY <1>3, <2>3 DEF ExclusiveLock
      <3>2. c \in Creation /\ c.key = proc[p].key /\ c.pc = "write" /\ c.file = proc[p].file
        BY <1>1 DEF Creation
      <3> HIDE DEF c
      <3>3. proc'[p] = c => Opened(p)'
        BY <1>1, <2>1, <3>2 DEF Opened, NoFileOpen, OwnFileOpen
      <3> QED
        BY <2>1, <3>1, <3>2, <3>3, LocalKeeps
    <2> QED
      BY <2>2, <2>3
  <1>4. CASE Write(p)
    <2> DEFINE i == proc[p].file
    <2>1. /\ proc[p].pc = "write" /\ dir' = dir /\ proc' = proc
          /\ written[i] < FullSize(proc[p].key) /\ written' = [written EXCEPT ![i] = written[i] + 1]
      BY <1>4 DEF Write
    <2>2. i \in Files /\ Model[i] = proc[p].key /\ FullSize(Model[i]) \in Nat
      BY <1>1, <2>1, CacheAssumption, FullSizeNat DEF Opened, OwnFileOpen
    <2>3. written' \in [Files -> Nat] /\ \A h \in Files : written[h] <= written'[h]
      BY <1>1, <2>1, <2>2
    <2>4. TypeOK' /\ Entries'
      BY <2>1, <2>3 DEF CacheInv, TypeOK, Entries
    <2>5. Sizes'
      BY <1>1, <2>1, <2>2 DEF Sizes, FullSize
    <2>6. \A q \in Procs : Opened(q)'
      BY <2>1, <2>3, OpenedStays
    <2> QED
      BY <2>4, <2>5, <2>6 DEF CacheInv
  <1>5. CASE WriteFails(p)
    <2>1. /\ proc[p].pc = "write" /\ proc[p].key \in Keys /\ written' = written
          /\ dir' = [dir EXCEPT ![proc[p].key] = NoFile] /\ Goes(p, Closing(p, "graph"))
      BY <1>1, <1>5 DEF WriteFails
    <2>2. dir' \in [Keys -> Files \cup {NoFile}] /\ \A k \in Keys : dir'[k] \in {dir[k], NoFile}
      BY <1>1, <2>1
    <2> QED
      BY <2>1, <2>2, ClosingKeeps
  <1>6. CASE ReadBack(p)
    BY <1>1, <1>6, ClosingKeeps DEF ReadBack, NoFileOpen
  <1> QED
    BY <1>2, <1>3, <1>4, <1>5, <1>6

\* Every step preserves the invariant.
LEMMA NextCache == CacheInv /\ [Next]_vars => CacheInv'
  <1> SUFFICES ASSUME CacheInv, [Next]_vars PROVE CacheInv'
    OBVIOUS
  <1>1. CASE UNCHANGED vars
    BY <1>1 DEF vars, CacheInv, TypeOK, Entries, Sizes, Opened
  <1>2. CASE Next
    <2>1. PICK p \in Procs : \/ \E k \in Keys : CreateGraph(p, k)
                            \/ CreationStep(p) \/ DestroyGraph(p) \/ Killed(p)
      BY <1>2 DEF Next
    <2>2. CASE DestroyGraph(p) \/ Killed(p)
      BY <2>2, IdleKeeps DEF DestroyGraph, Killed
    <2>3. CASE \E k \in Keys : CreateGraph(p, k)
      BY <2>3, GetBlobKeeps
    <2>4. CASE CreationStep(p)
      BY <2>4, GetBlobKeeps, CountKeeps, EvictKeeps, StoreKeeps DEF CreationStep
    <2> QED
      BY <2>1, <2>2, <2>3, <2>4
  <1> QED
    BY <1>1, <1>2

\* Types, with the key a creation has from getBlob until its graph is destroyed or its
\* process killed: no step of the cache loses it or keeps it too long.
THEOREM CacheTypeCorrect == Spec => []TypeOK
  <1>1. Spec => []CacheInv
    BY InitCache, NextCache, PTL DEF Spec
  <1>2. CacheInv => TypeOK
    BY DEF CacheInv
  <1> QED
    BY <1>1, <1>2, PTL

\* What the invariant says of a creation that is over.
LEMMA CacheInvIntact == CacheInv => BlobIntact
  <1> SUFFICES ASSUME CacheInv, NEW p \in Procs, proc[p].pc = "graph", proc[p].file # NoFile
               PROVE  /\ Model[proc[p].file] = proc[p].key
                      /\ proc[p].size = FullSize(Model[proc[p].file])
                      /\ written[proc[p].file] = proc[p].size
    BY DEF BlobIntact
  <1>1. /\ proc[p].file \in Files /\ written[proc[p].file] \in Nat /\ proc[p].size \in Nat
        /\ Opened(p) /\ Sizes
    BY DEF CacheInv, TypeOK, Creation
  <1>2. written[proc[p].file] <= proc[p].size /\ proc[p].size <= written[proc[p].file]
    BY <1>1 DEF Opened, Sizes
  <1> QED
    BY <1>1, <1>2 DEF Opened

\* The blob of every graph loaded from the cache is the whole blob compiled for its
\* model, whatever other threads and processes do to the cache directory with getBlob
\* and setBlob, and whichever of them are killed.
THEOREM CachedBlobsIntact == Spec => []BlobIntact
  <1>1. Spec => []CacheInv
    BY InitCache, NextCache, PTL DEF Spec
  <1> QED
    BY <1>1, CacheInvIntact, PTL
=============================================================================

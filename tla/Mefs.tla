-------------------------------- MODULE Mefs --------------------------------
(***************************************************************************)
(* The file system of kernel/fs/mefs.c: the directory kept in memory, the  *)
(* superblock, directory, bitmap and data sectors kept on the disk, and    *)
(* the one buffer, sector_buf, every bitmap and data sector goes through.  *)
(* A step is at most one sector read or written, so that the machine can   *)
(* stop between any two of them, and so that, with Sti, another task can   *)
(* run in between (syscall.c:187).                                         *)
(*                                                                         *)
(* Sizes are in blocks, a block's number is its distance from data_start,  *)
(* the bitmap is one sector, and the content of a file is one value that   *)
(* each of its blocks carries.                                             *)
(***************************************************************************)
EXTENDS Integers, FiniteSets

CONSTANTS
  Names,       (* file and directory names                                  *)
  Contents,    (* what a program can write                                  *)
  Capacity,    (* data blocks, fs_capacity                                  *)
  MaxFiles,    (* entries of the directory, MEFS_MAX_FILES                  *)
  PerSector,   (* directory entries in a sector, 16                         *)
  MaxLen,      (* blocks of the longest write                               *)
  Tasks,       (* who makes the calls; the shell is one of them             *)
  Sti,         (* TRUE: a call can be preempted, as in the code             *)
  Calls,       (* which calls are made                                      *)
  MaxCrashes, MaxErrors,   (* bounds: power cuts, sectors that fail         *)
  None, Junk   (* nothing; bytes nobody wrote on purpose                    *)

Blocks == 0 .. Capacity - 1
Index  == 0 .. MaxFiles - 1
Root   == -1           \* MEFS_ROOT

ASSUME MefsAssumption ==
  /\ Capacity \in Nat \ {0} /\ MaxFiles \in Nat \ {0} /\ PerSector \in Nat \ {0}
  /\ MaxLen \in Nat /\ MaxCrashes \in Nat /\ MaxErrors \in Nat
  /\ Sti \in BOOLEAN
  /\ Calls \subseteq {"create", "mkdir", "cd", "write", "delete", "flush", "format"}
  /\ {None, Junk} \cap (Names \cup Contents) = {} /\ None # Junk
  /\ Tasks # {} /\ None \notin Blocks
  /\ \A B \in SUBSET Blocks : B \notin Contents \cup {None}   \* sector_buf tells them apart

(* mefs_entry_t; an entry is free when name[0] is 0.                       *)
Entry == [name : Names \cup {None, Junk}, size : 0 .. MaxLen,
          lba : Blocks \cup {None}, dir : BOOLEAN, parent : Index \cup {Root}]
FreeEntry == [name |-> None, size |-> 0, lba |-> None, dir |-> FALSE, parent |-> Root]
JunkEntry == [FreeEntry EXCEPT !.name = Junk]
NoEntries == [i \in Index |-> FreeEntry]

VARIABLES
  entries, fileCount,  \* the statics of mefs.c
  cwd,                 \* shell_cwd
  sectorBuf,           \* sector_buf: a bitmap, a content, or None
  disk,                \* superblock count, directory, bitmap, data
  pc, op,              \* where each task is, and its locals
  want,                \* history: the content each entry was last given
  touched,             \* history: entries changed since the last flush
  health,              \* history: what the bitmap can be trusted for
  clash,               \* history: two creations were under way at a time
  crashes, errors      \* how many so far

ram  == << entries, fileCount, cwd >>
past == << want, touched, health >>
vars == << ram, sectorBuf, disk, pc, op, past, clash, crashes, errors >>

(* i, len, content: the write; k .. end - 1 the blocks or sectors to go;   *)
(* start: the first block of the new run; image, count: the copy mefs_flush*)
(* makes of the directory; new: the entry to be.                           *)
NoOp == [kind |-> "none", i |-> 0, len |-> 0, content |-> None, k |-> 0, end |-> 0,
         start |-> 0, image |-> NoEntries, count |-> 0, new |-> FreeEntry]

Init ==
  /\ entries = NoEntries /\ fileCount = 0 /\ cwd = Root
  /\ sectorBuf = None
  /\ disk = [count |-> 0, dir |-> NoEntries, bitmap |-> {},
             data |-> [b \in Blocks |-> None]]
  /\ pc = [t \in Tasks |-> "idle"] /\ op = [t \in Tasks |-> NoOp]
  /\ want = [i \in Index |-> None] /\ touched = {} /\ health = "good"
  /\ clash = FALSE /\ crashes = 0 /\ errors = 0

-----------------------------------------------------------------------------
Lowest(S) == {x \in S : \A y \in S : x <= y}
Live(i) == i < fileCount /\ entries[i].name # None

(* The linear searches: by name alone, by directory and name.              *)
Find(n) == Lowest({i \in Index : Live(i) /\ entries[i].name = n})
Lookup(d, n) == Lowest({i \in Index : Live(i) /\ entries[i].parent = d
                                              /\ entries[i].name = n})
FreeIndex == Lowest({i \in Index : entries[i].name = None})
Children(d) == {i \in Index : Live(i) /\ entries[i].parent = d}

(* The blocks an entry claims.                                             *)
BlocksOf(e) == IF e.lba = None \/ e.size = 0 THEN {} ELSE e.lba .. e.lba + e.size - 1

(* A sector does not come or go through; the code takes no notice in       *)
(* bm_test, bm_alloc and bm_free.  How much is lost is for the caller.     *)
Worse(h) == IF health = "bad" THEN "bad" ELSE h
IoError(h) == errors < MaxErrors /\ errors' = errors + 1 /\ health' = Worse(h)
IoWell  == UNCHANGED << errors, health >>

Turn(t) == Sti \/ \A u \in Tasks \ {t} : pc[u] = "idle"
At(t, label) == Turn(t) /\ pc[t] = label
Begins(t, call) == call \in Calls /\ At(t, "idle")
Goto(t, label) == pc' = [pc EXCEPT ![t] = label]
(* Nobody reads what a call left in the buffer, unless another one is on.  *)
Return(t) ==
  /\ Goto(t, "idle") /\ op' = [op EXCEPT ![t] = NoOp]
  /\ sectorBuf' = IF \A u \in Tasks \ {t} : pc[u] = "idle" THEN None ELSE sectorBuf
Touch(i) == touched' = touched \cup {i}

-----------------------------------------------------------------------------
(* mefs_create_in and mefs_mkdir, with MEFS_ROOT or the shell's directory: *)
(* the searches, for the name and for a free entry.                        *)
New(n, d, isDir) == [FreeEntry EXCEPT !.name = n, !.dir = isDir, !.parent = d]
Creates(t, i, e) ==
  /\ op' = [op EXCEPT ![t] = [NoOp EXCEPT !.kind = "make", !.i = i, !.new = e]]
  /\ Goto(t, "make")
  /\ UNCHANGED << ram, sectorBuf, disk, past, crashes, errors >>

(* A bug: the name may be there already.                                   *)
MakeTwice(t, d, n, isDir) ==
  /\ Begins(t, IF isDir THEN "mkdir" ELSE "create") /\ d \in {Root, cwd}
  /\ \E i \in FreeIndex : Creates(t, i, New(n, d, isDir))

Make(t, d, n, isDir) ==
  /\ Begins(t, IF isDir THEN "mkdir" ELSE "create") /\ d \in {Root, cwd}
  /\ Lookup(d, n) = {}
  /\ \E i \in FreeIndex : Creates(t, i, New(n, d, isDir))

(* ... and the entry, with nothing looked at again.                        *)
Insert(t) ==
  LET i == op[t].i IN
  /\ At(t, "make")
  /\ entries' = [entries EXCEPT ![i] = op[t].new]
  /\ fileCount' = IF i >= fileCount THEN i + 1 ELSE fileCount
  /\ want' = [want EXCEPT ![i] = None]
  /\ Touch(i) /\ Return(t)
  /\ UNCHANGED << cwd, disk, health, crashes, errors >>

(* The shell's cd: anything that has the name, or one up (mefs_parent).    *)
Cd(t, n) ==
  /\ Begins(t, "cd")
  /\ cwd' \in Lookup(cwd, n)
  /\ UNCHANGED << entries, fileCount, sectorBuf, disk, pc, op, past, crashes, errors >>
CdUp(t) ==
  /\ Begins(t, "cd") /\ cwd # Root
  /\ cwd' = IF Live(cwd) THEN entries[cwd].parent ELSE Root
  /\ UNCHANGED << entries, fileCount, sectorBuf, disk, pc, op, past, crashes, errors >>

(* mefs_write and mefs_delete find the first entry of that name and give   *)
(* its blocks back, bit by bit.                                            *)
FreeFirst(t, i, o) ==
  LET e == entries[i] IN
  /\ op' = [op EXCEPT ![t] = IF BlocksOf(e) = {} THEN o
                             ELSE [o EXCEPT !.k = e.lba, !.end = e.lba + e.size]]
  /\ Goto(t, IF BlocksOf(e) = {} THEN "freed" ELSE "freeRead")
  /\ Touch(i)
  /\ UNCHANGED << ram, sectorBuf, disk, want, health, crashes, errors >>

WriteCall(t, n, c, len) ==
  /\ Begins(t, "write")
  /\ \E i \in Find(n) :
       FreeFirst(t, i, [NoOp EXCEPT !.kind = "write", !.i = i, !.content = c, !.len = len])

DeleteCall(t, n) ==
  /\ Begins(t, "delete")
  /\ \E i \in Find(n) :
       /\ entries[i].dir => Children(i) = {}
       /\ FreeFirst(t, i, [NoOp EXCEPT !.kind = "delete", !.i = i])

-----------------------------------------------------------------------------
(* bm_set: the bitmap sector into the buffer, and out again with one bit   *)
(* changed.  With Sti the buffer may hold something else by then, and data *)
(* in the bitmap is any bitmap.                                            *)
ReadBits(t, next, skip, h) ==
  /\ \/ IoWell /\ sectorBuf' = disk.bitmap /\ Goto(t, next) /\ UNCHANGED op
     \/ /\ IoError(h)
        /\ op' = [op EXCEPT ![t].k = @ + 1]
        /\ Goto(t, IF op[t].k + 1 = op[t].end THEN skip ELSE pc[t])
        /\ UNCHANGED sectorBuf
  /\ UNCHANGED << ram, disk, want, touched, crashes >>

Bits == IF sectorBuf \in Contents \cup {None} THEN SUBSET Blocks ELSE {sectorBuf}

WriteBits(t, set, clear, again, done, h) ==
  /\ \/ IoWell /\ \E B \in Bits : disk' = [disk EXCEPT !.bitmap = (B \cup set) \ clear]
     \/ IoError(h) /\ UNCHANGED disk
  /\ IF op[t].k + 1 = op[t].end
     THEN /\ op' = [op EXCEPT ![t].k = op[t].start]
          /\ Goto(t, done)
     ELSE /\ op' = [op EXCEPT ![t].k = @ + 1]
          /\ Goto(t, again)
  /\ UNCHANGED << ram, sectorBuf, want, touched, crashes >>

FreeRead(t) == At(t, "freeRead") /\ ReadBits(t, "freeWrite", "freed", "leaky")

(* A bug: the last block of the old run stays marked.                      *)
FreeWriteShort(t) ==
  /\ At(t, "freeWrite")
  /\ WriteBits(t, {}, IF op[t].k + 1 = op[t].end THEN {} ELSE {op[t].k},
               "freeRead", "freed", "leaky")
FreeWrite(t) ==
  /\ At(t, "freeWrite")
  /\ WriteBits(t, {}, {op[t].k}, "freeRead", "freed", "leaky")

(* mefs_delete ends here, and mefs_write of nothing.                       *)
DeleteEntry(t) ==
  /\ At(t, "freed") /\ op[t].kind = "delete"
  /\ entries' = [entries EXCEPT ![op[t].i] = [@ EXCEPT !.name = None, !.size = 0, !.lba = None]]
  /\ want' = [want EXCEPT ![op[t].i] = None]
  /\ Return(t)
  /\ UNCHANGED << fileCount, cwd, disk, touched, health, crashes, errors >>

Truncate(t) ==
  /\ At(t, "freed") /\ op[t].kind = "write" /\ op[t].len = 0
  /\ entries' = [entries EXCEPT ![op[t].i] = [@ EXCEPT !.size = 0, !.lba = None]]
  /\ want' = [want EXCEPT ![op[t].i] = None]
  /\ Return(t)
  /\ UNCHANGED << fileCount, cwd, disk, touched, health, crashes, errors >>

(* A bug: a run may go on over one marked block.                           *)
RunsOverOne(seen, len) ==
  {s \in Blocks : s + len <= Capacity /\ Cardinality((s .. s + len - 1) \cap seen) <= 1}

(* bm_alloc: the first run of len clear bits.  A sector it cannot read has *)
(* only clear bits.  (The scan is one step, with Sti too.)                 *)
Runs(seen, len) == {s \in Blocks : s + len <= Capacity /\ (s .. s + len - 1) \cap seen = {}}

Alloc(t) ==
  /\ At(t, "freed") /\ op[t].kind = "write" /\ op[t].len > 0
  /\ \/ /\ IoWell
        /\ \E s \in Lowest(Runs(disk.bitmap, op[t].len)) :
             op' = [op EXCEPT ![t].k = s, ![t].start = s, ![t].end = s + op[t].len]
     \/ /\ IoError("bad")
        /\ \E b \in disk.bitmap : \E s \in Lowest(Runs(disk.bitmap \ {b}, op[t].len)) :
             op' = [op EXCEPT ![t].k = s, ![t].start = s, ![t].end = s + op[t].len]
  /\ Goto(t, "markRead")
  /\ sectorBuf' = disk.bitmap
  /\ UNCHANGED << ram, disk, want, touched, crashes >>

(* No room: mefs_write returns -1, the old blocks have been given back and *)
(* the entry still names them.                                             *)
AllocFails(t) ==
  /\ At(t, "freed") /\ op[t].kind = "write" /\ op[t].len > 0
  /\ Runs(disk.bitmap, op[t].len) = {}
  /\ health' = IF BlocksOf(entries[op[t].i]) = {} THEN health ELSE "bad"
  /\ Return(t)
  /\ UNCHANGED << ram, disk, want, touched, crashes, errors >>

MarkRead(t) == At(t, "markRead") /\ ReadBits(t, "markWrite", "fill", "bad")

MarkWrite(t) ==
  /\ At(t, "markWrite")
  /\ WriteBits(t, {op[t].k}, {}, "markRead", "fill", "bad")

(* The data, a block at a time; the entry changes when all of it is there. *)
Fill(t) ==
  /\ At(t, "fill")
  /\ sectorBuf' = op[t].content
  /\ op' = [op EXCEPT ![t].k = IF @ < op[t].start \/ @ >= op[t].end THEN op[t].start ELSE @]
  /\ Goto(t, "store")
  /\ UNCHANGED << ram, disk, past, crashes, errors >>

(* A bug: the data goes where the file was, and not where it will be.      *)
StoreInPlace(t) ==
  LET o == op[t]
      old == entries[o.i].lba IN
  /\ At(t, "store")
  /\ disk' = [disk EXCEPT !.data[IF old = None THEN o.k ELSE old] = IF sectorBuf \in Contents THEN sectorBuf ELSE Junk]
  /\ IF o.k + 1 = o.end
     THEN /\ entries' = [entries EXCEPT ![o.i] = [@ EXCEPT !.size = o.len, !.lba = o.start]]
          /\ want' = [want EXCEPT ![o.i] = o.content]
          /\ Return(t)
     ELSE /\ op' = [op EXCEPT ![t].k = @ + 1]
          /\ Goto(t, "fill")
          /\ UNCHANGED << entries, want, sectorBuf >>
  /\ UNCHANGED << fileCount, cwd, touched, health, crashes, errors >>

Store(t) ==
  LET o == op[t] IN
  /\ At(t, "store")
  /\ disk' = [disk EXCEPT !.data[o.k] = IF sectorBuf \in Contents THEN sectorBuf ELSE Junk]
  /\ IF o.k + 1 = o.end
     THEN /\ entries' = [entries EXCEPT ![o.i] = [@ EXCEPT !.size = o.len, !.lba = o.start]]
          /\ want' = [want EXCEPT ![o.i] = o.content]
          /\ Return(t)
     ELSE /\ op' = [op EXCEPT ![t].k = @ + 1]
          /\ Goto(t, "fill")
          /\ UNCHANGED << entries, want, sectorBuf >>
  /\ UNCHANGED << fileCount, cwd, touched, health, crashes, errors >>

(* -1: the new blocks stay marked, and the entry still claims the old ones,*)
(* which have been given back.                                             *)
StoreFails(t) ==
  /\ At(t, "store")
  /\ IoError(IF BlocksOf(entries[op[t].i]) = {} THEN "leaky" ELSE "bad")
  /\ Return(t)
  /\ UNCHANGED << ram, disk, want, touched, crashes >>

-----------------------------------------------------------------------------
(* mefs_flush: superblock, then the directory sectors in use, from a copy. *)
(* What lies past the last entry in the last sector was never cleared.     *)
FlushCall(t) ==
  /\ Begins(t, "flush")
  /\ op' = [op EXCEPT ![t] = [NoOp EXCEPT !.kind = "flush", !.image = entries,
              !.count = fileCount, !.end = (fileCount + PerSector - 1) \div PerSector]]
  /\ Goto(t, "super")
  /\ UNCHANGED << ram, sectorBuf, disk, past, crashes, errors >>

(* mefs_format, from the prompt: memory at once, then bitmap, superblock   *)
(* and all of the directory.                                               *)
FormatCall(t) ==
  /\ Begins(t, "format")
  /\ entries' = NoEntries /\ fileCount' = 0
  /\ want' = [i \in Index |-> None] /\ touched' = Index
  /\ health' = "leaky"
  /\ op' = [op EXCEPT ![t] = [NoOp EXCEPT !.kind = "format",
              !.end = (MaxFiles + PerSector - 1) \div PerSector]]
  /\ Goto(t, "zero")
  /\ UNCHANGED << cwd, sectorBuf, disk, crashes, errors >>

Zero(t) ==
  /\ At(t, "zero")
  /\ disk' = [disk EXCEPT !.bitmap = {}]
  /\ Goto(t, "super")
  /\ UNCHANGED << ram, sectorBuf, op, past, crashes, errors >>

(* A bug: only the directory is written.                                   *)
SuperSkipped(t) ==
  /\ At(t, "super")
  /\ IF op[t].end = 0 THEN Return(t) ELSE Goto(t, "dir") /\ UNCHANGED << op, sectorBuf >>
  /\ UNCHANGED << ram, disk, past, crashes, errors >>

Super(t) ==
  /\ At(t, "super")
  /\ disk' = [disk EXCEPT !.count = op[t].count]
  /\ IF op[t].end = 0 THEN Return(t) ELSE Goto(t, "dir") /\ UNCHANGED << op, sectorBuf >>
  /\ UNCHANGED << ram, past, crashes, errors >>

DirSector(t) ==
  LET o == op[t]
      sector == {i \in Index : i \div PerSector = o.k} IN
  /\ At(t, "dir")
  /\ \E rest \in IF o.kind = "format" THEN {FreeEntry} ELSE {FreeEntry, JunkEntry} :
       disk' = [disk EXCEPT !.dir = [i \in Index |->
                  IF i \notin sector THEN @[i] ELSE IF i < o.count THEN o.image[i] ELSE rest]]
  /\ IF o.k + 1 < o.end
     THEN op' = [op EXCEPT ![t].k = @ + 1] /\ UNCHANGED << pc, cwd, sectorBuf, touched, health >>
     ELSE /\ Return(t)
          /\ touched' = {}
          /\ cwd' = IF o.kind = "format" THEN Root ELSE cwd
          /\ health' = IF o.kind = "format" THEN "good" ELSE health
  /\ UNCHANGED << entries, fileCount, want, crashes, errors >>

FlushFails(t) ==
  /\ \/ At(t, "zero") \/ At(t, "super") \/ At(t, "dir")
  /\ errors < MaxErrors /\ errors' = errors + 1
  /\ Return(t)
  /\ UNCHANGED << ram, disk, past, crashes >>

-----------------------------------------------------------------------------
(* What mefs_load makes of the disk.                                       *)
Loaded == [i \in Index |-> IF i < disk.count THEN disk.dir[i] ELSE FreeEntry]

Claimed(es) == UNION {BlocksOf(es[i]) : i \in {j \in Index : es[j].name # None}}
Apart(es) == \A i, j \in Index :
  es[i].name # None /\ es[j].name # None /\ i # j => BlocksOf(es[i]) \cap BlocksOf(es[j]) = {}
Health(es) == CASE ~ Apart(es) \/ ~ Claimed(es) \subseteq disk.bitmap -> "bad"
                [] Apart(es) /\ Claimed(es) = disk.bitmap -> "good"
                [] OTHER -> "leaky"

(* The power goes and comes back.                                          *)
Reboot ==
  /\ crashes < MaxCrashes /\ crashes' = crashes + 1
  /\ entries' = Loaded /\ fileCount' = disk.count /\ cwd' = Root
  /\ sectorBuf' = None
  /\ pc' = [t \in Tasks |-> "idle"] /\ op' = [t \in Tasks |-> NoOp]
  /\ want' = [i \in Index |-> IF i \in touched THEN None ELSE want[i]]
  /\ touched' = {} /\ health' = IF health = "bad" THEN "bad" ELSE Health(Loaded)
  /\ UNCHANGED << disk, errors >>

Call(t) ==
  \/ \E d \in Index \cup {Root}, n \in Names, isDir \in BOOLEAN : Make(t, d, n, isDir)
  \/ \E n \in Names : Cd(t, n) \/ DeleteCall(t, n)
  \/ \E n \in Names, c \in Contents, len \in 0 .. MaxLen : WriteCall(t, n, c, len)
  \/ CdUp(t) \/ FlushCall(t) \/ FormatCall(t)

Step(t) == \/ Insert(t)
           \/ FreeRead(t) \/ FreeWrite(t) \/ DeleteEntry(t) \/ Truncate(t)
           \/ Alloc(t) \/ AllocFails(t) \/ MarkRead(t) \/ MarkWrite(t)
           \/ Fill(t) \/ Store(t) \/ StoreFails(t)
           \/ Zero(t) \/ Super(t) \/ DirSector(t) \/ FlushFails(t)

(* What the history records.                                               *)
Clash == clash' = (clash \/ \E t, u \in Tasks : t # u /\ pc'[t] = "make" /\ pc'[u] = "make")

Next == (Reboot \/ \E t \in Tasks : Call(t) \/ Step(t)) /\ Clash

Spec == Init /\ [][Next]_vars

-----------------------------------------------------------------------------
(* PROPERTIES                                                              *)

(* Every variable has its type; no entry the program made claims a block   *)
(* past the end of the disk.                                               *)
TypeOK ==
  /\ entries \in [Index -> Entry] /\ fileCount \in 0 .. MaxFiles
  /\ cwd \in Index \cup {Root}
  /\ disk.count \in 0 .. MaxFiles /\ disk.dir \in [Index -> Entry]
  /\ disk.bitmap \subseteq Blocks
  /\ \A i \in Index : BlocksOf(entries[i]) \subseteq Blocks

Idle == \A t \in Tasks : pc[t] = "idle"

(* As long as no write has failed, no sector was lost and the machine      *)
(* started from a bitmap that covers its directory: every block a file     *)
(* claims is one of the disk's, is marked and belongs to that file alone.  *)
FilesOwnTheirBlocks ==
  /\ TypeOK
  /\ Idle /\ health # "bad" => Apart(entries) /\ Claimed(entries) \subseteq disk.bitmap

(* Overwriting, deleting and truncating give every block back.             *)
NoBlockLost == Idle /\ health = "good" => disk.bitmap = Claimed(entries)

(* Every block of a file carries what was last written to that file,       *)
(* whatever was written, deleted and moved around it since.                *)
ReadsBack ==
  Idle /\ health # "bad" =>
    \A i \in Index : want[i] # None =>
      \A b \in BlocksOf(entries[i]) : disk.data[b] = want[i]

(* Wherever the power goes, a file that was flushed and not touched since  *)
(* is there afterwards, with its content.                                  *)
FlushedSurvives ==
  \A i \in Index \ touched :
    /\ Loaded[i] = entries[i]
    /\ health # "bad" /\ want[i] # None => \A b \in BlocksOf(entries[i]) : disk.data[b] = want[i]

(* "El nombre es unico en ese directorio" (mefs.h:74): a name stands    *)
(* once in a directory.  Not kept when two creations are under way at a    *)
(* time: both look for the name, and for a free entry, before either has   *)
(* put it in (mefs.c:302-314, 463-475).                                    *)
UniqueNames ==
  \A i, j \in Index :
    Live(i) /\ Live(j) /\ entries[i].name = entries[j].name
    /\ entries[i].name \in Names /\ entries[i].parent = entries[j].parent => i = j

(* "bitmap de bloques libres" (mefs.h:8): a block an entry claims is not  *)
(* free, and no two entries claim it.                                      *)
BitmapOfFreeBlocks == Idle => Apart(entries) /\ Claimed(entries) \subseteq disk.bitmap

-----------------------------------------------------------------------------
(* WHAT HOLDS AT EVERY STEP of a machine on which one call at a time is    *)
(* under way: one task uses files, or calls are not preempted.             *)
OneCall == Sti => \A t, u \in Tasks : t = u

Freeing   == {"freeRead", "freeWrite"}
Marking   == {"markRead", "markWrite"}
Filling   == {"fill", "store"}
Changing  == Freeing \cup {"freed"} \cup Marking \cup Filling
Saving    == {"zero", "super", "dir"}
Labels    == {"idle", "make"} \cup Changing \cup Saving
Stretch(a, b) == a .. b - 1

(* The entry a call changes, the blocks it has given back by now, and the  *)
(* blocks it has marked for the entry to come.                             *)
Mine(t)  == entries[op[t].i]
Gone(t)  == IF pc[t] \in Freeing THEN Stretch(Mine(t).lba, op[t].k)
            ELSE IF pc[t] \in Changing THEN BlocksOf(Mine(t)) ELSE {}
Taken(t) == IF pc[t] \in Marking THEN Stretch(op[t].start, op[t].k)
            ELSE IF pc[t] \in Filling THEN Stretch(op[t].start, op[t].end) ELSE {}

Ops == [kind : {"none", "make", "write", "delete", "flush", "format"}, i : Index, len : 0 .. MaxLen,
        content : Contents \cup {None}, k : Nat, end : Nat, start : Nat,
        image : [Index -> Entry], count : 0 .. MaxFiles, new : Entry]
Held == [Blocks -> Contents \cup {None, Junk}]

(* The locals of a call in each of its phases.                             *)
LocalsOK(t) == LET o == op[t] IN
  /\ pc[t] = "make" => /\ o.i \in FreeIndex
                       /\ o.new.name \in Names /\ BlocksOf(o.new) = {}
  /\ pc[t] \in Changing => /\ o.kind \in {"write", "delete"} /\ o.i \in touched
                           /\ Mine(t).name # None /\ (o.kind = "write" => o.content \in Contents)
  /\ pc[t] \in Freeing => /\ BlocksOf(Mine(t)) # {} /\ o.end = Mine(t).lba + Mine(t).size
                          /\ o.k \in Stretch(Mine(t).lba, o.end)
  /\ pc[t] \in Marking \cup Filling =>
       /\ o.kind = "write" /\ o.len > 0 /\ o.start \in Blocks
       /\ o.end = o.start + o.len /\ o.end <= Capacity
       /\ o.k \in o.start .. o.end /\ (o.k = o.end => pc[t] = "fill" /\ health = "bad")
  /\ pc[t] \in Saving =>
       /\ o.kind \in {"flush", "format"} /\ o.image = entries /\ o.count = fileCount
       /\ pc[t] = "zero" => o.kind = "format"
       /\ pc[t] # "dir" => o.k = 0
       /\ pc[t] = "dir" => disk.count = fileCount
       /\ o.kind = "format" => /\ entries = NoEntries /\ fileCount = 0 /\ touched = Index
                               /\ want = [i \in Index |-> None]
                               /\ pc[t] # "zero" => disk.bitmap = {}

(* The bitmap marks what the entries claim, but for what the call has      *)
(* given back, and what the call has taken.                                *)
Due(t) == (Claimed(entries) \ Gone(t)) \cup Taken(t)
MarksOK(t) ==
  /\ pc[t] \in {"freeWrite", "markWrite"} => sectorBuf = disk.bitmap
  /\ health # "bad" =>
       /\ Apart(entries) /\ Due(t) \subseteq disk.bitmap
       /\ health = "good" => disk.bitmap = Due(t)
       /\ pc[t] \in Marking \cup Filling =>
            Stretch(op[t].start, op[t].end) \cap (Claimed(entries) \ BlocksOf(Mine(t))) = {}

(* The blocks of a file carry what it was given, but for the file that is  *)
(* being changed, and the blocks stored so far what is being written.      *)
DataOK(t) ==
  /\ pc[t] = "store" => sectorBuf = op[t].content
  /\ health # "bad" =>
       /\ \A i \in Index : want[i] # None /\ ~(pc[t] \in Changing /\ op[t].i = i) =>
            \A b \in BlocksOf(entries[i]) : disk.data[b] = want[i]
       /\ pc[t] \in Filling => \A b \in Stretch(op[t].start, op[t].k) : disk.data[b] = op[t].content

(* The directory sectors a flush has written are those in memory, and the  *)
(* last of them holds the last entry.                                      *)
DirOK(t) ==
  /\ pc[t] \in Saving => \A i \in Index : i < fileCount => i \div PerSector < op[t].end
  /\ pc[t] = "dir" => \A i \in Index : i < fileCount /\ i \div PerSector < op[t].k =>
                         disk.dir[i] = entries[i]

Sole(t) == \A u \in Tasks \ {t} : pc[u] = "idle"
CallOK  == \E t \in Tasks : Sole(t) /\ LocalsOK(t) /\ MarksOK(t) /\ DataOK(t) /\ DirOK(t)

TypesOK ==
  /\ TypeOK
  /\ disk \in [count : 0 .. MaxFiles, dir : [Index -> Entry], bitmap : SUBSET Blocks, data : Held]
  /\ \A i \in Index : BlocksOf(disk.dir[i]) \subseteq Blocks
  /\ want \in [Index -> Contents \cup {None}] /\ touched \subseteq Index
  /\ health \in {"good", "leaky", "bad"}
  /\ pc \in [Tasks -> Labels] /\ op \in [Tasks -> Ops]
  /\ \A t \in Tasks : pc[t] = "idle" => op[t] = NoOp

(* Entries behind the last are free, and what was not touched since the    *)
(* last flush is on the disk as it is in memory.                           *)
TableOK ==
  /\ \A i \in Index : i >= fileCount => entries[i] = FreeEntry
  /\ \A i \in Index : want[i] # None => entries[i].name # None
  /\ \A i \in Index \ touched : /\ i < fileCount <=> i < disk.count
                                /\ i < fileCount => disk.dir[i] = entries[i]

(* Types, table and the call under way.                                    *)
IInv == TypesOK /\ TableOK /\ CallOK
=============================================================================

----------------------------- MODULE Mefs_proofs -----------------------------
(***************************************************************************)
(* IInv is an invariant of Mefs when one call at a time is under way, for  *)
(* every disk, every number of files and any power cuts and failures; with *)
(* it files own their blocks, none is lost, and what was written and       *)
(* flushed is read.                                                        *)
(***************************************************************************)
EXTENDS Mefs, WellFoundedInduction, TLAPS

-----------------------------------------------------------------------------
(* LEMMAS ON ENTRIES AND THE BLOCKS THEY CLAIM                             *)

LEMMA Sizes ==
  /\ Capacity \in Nat /\ Capacity > 0 /\ MaxFiles \in Nat /\ MaxFiles > 0
  /\ PerSector \in Nat /\ PerSector > 0 /\ MaxLen \in Nat
  /\ Index \subseteq Nat /\ 0 \in Index /\ Blocks \subseteq Nat /\ Tasks # {}
  /\ None \notin Blocks /\ None \notin Names /\ None \notin Contents /\ None # Junk
BY MefsAssumption DEF Index, Blocks

LEMMA EntryTyped ==
  /\ FreeEntry \in Entry /\ FreeEntry.name = None /\ FreeEntry.size = 0 /\ FreeEntry.lba = None
  /\ JunkEntry \in Entry /\ BlocksOf(FreeEntry) = {} /\ BlocksOf(JunkEntry) = {}
  /\ NoEntries \in [Index -> Entry]
<1>1. /\ FreeEntry.name = None /\ FreeEntry.size = 0 /\ FreeEntry.lba = None
      /\ JunkEntry.size = 0 /\ JunkEntry.lba = None
  BY DEF FreeEntry, JunkEntry
<1>2. FreeEntry \in Entry
  <2>1. 0 \in 0 .. MaxLen /\ FALSE \in BOOLEAN /\ Root \in Index \cup {Root}
    BY Sizes
  <2> QED BY <2>1 DEF FreeEntry, Entry
<1>3. JunkEntry \in Entry
  BY <1>2 DEF JunkEntry, Entry
<1> QED BY <1>1, <1>2, <1>3 DEF BlocksOf, NoEntries

LEMMA NoOpTyped == NoOp \in Ops /\ NoOp.k = 0 /\ NoOp.start = 0
BY Sizes, EntryTyped DEF NoOp, Ops

(* The blocks of an entry that has some.                                   *)
LEMMA BlocksAreRun ==
  ASSUME NEW e \in Entry
  PROVE  /\ BlocksOf(e) # {} => /\ e.lba \in Nat /\ e.size \in Nat /\ e.size > 0
                                /\ BlocksOf(e) = Stretch(e.lba, e.lba + e.size)
         /\ e.size = 0 => BlocksOf(e) = {}
         /\ e.size # 0 /\ e.lba # None => BlocksOf(e) # {}
<1>1. e.lba \in Nat \/ e.lba = None
  BY Sizes DEF Entry
<1>2. e.size \in Nat
  BY Sizes DEF Entry
<1>3. e.lba \in Nat /\ e.size # 0 => e.lba \in e.lba .. e.lba + e.size - 1
  BY <1>2
<1> QED BY <1>1, <1>2, <1>3 DEF BlocksOf, Stretch

LEMMA ClaimedBy ==
  ASSUME NEW es, NEW b
  PROVE  b \in Claimed(es) <=> \E i \in Index : es[i].name # None /\ b \in BlocksOf(es[i])
BY DEF Claimed

(* An entry in use is given other blocks, or its name is taken away.       *)
LEMMA Replaced ==
  ASSUME NEW es \in [Index -> Entry], NEW i \in Index, NEW e \in Entry,
         es[i].name # None, Apart(es), NEW fs, fs = [es EXCEPT ![i] = e],
         e.name # None \/ BlocksOf(e) = {},
         BlocksOf(e) \cap (Claimed(es) \ BlocksOf(es[i])) = {}
  PROVE  /\ Apart(fs)
         /\ Claimed(fs) = (Claimed(es) \ BlocksOf(es[i])) \cup BlocksOf(e)
<1>1. /\ fs[i] = e /\ \A j \in Index : j # i => fs[j] = es[j]
  OBVIOUS
<1>2. ASSUME NEW j \in Index, j # i, es[j].name # None, NEW b \in BlocksOf(es[j])
      PROVE  b \in Claimed(es) /\ b \notin BlocksOf(es[i])
  <2>1. b \in Claimed(es)
    BY <1>2, ClaimedBy
  <2>2. BlocksOf(es[i]) \cap BlocksOf(es[j]) = {}
    BY <1>2 DEF Apart
  <2> QED BY <2>1, <2>2, <1>2
<1>3. Apart(fs)
  <2> SUFFICES ASSUME NEW j \in Index, NEW k \in Index,
                      fs[j].name # None, fs[k].name # None, j # k
               PROVE  BlocksOf(fs[j]) \cap BlocksOf(fs[k]) = {}
    BY DEF Apart
  <2>1. CASE j = i
    BY <2>1, <1>1, <1>2
  <2>2. CASE k = i
    BY <2>2, <1>1, <1>2
  <2>3. CASE j # i /\ k # i
    BY <2>3, <1>1 DEF Apart
  <2> QED BY <2>1, <2>2, <2>3
<1>4. ASSUME NEW b
      PROVE  b \in Claimed(fs) <=> (b \in Claimed(es) /\ b \notin BlocksOf(es[i])) \/ b \in BlocksOf(e)
  <2>1. b \in Claimed(fs) <=> \E j \in Index : fs[j].name # None /\ b \in BlocksOf(fs[j])
    BY ClaimedBy
  <2>2. b \in Claimed(es) <=> \E j \in Index : es[j].name # None /\ b \in BlocksOf(es[j])
    BY ClaimedBy
  <2>3. ASSUME b \in Claimed(fs)
        PROVE  (b \in Claimed(es) /\ b \notin BlocksOf(es[i])) \/ b \in BlocksOf(e)
    BY <2>3, <2>1, <1>1, <1>2
  <2>4. ASSUME b \in BlocksOf(e)
        PROVE  b \in Claimed(fs)
    BY <2>4, <2>1, <1>1
  <2>5. ASSUME b \in Claimed(es), b \notin BlocksOf(es[i])
        PROVE  b \in Claimed(fs)
    BY <2>5, <2>1, <2>2, <1>1
  <2> QED BY <2>3, <2>4, <2>5
<1>5. Claimed(fs) = (Claimed(es) \ BlocksOf(es[i])) \cup BlocksOf(e)
  BY <1>4
<1> QED BY <1>3, <1>5

(* A free entry is taken for a file that is still empty.                   *)
LEMMA Filled ==
  ASSUME NEW es \in [Index -> Entry], NEW i \in Index, NEW e \in Entry,
         es[i].name = None, BlocksOf(e) = {}
  PROVE  LET fs == [es EXCEPT ![i] = e] IN
         (Apart(es) => Apart(fs)) /\ Claimed(fs) = Claimed(es)
<1> DEFINE fs == [es EXCEPT ![i] = e]
<1>1. /\ fs[i] = e /\ \A j \in Index : j # i => fs[j] = es[j]
  OBVIOUS
<1>2. Apart(es) => Apart(fs)
  BY <1>1 DEF Apart
<1>3. ASSUME NEW b
      PROVE  b \in Claimed(fs) <=> b \in Claimed(es)
  <2>1. b \in Claimed(fs) <=> \E j \in Index : fs[j].name # None /\ b \in BlocksOf(fs[j])
    BY ClaimedBy
  <2>2. b \in Claimed(es) <=> \E j \in Index : es[j].name # None /\ b \in BlocksOf(es[j])
    BY ClaimedBy
  <2> QED BY <2>1, <2>2, <1>1
<1> HIDE DEF fs
<1>4. Claimed(fs) = Claimed(es)
  BY <1>3
<1> QED BY <1>2, <1>4 DEF fs

LEMMA NothingClaimed ==
  Apart(NoEntries) /\ Claimed(NoEntries) = {}
<1>1. \A i \in Index : NoEntries[i].name = None
  BY EntryTyped DEF NoEntries
<1>2. \A b : b \notin Claimed(NoEntries)
  BY <1>1, ClaimedBy
<1> QED BY <1>1, <1>2 DEF Apart

(* The lowest of a set, when there is one, is in it.                       *)
LEMMA LowestOf ==
  ASSUME NEW S, NEW x \in Lowest(S)
  PROVE  x \in S /\ \A y \in S : x <= y
BY DEF Lowest

-----------------------------------------------------------------------------
(* THE CALL UNDER WAY                                                      *)

LEMMA InitOK == Init => IInv
<1> SUFFICES ASSUME Init PROVE IInv
  OBVIOUS
<1>1. /\ entries = NoEntries /\ fileCount = 0 /\ \A i \in Index : entries[i] = FreeEntry
      /\ pc = [t \in Tasks |-> "idle"] /\ op = [t \in Tasks |-> NoOp]
      /\ disk.count = 0 /\ disk.dir = NoEntries /\ disk.bitmap = {}
      /\ want = [i \in Index |-> None] /\ health = "good"
  BY DEF Init, NoEntries
<1>2. TypesOK
  <2>1. TypeOK
    BY <1>1, Sizes, EntryTyped DEF Init, TypeOK
  <2>2. disk \in [count : 0 .. MaxFiles, dir : [Index -> Entry], bitmap : SUBSET Blocks, data : Held]
    BY Sizes, EntryTyped DEF Init, Held
  <2>3. \A i \in Index : BlocksOf(disk.dir[i]) \subseteq Blocks
    BY <1>1, EntryTyped DEF NoEntries
  <2> QED BY <1>1, <2>1, <2>2, <2>3, NoOpTyped DEF Init, TypesOK, Labels
<1>3. TableOK
  BY <1>1, Sizes DEF TableOK, Init
<1>4. CallOK
  <2>1. PICK t \in Tasks : TRUE
    BY Sizes
  <2>2. pc[t] = "idle" /\ Sole(t)
    BY <1>1 DEF Sole
  <2>3. Due(t) = {}
    BY <1>1, <2>2, NothingClaimed DEF Due, Gone, Taken, Freeing, Changing, Marking, Filling
  <2>4. MarksOK(t)
    BY <1>1, <2>2, <2>3, NothingClaimed DEF MarksOK, Marking, Filling
  <2> QED BY <1>1, <2>2, <2>4
          DEF CallOK, LocalsOK, DataOK, DirOK, Freeing, Changing, Marking, Filling, Saving
<1> QED BY <1>2, <1>3, <1>4 DEF IInv

(* Whoever has the turn has the only call, if there is one.                *)
LEMMA TurnIsSole ==
  ASSUME OneCall, IInv, NEW t \in Tasks, Turn(t)
  PROVE  Sole(t) /\ LocalsOK(t) /\ MarksOK(t) /\ DataOK(t) /\ DirOK(t)
<1>1. Sole(t)
  BY DEF Turn, OneCall, Sole
<1>2. PICK u \in Tasks : Sole(u) /\ LocalsOK(u) /\ MarksOK(u) /\ DataOK(u) /\ DirOK(u)
  BY DEF IInv, CallOK
<1>3. CASE u = t
  BY <1>2, <1>3
<1>4. CASE u # t
  <2>1. pc[u] = "idle" /\ pc[t] = "idle"
    BY <1>1, <1>2, <1>4 DEF Sole
  <2>2. Due(t) = Claimed(entries) /\ Due(u) = Claimed(entries)
    BY <2>1 DEF Due, Gone, Taken, Freeing, Changing, Marking, Filling
  <2> QED BY <1>1, <1>2, <2>1, <2>2
          DEF LocalsOK, MarksOK, DataOK, DirOK, Freeing, Changing, Marking, Filling, Saving
<1> QED BY <1>3, <1>4

(* What a step finds and must leave.                                       *)
RamTyped ==
  /\ entries \in [Index -> Entry] /\ fileCount \in 0 .. MaxFiles
  /\ cwd \in Index \cup {Root} /\ \A i \in Index : BlocksOf(entries[i]) \subseteq Blocks
DiskTyped ==
  /\ disk \in [count : 0 .. MaxFiles, dir : [Index -> Entry], bitmap : SUBSET Blocks, data : Held]
  /\ \A i \in Index : BlocksOf(disk.dir[i]) \subseteq Blocks
PastTyped ==
  /\ want \in [Index -> Contents \cup {None}] /\ touched \subseteq Index
  /\ health \in {"good", "leaky", "bad"}
CallTyped ==
  /\ pc \in [Tasks -> Labels] /\ op \in [Tasks -> Ops]
  /\ \A t \in Tasks : pc[t] = "idle" => op[t] = NoOp
Typed == RamTyped /\ DiskTyped /\ PastTyped /\ CallTyped
Ready(t) == /\ Typed /\ TableOK
            /\ Sole(t) /\ LocalsOK(t) /\ MarksOK(t) /\ DataOK(t) /\ DirOK(t)

LEMMA TypedIsTypesOK == /\ Typed <=> TypesOK
                        /\ Typed' => TypesOK'
BY DEF Typed, RamTyped, DiskTyped, PastTyped, CallTyped, TypesOK, TypeOK

LEMMA ReadyIsIInv ==
  ASSUME NEW t \in Tasks
  PROVE  /\ OneCall /\ IInv /\ Turn(t) => Ready(t)
         /\ Ready(t)' => IInv'
BY TurnIsSole, TypedIsTypesOK DEF Ready, IInv, CallOK

(* A call goes on to its next phase, with its locals.                      *)
LEMMA CallMoves ==
  ASSUME NEW t \in Tasks, CallTyped, Sole(t), NEW l \in Labels, NEW o \in Ops, l = "idle" => o = NoOp,
         pc' = [pc EXCEPT ![t] = l], op' = [op EXCEPT ![t] = o]
  PROVE  CallTyped' /\ Sole(t)' /\ pc'[t] = l /\ op'[t] = o
BY DEF CallTyped, Sole

(* ... with its counter set.                                               *)
LEMMA CallAdvances ==
  ASSUME NEW t \in Tasks, CallTyped, Sole(t), NEW l \in Labels, l # "idle", NEW v \in Nat,
         pc' = [pc EXCEPT ![t] = l], op' = [op EXCEPT ![t].k = v]
  PROVE  /\ CallTyped' /\ Sole(t)' /\ pc'[t] = l /\ op'[t] \in Ops
         /\ op'[t].k = v /\ op'[t].i = op[t].i /\ op'[t].kind = op[t].kind
         /\ op'[t].len = op[t].len /\ op'[t].content = op[t].content
         /\ op'[t].end = op[t].end /\ op'[t].start = op[t].start
         /\ op'[t].image = op[t].image /\ op'[t].count = op[t].count
<1> DEFINE o == [op[t] EXCEPT !.k = v]
<1>1. op[t] \in Ops /\ op \in [Tasks -> Ops]
  BY DEF CallTyped
<1>2. op' = [op EXCEPT ![t] = o]
  BY <1>1
<1>3. o \in Ops
  BY <1>1 DEF Ops
<1>4. /\ o.k = v /\ o.i = op[t].i /\ o.kind = op[t].kind /\ o.len = op[t].len
      /\ o.content = op[t].content /\ o.end = op[t].end /\ o.start = op[t].start
      /\ o.image = op[t].image /\ o.count = op[t].count
  BY <1>1 DEF Ops
<1> HIDE DEF o
<1>5. CallTyped' /\ Sole(t)' /\ pc'[t] = l /\ op'[t] = o
  BY <1>2, <1>3, CallMoves
<1> QED BY <1>3, <1>4, <1>5

LEMMA CallReturns ==
  ASSUME NEW t \in Tasks, CallTyped, Sole(t), Return(t)
  PROVE  CallTyped' /\ Sole(t)' /\ pc'[t] = "idle" /\ op'[t] = NoOp
BY CallMoves, NoOpTyped DEF Return, Goto, Labels

(* The end of a call: nothing is given back or taken any more.             *)
LEMMA IdleOK ==
  ASSUME NEW t \in Tasks, pc'[t] = "idle",
         health' # "bad" =>
           /\ Apart(entries') /\ Claimed(entries') \subseteq disk'.bitmap
           /\ health' = "good" => disk'.bitmap = Claimed(entries')
           /\ \A i \in Index : want'[i] # None => \A b \in BlocksOf(entries'[i]) : disk'.data[b] = want'[i]
  PROVE  LocalsOK(t)' /\ MarksOK(t)' /\ DataOK(t)' /\ DirOK(t)'
<1>1. Due(t)' = Claimed(entries')
  BY DEF Due, Gone, Taken, Freeing, Changing, Marking, Filling
<1> QED BY <1>1
        DEF LocalsOK, MarksOK, DataOK, DirOK, Freeing, Changing, Marking, Filling, Saving

(* ... and its beginning, or what it finds when it only creates.           *)
LEMMA IdleFinds ==
  ASSUME NEW t \in Tasks, pc[t] \in {"idle", "make"}, Ready(t), health # "bad"
  PROVE  /\ Apart(entries) /\ Claimed(entries) \subseteq disk.bitmap
         /\ health = "good" => disk.bitmap = Claimed(entries)
         /\ \A i \in Index : want[i] # None => \A b \in BlocksOf(entries[i]) : disk.data[b] = want[i]
<1>1. Due(t) = Claimed(entries)
  BY DEF Due, Gone, Taken, Freeing, Changing, Marking, Filling
<1> QED BY <1>1 DEF Ready, MarksOK, DataOK, Freeing, Changing, Marking, Filling

-----------------------------------------------------------------------------
(* THE STEPS, one lemma for each                                           *)

(* The first free entry is at most the one behind the last.                *)
LEMMA FreeIndexIs ==
  ASSUME Typed, TableOK, NEW i \in FreeIndex
  PROVE  i \in Index /\ entries[i].name = None /\ i <= fileCount /\ i < MaxFiles
<1>1. i \in Index /\ entries[i].name = None
  BY LowestOf DEF FreeIndex
<1>2. i \in Nat /\ i < MaxFiles /\ fileCount \in Nat /\ fileCount <= MaxFiles
  BY <1>1, Sizes DEF Index, Typed, RamTyped
<1>3. CASE fileCount \in Index
  <2>1. entries[fileCount].name = None
    BY <1>2, <1>3, EntryTyped DEF TableOK
  <2>2. i <= fileCount
    BY <1>3, <2>1, LowestOf DEF FreeIndex
  <2> QED BY <1>1, <1>2, <2>2
<1>4. CASE fileCount \notin Index
  <2>1. fileCount = MaxFiles
    BY <1>2, <1>4, Sizes DEF Index
  <2> QED BY <1>1, <1>2, <2>1
<1> QED BY <1>3, <1>4

LEMMA MakeStep ==
  ASSUME NEW t \in Tasks, Ready(t), NEW d, NEW n \in Names, NEW isDir \in BOOLEAN,
         d \in Index \cup {Root}, Make(t, d, n, isDir)
  PROVE  Ready(t)'
<1> DEFINE e == New(n, d, isDir)
<1>1. PICK i \in FreeIndex : Creates(t, i, e)
  BY DEF Make
<1> DEFINE o == [NoOp EXCEPT !.kind = "make", !.i = i, !.new = e]
<1>2. /\ pc[t] = "idle" /\ op' = [op EXCEPT ![t] = o] /\ pc' = [pc EXCEPT ![t] = "make"]
      /\ UNCHANGED << entries, fileCount, cwd, sectorBuf, disk, want, touched, health >>
  BY <1>1 DEF Make, Begins, At, Creates, Goto, ram, past
<1>3. e \in Entry /\ e.name = n /\ BlocksOf(e) = {}
  BY EntryTyped, Sizes DEF Entry, New, BlocksOf
<1>4. i \in Index
  BY LowestOf DEF FreeIndex
<1> HIDE DEF e
<1>5. o \in Ops /\ o.i = i /\ o.new = e /\ o.kind = "make"
  BY <1>3, <1>4, NoOpTyped DEF Ops
<1> HIDE DEF o
<1>6. "make" \in Labels
  BY DEF Labels
<1>7. CallTyped' /\ Sole(t)' /\ pc'[t] = "make" /\ op'[t] = o
  BY <1>2, <1>5, <1>6, CallMoves DEF Ready, Typed
<1>8. Typed' /\ TableOK'
  BY <1>2, <1>7 DEF Ready, Typed, RamTyped, DiskTyped, PastTyped, TableOK
<1>9. FreeIndex' = FreeIndex
  BY <1>2 DEF FreeIndex
<1>10. LocalsOK(t)'
  BY <1>3, <1>5, <1>7, <1>9 DEF LocalsOK, Changing, Freeing, Marking, Filling, Saving
<1>11. MarksOK(t)' /\ DataOK(t)' /\ DirOK(t)'
  <2>1. Due(t)' = Claimed(entries)
    BY <1>2, <1>7 DEF Due, Gone, Taken, Freeing, Changing, Marking, Filling
  <2> QED BY <1>2, <1>7, <2>1, IdleFinds
          DEF MarksOK, DataOK, DirOK, Freeing, Changing, Marking, Filling, Saving
<1> QED BY <1>7, <1>8, <1>10, <1>11 DEF Ready

LEMMA InsertStep ==
  ASSUME NEW t \in Tasks, Ready(t), Insert(t)
  PROVE  Ready(t)'
<1> DEFINE i == op[t].i
           e == op[t].new
<1>0. i \in FreeIndex /\ e.name \in Names /\ BlocksOf(e) = {} /\ e \in Entry
  BY DEF Insert, At, Ready, LocalsOK, Typed, CallTyped, Ops
<1>01. /\ entries' = [entries EXCEPT ![i] = e]
       /\ fileCount' = IF i >= fileCount THEN i + 1 ELSE fileCount
       /\ want' = [want EXCEPT ![i] = None]
       /\ touched' = touched \cup {i}
  BY DEF Insert, Touch
<1>02. CallTyped' /\ Sole(t)' /\ pc'[t] = "idle" /\ op'[t] = NoOp
  BY CallReturns DEF Insert, Ready, Typed
<1>1. pc[t] = "make" /\ UNCHANGED << cwd, disk, health >>
  BY DEF Insert, At
<1> HIDE DEF i, e
<1>2. i \in Index /\ entries[i].name = None /\ i <= fileCount /\ i < MaxFiles
  BY <1>0, FreeIndexIs DEF Ready
<1>3. /\ i \in Nat /\ fileCount \in Nat /\ fileCount <= MaxFiles /\ MaxFiles \in Nat
      /\ entries \in [Index -> Entry] /\ want \in [Index -> Contents \cup {None}]
  BY <1>2, Sizes DEF Ready, Typed, RamTyped, PastTyped
<1>4. e \in Entry /\ e.name # None
  BY <1>0, Sizes
<1>5. BlocksOf(e) = {}
  BY <1>0
<1>6. /\ entries'[i] = e /\ \A j \in Index : j # i => entries'[j] = entries[j]
      /\ want'[i] = None /\ \A j \in Index : j # i => want'[j] = want[j]
  BY <1>01, <1>2, <1>3
<1>7. Typed'
  <2>1. fileCount' \in 0 .. MaxFiles
    BY <1>01, <1>2, <1>3
  <2>2. RamTyped'
    BY <1>01, <1>1, <1>2, <1>3, <1>4, <1>5, <1>6, <2>1 DEF Ready, Typed, RamTyped
  <2>3. PastTyped'
    BY <1>01, <1>1, <1>2, <1>3 DEF Ready, Typed, PastTyped
  <2> QED BY <1>02, <1>1, <2>2, <2>3 DEF Ready, Typed, DiskTyped
<1>8. TableOK'
  <2>1. \A j \in Index : j >= fileCount' => entries'[j] = FreeEntry
    BY <1>01, <1>2, <1>3, <1>6, Sizes DEF Ready, TableOK
  <2>2. \A j \in Index : want'[j] # None => entries'[j].name # None
    BY <1>6 DEF Ready, TableOK
  <2>3. ASSUME NEW j \in Index \ touched'
        PROVE  /\ j < fileCount' <=> j < disk'.count
               /\ j < fileCount' => disk'.dir[j] = entries'[j]
    <3>1. j # i /\ j \notin touched
      BY <1>01
    <3>2. j < fileCount' <=> j < fileCount
      BY <1>01, <1>2, <1>3, <3>1, Sizes
    <3> QED BY <1>1, <1>6, <3>1, <3>2 DEF Ready, TableOK
  <2> QED BY <2>1, <2>2, <2>3 DEF TableOK
<1>9. /\ Apart(entries) => Apart(entries')
      /\ Claimed(entries') = Claimed(entries)
  BY <1>01, <1>2, <1>3, <1>4, <1>5, Filled
<1>10. LocalsOK(t)' /\ MarksOK(t)' /\ DataOK(t)' /\ DirOK(t)'
  <2>1. health' # "bad" =>
           /\ Apart(entries') /\ Claimed(entries') \subseteq disk'.bitmap
           /\ health' = "good" => disk'.bitmap = Claimed(entries')
           /\ \A j \in Index : want'[j] # None => \A b \in BlocksOf(entries'[j]) : disk'.data[b] = want'[j]
    BY <1>1, <1>6, <1>9, IdleFinds
  <2> QED BY <1>02, <2>1, IdleOK
<1> QED BY <1>02, <1>7, <1>8, <1>10 DEF Ready

LEMMA CdStep ==
  ASSUME NEW t \in Tasks, Ready(t), NEW n, Cd(t, n) \/ CdUp(t)
  PROVE  Ready(t)'
<1>1. UNCHANGED << entries, fileCount, sectorBuf, disk, pc, op, want, touched, health >> /\ pc[t] = "idle"
  BY DEF Cd, CdUp, past, Begins, At
<1>2. cwd' \in Index \cup {Root}
  <2>1. CASE Cd(t, n)
    BY <2>1, LowestOf DEF Cd, Lookup
  <2>2. CASE CdUp(t)
    <3>1. cwd \in Index /\ entries[cwd].parent \in Index \cup {Root}
      BY <2>2 DEF CdUp, Ready, Typed, RamTyped, Entry
    <3> QED BY <2>2, <3>1 DEF CdUp
  <2> QED BY <2>1, <2>2
<1>3. Typed'
  BY <1>1, <1>2 DEF Ready, Typed, RamTyped, DiskTyped, PastTyped, CallTyped
<1>4. TableOK'
  BY <1>1 DEF Ready, TableOK
<1>5. LocalsOK(t)' /\ MarksOK(t)' /\ DataOK(t)' /\ DirOK(t)'
  BY <1>1, IdleFinds, IdleOK
<1> QED BY <1>1, <1>3, <1>4, <1>5 DEF Ready, Sole

(* mefs_write and mefs_delete begin.                                       *)
LEMMA FreeFirstStep ==
  ASSUME NEW t \in Tasks, Ready(t), pc[t] = "idle", NEW i \in Index, entries[i].name # None,
         NEW o \in Ops, FreeFirst(t, i, o),
         o.i = i, o.kind \in {"write", "delete"}, o.kind = "write" => o.content \in Contents
  PROVE  Ready(t)'
<1> DEFINE e  == entries[i]
           o2 == IF BlocksOf(e) = {} THEN o ELSE [o EXCEPT !.k = e.lba, !.end = e.lba + e.size]
           l  == IF BlocksOf(e) = {} THEN "freed" ELSE "freeRead"
<1>1. /\ op' = [op EXCEPT ![t] = o2] /\ pc' = [pc EXCEPT ![t] = l]
      /\ touched' = touched \cup {i}
      /\ UNCHANGED << entries, fileCount, cwd, sectorBuf, disk, want, health >>
  BY DEF FreeFirst, Goto, Touch, ram
<1>2. e \in Entry
  BY DEF Ready, Typed, RamTyped
<1>3. BlocksOf(e) # {} => /\ e.lba \in Nat /\ e.size \in Nat /\ e.size > 0
                          /\ BlocksOf(e) = Stretch(e.lba, e.lba + e.size)
  BY <1>2, BlocksAreRun
<1>4. o2 \in Ops /\ o2.i = i /\ o2.kind = o.kind /\ o2.content = o.content
  <2>1. CASE BlocksOf(e) = {}
    BY <2>1
  <2>2. CASE BlocksOf(e) # {}
    <3>1. o2 = [o EXCEPT !.k = e.lba, !.end = e.lba + e.size]
      BY <2>2
    <3>2. e.lba \in Nat /\ e.lba + e.size \in Nat
      BY <1>3, <2>2
    <3> HIDE DEF e
    <3> QED BY <3>1, <3>2 DEF Ops
  <2> QED BY <2>1, <2>2
<1>5. BlocksOf(e) # {} => o2.k = e.lba /\ o2.end = e.lba + e.size
  BY DEF Ops
<1>6. l \in Labels /\ l # "idle"
  BY DEF Labels, Changing, Freeing
<1> HIDE DEF o2
<1>7. CallTyped' /\ Sole(t)' /\ pc'[t] = l /\ op'[t] = o2
  BY <1>1, <1>4, <1>6, CallMoves DEF Ready, Typed
<1>8. Typed'
  BY <1>1, <1>7 DEF Ready, Typed, RamTyped, DiskTyped, PastTyped
<1>9. TableOK'
  BY <1>1 DEF Ready, TableOK
<1>10. Mine(t)' = e
  BY <1>1, <1>4, <1>7 DEF Mine
<1>11. LocalsOK(t)'
  <2>1. pc'[t] \in Freeing => o2.k \in Stretch(e.lba, o2.end) /\ BlocksOf(e) # {}
    BY <1>3, <1>5, <1>7 DEF Freeing, Stretch
  <2> QED BY <1>1, <1>4, <1>5, <1>7, <1>10, <2>1
          DEF LocalsOK, Changing, Freeing, Marking, Filling, Saving
<1>12. Due(t)' = Claimed(entries)
  <2>1. CASE BlocksOf(e) = {}
    <3>1. Gone(t)' = {} /\ Taken(t)' = {}
      BY <2>1, <1>7, <1>10 DEF Gone, Taken, Changing, Freeing, Marking, Filling
    <3> QED BY <1>1, <3>1 DEF Due
  <2>2. CASE BlocksOf(e) # {}
    <3>1. Stretch(e.lba, e.lba) = {}
      BY <2>2, <1>3 DEF Stretch
    <3>2. Gone(t)' = {} /\ Taken(t)' = {}
      BY <2>2, <1>5, <1>7, <1>10, <3>1 DEF Gone, Taken, Changing, Freeing, Marking, Filling
    <3> QED BY <1>1, <3>2 DEF Due
  <2> QED BY <2>1, <2>2
<1>13. MarksOK(t)'
  <2>1. pc'[t] \notin {"freeWrite", "markWrite"} \cup Marking \cup Filling
    BY <1>7 DEF Marking, Filling
  <2> QED BY <1>1, <1>12, <2>1, IdleFinds DEF MarksOK
<1>14. DataOK(t)'
  <2>1. pc'[t] # "store" /\ pc'[t] \notin Filling
    BY <1>7 DEF Filling
  <2> QED BY <1>1, <2>1, IdleFinds DEF DataOK
<1>15. DirOK(t)'
  BY <1>7 DEF DirOK, Saving
<1> QED BY <1>7, <1>8, <1>9, <1>11, <1>13, <1>14, <1>15 DEF Ready

LEMMA WriteCallStep ==
  ASSUME NEW t \in Tasks, Ready(t), NEW n \in Names, NEW c \in Contents, NEW len \in 0 .. MaxLen,
         WriteCall(t, n, c, len)
  PROVE  Ready(t)'
<1> DEFINE o(i) == [NoOp EXCEPT !.kind = "write", !.i = i, !.content = c, !.len = len]
<1>1. PICK i \in Find(n) : FreeFirst(t, i, o(i))
  BY DEF WriteCall
<1>2. pc[t] = "idle"
  BY DEF WriteCall, Begins, At
<1>3. i \in Index /\ entries[i].name # None
  BY <1>1, LowestOf DEF Find, Live
<1>4. o(i) \in Ops /\ o(i).i = i /\ o(i).kind = "write" /\ o(i).content \in Contents
  BY <1>3, NoOpTyped DEF Ops
<1> HIDE DEF o
<1> QED BY <1>1, <1>2, <1>3, <1>4, FreeFirstStep

LEMMA DeleteCallStep ==
  ASSUME NEW t \in Tasks, Ready(t), NEW n \in Names, DeleteCall(t, n)
  PROVE  Ready(t)'
<1> DEFINE o(i) == [NoOp EXCEPT !.kind = "delete", !.i = i]
<1>1. PICK i \in Find(n) : FreeFirst(t, i, o(i))
  BY DEF DeleteCall
<1>2. pc[t] = "idle"
  BY DEF DeleteCall, Begins, At
<1>3. i \in Index /\ entries[i].name # None
  BY <1>1, LowestOf DEF Find, Live
<1>4. o(i) \in Ops /\ o(i).i = i /\ o(i).kind = "delete"
  BY <1>3, NoOpTyped DEF Ops
<1> HIDE DEF o
<1> QED BY <1>1, <1>2, <1>3, <1>4, FreeFirstStep

(* What a step that changes blocks knows of its locals.                    *)
LEMMA ChangingFinds ==
  ASSUME NEW t \in Tasks, Ready(t), pc[t] \in Changing
  PROVE  /\ op[t] \in Ops /\ op[t].i \in Index /\ op[t].i \in touched
         /\ Mine(t) \in Entry /\ Mine(t).name # None
         /\ entries \in [Index -> Entry] /\ Mine(t) = entries[op[t].i]
         /\ BlocksOf(Mine(t)) \subseteq Blocks
BY DEF Ready, Typed, RamTyped, CallTyped, LocalsOK, Mine, Ops

(* The bitmap sector comes into the buffer.                                *)
LEMMA BitsRead ==
  ASSUME NEW t \in Tasks, Ready(t), NEW l,
         \/ pc[t] = "freeRead" /\ l = "freeWrite"
         \/ pc[t] = "markRead" /\ l = "markWrite",
         IoWell, sectorBuf' = disk.bitmap, Goto(t, l),
         UNCHANGED << ram, disk, op, want, touched >>
  PROVE  Ready(t)'
<1>1. UNCHANGED << entries, fileCount, cwd, disk, op, want, touched, health >>
  BY DEF ram, IoWell
<1>2. op[t] \in Ops /\ op' = [op EXCEPT ![t] = op[t]] /\ l \in Labels /\ l # "idle"
  BY <1>1 DEF Ready, Typed, CallTyped, Labels, Changing, Freeing, Marking
<1>3. CallTyped' /\ Sole(t)' /\ pc'[t] = l /\ op'[t] = op[t]
  BY <1>2, CallMoves DEF Ready, Typed, Goto
<1>4. Typed'
  BY <1>1, <1>3 DEF Ready, Typed, RamTyped, DiskTyped, PastTyped
<1>5. TableOK'
  BY <1>1 DEF Ready, TableOK
<1>6. Mine(t)' = Mine(t)
  BY <1>1 DEF Mine
<1>7. LocalsOK(t)'
  BY <1>1, <1>3, <1>6 DEF Ready, LocalsOK, Changing, Freeing, Marking, Filling, Saving
<1>8. Due(t)' = Due(t)
  BY <1>1, <1>3, <1>6 DEF Due, Gone, Taken, Changing, Freeing, Marking, Filling
<1>9. MarksOK(t)'
  BY <1>1, <1>3, <1>6, <1>8 DEF Ready, MarksOK, Marking, Filling
<1>10. DataOK(t)' /\ DirOK(t)'
  BY <1>1, <1>3 DEF Ready, DataOK, DirOK, Changing, Freeing, Marking, Filling, Saving
<1> QED BY <1>3, <1>4, <1>5, <1>7, <1>9, <1>10 DEF Ready

(* It does not come: the block stays marked while blocks are given back,   *)
(* and the bitmap is not trusted any more when they are taken.             *)
LEMMA BitsNotRead ==
  ASSUME NEW t \in Tasks, Ready(t), NEW l, NEW h,
         \/ pc[t] = "freeRead" /\ l = "freed" /\ h = "leaky"
         \/ pc[t] = "markRead" /\ l = "fill" /\ h = "bad",
         IoError(h), op' = [op EXCEPT ![t].k = @ + 1],
         Goto(t, IF op[t].k + 1 = op[t].end THEN l ELSE pc[t]),
         UNCHANGED << ram, disk, want, touched >>
  PROVE  Ready(t)'
<1> DEFINE o == op'[t]
           m == IF op[t].k + 1 = op[t].end THEN l ELSE pc[t]
<1>1. /\ UNCHANGED << entries, fileCount, cwd, disk, want, touched >>
      /\ health' = Worse(h)
  BY DEF ram, IoError
<1>2. pc[t] \in Changing
  BY DEF Changing, Freeing, Marking
<1>3. /\ op[t] \in Ops /\ op[t].i \in Index /\ Mine(t) \in Entry /\ Mine(t).name # None
      /\ op[t].k \in Nat /\ op[t].end \in Nat /\ op[t].start \in Nat
  BY <1>2, ChangingFinds DEF Ops
<1>4. m \in Labels /\ m # "idle"
  BY DEF Labels, Changing, Freeing, Marking, Filling
<1>5. /\ o \in Ops /\ o.k = op[t].k + 1 /\ o.i = op[t].i /\ o.kind = op[t].kind /\ o.len = op[t].len
      /\ o.content = op[t].content /\ o.end = op[t].end /\ o.start = op[t].start
      /\ CallTyped' /\ Sole(t)' /\ pc'[t] = m
  <2>1. op[t].k + 1 \in Nat /\ CallTyped /\ Sole(t)
    BY <1>3 DEF Ready, Typed
  <2>2. pc' = [pc EXCEPT ![t] = m] /\ op' = [op EXCEPT ![t].k = op[t].k + 1]
    BY DEF Goto
  <2> HIDE DEF m, o
  <2> QED BY <1>4, <2>1, <2>2, CallAdvances DEF o
<1>7. CallTyped' /\ Sole(t)' /\ pc'[t] = m /\ op'[t] = o
  BY <1>5
<1> HIDE DEF o
<1>8. health' \in {"leaky", "bad"} /\ (health = "bad" => health' = "bad") /\ (h = "bad" => health' = "bad")
  BY <1>1 DEF Worse
<1>9. Typed'
  BY <1>1, <1>7, <1>8 DEF Ready, Typed, RamTyped, DiskTyped, PastTyped
<1>10. TableOK'
  BY <1>1 DEF Ready, TableOK
<1>11. Mine(t)' = Mine(t)
  BY <1>1, <1>5, <1>7 DEF Mine
<1>12. CASE pc[t] = "freeRead"
  <2>1. /\ BlocksOf(Mine(t)) # {} /\ o.end = Mine(t).lba + Mine(t).size
        /\ op[t].k \in Stretch(Mine(t).lba, o.end)
    BY <1>5, <1>12 DEF Ready, LocalsOK, Freeing
  <2>2. /\ Mine(t).lba \in Nat /\ Mine(t).size \in Nat
        /\ BlocksOf(Mine(t)) = Stretch(Mine(t).lba, o.end)
    BY <1>3, <2>1, BlocksAreRun
  <2>3. LocalsOK(t)'
    <3>1. m = "freeRead" => o.k \in Stretch(Mine(t).lba, o.end)
      BY <1>3, <1>5, <1>12, <2>1, <2>2 DEF Stretch
    <3> QED BY <1>1, <1>5, <1>7, <1>11, <1>12, <2>1, <3>1
            DEF Ready, LocalsOK, Changing, Freeing, Marking, Filling, Saving
  <2>4. Due(t)' \subseteq Due(t)
    <3>1. Gone(t) = Stretch(Mine(t).lba, op[t].k) /\ Taken(t) = {} /\ Taken(t)' = {}
      BY <1>7, <1>12 DEF Gone, Taken, Freeing, Marking, Filling
    <3>2. Gone(t)' = Stretch(Mine(t).lba, o.k) \/ Gone(t)' = Stretch(Mine(t).lba, o.end)
      BY <1>7, <1>11, <1>12, <2>2 DEF Gone, Changing, Freeing, Marking, Filling
    <3>3. Gone(t) \subseteq Gone(t)'
      BY <1>3, <1>5, <2>1, <2>2, <3>1, <3>2 DEF Stretch
    <3> QED BY <1>1, <3>1, <3>3 DEF Due
  <2>5. pc'[t] \notin {"freeWrite", "markWrite", "store"} \cup Marking \cup Filling \cup Saving
    BY <1>7, <1>12 DEF Marking, Filling, Saving
  <2>6. MarksOK(t)'
    BY <1>1, <1>8, <2>4, <2>5 DEF Ready, MarksOK
  <2>7. DataOK(t)' /\ DirOK(t)'
    <3>1. pc'[t] \in Changing /\ op'[t].i = op[t].i
      BY <1>5, <1>7, <1>12 DEF Changing, Freeing
    <3>2. DirOK(t)'
      BY <2>5 DEF DirOK, Saving
    <3>3. health' # "bad" => health # "bad"
      BY <1>8
    <3> QED BY <1>1, <1>2, <2>5, <3>1, <3>2, <3>3 DEF Ready, DataOK
  <2> QED BY <1>7, <1>9, <1>10, <2>3, <2>6, <2>7 DEF Ready
<1>13. CASE pc[t] = "markRead"
  <2>1. h = "bad" /\ health' = "bad" /\ m \in {"markRead", "fill"}
    BY <1>8, <1>13
  <2>2. LocalsOK(t)'
    <3>1. /\ op[t].kind = "write" /\ op[t].len > 0 /\ op[t].start \in Blocks /\ op[t].content \in Contents
          /\ op[t].end = op[t].start + op[t].len /\ op[t].end <= Capacity /\ op[t].i \in touched
          /\ op[t].k \in op[t].start .. op[t].end /\ op[t].k # op[t].end
      BY <1>13 DEF Ready, LocalsOK, Changing, Marking
    <3>2. o.k \in op[t].start .. op[t].end /\ (o.k = op[t].end => m = "fill")
      BY <1>3, <1>5, <1>13, <3>1
    <3> QED BY <1>1, <1>3, <1>5, <1>7, <1>11, <2>1, <3>1, <3>2
            DEF LocalsOK, Changing, Freeing, Marking, Filling, Saving
  <2>3. MarksOK(t)' /\ DataOK(t)' /\ DirOK(t)'
    BY <1>7, <2>1 DEF MarksOK, DataOK, DirOK, Saving
  <2> QED BY <1>7, <1>9, <1>10, <2>2, <2>3 DEF Ready
<1> QED BY <1>12, <1>13

LEMMA FreeReadStep ==
  ASSUME NEW t \in Tasks, Ready(t), FreeRead(t)
  PROVE  Ready(t)'
<1>1. pc[t] = "freeRead" /\ ReadBits(t, "freeWrite", "freed", "leaky")
  BY DEF FreeRead, At
<1> QED BY <1>1, BitsRead, BitsNotRead DEF ReadBits

LEMMA MarkReadStep ==
  ASSUME NEW t \in Tasks, Ready(t), MarkRead(t)
  PROVE  Ready(t)'
<1>1. pc[t] = "markRead" /\ ReadBits(t, "markWrite", "fill", "bad")
  BY DEF MarkRead, At
<1> QED BY <1>1, BitsRead, BitsNotRead DEF ReadBits

(* The buffer goes back to the bitmap sector, which is what it was read    *)
(* from, with one bit changed; or it does not.                             *)
LEMMA BitsWritten ==
  ASSUME NEW t \in Tasks, Ready(t), pc[t] \in {"freeWrite", "markWrite"},
         NEW set \in SUBSET Blocks, NEW clear, NEW again \in Changing, NEW done \in Changing,
         NEW h \in {"leaky", "bad"}, WriteBits(t, set, clear, again, done, h)
  PROVE  /\ UNCHANGED << entries, fileCount, cwd, want, touched >>
         /\ disk'.count = disk.count /\ disk'.dir = disk.dir /\ disk'.data = disk.data
         /\ \/ disk'.bitmap = (disk.bitmap \cup set) \ clear /\ health' = health
            \/ /\ disk'.bitmap = disk.bitmap /\ health' = Worse(h)
               /\ health' \in {"leaky", "bad"} /\ (h = "bad" \/ health = "bad" => health' = "bad")
         /\ Typed' /\ TableOK' /\ Sole(t)' /\ pc'[t] = IF op[t].k + 1 = op[t].end THEN done ELSE again
         /\ op'[t].k = (IF op[t].k + 1 = op[t].end THEN op[t].start ELSE op[t].k + 1)
         /\ op'[t].i = op[t].i /\ op'[t].kind = op[t].kind
         /\ op'[t].len = op[t].len /\ op'[t].content = op[t].content
         /\ op'[t].end = op[t].end /\ op'[t].start = op[t].start /\ Mine(t)' = Mine(t)
<1> DEFINE last == op[t].k + 1 = op[t].end
           l == IF last THEN done ELSE again
           v == IF last THEN op[t].start ELSE op[t].k + 1
<1>1. UNCHANGED << entries, fileCount, cwd, want, touched >>
  BY DEF WriteBits, ram
<1>2. op[t] \in Ops /\ op[t].k \in Nat /\ op[t].start \in Nat /\ CallTyped /\ Sole(t)
  BY DEF Ready, Typed, CallTyped, Ops
<1>3. pc' = [pc EXCEPT ![t] = l] /\ op' = [op EXCEPT ![t].k = v]
  <2>1. CASE last
    BY <2>1 DEF WriteBits, Goto
  <2>2. CASE ~ last
    BY <2>2 DEF WriteBits, Goto
  <2> QED BY <2>1, <2>2
<1>4. l \in Labels /\ l # "idle" /\ v \in Nat
  BY <1>2 DEF Labels, Changing, Freeing, Marking, Filling
<1> HIDE DEF l, v
<1>5. /\ CallTyped' /\ Sole(t)' /\ pc'[t] = l
      /\ op'[t].k = v /\ op'[t].i = op[t].i /\ op'[t].kind = op[t].kind
      /\ op'[t].len = op[t].len /\ op'[t].content = op[t].content
      /\ op'[t].end = op[t].end /\ op'[t].start = op[t].start
  BY <1>2, <1>3, <1>4, CallAdvances
<1>6. Bits = {disk.bitmap}
  <2>1. sectorBuf = disk.bitmap /\ disk.bitmap \in SUBSET Blocks
    BY DEF Ready, MarksOK, Typed, DiskTyped
  <2>2. sectorBuf \notin Contents \cup {None}
    BY <2>1, MefsAssumption
  <2> QED BY <2>1, <2>2 DEF Bits
<1>7. disk \in [count : 0 .. MaxFiles, dir : [Index -> Entry], bitmap : SUBSET Blocks, data : Held]
  BY DEF Ready, Typed, DiskTyped
<1>8. /\ disk' \in [count : 0 .. MaxFiles, dir : [Index -> Entry], bitmap : SUBSET Blocks, data : Held]
      /\ disk'.count = disk.count /\ disk'.dir = disk.dir /\ disk'.data = disk.data
      /\ \/ disk'.bitmap = (disk.bitmap \cup set) \ clear /\ health' = health
         \/ disk'.bitmap = disk.bitmap /\ health' = Worse(h)
  <2>1. CASE /\ IoWell
             /\ \E B \in Bits : disk' = [disk EXCEPT !.bitmap = (B \cup set) \ clear]
    <3>1. disk' = [disk EXCEPT !.bitmap = (disk.bitmap \cup set) \ clear] /\ health' = health
      BY <2>1, <1>6 DEF IoWell
    <3>2. (disk.bitmap \cup set) \ clear \in SUBSET Blocks
      BY <1>7
    <3> QED BY <3>1, <3>2, <1>7
  <2>2. CASE IoError(h) /\ UNCHANGED disk
    BY <2>2, <1>7 DEF IoError
  <2> QED BY <2>1, <2>2 DEF WriteBits
<1>9. health' = Worse(h) => /\ health' \in {"leaky", "bad"}
                            /\ h = "bad" \/ health = "bad" => health' = "bad"
  BY DEF Worse
<1>10. Typed'
  <2>1. health' \in {"good", "leaky", "bad"}
    BY <1>8, <1>9 DEF Ready, Typed, PastTyped
  <2> QED BY <1>1, <1>5, <1>8, <2>1 DEF Ready, Typed, RamTyped, DiskTyped, PastTyped
<1>11. TableOK'
  BY <1>1, <1>8 DEF Ready, TableOK
<1>12. Mine(t)' = Mine(t)
  BY <1>1, <1>5 DEF Mine
<1>13. l = (IF last THEN done ELSE again) /\ v = (IF last THEN op[t].start ELSE op[t].k + 1)
  BY DEF l, v
<1>14. /\ UNCHANGED << entries, fileCount, cwd, want, touched >>
       /\ disk'.count = disk.count /\ disk'.dir = disk.dir /\ disk'.data = disk.data
       /\ \/ disk'.bitmap = (disk.bitmap \cup set) \ clear /\ health' = health
          \/ /\ disk'.bitmap = disk.bitmap /\ health' = Worse(h)
             /\ health' \in {"leaky", "bad"} /\ (h = "bad" \/ health = "bad" => health' = "bad")
  BY <1>1, <1>8, <1>9
<1>15. /\ Typed' /\ TableOK' /\ Sole(t)' /\ pc'[t] = IF last THEN done ELSE again
       /\ op'[t].k = (IF last THEN op[t].start ELSE op[t].k + 1)
  BY <1>5, <1>10, <1>11, <1>13
<1>16. /\ op'[t].i = op[t].i /\ op'[t].kind = op[t].kind
       /\ op'[t].len = op[t].len /\ op'[t].content = op[t].content
       /\ op'[t].end = op[t].end /\ op'[t].start = op[t].start /\ Mine(t)' = Mine(t)
  BY <1>5, <1>12
<1> QED BY <1>14, <1>15, <1>16

LEMMA FreeWriteStep ==
  ASSUME NEW t \in Tasks, Ready(t), FreeWrite(t)
  PROVE  Ready(t)'
<1> DEFINE k == op[t].k
<1>1. /\ pc[t] = "freeWrite" /\ pc[t] \in Changing
      /\ WriteBits(t, {}, {k}, "freeRead", "freed", "leaky")
  BY DEF FreeWrite, At, Changing, Freeing
<1>2. /\ UNCHANGED << entries, fileCount, cwd, want, touched >>
      /\ disk'.count = disk.count /\ disk'.dir = disk.dir /\ disk'.data = disk.data
      /\ \/ disk'.bitmap = disk.bitmap \ {k} /\ health' = health
         \/ /\ disk'.bitmap = disk.bitmap
            /\ health' \in {"leaky", "bad"} /\ (health = "bad" => health' = "bad")
      /\ Typed' /\ TableOK' /\ Sole(t)'
      /\ pc'[t] = IF k + 1 = op[t].end THEN "freed" ELSE "freeRead"
      /\ k + 1 # op[t].end => op'[t].k = k + 1
      /\ op'[t].i = op[t].i /\ op'[t].kind = op[t].kind /\ op'[t].content = op[t].content
      /\ op'[t].end = op[t].end /\ Mine(t)' = Mine(t)
  <2>1. /\ {} \in SUBSET Blocks /\ "freeRead" \in Changing /\ "freed" \in Changing
        /\ disk.bitmap \cup {} = disk.bitmap
    BY DEF Changing, Freeing
  <2> HIDE DEF k
  <2>2. pc[t] \in {"freeWrite", "markWrite"} /\ "leaky" \in {"leaky", "bad"}
    BY <1>1
  <2>3. /\ UNCHANGED << entries, fileCount, cwd, want, touched >>
        /\ disk'.count = disk.count /\ disk'.dir = disk.dir /\ disk'.data = disk.data
        /\ \/ disk'.bitmap = (disk.bitmap \cup {}) \ {k} /\ health' = health
           \/ /\ disk'.bitmap = disk.bitmap
              /\ health' \in {"leaky", "bad"} /\ (health = "bad" => health' = "bad")
        /\ Typed' /\ TableOK' /\ Sole(t)'
        /\ pc'[t] = (IF op[t].k + 1 = op[t].end THEN "freed" ELSE "freeRead")
        /\ op'[t].k = (IF op[t].k + 1 = op[t].end THEN op[t].start ELSE op[t].k + 1)
        /\ op'[t].i = op[t].i /\ op'[t].kind = op[t].kind /\ op'[t].content = op[t].content
        /\ op'[t].end = op[t].end /\ Mine(t)' = Mine(t)
    BY <1>1, <2>1, <2>2, BitsWritten
  <2> QED BY <2>1, <2>3 DEF k
<1>3. /\ op[t].kind \in {"write", "delete"} /\ op[t].i \in touched
      /\ Mine(t).name # None /\ (op[t].kind = "write" => op[t].content \in Contents)
      /\ BlocksOf(Mine(t)) # {} /\ op[t].end = Mine(t).lba + Mine(t).size
      /\ k \in Stretch(Mine(t).lba, op[t].end)
  BY <1>1 DEF Ready, LocalsOK, Freeing
<1>4. /\ Mine(t).lba \in Nat /\ Mine(t).size \in Nat /\ k \in Nat
      /\ BlocksOf(Mine(t)) = Stretch(Mine(t).lba, op[t].end)
  <2>1. Mine(t) \in Entry /\ op[t] \in Ops
    BY <1>1, ChangingFinds
  <2> QED BY <2>1, <1>3, BlocksAreRun DEF Ops
<1>5. LocalsOK(t)'
  <2>1. pc'[t] = "freeRead" => op'[t].k \in Stretch(Mine(t).lba, op[t].end)
    BY <1>2, <1>3, <1>4 DEF Stretch
  <2> QED BY <1>2, <1>3, <2>1 DEF LocalsOK, Changing, Freeing, Marking, Filling, Saving
<1>6. Due(t)' = Due(t) \ {k}
  <2>1. Gone(t) = Stretch(Mine(t).lba, k) /\ Taken(t) = {} /\ Taken(t)' = {}
    BY <1>1, <1>2 DEF Gone, Taken, Freeing, Marking, Filling
  <2>2. Gone(t)' = Stretch(Mine(t).lba, k + 1)
    BY <1>2, <1>4 DEF Gone, Changing, Freeing, Marking, Filling
  <2>3. Gone(t)' = Gone(t) \cup {k}
    BY <1>3, <1>4, <2>1, <2>2 DEF Stretch
  <2> QED BY <1>2, <2>1, <2>3 DEF Due
<1>7. pc'[t] \notin {"freeWrite", "markWrite", "store"} \cup Marking \cup Filling \cup Saving
  BY <1>2 DEF Marking, Filling, Saving
<1>8. health' # "bad" => health # "bad"
  BY <1>2
<1>9. MarksOK(t)'
  <2>1. health' # "bad" => Apart(entries') /\ Due(t)' \subseteq disk'.bitmap
    BY <1>2, <1>6, <1>8 DEF Ready, MarksOK
  <2>2. health' = "good" => disk'.bitmap = Due(t)'
    BY <1>2, <1>6 DEF Ready, MarksOK
  <2> QED BY <1>7, <2>1, <2>2 DEF MarksOK
<1>10. DataOK(t)'
  <2>1. pc'[t] \in Changing
    BY <1>2 DEF Changing, Freeing
  <2> QED BY <1>1, <1>2, <1>7, <1>8, <2>1 DEF Ready, DataOK
<1>11. DirOK(t)'
  BY <1>7 DEF DirOK, Saving
<1> QED BY <1>2, <1>5, <1>9, <1>10, <1>11 DEF Ready

LEMMA MarkWriteStep ==
  ASSUME NEW t \in Tasks, Ready(t), MarkWrite(t)
  PROVE  Ready(t)'
<1> DEFINE k == op[t].k
<1>1. /\ pc[t] = "markWrite" /\ pc[t] \in Changing
      /\ WriteBits(t, {k}, {}, "markRead", "fill", "bad")
  BY DEF MarkWrite, At, Changing, Marking
<1>3. /\ op[t].kind = "write" /\ op[t].i \in touched /\ Mine(t).name # None /\ op[t].content \in Contents
      /\ op[t].len > 0 /\ op[t].start \in Blocks
      /\ op[t].end = op[t].start + op[t].len /\ op[t].end <= Capacity
      /\ k \in op[t].start .. op[t].end /\ k # op[t].end
  BY <1>1 DEF Ready, LocalsOK, Marking
<1>4. k \in Nat /\ op[t].start \in Nat /\ op[t].len \in Nat /\ k \in Blocks
  <2>1. op[t] \in Ops
    BY <1>1, ChangingFinds
  <2>2. op[t].start \in Nat /\ op[t].len \in Nat
    BY <2>1, Sizes DEF Ops
  <2> QED BY <1>3, <2>2, Sizes DEF Blocks
<1>2. /\ UNCHANGED << entries, fileCount, cwd, want, touched >>
      /\ disk'.count = disk.count /\ disk'.dir = disk.dir /\ disk'.data = disk.data
      /\ \/ disk'.bitmap = disk.bitmap \cup {k} /\ health' = health
         \/ health' = "bad"
      /\ Typed' /\ TableOK' /\ Sole(t)'
      /\ pc'[t] = (IF k + 1 = op[t].end THEN "fill" ELSE "markRead")
      /\ op'[t].k = (IF k + 1 = op[t].end THEN op[t].start ELSE k + 1)
      /\ op'[t].i = op[t].i /\ op'[t].kind = op[t].kind /\ op'[t].content = op[t].content
      /\ op'[t].len = op[t].len
      /\ op'[t].end = op[t].end /\ op'[t].start = op[t].start /\ Mine(t)' = Mine(t)
  <2>1. /\ {k} \in SUBSET Blocks /\ "markRead" \in Changing /\ "fill" \in Changing
        /\ (disk.bitmap \cup {k}) \ {} = disk.bitmap \cup {k}
    BY <1>4 DEF Changing, Marking, Filling
  <2> HIDE DEF k
  <2>2. pc[t] \in {"freeWrite", "markWrite"} /\ "bad" \in {"leaky", "bad"}
    BY <1>1
  <2> QED BY <1>1, <2>1, <2>2, BitsWritten DEF k
<1>5. LocalsOK(t)'
  <2>1. op'[t].k \in op[t].start .. op[t].end /\ op'[t].k # op[t].end
    BY <1>2, <1>3, <1>4
  <2> QED BY <1>2, <1>3, <2>1 DEF LocalsOK, Changing, Freeing, Marking, Filling, Saving
<1>6. Due(t)' = Due(t) \cup {k}
  <2>1. Gone(t) = BlocksOf(Mine(t)) /\ Taken(t) = Stretch(op[t].start, k)
    BY <1>1 DEF Gone, Taken, Changing, Freeing, Marking, Filling
  <2>2. Taken(t)' = Stretch(op[t].start, k + 1)
    BY <1>2, <1>3, <1>4 DEF Taken, Marking, Filling
  <2>3. Gone(t)' = BlocksOf(Mine(t))
    BY <1>2 DEF Gone, Changing, Freeing, Marking, Filling
  <2>4. Taken(t)' = Taken(t) \cup {k}
    BY <1>3, <1>4, <2>1, <2>2 DEF Stretch
  <2> QED BY <1>2, <2>1, <2>3, <2>4 DEF Due
<1>7. pc'[t] \notin {"freeWrite", "markWrite", "store"} \cup Saving /\ pc'[t] \in Changing
  BY <1>2 DEF Marking, Filling, Saving, Changing
<1>8. health' # "bad" => health' = health /\ health # "bad" /\ disk'.bitmap = disk.bitmap \cup {k}
  BY <1>2
<1>9. MarksOK(t)'
  <2>1. health' # "bad" => Apart(entries') /\ Due(t)' \subseteq disk'.bitmap
    BY <1>2, <1>6, <1>8 DEF Ready, MarksOK
  <2>2. health' = "good" => disk'.bitmap = Due(t)'
    BY <1>2, <1>6, <1>8 DEF Ready, MarksOK
  <2>3. health' # "bad" => Stretch(op[t].start, op[t].end) \cap (Claimed(entries) \ BlocksOf(Mine(t))) = {}
    BY <1>1, <1>8 DEF Ready, MarksOK, Marking
  <2>4. health' # "bad" =>
          Stretch(op'[t].start, op'[t].end) \cap (Claimed(entries') \ BlocksOf(Mine(t)')) = {}
    BY <1>2, <2>3
  <2> QED BY <1>7, <2>1, <2>2, <2>4 DEF MarksOK
<1>10. DataOK(t)'
  <2>1. pc'[t] \in Filling => Stretch(op'[t].start, op'[t].k) = {}
    BY <1>2, <1>4 DEF Stretch, Filling
  <2> QED BY <1>1, <1>2, <1>7, <1>8, <2>1 DEF Ready, DataOK
<1>11. DirOK(t)'
  BY <1>7 DEF DirOK, Saving
<1> QED BY <1>2, <1>5, <1>9, <1>10, <1>11 DEF Ready

(* A call ends that gives its entry other blocks, or none.                 *)
LEMMA CallEnds ==
  ASSUME NEW t \in Tasks, Ready(t), pc[t] \in Changing, Return(t),
         NEW e \in Entry, BlocksOf(e) \subseteq Blocks, e.name # None \/ BlocksOf(e) = {},
         NEW c \in Contents \cup {None}, c # None => e.name # None,
         entries' = [entries EXCEPT ![op[t].i] = e], want' = [want EXCEPT ![op[t].i] = c],
         UNCHANGED << fileCount, cwd, touched, health >>,
         disk' \in [count : 0 .. MaxFiles, dir : [Index -> Entry], bitmap : SUBSET Blocks, data : Held],
         disk'.count = disk.count, disk'.dir = disk.dir, disk'.bitmap = disk.bitmap,
         health # "bad" =>
           /\ BlocksOf(e) \cap (Claimed(entries) \ BlocksOf(Mine(t))) = {}
           /\ Due(t) = (Claimed(entries) \ BlocksOf(Mine(t))) \cup BlocksOf(e)
           /\ \A j \in Index : want'[j] # None => \A b \in BlocksOf(entries'[j]) : disk'.data[b] = want'[j]
  PROVE  Ready(t)'
<1> DEFINE i == op[t].i
<1>1. /\ i \in Index /\ i \in touched /\ Mine(t) = entries[i] /\ entries[i].name # None
      /\ entries \in [Index -> Entry]
  BY ChangingFinds
<1>2. /\ entries'[i] = e /\ \A j \in Index : j # i => entries'[j] = entries[j]
      /\ \A j \in Index : j # i => want'[j] = want[j]
      /\ want'[i] = c
  BY <1>1 DEF Ready, Typed, PastTyped
<1>3. CallTyped' /\ Sole(t)' /\ pc'[t] = "idle"
  BY CallReturns DEF Ready, Typed
<1>4. Typed'
  <2>1. RamTyped'
    BY <1>1, <1>2 DEF Ready, Typed, RamTyped
  <2>2. PastTyped'
    BY <1>1 DEF Ready, Typed, PastTyped
  <2> QED BY <1>3, <2>1, <2>2 DEF Ready, Typed, DiskTyped
<1>5. TableOK'
  <2>1. i < fileCount
    BY <1>1, Sizes, EntryTyped DEF Ready, Typed, RamTyped, TableOK
  <2>2. \A j \in Index : j >= fileCount' => entries'[j] = FreeEntry
    BY <1>1, <1>2, <2>1, Sizes DEF Ready, Typed, RamTyped, TableOK
  <2>3. \A j \in Index : want'[j] # None => entries'[j].name # None
    BY <1>2 DEF Ready, TableOK
  <2>4. \A j \in Index \ touched' : /\ j < fileCount' <=> j < disk'.count
                                    /\ j < fileCount' => disk'.dir[j] = entries'[j]
    BY <1>1, <1>2 DEF Ready, TableOK
  <2> QED BY <2>2, <2>3, <2>4 DEF TableOK
<1>6. health # "bad" => /\ Apart(entries') /\ Claimed(entries') = Due(t)
                        /\ Claimed(entries') \subseteq disk.bitmap
                        /\ health = "good" => disk.bitmap = Claimed(entries')
  <2> SUFFICES ASSUME health # "bad"
               PROVE  /\ Apart(entries') /\ Claimed(entries') = Due(t)
                      /\ Claimed(entries') \subseteq disk.bitmap
                      /\ health = "good" => disk.bitmap = Claimed(entries')
    OBVIOUS
  <2>1. Apart(entries) /\ Due(t) \subseteq disk.bitmap /\ (health = "good" => disk.bitmap = Due(t))
    BY DEF Ready, MarksOK
  <2>2. /\ Apart(entries')
        /\ Claimed(entries') = (Claimed(entries) \ BlocksOf(entries[i])) \cup BlocksOf(e)
    <3>1. BlocksOf(e) \cap (Claimed(entries) \ BlocksOf(entries[i])) = {}
      BY <1>1
    <3>2. i \in Index /\ entries[i].name # None /\ entries \in [Index -> Entry]
      BY <1>1
    <3>3. entries' = [entries EXCEPT ![i] = e] /\ Apart(entries) /\ (e.name # None \/ BlocksOf(e) = {})
      BY <2>1
    <3> HIDE DEF i
    <3> QED BY ONLY <3>1, <3>2, <3>3, Replaced, e \in Entry
  <2> QED BY <1>1, <2>1, <2>2
<1>7. LocalsOK(t)' /\ MarksOK(t)' /\ DataOK(t)' /\ DirOK(t)'
  BY <1>3, <1>6, IdleOK
<1> QED BY <1>3, <1>4, <1>5, <1>7 DEF Ready

(* What the calls on other files are to leave alone.                       *)
LEMMA OthersBlocks ==
  ASSUME NEW t \in Tasks, Ready(t), pc[t] \in Changing, health # "bad",
         NEW j \in Index, j # op[t].i, want[j] # None
  PROVE  \A b \in BlocksOf(entries[j]) : /\ b \in Claimed(entries) \ BlocksOf(Mine(t))
                                         /\ disk.data[b] = want[j]
<1>1. entries[j].name # None /\ Apart(entries)
  BY DEF Ready, TableOK, MarksOK
<1>2. BlocksOf(entries[j]) \cap BlocksOf(Mine(t)) = {}
  BY <1>1, ChangingFinds DEF Apart
<1>3. \A b \in BlocksOf(entries[j]) : b \in Claimed(entries)
  BY <1>1, ClaimedBy
<1>4. \A b \in BlocksOf(entries[j]) : disk.data[b] = want[j]
  BY DEF Ready, DataOK
<1> QED BY <1>2, <1>3, <1>4

LEMMA DeleteStep ==
  ASSUME NEW t \in Tasks, Ready(t), DeleteEntry(t) \/ Truncate(t)
  PROVE  Ready(t)'
<1> DEFINE e == IF DeleteEntry(t) THEN [Mine(t) EXCEPT !.name = None, !.size = 0, !.lba = None]
                ELSE [Mine(t) EXCEPT !.size = 0, !.lba = None]
<1>1. /\ pc[t] = "freed" /\ pc[t] \in Changing /\ Return(t)
      /\ UNCHANGED << fileCount, cwd, disk, touched, health >>
      /\ want' = [want EXCEPT ![op[t].i] = None]
  BY DEF DeleteEntry, Truncate, At, Changing
<1>2. /\ op[t].i \in Index /\ Mine(t) \in Entry /\ Mine(t) = entries[op[t].i]
      /\ entries \in [Index -> Entry]
  BY <1>1, ChangingFinds
<1>3. entries' = [entries EXCEPT ![op[t].i] = e]
  BY <1>2 DEF DeleteEntry, Truncate
<1>4. e \in Entry /\ e.size = 0
  <2>1. 0 \in 0 .. MaxLen
    BY Sizes
  <2>2. CASE DeleteEntry(t)
    BY <1>2, <2>1, <2>2 DEF Entry
  <2>3. CASE ~ DeleteEntry(t)
    BY <1>2, <2>1, <2>3 DEF Entry
  <2> QED BY <2>2, <2>3
<1>5. BlocksOf(e) = {}
  BY <1>4 DEF BlocksOf
<1> HIDE DEF e
<1>6. Due(t) = Claimed(entries) \ BlocksOf(Mine(t))
  BY <1>1 DEF Due, Gone, Taken, Changing, Freeing, Marking, Filling
<1>7. ASSUME health # "bad", NEW j \in Index, want'[j] # None, NEW b \in BlocksOf(entries'[j])
      PROVE  disk'.data[b] = want'[j]
  <2>1. want \in [Index -> Contents \cup {None}]
    BY DEF Ready, Typed, PastTyped
  <2>2. j # op[t].i
    BY <1>1, <1>7, <2>1
  <2>3. want'[j] = want[j] /\ entries'[j] = entries[j]
    BY <1>1, <1>2, <1>3, <2>1, <2>2
  <2> QED BY <1>1, <1>7, <2>2, <2>3, OthersBlocks
<1>8. disk' \in [count : 0 .. MaxFiles, dir : [Index -> Entry], bitmap : SUBSET Blocks, data : Held]
  BY <1>1 DEF Ready, Typed, DiskTyped
<1> QED BY <1>1, <1>3, <1>4, <1>5, <1>6, <1>7, <1>8, CallEnds

LEMMA AllocStep ==
  ASSUME NEW t \in Tasks, Ready(t), Alloc(t)
  PROVE  Ready(t)'
<1>1. /\ pc[t] = "freed" /\ pc[t] \in Changing /\ op[t].kind = "write" /\ op[t].len > 0
      /\ Goto(t, "markRead") /\ sectorBuf' = disk.bitmap
      /\ UNCHANGED << entries, fileCount, cwd, disk, want, touched >>
  BY DEF Alloc, At, Changing, ram
<1>2. /\ op[t] \in Ops /\ op[t].i \in touched /\ Mine(t).name # None /\ op[t].len \in Nat
      /\ op[t].content \in Contents
  <2>1. op[t] \in Ops /\ op[t].i \in touched /\ Mine(t).name # None
    BY <1>1, ChangingFinds
  <2> QED BY <1>1, <2>1, Sizes DEF Ops, Ready, LocalsOK
<1>3. PICK s \in Blocks :
        /\ op' = [op EXCEPT ![t].k = s, ![t].start = s, ![t].end = s + op[t].len]
        /\ s + op[t].len <= Capacity
        /\ \/ UNCHANGED health /\ (s .. s + op[t].len - 1) \cap disk.bitmap = {}
           \/ health' = "bad"
  <2>1. CASE /\ IoWell
             /\ \E s \in Lowest(Runs(disk.bitmap, op[t].len)) :
                  op' = [op EXCEPT ![t].k = s, ![t].start = s, ![t].end = s + op[t].len]
    BY <2>1, LowestOf DEF IoWell, Runs
  <2>2. CASE /\ IoError("bad")
             /\ \E b \in disk.bitmap : \E s \in Lowest(Runs(disk.bitmap \ {b}, op[t].len)) :
                  op' = [op EXCEPT ![t].k = s, ![t].start = s, ![t].end = s + op[t].len]
    <3>1. health' = "bad"
      BY <2>2 DEF IoError, Worse
    <3>2. PICK b \in disk.bitmap : \E s \in Lowest(Runs(disk.bitmap \ {b}, op[t].len)) :
            op' = [op EXCEPT ![t].k = s, ![t].start = s, ![t].end = s + op[t].len]
      BY <2>2
    <3>3. \A s \in Lowest(Runs(disk.bitmap \ {b}, op[t].len)) :
            s \in Blocks /\ s + op[t].len <= Capacity
      BY LowestOf DEF Runs
    <3> QED BY <3>1, <3>2, <3>3
  <2> QED BY <2>1, <2>2 DEF Alloc
<1> DEFINE o == [op[t] EXCEPT !.k = s, !.start = s, !.end = s + op[t].len]
<1>4. s \in Nat /\ s + op[t].len \in Nat
  BY <1>2, Sizes
<1>5. op' = [op EXCEPT ![t] = o]
  BY <1>3 DEF Ready, Typed, CallTyped
<1>6. o \in Ops
  BY <1>2, <1>4 DEF Ops
<1>7. /\ o.k = s /\ o.start = s /\ o.end = s + op[t].len /\ o.i = op[t].i
      /\ o.len = op[t].len /\ o.kind = op[t].kind /\ o.content = op[t].content
  BY <1>2 DEF Ops
<1> HIDE DEF o
<1>8. CallTyped' /\ Sole(t)' /\ pc'[t] = "markRead" /\ op'[t] = o
  <2>1. "markRead" \in Labels
    BY DEF Labels, Changing, Marking
  <2> QED BY <1>1, <1>5, <1>6, <2>1, CallMoves DEF Ready, Typed, Goto
<1>9. Typed'
  <2>1. health' \in {"good", "leaky", "bad"}
    BY <1>3 DEF Ready, Typed, PastTyped
  <2> QED BY <1>1, <1>8, <2>1 DEF Ready, Typed, RamTyped, DiskTyped, PastTyped
<1>10. TableOK'
  BY <1>1 DEF Ready, TableOK
<1>11. Mine(t)' = Mine(t)
  BY <1>1, <1>7, <1>8 DEF Mine
<1>12. LocalsOK(t)'
  <2>1. s \in s .. s + op[t].len /\ s # s + op[t].len
    BY <1>1, <1>2, <1>4
  <2> QED BY <1>1, <1>2, <1>3, <1>7, <1>8, <1>11, <2>1
          DEF LocalsOK, Changing, Freeing, Marking, Filling, Saving
<1>13. Due(t) = Claimed(entries) \ BlocksOf(Mine(t)) /\ Due(t)' = Due(t)
  <2>1. Gone(t) = BlocksOf(Mine(t)) /\ Taken(t) = {} /\ Gone(t)' = BlocksOf(Mine(t))
    BY <1>1, <1>8, <1>11 DEF Gone, Taken, Changing, Freeing, Marking, Filling
  <2>2. Taken(t)' = {}
    BY <1>4, <1>7, <1>8 DEF Taken, Marking, Stretch
  <2> QED BY <1>1, <2>1, <2>2 DEF Due
<1>14. MarksOK(t)'
  <2>1. CASE health' = "bad"
    BY <1>8, <2>1 DEF MarksOK
  <2>2. CASE health' # "bad"
    <3>1. /\ health' = health /\ health # "bad"
          /\ Stretch(s, s + op[t].len) \cap disk.bitmap = {}
      <4>1. health' = health /\ (s .. s + op[t].len - 1) \cap disk.bitmap = {}
        BY <1>3, <2>2
      <4>2. Stretch(s, s + op[t].len) = s .. s + op[t].len - 1
        BY <1>2, <1>4 DEF Stretch
      <4> QED BY <2>2, <4>1, <4>2
    <3>2. Apart(entries) /\ Due(t) \subseteq disk.bitmap /\ (health = "good" => disk.bitmap = Due(t))
      BY <3>1 DEF Ready, MarksOK
    <3> QED BY <1>1, <1>7, <1>8, <1>11, <1>13, <3>1, <3>2 DEF MarksOK
  <2> QED BY <2>1, <2>2
<1>15. DataOK(t)'
  <2>1. pc'[t] \in Changing /\ pc'[t] \notin Filling /\ pc'[t] # "store"
    BY <1>8 DEF Changing, Marking, Filling
  <2>2. health' # "bad" => health # "bad"
    BY <1>3
  <2> QED BY <1>1, <1>7, <1>8, <2>1, <2>2 DEF Ready, DataOK
<1>16. DirOK(t)'
  BY <1>8 DEF DirOK, Saving
<1> QED BY <1>8, <1>9, <1>10, <1>12, <1>14, <1>15, <1>16 DEF Ready

(* No room, or no disk any more: the entry keeps what it had, which is     *)
(* nothing unless the bitmap is wrong from here on.                        *)
LEMMA CallFails ==
  ASSUME NEW t \in Tasks, Ready(t), AllocFails(t) \/ StoreFails(t)
  PROVE  Ready(t)'
<1>1. /\ pc[t] \in {"freed", "store"} /\ pc[t] \in Changing /\ Return(t)
      /\ UNCHANGED << entries, fileCount, cwd, disk, want, touched >>
      /\ health' \in {health, "leaky", "bad"}
      /\ health' # "bad" => health # "bad" /\ BlocksOf(Mine(t)) = {}
      /\ pc[t] = "store" => health' # "good"
  BY DEF AllocFails, StoreFails, At, Changing, Filling, ram, IoError, Worse, Mine, Ready, Typed, PastTyped
<1>2. CallTyped' /\ Sole(t)' /\ pc'[t] = "idle"
  BY <1>1, CallReturns DEF Ready, Typed
<1>3. Typed'
  BY <1>1, <1>2 DEF Ready, Typed, RamTyped, DiskTyped, PastTyped
<1>4. TableOK'
  BY <1>1 DEF Ready, TableOK
<1>5. ASSUME health' # "bad"
      PROVE  /\ Apart(entries) /\ Claimed(entries) \subseteq disk.bitmap
             /\ health' = "good" => disk.bitmap = Claimed(entries)
             /\ \A j \in Index : want[j] # None => \A b \in BlocksOf(entries[j]) : disk.data[b] = want[j]
  <2>1. health # "bad" /\ BlocksOf(Mine(t)) = {} /\ Mine(t) = entries[op[t].i]
    BY <1>1, <1>5 DEF Mine
  <2>2. Apart(entries) /\ Due(t) \subseteq disk.bitmap /\ (health = "good" => disk.bitmap = Due(t))
    BY <2>1 DEF Ready, MarksOK
  <2>3. Gone(t) = {} /\ Claimed(entries) \subseteq Due(t)
    BY <1>1, <2>1 DEF Due, Gone, Changing, Freeing, Filling
  <2>4. pc[t] = "freed" => Due(t) = Claimed(entries)
    BY <2>3 DEF Due, Taken, Marking, Filling
  <2>5. \A j \in Index : want[j] # None => \A b \in BlocksOf(entries[j]) : disk.data[b] = want[j]
    BY <1>1, <2>1, OthersBlocks
  <2>6. health' = "good" => health = "good" /\ pc[t] = "freed"
    BY <1>1
  <2> QED BY <2>2, <2>3, <2>4, <2>5, <2>6
<1>6. LocalsOK(t)' /\ MarksOK(t)' /\ DataOK(t)' /\ DirOK(t)'
  BY <1>1, <1>2, <1>5, IdleOK
<1> QED BY <1>2, <1>3, <1>4, <1>6 DEF Ready

LEMMA FillStep ==
  ASSUME NEW t \in Tasks, Ready(t), Fill(t)
  PROVE  Ready(t)'
<1> DEFINE v == IF op[t].k < op[t].start \/ op[t].k >= op[t].end THEN op[t].start ELSE op[t].k
<1>1. /\ pc[t] = "fill" /\ pc[t] \in Changing /\ pc[t] \in Filling
      /\ sectorBuf' = op[t].content /\ Goto(t, "store")
      /\ UNCHANGED << entries, fileCount, cwd, disk, want, touched, health >>
  BY DEF Fill, At, Changing, Filling, ram, past
<1>2. /\ op[t] \in Ops /\ op \in [Tasks -> Ops] /\ op[t].k \in Nat /\ op[t].start \in Nat /\ op[t].end \in Nat
      /\ op[t].len \in Nat
  BY Sizes DEF Ready, Typed, CallTyped, Ops
<1>3. op' = [op EXCEPT ![t].k = v] /\ v \in Nat
  BY <1>2 DEF Fill
<1>4. /\ op[t].kind = "write" /\ op[t].i \in touched /\ Mine(t).name # None /\ op[t].content \in Contents
      /\ op[t].len > 0 /\ op[t].start \in Blocks /\ op[t].end = op[t].start + op[t].len
      /\ op[t].end <= Capacity /\ op[t].k \in op[t].start .. op[t].end
      /\ op[t].k = op[t].end => health = "bad"
  BY <1>1 DEF Ready, LocalsOK, Filling
<1>5. v \in op[t].start .. op[t].end /\ v # op[t].end /\ (health # "bad" => v = op[t].k)
  BY <1>2, <1>4
<1> HIDE DEF v
<1>6. /\ CallTyped' /\ Sole(t)' /\ pc'[t] = "store" /\ op'[t].k = v /\ op'[t].i = op[t].i
      /\ op'[t].kind = op[t].kind /\ op'[t].len = op[t].len /\ op'[t].content = op[t].content
      /\ op'[t].end = op[t].end /\ op'[t].start = op[t].start
  <2>1. "store" \in Labels /\ CallTyped /\ Sole(t)
    BY DEF Labels, Changing, Filling, Ready, Typed
  <2> QED BY <1>1, <1>3, <2>1, CallAdvances DEF Goto
<1>7. Typed'
  BY <1>1, <1>6 DEF Ready, Typed, RamTyped, DiskTyped, PastTyped
<1>8. TableOK'
  BY <1>1 DEF Ready, TableOK
<1>9. Mine(t)' = Mine(t)
  BY <1>1, <1>6 DEF Mine
<1>10. LocalsOK(t)'
  BY <1>1, <1>4, <1>5, <1>6, <1>9 DEF LocalsOK, Changing, Freeing, Marking, Filling, Saving
<1>11. Due(t)' = Due(t)
  BY <1>1, <1>6, <1>9 DEF Due, Gone, Taken, Changing, Freeing, Marking, Filling
<1>12. MarksOK(t)'
  BY <1>1, <1>6, <1>9, <1>11 DEF Ready, MarksOK, Filling
<1>13. DataOK(t)'
  <2>1. pc'[t] \in Changing
    BY <1>6 DEF Changing, Filling
  <2> QED BY <1>1, <1>5, <1>6, <2>1 DEF Ready, DataOK
<1>14. DirOK(t)'
  BY <1>6 DEF DirOK, Saving
<1> QED BY <1>6, <1>7, <1>8, <1>10, <1>12, <1>13, <1>14 DEF Ready

(* What the store of a block finds, and what it leaves on the disk.        *)
LEMMA StoreFinds ==
  ASSUME NEW t \in Tasks, Ready(t), Store(t)
  PROVE  /\ pc[t] = "store" /\ pc[t] \in Changing /\ op[t] \in Ops /\ op[t].k \in Nat
         /\ op[t].kind = "write" /\ op[t].i \in touched /\ op[t].content \in Contents
         /\ op[t].start \in Nat /\ op[t].len \in Nat /\ op[t].start \in Blocks
         /\ op[t].len > 0 /\ op[t].end = op[t].start + op[t].len /\ op[t].end <= Capacity
         /\ op[t].k \in Stretch(op[t].start, op[t].end)
         /\ Due(t) = (Claimed(entries) \ BlocksOf(Mine(t))) \cup Stretch(op[t].start, op[t].end)
         /\ UNCHANGED << fileCount, cwd, touched, health >>
         /\ disk' \in [count : 0 .. MaxFiles, dir : [Index -> Entry], bitmap : SUBSET Blocks, data : Held]
         /\ disk'.count = disk.count /\ disk'.dir = disk.dir /\ disk'.bitmap = disk.bitmap
         /\ health # "bad" =>
              /\ Stretch(op[t].start, op[t].end) \cap (Claimed(entries) \ BlocksOf(Mine(t))) = {}
              /\ \A b \in Stretch(op[t].start, op[t].k + 1) : disk'.data[b] = op[t].content
              /\ \A j \in Index : want[j] # None /\ j # op[t].i =>
                   \A b \in BlocksOf(entries[j]) : disk'.data[b] = want[j]
<1>1. /\ pc[t] = "store" /\ pc[t] \in Changing /\ pc[t] \in Filling
      /\ UNCHANGED << fileCount, cwd, touched, health >>
  BY DEF Store, At, Changing, Filling
<1>2. /\ op[t] \in Ops /\ op[t].k \in Nat /\ op[t].start \in Nat /\ op[t].end \in Nat
      /\ op[t].len \in Nat
  BY Sizes DEF Ready, Typed, CallTyped, Ops
<1>4. /\ op[t].kind = "write" /\ op[t].i \in touched /\ op[t].content \in Contents
      /\ op[t].len > 0 /\ op[t].start \in Blocks /\ op[t].end = op[t].start + op[t].len
      /\ op[t].end <= Capacity /\ op[t].k \in op[t].start .. op[t].end /\ op[t].k # op[t].end
  BY <1>1 DEF Ready, LocalsOK, Filling
<1>5. op[t].k \in Stretch(op[t].start, op[t].end) /\ op[t].k \in Blocks
  BY <1>2, <1>4, Sizes DEF Stretch, Blocks
<1>6. disk' = [disk EXCEPT !.data[op[t].k] = op[t].content]
  <2>1. sectorBuf = op[t].content
    BY <1>1 DEF Ready, DataOK
  <2> QED BY <1>4, <2>1 DEF Store
<1>7. disk \in [count : 0 .. MaxFiles, dir : [Index -> Entry], bitmap : SUBSET Blocks, data : Held]
  BY DEF Ready, Typed, DiskTyped
<1>8. /\ disk' \in [count : 0 .. MaxFiles, dir : [Index -> Entry], bitmap : SUBSET Blocks, data : Held]
      /\ disk'.count = disk.count /\ disk'.dir = disk.dir /\ disk'.bitmap = disk.bitmap
      /\ disk'.data = [disk.data EXCEPT ![op[t].k] = op[t].content]
  <2>1. [disk.data EXCEPT ![op[t].k] = op[t].content] \in Held
    BY <1>4, <1>7 DEF Held
  <2> QED BY <1>6, <1>7, <2>1
<1>9. /\ disk'.data[op[t].k] = op[t].content
      /\ \A b \in Blocks : b # op[t].k => disk'.data[b] = disk.data[b]
  BY <1>5, <1>7, <1>8 DEF Held
<1>10. Due(t) = (Claimed(entries) \ BlocksOf(Mine(t))) \cup Stretch(op[t].start, op[t].end)
  BY <1>1 DEF Due, Gone, Taken, Changing, Freeing, Marking, Filling
<1>11. ASSUME health # "bad"
       PROVE  /\ Stretch(op[t].start, op[t].end) \cap (Claimed(entries) \ BlocksOf(Mine(t))) = {}
              /\ \A b \in Stretch(op[t].start, op[t].k + 1) : disk'.data[b] = op[t].content
              /\ \A j \in Index : want[j] # None /\ j # op[t].i =>
                   \A b \in BlocksOf(entries[j]) : disk'.data[b] = want[j]
  <2>1. Stretch(op[t].start, op[t].end) \cap (Claimed(entries) \ BlocksOf(Mine(t))) = {}
    BY <1>1, <1>11 DEF Ready, MarksOK
  <2>2. \A b \in Stretch(op[t].start, op[t].k) : disk.data[b] = op[t].content
    BY <1>1, <1>11 DEF Ready, DataOK
  <2>3. ASSUME NEW b \in Stretch(op[t].start, op[t].k + 1)
        PROVE  disk'.data[b] = op[t].content
    <3>1. b \in Blocks /\ (b = op[t].k \/ b \in Stretch(op[t].start, op[t].k))
      BY <1>2, <1>4, Sizes DEF Stretch, Blocks
    <3> QED BY <1>9, <2>2, <3>1
  <2>4. ASSUME NEW j \in Index, want[j] # None, j # op[t].i, NEW b \in BlocksOf(entries[j])
        PROVE  disk'.data[b] = want[j]
    <3>1. b \in Claimed(entries) \ BlocksOf(Mine(t)) /\ disk.data[b] = want[j]
      BY <1>1, <1>11, <2>4, OthersBlocks
    <3>2. b \in Blocks /\ b # op[t].k
      BY <1>5, <2>1, <3>1 DEF Ready, Typed, RamTyped
    <3> QED BY <1>9, <3>1, <3>2
  <2> QED BY <2>1, <2>3, <2>4
<1> QED BY <1>1, <1>2, <1>4, <1>5, <1>8, <1>10, <1>11

LEMMA StoreStep ==
  ASSUME NEW t \in Tasks, Ready(t), Store(t)
  PROVE  Ready(t)'
<1>1. CASE op[t].k + 1 = op[t].end
  <2> DEFINE e == [Mine(t) EXCEPT !.size = op[t].len, !.lba = op[t].start]
  <2>1. /\ op[t].i \in Index /\ Mine(t) \in Entry /\ Mine(t) = entries[op[t].i] /\ Mine(t).name # None
        /\ entries \in [Index -> Entry] /\ want \in [Index -> Contents \cup {None}]
    BY StoreFinds, ChangingFinds DEF Ready, Typed, PastTyped
  <2>2. /\ entries' = [entries EXCEPT ![op[t].i] = e]
        /\ want' = [want EXCEPT ![op[t].i] = op[t].content] /\ Return(t)
    BY <1>1, <2>1 DEF Store
  <2>3. e \in Entry /\ e.name # None /\ e.size = op[t].len /\ e.lba = op[t].start
    <3>1. op[t].len \in 0 .. MaxLen /\ op[t].start \in Blocks
      BY StoreFinds DEF Ops
    <3> QED BY <2>1, <3>1 DEF Entry
  <2> HIDE DEF e
  <2>4. BlocksOf(e) = Stretch(op[t].start, op[t].end) /\ BlocksOf(e) \subseteq Blocks
    <3>1. /\ op[t].start \in Nat /\ op[t].len \in Nat /\ op[t].len > 0 /\ op[t].start \in Blocks
          /\ op[t].end = op[t].start + op[t].len /\ op[t].end <= Capacity
      BY StoreFinds
    <3>2. e.lba # None /\ e.size # 0
      BY <2>3, <3>1, Sizes
    <3>3. BlocksOf(e) = Stretch(op[t].start, op[t].end)
      BY <2>3, <3>1, <3>2, BlocksAreRun
    <3> QED BY <3>1, <3>3, Sizes DEF Stretch, Blocks
  <2>5. ASSUME health # "bad", NEW j \in Index, want'[j] # None, NEW b \in BlocksOf(entries'[j])
        PROVE  disk'.data[b] = want'[j]
    <3>1. CASE j = op[t].i
      <4>1. b \in Stretch(op[t].start, op[t].k + 1) /\ want'[j] = op[t].content
        BY <1>1, <2>1, <2>2, <2>4, <2>5, <3>1
      <4> QED BY <2>5, <4>1, StoreFinds
    <3>2. CASE j # op[t].i
      <4>1. want'[j] = want[j] /\ entries'[j] = entries[j]
        BY <2>1, <2>2, <3>2
      <4> QED BY <2>5, <3>2, <4>1, StoreFinds
    <3> QED BY <3>1, <3>2
  <2>6. /\ pc[t] \in Changing /\ op[t].content \in Contents \cup {None}
        /\ UNCHANGED << fileCount, cwd, touched, health >>
        /\ disk' \in [count : 0 .. MaxFiles, dir : [Index -> Entry], bitmap : SUBSET Blocks, data : Held]
        /\ disk'.count = disk.count /\ disk'.dir = disk.dir /\ disk'.bitmap = disk.bitmap
    BY StoreFinds
  <2>7. health # "bad" =>
           /\ BlocksOf(e) \cap (Claimed(entries) \ BlocksOf(Mine(t))) = {}
           /\ Due(t) = (Claimed(entries) \ BlocksOf(Mine(t))) \cup BlocksOf(e)
    BY <2>4, StoreFinds
  <2> QED BY <2>2, <2>3, <2>4, <2>5, <2>6, <2>7, CallEnds
<1>2. CASE op[t].k + 1 # op[t].end
  <2>1. /\ UNCHANGED << entries, want, sectorBuf >> /\ Goto(t, "fill")
        /\ op' = [op EXCEPT ![t].k = op[t].k + 1]
    BY <1>2 DEF Store
  <2>2. /\ CallTyped' /\ Sole(t)' /\ pc'[t] = "fill" /\ op'[t].k = op[t].k + 1 /\ op'[t].i = op[t].i
        /\ op'[t].kind = op[t].kind /\ op'[t].len = op[t].len /\ op'[t].content = op[t].content
        /\ op'[t].end = op[t].end /\ op'[t].start = op[t].start
    <3>1. "fill" \in Labels /\ CallTyped /\ Sole(t) /\ op[t].k + 1 \in Nat
      BY StoreFinds DEF Labels, Changing, Filling, Ready, Typed
    <3> QED BY <2>1, <3>1, CallAdvances DEF Goto
  <2>3. /\ UNCHANGED << fileCount, cwd, touched, health >> /\ pc[t] \in Changing /\ pc[t] = "store"
        /\ disk'.count = disk.count /\ disk'.dir = disk.dir /\ disk'.bitmap = disk.bitmap
    BY StoreFinds
  <2>4. Typed'
    <3>1. disk' \in [count : 0 .. MaxFiles, dir : [Index -> Entry], bitmap : SUBSET Blocks, data : Held]
      BY StoreFinds
    <3> QED BY <2>1, <2>2, <2>3, <3>1 DEF Ready, Typed, RamTyped, DiskTyped, PastTyped
  <2>5. TableOK'
    BY <2>1, <2>3 DEF Ready, TableOK
  <2>6. Mine(t)' = Mine(t)
    BY <2>1, <2>2 DEF Mine
  <2>7. LocalsOK(t)'
    <3>1. op[t].k + 1 \in op[t].start .. op[t].end
      BY <1>2, StoreFinds DEF Stretch
    <3>2. Mine(t).name # None
      BY <2>3, ChangingFinds
    <3> QED BY <1>2, <2>1, <2>2, <2>3, <2>6, <3>1, <3>2, StoreFinds
            DEF LocalsOK, Changing, Freeing, Marking, Filling, Saving
  <2>8. Due(t)' = Due(t)
    BY <2>1, <2>2, <2>3, <2>6 DEF Due, Gone, Taken, Changing, Freeing, Marking, Filling
  <2>9. MarksOK(t)'
    BY <2>1, <2>2, <2>3, <2>6, <2>8 DEF Ready, MarksOK, Filling
  <2>10. DataOK(t)'
    <3>1. health # "bad" =>
            /\ \A b \in Stretch(op[t].start, op[t].k + 1) : disk'.data[b] = op[t].content
            /\ \A j \in Index : want[j] # None /\ j # op[t].i =>
                 \A b \in BlocksOf(entries[j]) : disk'.data[b] = want[j]
      BY StoreFinds
    <3>2. pc'[t] \in Changing
      BY <2>2 DEF Changing, Filling
    <3> QED BY <2>1, <2>2, <2>3, <3>1, <3>2 DEF DataOK
  <2>11. DirOK(t)'
    BY <2>2 DEF DirOK, Saving
  <2> QED BY <2>2, <2>4, <2>5, <2>7, <2>9, <2>10, <2>11 DEF Ready
<1> QED BY <1>1, <1>2

(* A call that leaves the files alone, under way or at its end.            *)
LEMMA QuietFinds ==
  ASSUME NEW t \in Tasks, Ready(t), pc[t] \notin Changing
  PROVE  /\ health # "bad" =>
              /\ Apart(entries) /\ Claimed(entries) \subseteq disk.bitmap
              /\ health = "good" => disk.bitmap = Claimed(entries)
              /\ \A i \in Index : want[i] # None => \A b \in BlocksOf(entries[i]) : disk.data[b] = want[i]
<1>1. Due(t) = Claimed(entries)
  BY DEF Due, Gone, Taken, Freeing, Changing, Marking, Filling
<1> QED BY <1>1 DEF Ready, MarksOK, DataOK

LEMMA QuietOK ==
  ASSUME NEW t \in Tasks, pc'[t] \notin Changing,
         health' # "bad" =>
           /\ Apart(entries') /\ Claimed(entries') \subseteq disk'.bitmap
           /\ health' = "good" => disk'.bitmap = Claimed(entries')
           /\ \A i \in Index : want'[i] # None => \A b \in BlocksOf(entries'[i]) : disk'.data[b] = want'[i]
  PROVE  MarksOK(t)' /\ DataOK(t)'
<1>1. Due(t)' = Claimed(entries')
  BY DEF Due, Gone, Taken, Freeing, Changing, Marking, Filling
<1>2. pc'[t] \notin {"freeWrite", "markWrite", "store"} \cup Marking \cup Filling
  BY DEF Freeing, Changing, Marking, Filling
<1> QED BY <1>1, <1>2 DEF MarksOK, DataOK

(* So many sectors hold the entries in use.                                *)
LEMMA SectorsSuffice ==
  ASSUME NEW n \in Nat
  PROVE  LET end == (n + PerSector - 1) \div PerSector IN
         /\ end \in Nat
         /\ \A i \in Nat : i \div PerSector \in Nat /\ (i < n => i \div PerSector < end)
<1> DEFINE x == n + PerSector - 1  e == x \div PerSector
<1>1. PerSector \in Nat /\ PerSector > 0
  BY Sizes
<1>2. x \in Nat /\ x - PerSector = n - 1
  BY <1>1
<1> HIDE DEF x
<1>3. e \in Int /\ e >= 0 /\ x - PerSector < PerSector * e
  BY <1>1, <1>2, SMTT(30)
<1> HIDE DEF e
<1>4. ASSUME NEW i \in Nat
      PROVE  i \div PerSector \in Nat /\ (i < n => i \div PerSector < e)
  <2> DEFINE d == i \div PerSector
  <2>1. d \in Int /\ d >= 0 /\ PerSector * d <= i
    BY <1>1, SMTT(30)
  <2> HIDE DEF d
  <2>2. ASSUME i < n, d >= e PROVE FALSE
    <3>1. PerSector * (d - e) >= 0
      BY <1>1, <1>3, <2>1, <2>2, SMTT(30)
    <3>2. PerSector * d = PerSector * e + PerSector * (d - e)
      BY <1>1, <1>3, <2>1, SMTT(30)
    <3>3. PerSector * d \in Int /\ PerSector * e \in Int /\ PerSector * (d - e) \in Int
      BY <1>1, <1>3, <2>1, SMTT(30)
    <3> QED BY <1>2, <1>3, <2>1, <2>2, <3>1, <3>2, <3>3
  <2> QED BY <1>3, <2>1, <2>2 DEF d
<1> QED BY <1>3, <1>4 DEF e, x

LEMMA FlushCallStep ==
  ASSUME NEW t \in Tasks, Ready(t), FlushCall(t)
  PROVE  Ready(t)'
<1> DEFINE o == [NoOp EXCEPT !.kind = "flush", !.image = entries,
                   !.count = fileCount, !.end = (fileCount + PerSector - 1) \div PerSector]
<1>1. /\ pc[t] = "idle" /\ op' = [op EXCEPT ![t] = o] /\ pc' = [pc EXCEPT ![t] = "super"]
      /\ UNCHANGED << entries, fileCount, cwd, sectorBuf, disk, want, touched, health >>
  BY DEF FlushCall, Begins, At, Goto, ram, past
<1>2. fileCount \in Nat /\ fileCount \in 0 .. MaxFiles /\ entries \in [Index -> Entry]
  BY DEF Ready, Typed, RamTyped
<1>3. /\ o \in Ops /\ o.kind = "flush" /\ o.image = entries /\ o.count = fileCount /\ o.k = 0
      /\ \A i \in Index : i < fileCount => i \div PerSector < o.end
  <2> DEFINE end == (fileCount + PerSector - 1) \div PerSector
  <2>1. end \in Nat /\ \A i \in Nat : i < fileCount => i \div PerSector < end
    BY <1>2, SectorsSuffice
  <2> HIDE DEF end
  <2>2. o = [NoOp EXCEPT !.kind = "flush", !.image = entries, !.count = fileCount, !.end = end]
    BY DEF end
  <2> HIDE DEF o
  <2>3. o \in Ops
    BY <1>2, <2>1, <2>2, NoOpTyped DEF Ops
  <2>4. o.kind = "flush" /\ o.image = entries /\ o.count = fileCount /\ o.k = 0 /\ o.end = end
    BY <2>2, NoOpTyped DEF Ops
  <2> QED BY <2>1, <2>3, <2>4, Sizes
<1> HIDE DEF o
<1>4. CallTyped' /\ Sole(t)' /\ pc'[t] = "super" /\ op'[t] = o
  <2>1. "super" \in Labels
    BY DEF Labels, Saving
  <2> QED BY <1>1, <1>3, <2>1, CallMoves DEF Ready, Typed
<1>5. Typed'
  BY <1>1, <1>4 DEF Ready, Typed, RamTyped, DiskTyped, PastTyped
<1>6. TableOK'
  BY <1>1 DEF Ready, TableOK
<1>7. pc'[t] \notin Changing /\ pc[t] \notin Changing
  BY <1>1, <1>4 DEF Changing, Freeing, Marking, Filling
<1>8. MarksOK(t)' /\ DataOK(t)'
  BY <1>1, <1>7, QuietFinds, QuietOK
<1>9. LocalsOK(t)' /\ DirOK(t)'
  BY <1>1, <1>3, <1>4 DEF LocalsOK, DirOK, Changing, Freeing, Marking, Filling, Saving
<1> QED BY <1>4, <1>5, <1>6, <1>8, <1>9 DEF Ready

LEMMA FormatCallStep ==
  ASSUME NEW t \in Tasks, Ready(t), FormatCall(t)
  PROVE  Ready(t)'
<1> DEFINE o == [NoOp EXCEPT !.kind = "format", !.end = (MaxFiles + PerSector - 1) \div PerSector]
<1>1. /\ pc[t] = "idle" /\ op' = [op EXCEPT ![t] = o] /\ pc' = [pc EXCEPT ![t] = "zero"]
      /\ entries' = NoEntries /\ fileCount' = 0
      /\ want' = [i \in Index |-> None] /\ touched' = Index /\ health' = "leaky"
      /\ UNCHANGED << cwd, sectorBuf, disk >>
  BY DEF FormatCall, Begins, At, Goto
<1>2. /\ o \in Ops /\ o.kind = "format" /\ o.image = NoEntries /\ o.count = 0 /\ o.k = 0
  <2> DEFINE end == (MaxFiles + PerSector - 1) \div PerSector
  <2>1. end \in Nat
    BY Sizes, SectorsSuffice
  <2> HIDE DEF end
  <2>2. o = [NoOp EXCEPT !.kind = "format", !.end = end]
    BY DEF end
  <2>3. NoOp.image = NoEntries /\ NoOp.count = 0
    BY DEF NoOp
  <2> HIDE DEF o
  <2> QED BY <2>1, <2>2, <2>3, NoOpTyped DEF Ops
<1> HIDE DEF o
<1>3. CallTyped' /\ Sole(t)' /\ pc'[t] = "zero" /\ op'[t] = o
  <2>1. "zero" \in Labels
    BY DEF Labels, Saving
  <2> QED BY <1>1, <1>2, <2>1, CallMoves DEF Ready, Typed
<1>4. \A i \in Index : entries'[i] = FreeEntry
  BY <1>1 DEF NoEntries
<1>5. Typed'
  <2>1. RamTyped'
    BY <1>1, <1>4, EntryTyped, Sizes DEF Ready, Typed, RamTyped
  <2> QED BY <1>1, <1>3, <2>1 DEF Ready, Typed, DiskTyped, PastTyped
<1>6. TableOK'
  BY <1>1, <1>4 DEF TableOK
<1>7. pc'[t] \notin Changing
  BY <1>3 DEF Changing, Freeing, Marking, Filling
<1>8. MarksOK(t)' /\ DataOK(t)'
  BY <1>1, <1>7, NothingClaimed, QuietOK
<1>9. LocalsOK(t)' /\ DirOK(t)'
  <2>1. \A i \in Index : ~ (i < fileCount')
    BY <1>1, Sizes
  <2> QED BY <1>1, <1>2, <1>3, <2>1 DEF LocalsOK, DirOK, Changing, Freeing, Marking, Filling, Saving
<1> QED BY <1>3, <1>5, <1>6, <1>8, <1>9 DEF Ready

(* What is known while the directory is saved.                             *)
LEMMA SavingFinds ==
  ASSUME NEW t \in Tasks, Ready(t), pc[t] \in Saving
  PROVE  /\ op[t] \in Ops /\ op[t].kind \in {"flush", "format"} /\ pc[t] \notin Changing
         /\ op[t].image = entries /\ op[t].count = fileCount /\ op[t].k \in Nat /\ op[t].end \in Nat
         /\ op[t].kind = "format" => /\ entries = NoEntries /\ fileCount = 0 /\ touched = Index
                                     /\ want = [i \in Index |-> None]
         /\ fileCount \in 0 .. MaxFiles
         /\ disk \in [count : 0 .. MaxFiles, dir : [Index -> Entry], bitmap : SUBSET Blocks, data : Held]
<1>1. op[t] \in Ops
  BY DEF Ready, Typed, CallTyped
<1>2. pc[t] \notin Changing
  BY DEF Changing, Saving, Freeing, Marking, Filling
<1> QED BY <1>1, <1>2 DEF Ready, LocalsOK, Typed, DiskTyped, RamTyped, Ops

LEMMA ZeroStep ==
  ASSUME NEW t \in Tasks, Ready(t), Zero(t)
  PROVE  Ready(t)'
<1>1. /\ pc[t] = "zero" /\ pc[t] \in Saving
      /\ disk' = [disk EXCEPT !.bitmap = {}] /\ pc' = [pc EXCEPT ![t] = "super"]
      /\ UNCHANGED << entries, fileCount, cwd, sectorBuf, op, want, touched, health >>
  BY DEF Zero, At, Goto, Saving, ram, past
<1>2. /\ op[t].kind = "format" /\ op[t].image = entries /\ op[t].count = fileCount /\ op[t].k = 0
      /\ entries = NoEntries /\ fileCount = 0 /\ touched = Index /\ want = [i \in Index |-> None]
  BY <1>1 DEF Ready, LocalsOK
<1>3. /\ disk'.count = disk.count /\ disk'.dir = disk.dir /\ disk'.bitmap = {} /\ disk'.data = disk.data
      /\ disk' \in [count : 0 .. MaxFiles, dir : [Index -> Entry], bitmap : SUBSET Blocks, data : Held]
  BY <1>1, SavingFinds
<1>4. CallTyped' /\ Sole(t)' /\ pc'[t] = "super" /\ op'[t] = op[t]
  <2>1. "super" \in Labels /\ op[t] \in Ops /\ op' = [op EXCEPT ![t] = op[t]]
    BY <1>1 DEF Labels, Saving, Ready, Typed, CallTyped
  <2> QED BY <1>1, <2>1, CallMoves DEF Ready, Typed
<1>5. Typed'
  BY <1>1, <1>3, <1>4 DEF Ready, Typed, RamTyped, DiskTyped, PastTyped
<1>6. TableOK'
  BY <1>1, <1>3 DEF Ready, TableOK
<1>7. pc'[t] \notin Changing
  BY <1>4 DEF Changing, Freeing, Marking, Filling
<1>8. MarksOK(t)' /\ DataOK(t)'
  <2>1. Apart(entries') /\ Claimed(entries') = {} /\ \A i \in Index : want'[i] = None
    BY <1>1, <1>2, NothingClaimed
  <2> QED BY <1>3, <1>7, <2>1, QuietOK
<1>9. LocalsOK(t)' /\ DirOK(t)'
  <2>1. \A i \in Index : ~ (i < fileCount')
    BY <1>1, <1>2, Sizes
  <2> QED BY <1>1, <1>2, <1>3, <1>4, <2>1 DEF LocalsOK, DirOK, Changing, Freeing, Marking, Filling, Saving
<1> QED BY <1>4, <1>5, <1>6, <1>8, <1>9 DEF Ready

LEMMA SuperStep ==
  ASSUME NEW t \in Tasks, Ready(t), Super(t)
  PROVE  Ready(t)'
<1>1. /\ pc[t] = "super" /\ pc[t] \in Saving
      /\ disk' = [disk EXCEPT !.count = op[t].count]
      /\ UNCHANGED << entries, fileCount, cwd, want, touched, health >>
  BY DEF Super, At, Saving, ram, past
<1>2. /\ op[t].image = entries /\ op[t].count = fileCount /\ op[t].k = 0 /\ pc[t] \notin Changing
      /\ op[t].kind \in {"flush", "format"}
      /\ op[t].kind = "format" => /\ entries = NoEntries /\ fileCount = 0 /\ touched = Index
                                  /\ want = [i \in Index |-> None] /\ disk.bitmap = {}
  BY <1>1, SavingFinds DEF Ready, LocalsOK
<1>3. /\ disk'.count = fileCount /\ disk'.dir = disk.dir /\ disk'.bitmap = disk.bitmap /\ disk'.data = disk.data
      /\ disk' \in [count : 0 .. MaxFiles, dir : [Index -> Entry], bitmap : SUBSET Blocks, data : Held]
  BY <1>1, <1>2, SavingFinds
<1>4. CallTyped' /\ Sole(t)' /\ (pc'[t] = "idle" \/ (pc'[t] = "dir" /\ op'[t] = op[t]))
  <2>1. CASE op[t].end = 0
    <3>1. Return(t) /\ CallTyped /\ Sole(t)
      BY <2>1 DEF Super, Ready, Typed
    <3> QED BY <3>1, CallReturns
  <2>2. CASE op[t].end # 0
    <3>1. "dir" \in Labels /\ op[t] \in Ops /\ op' = [op EXCEPT ![t] = op[t]] /\ pc' = [pc EXCEPT ![t] = "dir"]
      BY <2>2 DEF Super, Goto, Labels, Saving, Ready, Typed, CallTyped
    <3>2. CallTyped' /\ Sole(t)' /\ pc'[t] = "dir" /\ op'[t] = op[t]
      BY <3>1, CallMoves DEF Ready, Typed
    <3> QED BY <3>2
  <2> QED BY <2>1, <2>2
<1>5. Typed'
  BY <1>1, <1>3, <1>4 DEF Ready, Typed, RamTyped, DiskTyped, PastTyped
<1>6. TableOK'
  BY <1>1, <1>3 DEF Ready, TableOK
<1>7. pc'[t] \notin Changing
  BY <1>4 DEF Changing, Freeing, Marking, Filling
<1>8. MarksOK(t)' /\ DataOK(t)'
  BY <1>1, <1>2, <1>3, <1>7, QuietFinds, QuietOK
<1>9. LocalsOK(t)'
  BY <1>1, <1>2, <1>3, <1>4 DEF LocalsOK, Changing, Freeing, Marking, Filling, Saving
<1>10. DirOK(t)'
  <2>1. CASE pc'[t] = "idle"
    BY <2>1 DEF DirOK, Saving
  <2>2. CASE pc'[t] # "idle"
    <3>1. op'[t] = op[t] /\ op[t].k = 0
      BY <1>2, <1>4, <2>2
    <3>2. \A i \in Index : i < fileCount => i \div PerSector < op[t].end
      BY <1>1 DEF Ready, DirOK
    <3>3. \A i \in Index : ~ (i \div PerSector < 0)
      <4>1. ASSUME NEW i \in Index PROVE i \div PerSector \in Nat
        <5>1. i \in Nat /\ 0 \in Nat
          BY Sizes
        <5> QED BY <5>1, SectorsSuffice
      <4> QED BY <4>1
    <3> QED BY <1>1, <3>1, <3>2, <3>3 DEF DirOK
  <2> QED BY <2>1, <2>2
<1> QED BY <1>4, <1>5, <1>6, <1>8, <1>9, <1>10 DEF Ready

LEMMA DirSectorStep ==
  ASSUME NEW t \in Tasks, Ready(t), DirSector(t)
  PROVE  Ready(t)'
<1> DEFINE o == op[t]
           InIt(i) == i \div PerSector = o.k
<1>1. /\ pc[t] = "dir" /\ pc[t] \in Saving
      /\ UNCHANGED << entries, fileCount, want >>
  BY DEF DirSector, At, Saving
<1>2. /\ o \in Ops /\ o.image = entries /\ o.count = fileCount /\ o.k \in Nat /\ o.end \in Nat
      /\ pc[t] \notin Changing /\ o.kind \in {"flush", "format"} /\ disk.count = fileCount
      /\ o.kind = "format" => /\ entries = NoEntries /\ fileCount = 0 /\ touched = Index
                              /\ want = [i \in Index |-> None] /\ disk.bitmap = {}
      /\ entries \in [Index -> Entry] /\ touched \subseteq Index
  BY <1>1, SavingFinds DEF Ready, LocalsOK, Typed, RamTyped, PastTyped
<1>3. /\ \A i \in Index : i \div PerSector \in Nat
      /\ \A i \in Index : i < fileCount => i \div PerSector < o.end
      /\ \A i \in Index : i < fileCount /\ i \div PerSector < o.k => disk.dir[i] = entries[i]
  <2>1. ASSUME NEW i \in Index PROVE i \div PerSector \in Nat
    <3>1. i \in Nat /\ 0 \in Nat
      BY Sizes
    <3> QED BY <3>1, SectorsSuffice
  <2>2. /\ \A i \in Index : i < fileCount => i \div PerSector < o.end
        /\ \A i \in Index : i < fileCount /\ i \div PerSector < o.k => disk.dir[i] = entries[i]
    BY <1>1 DEF Ready, DirOK
  <2> QED BY <2>1, <2>2
<1>4. PICK rest \in {FreeEntry, JunkEntry} :
        disk' = [disk EXCEPT !.dir = [i \in Index |->
                   IF ~ InIt(i) THEN disk.dir[i] ELSE IF i < o.count THEN o.image[i] ELSE rest]]
  <2>1. PICK rest \in IF o.kind = "format" THEN {FreeEntry} ELSE {FreeEntry, JunkEntry} :
          disk' = [disk EXCEPT !.dir = [i \in Index |->
                     IF i \notin {j \in Index : j \div PerSector = o.k} THEN @[i]
                     ELSE IF i < o.count THEN o.image[i] ELSE rest]]
    BY DEF DirSector
  <2>2. rest \in {FreeEntry, JunkEntry}
    OBVIOUS
  <2>3. disk \in [count : 0 .. MaxFiles, dir : [Index -> Entry], bitmap : SUBSET Blocks, data : Held]
    BY DEF Ready, Typed, DiskTyped
  <2>4. [i \in Index |-> IF i \notin {j \in Index : j \div PerSector = o.k} THEN disk.dir[i]
                          ELSE IF i < o.count THEN o.image[i] ELSE rest]
        = [i \in Index |-> IF ~ InIt(i) THEN disk.dir[i] ELSE IF i < o.count THEN o.image[i] ELSE rest]
    OBVIOUS
  <2> QED BY <2>1, <2>2, <2>3, <2>4
<1>5. /\ disk'.count = fileCount /\ disk'.bitmap = disk.bitmap /\ disk'.data = disk.data
      /\ disk'.dir = [i \in Index |->
                   IF ~ InIt(i) THEN disk.dir[i] ELSE IF i < o.count THEN o.image[i] ELSE rest]
      /\ disk' \in [count : 0 .. MaxFiles, dir : [Index -> Entry], bitmap : SUBSET Blocks, data : Held]
  <2> DEFINE dir == [i \in Index |->
                   IF ~ InIt(i) THEN disk.dir[i] ELSE IF i < o.count THEN o.image[i] ELSE rest]
  <2>1. disk \in [count : 0 .. MaxFiles, dir : [Index -> Entry], bitmap : SUBSET Blocks, data : Held]
    BY DEF Ready, Typed, DiskTyped
  <2>2. dir \in [Index -> Entry]
    BY <1>2, <2>1, EntryTyped
  <2>3. disk' = [disk EXCEPT !.dir = dir]
    BY <1>4
  <2> HIDE DEF dir
  <2>4. disk'.count = fileCount /\ disk'.bitmap = disk.bitmap /\ disk'.data = disk.data /\ disk'.dir = dir
    BY <1>2, <2>1, <2>3
  <2>5. disk' \in [count : 0 .. MaxFiles, dir : [Index -> Entry], bitmap : SUBSET Blocks, data : Held]
    BY <2>1, <2>2, <2>3
  <2> QED BY <2>4, <2>5 DEF dir
<1>6. \A i \in Index : /\ ~ InIt(i) => disk'.dir[i] = disk.dir[i]
                       /\ InIt(i) /\ i < fileCount => disk'.dir[i] = entries[i]
                       /\ InIt(i) /\ ~ (i < fileCount) => disk'.dir[i] = rest
  BY <1>2, <1>5
<1> HIDE DEF o
<1>7. DiskTyped'
  <2>1. \A i \in Index : /\ BlocksOf(disk.dir[i]) \subseteq Blocks
                         /\ BlocksOf(entries[i]) \subseteq Blocks
    BY DEF Ready, Typed, DiskTyped, RamTyped
  <2>2. BlocksOf(rest) = {}
    BY EntryTyped
  <2>3. ASSUME NEW i \in Index PROVE BlocksOf(disk'.dir[i]) \subseteq Blocks
    <3>1. \/ disk'.dir[i] = disk.dir[i] \/ disk'.dir[i] = entries[i] \/ disk'.dir[i] = rest
      BY <1>6
    <3> QED BY <2>1, <2>2, <3>1
  <2> QED BY <1>5, <2>3 DEF DiskTyped
<1>8. \A i \in Index : i < fileCount /\ i \div PerSector < o.k + 1 => disk'.dir[i] = entries[i]
  <2> SUFFICES ASSUME NEW i \in Index, i < fileCount, i \div PerSector < o.k + 1
               PROVE  disk'.dir[i] = entries[i]
    OBVIOUS
  <2>1. CASE InIt(i)
    BY <2>1, <1>6
  <2>2. CASE ~ InIt(i)
    <3>1. i \div PerSector < o.k
      <4> DEFINE d == i \div PerSector
      <4>1. d \in Nat /\ d # o.k /\ d < o.k + 1
        BY <1>3, <2>2
      <4> HIDE DEF d
      <4>2. d < o.k
        BY <1>2, <4>1
      <4> QED BY <4>2 DEF d
    <3> QED BY <1>3, <1>6, <2>2, <3>1
  <2> QED BY <2>1, <2>2
<1> HIDE DEF InIt
<1>9. CASE o.k + 1 < o.end
  <2>1. op' = [op EXCEPT ![t].k = o.k + 1] /\ UNCHANGED << pc, cwd, sectorBuf, touched, health >>
    BY <1>9 DEF DirSector, o
  <2>2. /\ CallTyped' /\ Sole(t)' /\ pc'[t] = "dir" /\ op'[t].k = o.k + 1 /\ op'[t].kind = o.kind
        /\ op'[t].end = o.end /\ op'[t].image = o.image /\ op'[t].count = o.count
    <3>1. "dir" \in Labels /\ CallTyped /\ Sole(t) /\ o.k + 1 \in Nat
      BY <1>2 DEF Labels, Saving, Ready, Typed
    <3>2. pc' = [pc EXCEPT ![t] = "dir"]
      BY <1>1, <2>1, <3>1 DEF CallTyped
    <3> QED BY <2>1, <3>1, <3>2, CallAdvances DEF o
  <2>3. Typed'
    BY <1>1, <1>7, <2>1, <2>2 DEF Ready, Typed, RamTyped, PastTyped
  <2>4. TableOK'
    <3>1. ASSUME NEW i \in Index \ touched, i < fileCount PROVE disk'.dir[i] = entries[i]
      <4>1. disk.dir[i] = entries[i]
        BY <3>1 DEF Ready, TableOK
      <4> QED BY <1>6, <3>1, <4>1
    <3> QED BY <1>1, <1>5, <2>1, <3>1 DEF Ready, TableOK
  <2>5. pc'[t] \notin Changing
    BY <2>2 DEF Changing, Freeing, Marking, Filling
  <2>6. MarksOK(t)' /\ DataOK(t)'
    BY <1>1, <1>2, <1>5, <2>1, <2>5, QuietFinds, QuietOK
  <2>7. LocalsOK(t)'
    BY <1>1, <1>2, <1>5, <2>1, <2>2 DEF LocalsOK, Changing, Freeing, Marking, Filling, Saving
  <2>8. DirOK(t)'
    BY <1>1, <1>3, <1>8, <2>2 DEF DirOK
  <2> QED BY <2>2, <2>3, <2>4, <2>6, <2>7, <2>8 DEF Ready
<1>10. CASE ~ (o.k + 1 < o.end)
  <2>1. /\ Return(t) /\ touched' = {}
        /\ cwd' \in {Root, cwd}
        /\ health' = IF o.kind = "format" THEN "good" ELSE health
    BY <1>10 DEF DirSector, o
  <2>2. CallTyped' /\ Sole(t)' /\ pc'[t] = "idle"
    BY <2>1, CallReturns DEF Ready, Typed
  <2>3. Typed'
    BY <1>1, <1>7, <2>1, <2>2 DEF Ready, Typed, RamTyped, PastTyped
  <2>4. TableOK'
    <3>1. ASSUME NEW i \in Index, i < fileCount PROVE disk'.dir[i] = entries[i]
      <4> DEFINE d == i \div PerSector
      <4>1. d \in Nat /\ d < o.end
        BY <1>3, <3>1
      <4> HIDE DEF d
      <4>2. d < o.k + 1
        BY <1>2, <1>10, <4>1
      <4> QED BY <1>8, <3>1, <4>2 DEF d
    <3> QED BY <1>1, <1>5, <3>1 DEF Ready, TableOK
  <2>5. pc'[t] \notin Changing
    BY <2>2 DEF Changing, Freeing, Marking, Filling
  <2>6. health' # "bad" =>
           /\ Apart(entries') /\ Claimed(entries') \subseteq disk'.bitmap
           /\ health' = "good" => disk'.bitmap = Claimed(entries')
           /\ \A i \in Index : want'[i] # None => \A b \in BlocksOf(entries'[i]) : disk'.data[b] = want'[i]
    <3>1. CASE o.kind = "format"
      BY <1>1, <1>2, <1>5, <3>1, NothingClaimed
    <3>2. CASE o.kind # "format"
      BY <1>1, <1>2, <1>5, <2>1, <3>2, QuietFinds
    <3> QED BY <3>1, <3>2
  <2> QED BY <2>2, <2>3, <2>4, <2>6, IdleOK DEF Ready
<1> QED BY <1>9, <1>10

LEMMA FlushFailsStep ==
  ASSUME NEW t \in Tasks, Ready(t), FlushFails(t)
  PROVE  Ready(t)'
<1>1. /\ pc[t] \in Saving /\ Return(t)
      /\ UNCHANGED << entries, fileCount, cwd, disk, want, touched, health >>
  BY DEF FlushFails, At, Saving, ram, past
<1>2. CallTyped' /\ Sole(t)' /\ pc'[t] = "idle"
  BY <1>1, CallReturns DEF Ready, Typed
<1>3. Typed' /\ TableOK'
  BY <1>1, <1>2 DEF Ready, Typed, RamTyped, DiskTyped, PastTyped, TableOK
<1>4. pc[t] \notin Changing
  BY <1>1, SavingFinds
<1>5. LocalsOK(t)' /\ MarksOK(t)' /\ DataOK(t)' /\ DirOK(t)'
  BY <1>1, <1>2, <1>4, QuietFinds, IdleOK
<1> QED BY <1>2, <1>3, <1>5 DEF Ready

(* An entry that was not touched since the last flush is loaded as it was. *)
LEMMA LoadedAsIs ==
  ASSUME Typed, TableOK, NEW i \in Index \ touched
  PROVE  Loaded[i] = entries[i]
<1>1. /\ i < fileCount <=> i < disk.count
      /\ i < fileCount => disk.dir[i] = entries[i]
  BY DEF TableOK
<1>2. ~ (i < fileCount) => entries[i] = FreeEntry
  BY Sizes DEF TableOK, Typed, RamTyped
<1> QED BY <1>1, <1>2 DEF Loaded

LEMMA UntouchedData ==
  ASSUME NEW t \in Tasks, LocalsOK(t), DataOK(t), health # "bad",
         NEW i \in Index \ touched, want[i] # None
  PROVE  \A b \in BlocksOf(entries[i]) : disk.data[b] = want[i]
<1>1. ~ (pc[t] \in Changing /\ op[t].i = i)
  BY DEF LocalsOK
<1> QED BY <1>1 DEF DataOK

LEMMA HealthIs ==
  ASSUME NEW es
  PROVE  /\ Health(es) \in {"good", "leaky", "bad"}
         /\ Health(es) # "bad" => Apart(es) /\ Claimed(es) \subseteq disk.bitmap
         /\ Health(es) = "good" => disk.bitmap = Claimed(es)
<1>1. CASE ~ Apart(es) \/ ~ Claimed(es) \subseteq disk.bitmap
  BY <1>1 DEF Health
<1>2. CASE Apart(es) /\ Claimed(es) = disk.bitmap
  BY <1>2 DEF Health
<1>3. CASE Apart(es) /\ Claimed(es) \subseteq disk.bitmap /\ Claimed(es) # disk.bitmap
  BY <1>3 DEF Health
<1> QED BY <1>1, <1>2, <1>3

LEMMA RebootStep ==
  ASSUME IInv, Reboot
  PROVE  IInv'
<1>1. PICK t \in Tasks : Sole(t) /\ LocalsOK(t) /\ MarksOK(t) /\ DataOK(t) /\ DirOK(t)
  BY DEF IInv, CallOK
<1>2. Typed /\ TableOK
  BY TypedIsTypesOK DEF IInv
<1>3. /\ entries' = Loaded /\ fileCount' = disk.count /\ cwd' = Root
      /\ pc' = [u \in Tasks |-> "idle"] /\ op' = [u \in Tasks |-> NoOp]
      /\ want' = [i \in Index |-> IF i \in touched THEN None ELSE want[i]]
      /\ touched' = {} /\ health' = (IF health = "bad" THEN "bad" ELSE Health(Loaded))
      /\ disk' = disk
  BY DEF Reboot
<1>4. /\ disk.count \in 0 .. MaxFiles /\ disk.dir \in [Index -> Entry]
      /\ \A i \in Index : BlocksOf(disk.dir[i]) \subseteq Blocks
      /\ fileCount \in Nat /\ disk.count \in Nat /\ MaxFiles \in Nat
  BY <1>2, Sizes DEF Typed, DiskTyped, RamTyped
<1>5. \A i \in Index : Loaded[i] = IF i < disk.count THEN disk.dir[i] ELSE FreeEntry
  BY DEF Loaded
<1>6. Typed'
  <2>1. Loaded \in [Index -> Entry]
    BY <1>4, EntryTyped DEF Loaded
  <2>2. \A i \in Index : BlocksOf(Loaded[i]) \subseteq Blocks
    BY <1>4, <1>5, EntryTyped
  <2>3. RamTyped'
    BY <1>3, <1>4, <2>1, <2>2 DEF RamTyped
  <2>4. PastTyped'
    <3>1. health' \in {"good", "leaky", "bad"}
      BY <1>3, HealthIs
    <3> QED BY <1>2, <1>3, <3>1 DEF Typed, PastTyped
  <2>5. CallTyped'
    BY <1>3, NoOpTyped DEF CallTyped, Labels
  <2> QED BY <1>2, <1>3, <2>3, <2>4, <2>5 DEF Typed, DiskTyped
<1>7. ASSUME NEW i \in Index, want'[i] # None
      PROVE  /\ i \notin touched /\ want'[i] = want[i] /\ want[i] # None
             /\ entries'[i] = entries[i] /\ entries[i].name # None
  <2>1. i \notin touched /\ want'[i] = want[i]
    BY <1>3, <1>7
  <2>2. Loaded[i] = entries[i]
    BY <1>2, <2>1, LoadedAsIs
  <2> QED BY <1>2, <1>3, <1>7, <2>1, <2>2 DEF TableOK
<1>8. TableOK'
  <2>1. \A i \in Index : i >= fileCount' => entries'[i] = FreeEntry
    BY <1>3, <1>4, <1>5, Sizes
  <2>2. \A i \in Index : i < fileCount' => disk'.dir[i] = entries'[i]
    BY <1>3, <1>5
  <2> QED BY <1>3, <1>7, <2>1, <2>2 DEF TableOK
<1>9. Sole(t)' /\ pc'[t] = "idle"
  BY <1>3 DEF Sole
<1>10. ASSUME health' # "bad"
       PROVE  /\ Apart(entries') /\ Claimed(entries') \subseteq disk'.bitmap
              /\ health' = "good" => disk'.bitmap = Claimed(entries')
              /\ \A i \in Index : want'[i] # None => \A b \in BlocksOf(entries'[i]) : disk'.data[b] = want'[i]
  <2>1. health # "bad" /\ health' = Health(Loaded) /\ Health(Loaded) # "bad"
    BY <1>3, <1>10
  <2>2. \A i \in Index : want'[i] # None => \A b \in BlocksOf(entries'[i]) : disk'.data[b] = want'[i]
    BY <1>1, <1>3, <1>7, <2>1, UntouchedData
  <2> QED BY <1>3, <2>1, <2>2, HealthIs
<1>11. LocalsOK(t)' /\ MarksOK(t)' /\ DataOK(t)' /\ DirOK(t)'
  BY <1>9, <1>10, IdleOK
<1> QED BY <1>6, <1>8, <1>9, <1>11, ReadyIsIInv DEF Ready

-----------------------------------------------------------------------------
(* THE INVARIANT                                                           *)

LEMMA StepTurn ==
  ASSUME NEW t \in Tasks, Call(t) \/ Step(t)
  PROVE  Turn(t)
<1>1. CASE Call(t)
  BY <1>1 DEF Call, Make, Cd, CdUp, DeleteCall, WriteCall, FlushCall, FormatCall, Begins, At
<1>2. CASE Step(t)
  BY <1>2 DEF Step, Insert, FreeRead, FreeWrite, DeleteEntry, Truncate, Alloc, AllocFails, MarkRead,
              MarkWrite, Fill, Store, StoreFails, Zero, Super, DirSector, FlushFails, At
<1> QED BY <1>1, <1>2

LEMMA NextKeepsIInv ==
  ASSUME OneCall, IInv, [Next]_vars
  PROVE  IInv'
<1>1. CASE Reboot
  BY <1>1, RebootStep
<1>2. ASSUME NEW t \in Tasks, Call(t)
      PROVE  IInv'
  <2>1. Ready(t)
    BY <1>2, StepTurn, ReadyIsIInv
  <2>2. ASSUME NEW d \in Index \cup {Root}, NEW n \in Names, NEW isDir \in BOOLEAN, Make(t, d, n, isDir)
        PROVE  Ready(t)'
    BY <2>1, <2>2, MakeStep
  <2>3. ASSUME NEW n \in Names, Cd(t, n) PROVE Ready(t)'
    BY <2>1, <2>3, CdStep
  <2>4. ASSUME NEW n \in Names, DeleteCall(t, n) PROVE Ready(t)'
    BY <2>1, <2>4, DeleteCallStep
  <2>5. ASSUME NEW n \in Names, NEW c \in Contents, NEW len \in 0 .. MaxLen, WriteCall(t, n, c, len)
        PROVE  Ready(t)'
    BY <2>1, <2>5, WriteCallStep
  <2>6. ASSUME CdUp(t) PROVE Ready(t)'
    BY <2>1, <2>6, CdStep
  <2>7. ASSUME FlushCall(t) PROVE Ready(t)'
    BY <2>1, <2>7, FlushCallStep
  <2>8. ASSUME FormatCall(t) PROVE Ready(t)'
    BY <2>1, <2>8, FormatCallStep
  <2>9. Ready(t)'
    BY <1>2, <2>2, <2>3, <2>4, <2>5, <2>6, <2>7, <2>8 DEF Call
  <2> QED BY <2>9, ReadyIsIInv
<1>3. ASSUME NEW t \in Tasks, Step(t)
      PROVE  IInv'
  <2>1. Ready(t)
    BY <1>3, StepTurn, ReadyIsIInv
  <2>2. Ready(t)'
    BY <1>3, <2>1, FreeReadStep, FreeWriteStep, DeleteStep, AllocStep, CallFails, MarkReadStep,
       MarkWriteStep, FillStep, StoreStep, ZeroStep, SuperStep, DirSectorStep, FlushFailsStep, InsertStep DEF Step
  <2> QED BY <2>2, ReadyIsIInv
<1>4. CASE UNCHANGED vars
  <2>1. UNCHANGED << entries, fileCount, cwd, sectorBuf, disk, pc, op, want, touched, health >>
    BY <1>4 DEF vars, ram, past
  <2>2. TypesOK' /\ TableOK'
    BY <2>1 DEF IInv, TypesOK, TypeOK, TableOK
  <2>3. PICK t \in Tasks : Sole(t) /\ LocalsOK(t) /\ MarksOK(t) /\ DataOK(t) /\ DirOK(t)
    BY DEF IInv, CallOK
  <2>4. Sole(t)' /\ Mine(t)' = Mine(t) /\ Due(t)' = Due(t)
    BY <2>1, <2>3 DEF Sole, Mine, Due, Gone, Taken
  <2>5. LocalsOK(t)' /\ MarksOK(t)' /\ DataOK(t)' /\ DirOK(t)'
    BY <2>1, <2>3, <2>4 DEF LocalsOK, MarksOK, DataOK, DirOK, FreeIndex
  <2> QED BY <2>2, <2>4, <2>5 DEF IInv, CallOK
<1> QED BY <1>1, <1>2, <1>3, <1>4 DEF Next

(* Types, table and the call under way: for every disk and directory, any  *)
(* number of power cuts and of sectors that fail, when one call at a time  *)
(* is under way (mefs.c as the shell alone uses it, or with calls that are *)
(* not preempted).                                                         *)
THEOREM Invariance ==
  ASSUME OneCall PROVE Spec => []IInv
<1>1. Init => IInv
  BY InitOK
<1>2. IInv /\ [Next]_vars => IInv'
  BY NextKeepsIInv
<1> QED BY <1>1, <1>2, PTL DEF Spec

LEMMA IdleHolds ==
  ASSUME IInv, Idle, health # "bad"
  PROVE  /\ Apart(entries) /\ Claimed(entries) \subseteq disk.bitmap
         /\ health = "good" => disk.bitmap = Claimed(entries)
         /\ \A i \in Index : want[i] # None => \A b \in BlocksOf(entries[i]) : disk.data[b] = want[i]
<1>1. PICK t \in Tasks : Sole(t) /\ LocalsOK(t) /\ MarksOK(t) /\ DataOK(t) /\ DirOK(t)
  BY DEF IInv, CallOK
<1>2. Ready(t) /\ pc[t] = "idle"
  BY <1>1, TypedIsTypesOK DEF IInv, Ready, Idle
<1> QED BY <1>2, IdleFinds

(* bm_alloc, bm_set and the loops of mefs_write and mefs_delete: as long   *)
(* as no write has failed, every block of a file is one of the disk's, is  *)
(* marked, and belongs to that file alone.                                 *)
THEOREM FilesOwn ==
  ASSUME OneCall PROVE Spec => []FilesOwnTheirBlocks
<1>1. IInv => FilesOwnTheirBlocks
  BY IdleHolds DEF FilesOwnTheirBlocks, IInv, TypesOK
<1> QED BY <1>1, Invariance, PTL

(* The loops of bm_set that give blocks back: overwriting, deleting and    *)
(* truncating leave no block marked that no file claims.                   *)
THEOREM NoneLost ==
  ASSUME OneCall PROVE Spec => []NoBlockLost
<1>1. IInv => NoBlockLost
  BY IdleHolds DEF NoBlockLost
<1> QED BY <1>1, Invariance, PTL

(* mefs_write and what mefs_read finds: a file's blocks carry what was     *)
(* last written to that file, whatever happened around it.                 *)
THEOREM WrittenIsRead ==
  ASSUME OneCall PROVE Spec => []ReadsBack
<1>1. IInv => ReadsBack
  BY IdleHolds DEF ReadsBack
<1> QED BY <1>1, Invariance, PTL

(* mefs_flush and mefs_load: wherever the power goes, an entry flushed and *)
(* not touched since is loaded as it was, with its content on the disk.    *)
THEOREM FlushedIsLoaded ==
  ASSUME OneCall PROVE Spec => []FlushedSurvives
<1>1. ASSUME IInv PROVE FlushedSurvives
  <2>1. Typed /\ TableOK
    BY <1>1, TypedIsTypesOK DEF IInv
  <2>2. PICK t \in Tasks : LocalsOK(t) /\ DataOK(t)
    BY <1>1 DEF IInv, CallOK
  <2> QED BY <2>1, <2>2, LoadedAsIs, UntouchedData DEF FlushedSurvives
<1> QED BY <1>1, Invariance, PTL

-----------------------------------------------------------------------------
(* A NAME ONCE IN A DIRECTORY, with any number of calls under way          *)

(* A search that finds nothing has nothing to find.                        *)
LEMMA LowestExists ==
  ASSUME NEW S, S \subseteq Nat, S # {}
  PROVE  Lowest(S) # {}
<1>1. PICK a \in S : \A b \in S : ~(<< b, a >> \in OpToRel(<, Nat))
  BY NatLessThanWellFounded, WFMin
<1>2. \A b \in S : ~(b < a)
  BY <1>1 DEF OpToRel
<1>3. \A b \in S : a <= b
  BY <1>2
<1> QED BY <1>3 DEF Lowest

(* An entry, whatever its size and place.                                  *)
Shape(X) == [name : Names \cup {None, Junk}, size : X, lba : X, dir : BOOLEAN,
             parent : Index \cup {Root}]
NamesOK ==
  /\ \E X : entries \in [Index -> Shape(X)]
  /\ fileCount \in 0 .. MaxFiles
  /\ \A i \in Index : i >= fileCount => entries[i].name = None
  /\ UniqueNames

(* The creations under way, and what each may still count on: at most one, *)
(* and no entry has come to bear the name it is about to give.             *)
Fitting == DOMAIN pc = Tasks /\ DOMAIN op = Tasks
Awaited(t) ==
  /\ op[t].i \in Index /\ op[t].new \in Shape({0, None}) /\ op[t].new.name \in Names
  /\ \A j \in Index : Live(j) /\ entries[j].parent = op[t].new.parent
                         => entries[j].name # op[t].new.name
Pending ==
  /\ Fitting
  /\ \A t, u \in Tasks : pc[t] = "make" /\ pc[u] = "make" => t = u
  /\ \A t \in Tasks : pc[t] = "make" => Awaited(t)

LEMMA NoNames ==
  ASSUME entries' = NoEntries, fileCount' = 0
  PROVE  NamesOK'
<1>1. FreeEntry \in Shape({0, None}) /\ FreeEntry.name = None
  BY Sizes DEF FreeEntry, Shape
<1>2. entries' \in [Index -> Shape({0, None})] /\ \A i \in Index : entries'[i].name = None
  BY <1>1 DEF NoEntries
<1>3. UniqueNames'
  BY <1>2 DEF UniqueNames, Live
<1>4. \E X : entries' \in [Index -> Shape(X)]
  BY <1>2
<1> QED BY <1>2, <1>3, <1>4, Sizes DEF NamesOK

(* An entry loses its name, or keeps it and its directory.                 *)
Resized(i, s, l) == [entries EXCEPT ![i] = [@ EXCEPT !.size = s, !.lba = l]]
Unnamed(i, s, l) == [entries EXCEPT ![i] = [@ EXCEPT !.name = None, !.size = s, !.lba = l]]

LEMMA NamesKept ==
  ASSUME NamesOK, NEW i, NEW s, NEW l, fileCount' = fileCount,
         entries' = entries \/ entries' = Resized(i, s, l) \/ entries' = Unnamed(i, s, l)
  PROVE  /\ NamesOK'
         /\ \A j \in Index : Live(j)' => /\ Live(j) /\ entries'[j].name = entries[j].name
                                          /\ entries'[j].parent = entries[j].parent
<1>1. PICK X : entries \in [Index -> Shape(X)]
  BY DEF NamesOK
<1> DEFINE Y == X \cup {s, l}
<1>2. ASSUME NEW j \in Index
      PROVE  /\ entries'[j] \in Shape(Y) /\ entries'[j].name \in {None, entries[j].name}
             /\ entries'[j].parent = entries[j].parent
  <2>1. entries[j] \in Shape(X)
    BY <1>1
  <2>2. \/ entries'[j] = entries[j]
        \/ entries'[j] = [entries[j] EXCEPT !.size = s, !.lba = l]
        \/ entries'[j] = [entries[j] EXCEPT !.name = None, !.size = s, !.lba = l]
    BY <1>1 DEF Resized, Unnamed
  <2> QED BY <2>1, <2>2 DEF Shape
<1>3. entries' \in [Index -> Shape(Y)]
  <2>1. entries' = [j \in Index |-> entries'[j]]
    BY <1>1 DEF Resized, Unnamed
  <2> HIDE DEF Y
  <2> QED BY <1>2, <2>1
<1>4. \E Z : entries' \in [Index -> Shape(Z)]
  BY <1>3
<1>5. UniqueNames'
  BY <1>2 DEF NamesOK, UniqueNames, Live
<1>6. \A j \in Index : j >= fileCount' => entries'[j].name = None
  BY <1>2 DEF NamesOK
<1>7. \A j \in Index : Live(j)' => /\ Live(j) /\ entries'[j].name = entries[j].name
                                     /\ entries'[j].parent = entries[j].parent
  BY <1>2 DEF Live
<1> QED BY <1>4, <1>5, <1>6, <1>7 DEF NamesOK

(* Nothing but the end of a creation and the start of one concerns the     *)
(* creations under way.                                                    *)
LEMMA OthersStay ==
  ASSUME Fitting, NEW t \in Tasks,
         Step(t) \/ CdUp(t) \/ FlushCall(t) \/ FormatCall(t)
         \/ \E n, c, len : Cd(t, n) \/ DeleteCall(t, n) \/ WriteCall(t, n, c, len)
  PROVE  /\ Fitting'
         /\ pc'[t] # "make"
         /\ \A u \in Tasks \ {t} : pc'[u] = pc[u] /\ op'[u] = op[u]
<1>1. ASSUME NEW label, Goto(t, label)
      PROVE  /\ DOMAIN pc' = Tasks /\ pc'[t] = label
             /\ \A u \in Tasks \ {t} : pc'[u] = pc[u]
  BY <1>1 DEF Goto, Fitting
<1>2. ASSUME NEW o, op' = [op EXCEPT ![t] = o]
      PROVE  DOMAIN op' = Tasks /\ \A u \in Tasks \ {t} : op'[u] = op[u]
  BY <1>2 DEF Fitting
<1>3. ASSUME Return(t)
      PROVE  /\ Fitting' /\ pc'[t] # "make"
             /\ \A u \in Tasks \ {t} : pc'[u] = pc[u] /\ op'[u] = op[u]
  BY <1>3, <1>1, <1>2 DEF Return, Fitting
<1>4. ASSUME NEW label, label # "make", Goto(t, label),
             op' = op \/ (\E o : op' = [op EXCEPT ![t] = o])
      PROVE  /\ Fitting' /\ pc'[t] # "make"
             /\ \A u \in Tasks \ {t} : pc'[u] = pc[u] /\ op'[u] = op[u]
  BY <1>4, <1>1, <1>2 DEF Fitting
<1>5. ASSUME NEW x, op' = [op EXCEPT ![t].k = x] PROVE \E o : op' = [op EXCEPT ![t] = o]
  BY <1>5
<1>6. CASE Insert(t) \/ DeleteEntry(t) \/ Truncate(t) \/ AllocFails(t) \/ StoreFails(t) \/ FlushFails(t)
  BY <1>6, <1>3 DEF Insert, DeleteEntry, Truncate, AllocFails, StoreFails, FlushFails
<1>7. ASSUME NEW next, NEW skip, NEW h, ReadBits(t, next, skip, h),
             pc[t] # "make", next # "make", skip # "make"
      PROVE  /\ Fitting' /\ pc'[t] # "make"
             /\ \A u \in Tasks \ {t} : pc'[u] = pc[u] /\ op'[u] = op[u]
  <2>1. CASE Goto(t, next) /\ op' = op
    BY <2>1, <1>7, <1>4
  <2>2. CASE /\ op' = [op EXCEPT ![t].k = @ + 1]
             /\ Goto(t, IF op[t].k + 1 = op[t].end THEN skip ELSE pc[t])
    <3>1. \E o : op' = [op EXCEPT ![t] = o]
      BY <2>2
    <3>2. (IF op[t].k + 1 = op[t].end THEN skip ELSE pc[t]) # "make"
      BY <1>7
    <3> QED BY <2>2, <3>1, <3>2, <1>4
  <2> QED BY <1>7, <2>1, <2>2 DEF ReadBits
<1>8. ASSUME NEW set, NEW clear, NEW again, NEW done, NEW h,
             WriteBits(t, set, clear, again, done, h), again # "make", done # "make"
      PROVE  /\ Fitting' /\ pc'[t] # "make"
             /\ \A u \in Tasks \ {t} : pc'[u] = pc[u] /\ op'[u] = op[u]
  <2>1. (\E o : op' = [op EXCEPT ![t] = o]) /\ (Goto(t, again) \/ Goto(t, done))
    BY <1>8 DEF WriteBits
  <2> QED BY <1>8, <2>1, <1>4
<1>9. CASE FreeRead(t) \/ MarkRead(t) \/ FreeWrite(t) \/ MarkWrite(t)
  BY <1>9, <1>7, <1>8 DEF FreeRead, MarkRead, FreeWrite, MarkWrite, At
<1>10. CASE Alloc(t) \/ Fill(t)
  <2>1. \E o : op' = [op EXCEPT ![t] = o]
    BY <1>10 DEF Alloc, Fill
  <2>2. Goto(t, "markRead") \/ Goto(t, "store")
    BY <1>10 DEF Alloc, Fill
  <2> QED BY <2>1, <2>2, <1>4
<1>11. CASE Store(t)
  <2>1. Return(t) \/ (Goto(t, "fill") /\ \E o : op' = [op EXCEPT ![t] = o])
    BY <1>11 DEF Store
  <2> QED BY <2>1, <1>3, <1>4
<1>12. CASE Zero(t) \/ Super(t)
  <2>1. Return(t) \/ (op' = op /\ (Goto(t, "super") \/ Goto(t, "dir")))
    BY <1>12 DEF Zero, Super
  <2> QED BY <2>1, <1>3, <1>4
<1>13. CASE DirSector(t)
  <2>1. Return(t) \/ (pc' = pc /\ pc[t] # "make" /\ \E o : op' = [op EXCEPT ![t] = o])
    BY <1>13 DEF DirSector, At
  <2> QED BY <2>1, <1>2, <1>3 DEF Fitting
<1>14. ASSUME NEW n, NEW c, NEW len,
              CdUp(t) \/ FlushCall(t) \/ FormatCall(t) \/ Cd(t, n) \/ DeleteCall(t, n)
              \/ WriteCall(t, n, c, len)
       PROVE  /\ Fitting' /\ pc'[t] # "make"
              /\ \A u \in Tasks \ {t} : pc'[u] = pc[u] /\ op'[u] = op[u]
  <2>1. CASE CdUp(t) \/ Cd(t, n)
    BY <2>1 DEF CdUp, Cd, Begins, At, Fitting
  <2>2. CASE FlushCall(t) \/ FormatCall(t)
    <3>1. (\E o : op' = [op EXCEPT ![t] = o]) /\ (Goto(t, "super") \/ Goto(t, "zero"))
      BY <2>2 DEF FlushCall, FormatCall
    <3> QED BY <3>1, <1>4
  <2>3. ASSUME NEW i, NEW o, FreeFirst(t, i, o)
        PROVE  (\E x : op' = [op EXCEPT ![t] = x]) /\ (Goto(t, "freed") \/ Goto(t, "freeRead"))
    BY <2>3 DEF FreeFirst
  <2>4. CASE DeleteCall(t, n) \/ WriteCall(t, n, c, len)
    <3>1. PICK i, o : FreeFirst(t, i, o)
      BY <2>4 DEF DeleteCall, WriteCall
    <3> QED BY <3>1, <2>3, <1>4
  <2> QED BY <1>14, <2>1, <2>2, <2>4
<1> QED BY <1>6, <1>9, <1>10, <1>11, <1>12, <1>13, <1>14 DEF Step

(* A name lost, or kept, leaves a creation what it counts on.              *)
LEMMA PendingKept ==
  ASSUME Pending, NEW t \in Tasks, Fitting',
         pc'[t] # "make",
         \A u \in Tasks \ {t} : pc'[u] = pc[u] /\ op'[u] = op[u],
         \A j \in Index : Live(j)' => /\ Live(j) /\ entries'[j].name = entries[j].name
                                        /\ entries'[j].parent = entries[j].parent
  PROVE  Pending'
<1>1. \A u \in Tasks : pc'[u] = "make" => pc[u] = "make" /\ op'[u] = op[u]
  OBVIOUS
<1>2. \A u \in Tasks : pc'[u] = "make" => Awaited(u)'
  <2> SUFFICES ASSUME NEW u \in Tasks, pc'[u] = "make" PROVE Awaited(u)'
    OBVIOUS
  <2>1. Awaited(u) /\ op'[u] = op[u]
    BY <1>1 DEF Pending
  <2>2. ASSUME NEW j \in Index, Live(j)', entries'[j].parent = op[u].new.parent
        PROVE  entries'[j].name # op[u].new.name
    <3>1. Live(j) /\ entries'[j].name = entries[j].name /\ entries'[j].parent = entries[j].parent
      BY <2>2
    <3> QED BY <2>1, <2>2, <3>1 DEF Awaited
  <2> QED BY <2>1, <2>2 DEF Awaited
<1>3. \A u, v \in Tasks : pc'[u] = "make" /\ pc'[v] = "make" => u = v
  BY <1>1 DEF Pending
<1> QED BY <1>2, <1>3 DEF Pending

(* mefs_create_in and mefs_mkdir look for the name first.                  *)
LEMMA MakeLooks ==
  ASSUME NamesOK, Fitting, NEW t \in Tasks, NEW d \in Index \cup {Root}, NEW n \in Names,
         NEW isDir \in BOOLEAN, Make(t, d, n, isDir)
  PROVE  Fitting' /\ Awaited(t)' /\ \A u \in Tasks \ {t} : pc'[u] = pc[u] /\ op'[u] = op[u]
<1>1. PICK i \in FreeIndex : Creates(t, i, New(n, d, isDir))
  BY DEF Make
<1>2. i \in Index
  BY LowestOf, Sizes DEF FreeIndex, Index
<1>3. /\ New(n, d, isDir) \in Shape({0, None})
      /\ New(n, d, isDir).name = n /\ New(n, d, isDir).parent = d
  BY Sizes DEF New, FreeEntry, Shape
<1> HIDE DEF New
<1>4. /\ Fitting' /\ op'[t].i = i /\ op'[t].new = New(n, d, isDir)
      /\ \A u \in Tasks \ {t} : pc'[u] = pc[u] /\ op'[u] = op[u]
  <2>1. op' = [op EXCEPT ![t] = [NoOp EXCEPT !.kind = "make", !.i = i, !.new = New(n, d, isDir)]]
    BY <1>1 DEF Creates
  <2>2. op'[t] = [NoOp EXCEPT !.kind = "make", !.i = i, !.new = New(n, d, isDir)]
    BY <2>1 DEF Fitting
  <2>3. op'[t].i = i /\ op'[t].new = New(n, d, isDir)
    BY <2>2 DEF NoOp
  <2> QED BY <1>1, <2>1, <2>3 DEF Creates, Goto, Fitting
<1>5. \A j \in Index : Live(j) /\ entries[j].parent = d => entries[j].name # n
  <2> DEFINE S == {j \in Index : Live(j) /\ entries[j].parent = d /\ entries[j].name = n}
  <2>1. Lowest(S) = {}
    BY DEF Make, Lookup
  <2>2. S \subseteq Nat
    BY Sizes
  <2> HIDE DEF S
  <2>3. S = {}
    BY <2>1, <2>2, LowestExists
  <2> QED BY <2>3 DEF S
<1>6. UNCHANGED << entries, fileCount >>
  BY <1>1 DEF Creates, ram
<1> QED BY <1>2, <1>3, <1>4, <1>5, <1>6 DEF Awaited, Live

LEMMA InsertKeepsNames ==
  ASSUME NamesOK, Pending, NEW t \in Tasks, Insert(t)
  PROVE  NamesOK'
<1> DEFINE i == op[t].i
           e == op[t].new
           n == e.name
           d == e.parent
<1>1. /\ entries' = [entries EXCEPT ![i] = e]
      /\ fileCount' = IF i >= fileCount THEN i + 1 ELSE fileCount
  BY DEF Insert
<1>0. Awaited(t)
  BY DEF Insert, At, Pending
<1>2. i \in Index /\ i \in Nat /\ i < MaxFiles /\ fileCount \in Nat /\ MaxFiles \in Nat
  BY <1>0, Sizes DEF Index, NamesOK, Awaited
<1>3. PICK X : entries \in [Index -> Shape(X)]
  BY DEF NamesOK
<1>4. e \in Shape({0, None}) /\ e.name = n /\ e.parent = d
  BY <1>0 DEF Awaited
<1>7. \A j \in Index : Live(j) /\ entries[j].parent = d => entries[j].name # n
  BY <1>0 DEF Awaited
<1> HIDE DEF e, i, n, d
<1> DEFINE Y == X \cup {0, None}
<1>5. entries'[i] = e /\ \A j \in Index : j # i => entries'[j] = entries[j]
  BY <1>1, <1>2, <1>3
<1>6. entries' \in [Index -> Shape(Y)]
  <2>1. e \in Shape(Y) /\ \A j \in Index : entries[j] \in Shape(Y)
    BY <1>3, <1>4 DEF Shape
  <2> QED BY <1>1, <1>3, <2>1
<1>8. ASSUME NEW j \in Index, j # i, Live(j)'
      PROVE  Live(j) /\ entries'[j] = entries[j]
  <2>1. entries'[j] = entries[j] /\ entries[j].name # None
    BY <1>5, <1>8 DEF Live
  <2>2. j < fileCount
    BY <1>2, <2>1, Sizes DEF NamesOK
  <2> QED BY <2>1, <2>2 DEF Live
<1>9. UniqueNames'
  <2> SUFFICES ASSUME NEW j \in Index, NEW k \in Index, Live(j)', Live(k)', j # k,
                      entries'[j].name = entries'[k].name, entries'[j].parent = entries'[k].parent,
                      entries'[j].name \in Names
               PROVE  FALSE
    BY DEF UniqueNames
  <2>1. CASE j = i
    BY <2>1, <1>4, <1>5, <1>7, <1>8
  <2>2. CASE k = i
    BY <2>2, <1>4, <1>5, <1>7, <1>8
  <2>3. CASE j # i /\ k # i
    BY <2>3, <1>8 DEF NamesOK, UniqueNames
  <2> QED BY <2>1, <2>2, <2>3
<1>10. \A j \in Index : j >= fileCount' => entries'[j].name = None
  <2> SUFFICES ASSUME NEW j \in Index, j >= fileCount' PROVE entries'[j].name = None
    OBVIOUS
  <2>1. j # i /\ j >= fileCount
    BY <1>1, <1>2, Sizes
  <2> QED BY <1>5, <2>1 DEF NamesOK
<1>11. fileCount' \in 0 .. MaxFiles
  BY <1>1, <1>2 DEF NamesOK
<1>12. \E Z : entries' \in [Index -> Shape(Z)]
  BY <1>6
<1> QED BY <1>9, <1>10, <1>11, <1>12 DEF NamesOK

(* mefs.h:74, "El nombre es unico en ese directorio": true of every        *)
(* directory, with any number of tasks in the file system, as long as the  *)
(* power stays on and no creation began while another was under way        *)
(* (nothing in mefs.c:292-315 keeps two apart).                            *)
THEOREM NamesUnique == Spec => [](crashes = 0 /\ ~clash => UniqueNames)
<1> DEFINE Fine == NamesOK /\ Pending
           Good == crashes \in Nat /\ clash \in BOOLEAN /\ (crashes = 0 /\ ~clash => Fine)
<1>1. Init => Good
  <2> SUFFICES ASSUME Init PROVE Good
    OBVIOUS
  <2>1. FreeEntry \in Shape({0, None}) /\ FreeEntry.name = None
    BY Sizes DEF FreeEntry, Shape
  <2>2. entries \in [Index -> Shape({0, None})] /\ \A i \in Index : entries[i].name = None
    BY <2>1 DEF NoEntries, Init
  <2>3. UniqueNames
    BY <2>2 DEF UniqueNames, Live
  <2>4. \E X : entries \in [Index -> Shape(X)]
    BY <2>2
  <2>5. Pending
    BY DEF Init, Pending, Fitting
  <2>6. NamesOK
    BY <2>2, <2>3, <2>4, Sizes DEF NamesOK, Init
  <2>7. crashes \in Nat /\ clash \in BOOLEAN
    BY DEF Init
  <2> QED BY <2>5, <2>6, <2>7
<1>2. Good /\ [Next]_vars => Good'
  <2> SUFFICES ASSUME Good, [Next]_vars PROVE Good'
    OBVIOUS
  <2>1. CASE Reboot /\ Clash
    BY <2>1 DEF Reboot, Clash
  <2>2. ASSUME crashes' = crashes, Clash, Fine /\ ~clash' => Fine' PROVE Good'
    BY <2>2 DEF Clash
  <2>3. ASSUME Fine, NEW t \in Tasks,
               Step(t) \/ CdUp(t) \/ FlushCall(t) \/ FormatCall(t)
               \/ \E n, c, len : Cd(t, n) \/ DeleteCall(t, n) \/ WriteCall(t, n, c, len),
               \A j \in Index : Live(j)' => /\ Live(j) /\ entries'[j].name = entries[j].name
                                              /\ entries'[j].parent = entries[j].parent
        PROVE  Pending'
    <3>1. Fitting
      BY <2>3 DEF Pending
    <3>2. /\ Fitting'
          /\ pc'[t] # "make"
          /\ \A u \in Tasks \ {t} : pc'[u] = pc[u] /\ op'[u] = op[u]
      BY <2>3, <3>1, OthersStay
    <3> QED BY <2>3, <3>2, PendingKept
  <2>4. ASSUME NEW t \in Tasks, Call(t), Clash PROVE Good'
    <3>1. crashes' = crashes
      BY <2>4 DEF Call, Make, Creates, Cd, CdUp, DeleteCall, WriteCall, FreeFirst, FlushCall, FormatCall
    <3>2. ASSUME Fine, ~clash', NEW d \in Index \cup {Root}, NEW n \in Names, NEW isDir \in BOOLEAN,
                 Make(t, d, n, isDir)
          PROVE  Fine'
      <4>1. NamesOK'
        <5>1. entries' = entries /\ fileCount' = fileCount
          BY <3>2 DEF Make, Creates, ram
        <5> QED BY <5>1, <3>2, NamesKept
      <4>2. Fitting' /\ Awaited(t)' /\ \A u \in Tasks \ {t} : pc'[u] = pc[u] /\ op'[u] = op[u]
        BY <3>2, MakeLooks DEF Pending
      <4>3. pc'[t] = "make"
        BY <3>2 DEF Make, Creates, Goto, Pending, Fitting
      <4>4. \A u, v \in Tasks : pc'[u] = "make" /\ pc'[v] = "make" => u = v
        BY <2>4, <3>2 DEF Clash
      <4> QED BY <4>1, <4>2, <4>3, <4>4 DEF Pending
    <3>3. ASSUME Fine, FormatCall(t) PROVE Fine'
      <4>1. entries' = NoEntries /\ fileCount' = 0
        BY <3>3 DEF FormatCall
      <4>2. \A j \in Index : ~Live(j)'
        BY <4>1, Sizes DEF Live, Index
      <4> QED BY <3>3, <4>1, <4>2, <2>3, NoNames
    <3>4. ASSUME Fine, NEW n, NEW c, NEW len,
                 Cd(t, n) \/ DeleteCall(t, n) \/ WriteCall(t, n, c, len) \/ CdUp(t) \/ FlushCall(t)
          PROVE  Fine'
      <4>1. entries' = entries /\ fileCount' = fileCount
        BY <3>4 DEF Cd, CdUp, DeleteCall, WriteCall, FreeFirst, FlushCall, ram
      <4> QED BY <3>4, <4>1, <2>3, NamesKept
    <3>5. Fine /\ ~clash' => Fine'
      BY <2>4, <3>2, <3>3, <3>4 DEF Call
    <3> QED BY <2>2, <2>4, <3>1, <3>5
  <2>5. ASSUME NEW t \in Tasks, Step(t), Clash PROVE Good'
    <3>1. CASE Insert(t)
      <4>1. crashes' = crashes
        BY <3>1 DEF Insert
      <4>2. ASSUME Fine PROVE Fine'
        <5>1. NamesOK'
          BY <3>1, <4>2, InsertKeepsNames
        <5>2. pc[t] = "make"
          BY <3>1 DEF Insert, At
        <5>3. /\ Fitting' /\ pc'[t] # "make"
              /\ \A u \in Tasks \ {t} : pc'[u] = pc[u]
          BY <2>5, <3>1, <4>2, OthersStay DEF Pending
        <5>4. \A u \in Tasks : pc'[u] # "make"
          BY <5>2, <5>3, <4>2 DEF Pending
        <5> QED BY <5>1, <5>3, <5>4 DEF Pending
      <4> QED BY <2>2, <2>5, <4>1, <4>2
    <3>2. CASE ~Insert(t)
      <4>1. /\ crashes' = crashes /\ fileCount' = fileCount
            /\ \E i, s, l : entries' = entries \/ entries' = Resized(i, s, l) \/ entries' = Unnamed(i, s, l)
        <5>1. CASE DeleteEntry(t)
          BY <5>1 DEF DeleteEntry, Unnamed
        <5>2. CASE Truncate(t)
          BY <5>2 DEF Truncate, Resized
        <5>3. CASE Store(t)
          <6>1. CASE op[t].k + 1 = op[t].end
            <7>1. /\ entries' = Resized(op[t].i, op[t].len, op[t].start)
                  /\ crashes' = crashes /\ fileCount' = fileCount
              BY <5>3, <6>1 DEF Store, Resized
            <7> QED BY <7>1
          <6>2. CASE op[t].k + 1 # op[t].end
            BY <5>3, <6>2 DEF Store
          <6> QED BY <6>1, <6>2
        <5>4. CASE FreeRead(t) \/ FreeWrite(t) \/ MarkRead(t) \/ MarkWrite(t)
          BY <5>4 DEF FreeRead, FreeWrite, MarkRead, MarkWrite, ReadBits, WriteBits, ram
        <5>5. CASE \/ Alloc(t) \/ AllocFails(t) \/ Fill(t) \/ StoreFails(t)
                   \/ Zero(t) \/ Super(t) \/ DirSector(t) \/ FlushFails(t)
          BY <5>5 DEF Alloc, AllocFails, Fill, StoreFails, Zero, Super, DirSector, FlushFails, ram, past
        <5> QED BY <2>5, <3>2, <5>1, <5>2, <5>3, <5>4, <5>5 DEF Step
      <4>2. Fine => Fine'
        BY <2>3, <2>5, <4>1, NamesKept
      <4> QED BY <2>2, <2>5, <4>1, <4>2
    <3> QED BY <3>1, <3>2
  <2>6. CASE UNCHANGED vars
    <3>1. /\ crashes' = crashes /\ fileCount' = fileCount /\ entries' = entries
          /\ pc' = pc /\ op' = op /\ clash' = clash
      BY <2>6 DEF vars, ram
    <3>2. Fine => Fine'
      <4>1. NamesOK => NamesOK'
        BY <3>1, NamesKept
      <4>2. Pending => Pending'
        BY <3>1 DEF Pending, Fitting, Awaited, Live
      <4> QED BY <4>1, <4>2
    <3> QED BY <3>1, <3>2
  <2> QED BY <2>1, <2>4, <2>5, <2>6 DEF Next
<1>3. Good => (crashes = 0 /\ ~clash => UniqueNames)
  BY DEF NamesOK
<1> HIDE DEF Good
<1> QED BY <1>1, <1>2, <1>3, PTL DEF Spec

=============================================================================

--------------------------- MODULE ProcMem_proofs ---------------------------
(***************************************************************************)
(* The frames of ProcMem are safe for any number of frames and slots, any  *)
(* sizes of the areas and any layout of the page directory.                *)
(*                                                                         *)
(* Safe speaks of a bitmap u, entries e, a set S of address spaces and a   *)
(* set K of kernel stacks.  Four lemmas say that the four things a step    *)
(* can do keep it: drop some of what is held, fill an entry, start a new   *)
(* space, take a kernel stack.  Every action is one or two of these.       *)
(***************************************************************************)
EXTENDS ProcMem, FiniteSetTheorems, TLAPS

Safe(u, e, S, K) ==
  /\ \A p, q \in S : \A x, y \in Entries :
       e[p][x] = e[q][y] /\ e[p][x] \in Frames => p = q /\ x = y
  /\ \A p \in S : \A x \in Entries : e[p][x] \notin S \cup K
  /\ S \cap K = {}
  /\ S \cup K \subseteq u
  /\ \A p \in S : \A x \in Entries : e[p][x] \in u \cup {None, Lfb}

EntriesType == [Frames -> [Entries -> Frames \cup {Lfb, None}]]

(* What remains after something was given back is still safe.              *)
LEMMA SafeDrop ==
  ASSUME NEW u, NEW e, NEW S, NEW K, Safe(u, e, S, K),
         NEW u2, NEW e2, NEW S2, NEW K2,
         S2 \subseteq S, K2 \subseteq K, S2 \cup K2 \subseteq u2,
         \A p \in S2 : e2[p] = e[p] \/ e2[p] = Empty,
         \A p \in S2 : \A x \in Entries : e2[p][x] \in u2 \cup {None, Lfb},
         \A p \in S2 : None \notin S \cup K
  PROVE  Safe(u2, e2, S2, K2)
<1> USE DEF Safe, Empty
<1>1. \A p \in S2 : \A x \in Entries : e2[p][x] \in {e[p][x], None}
  OBVIOUS
<1>2. ASSUME NEW p \in S2, NEW q \in S2, NEW x \in Entries, NEW y \in Entries,
             e2[p][x] = e2[q][y], e2[p][x] \in Frames
      PROVE  p = q /\ x = y
  <2>0. None \notin Frames
    BY ProcMemAssumption
  <2>1. e2[p][x] = e[p][x] /\ e2[q][y] = e[q][y]
    BY <1>1, <1>2, <2>0
  <2>2. p \in S /\ q \in S
    OBVIOUS
  <2>3. e[p][x] = e[q][y] /\ e[p][x] \in Frames
    BY <2>1, <1>2
  <2>4. \A r, t \in S : \A y1, z \in Entries :
          e[r][y1] = e[t][z] /\ e[r][y1] \in Frames => r = t /\ y1 = z
    BY Zenon
  <2> QED BY <2>2, <2>3, <2>4
<1>3. \A p \in S2 : \A x \in Entries : e2[p][x] \notin S2 \cup K2
  BY <1>1
<1> QED BY <1>2, <1>3

(* One more entry, holding a frame that was free, or the frame buffer.     *)
LEMMA SafeFill ==
  ASSUME NEW u, NEW e \in EntriesType, NEW S \in SUBSET Frames, NEW K, Safe(u, e, S, K),
         NEW p \in S, NEW x \in Entries, NEW f, f \in (Frames \ u) \cup {Lfb},
         Lfb \notin K,
         NEW u2, u2 = u \cup ({f} \ {Lfb}),
         NEW e2, e2 = [e EXCEPT ![p] = [@ EXCEPT ![x] = f]]
  PROVE  Safe(u2, e2, S, K)
<1> USE DEF Safe, EntriesType
<1>1. /\ \A q \in S : \A y \in Entries :
           e2[q][y] = IF q = p /\ y = x THEN f ELSE e[q][y]
  OBVIOUS
<1>2. \A q \in S : \A y \in Entries : e[q][y] = f => f = Lfb
  BY ProcMemAssumption
<1>3. ASSUME NEW q \in S, NEW r \in S, NEW y \in Entries, NEW z \in Entries,
             e2[q][y] = e2[r][z], e2[q][y] \in Frames
      PROVE  q = r /\ y = z
  BY <1>1, <1>2, <1>3, ProcMemAssumption
<1>4. f \notin S \cup K
  BY ProcMemAssumption
<1>5. \A q \in S : \A y \in Entries : e2[q][y] \notin S \cup K
  BY <1>1, <1>4
<1>6. \A q \in S : \A y \in Entries : e2[q][y] \in u2 \cup {None, Lfb}
  BY <1>1
<1> QED BY <1>3, <1>5, <1>6

(* paging_create_user_pd.                                                  *)
LEMMA SafeSpace ==
  ASSUME NEW u \in SUBSET Frames, NEW e \in EntriesType, NEW S \in SUBSET Frames,
         NEW K, Safe(u, e, S, K), NEW p \in Frames \ u,
         NEW e2, e2 = [e EXCEPT ![p] = Empty]
  PROVE  Safe(u \cup {p}, e2, S \cup {p}, K)
<1> USE DEF Safe, EntriesType, Empty
<1>1. \A q \in S \cup {p} : \A y \in Entries :
        e2[q][y] = IF q = p THEN None ELSE e[q][y]
  OBVIOUS
<1>2. p \notin S \cup K
  OBVIOUS
<1>3. None \notin S \cup {p} \cup u
  BY ProcMemAssumption
<1> QED BY <1>1, <1>2, <1>3, ProcMemAssumption

(* A kernel stack.                                                         *)
LEMMA SafeStack ==
  ASSUME NEW u, NEW e, NEW S, NEW K, Safe(u, e, S, K), NEW f \in Frames \ u
  PROVE  Safe(u \cup {f}, e, S, K \cup {f})
BY ProcMemAssumption DEF Safe

-----------------------------------------------------------------------------
(* The inductive invariant, with the frames in the terms of Safe.          *)
StacksApart ==
  /\ \A s, t \in Live : stack[s] = stack[t] => s = t
  /\ \A s \in Live : stack[s] # op.kstack

FrameSafe == Safe(used, ent, Spaces, KStacks)

LEMMA InvParts ==
  IInv <=> /\ TypeOK /\ FrameSafe /\ StacksApart /\ TablesCover
           /\ TaskInv /\ OpInv /\ NewTaskInv /\ MapInv
BY DEF IInv, FrameSafe, Safe, StacksApart, OneHolder, HeldIsUsed

(* The sets of spaces and stacks are sets of frames, and what is live is   *)
(* in them.                                                                *)
LEMMA HolderTypes ==
  ASSUME TypeOK, TaskInv
  PROVE  /\ Spaces \in SUBSET Frames
         /\ KStacks \in SUBSET Frames
         /\ ent \in EntriesType
         /\ \A s \in Live : cr3[s] \in Spaces /\ stack[s] \in KStacks
         /\ op.pd \in Frames => op.pd \in Spaces
         /\ None \notin Spaces \cup KStacks /\ Lfb \notin Spaces \cup KStacks
<1>1. Live \subseteq Slots
  BY DEF Live
<1>2. op.pd \in Frames \cup {None} /\ op.kstack \in Frames \cup {None}
  BY DEF TypeOK, Ops
<1> QED BY <1>1, <1>2, ProcMemAssumption DEF TypeOK, TaskInv, Spaces, KStacks, EntriesType

(* A step that holds no more than before and changes no entry.             *)
LEMMA NoMoreHeld ==
  ASSUME IInv, UNCHANGED ent, Spaces' \subseteq Spaces, KStacks' \subseteq KStacks,
         used \subseteq used'
  PROVE  FrameSafe' /\ TablesCover'
<1>1. FrameSafe /\ TablesCover /\ TypeOK /\ TaskInv
  BY InvParts
<1>2. None \notin Spaces \cup KStacks
  BY <1>1, HolderTypes
<1>3. Safe(used', ent', Spaces', KStacks')
  <2>1. Spaces' \cup KStacks' \subseteq used'
    BY <1>1 DEF FrameSafe, Safe
  <2>2. \A p \in Spaces' : \A x \in Entries : ent'[p][x] \in used' \cup {None, Lfb}
    BY <1>1 DEF FrameSafe, Safe
  <2>3. Safe(used, ent, Spaces, KStacks)
    BY <1>1 DEF FrameSafe
  <2> QED BY <1>2, <2>1, <2>2, <2>3, SafeDrop
<1> QED BY <1>1, <1>3 DEF FrameSafe, TablesCover, TableOf

-----------------------------------------------------------------------------
(* The areas, their pages and the tables the pages lie under.              *)
LEMMA AreaFacts ==
  /\ Image \in Areas /\ Heap \in Areas /\ Stack \in Areas
  /\ << "dll", 0 >> \in Areas /\ << "lfb", 0 >> \in Areas /\ << "tib", 0 >> \in Areas
  /\ \A k \in 1 .. Stacks : << "thread", k >> \in Areas
  /\ \A a \in Areas : Size[a] \in Nat \ {0}
  /\ \A a \in Areas : \A i \in 1 .. Size[a] : Page(a, i) \in Pages
  /\ \A g \in Pages : TableOf(g) \in Tables
  /\ Pages \subseteq Entries /\ Tables \subseteq Entries
<1>1. \A a \in Areas : Size[a] \in Nat \ {0}
  BY ProcMemAssumption
<1>2. \A a \in Areas : \A i \in 1 .. Size[a] : Page(a, i) \in Pages
  BY DEF Pages, Page
<1>3. \A a \in Areas : a = << a[1], a[2] >>
  BY DEF Areas
<1>4. \A g \in Pages : \E a \in Areas : g[1] = a[1] /\ g[2] = a[2]
  BY DEF Pages
<1>5. \A g \in Pages : << g[1], g[2] >> \in Areas
  BY <1>3, <1>4
<1>6. \A g \in Pages : TableOf(g) \in Tables
  BY <1>5 DEF TableOf, Tables
<1> QED BY <1>1, <1>2, <1>6 DEF Areas, Image, Heap, Stack, Entries

LEMMA OneInNat == 1 \in 1 .. Size[Image] /\ Idle \in Slots
<1>1. Size[Image] \in Nat \ {0}
  BY AreaFacts
<1> QED BY <1>1, ProcMemAssumption DEF Slots, Idle

LEMMA NoOpTypes ==
  /\ NoOp \in Ops
  /\ NoOp.kind = "none" /\ NoOp.pd = None /\ NoOp.kstack = None
BY OneInNat, AreaFacts DEF NoOp, Ops

-----------------------------------------------------------------------------
(* What is left of the invariant once the frames are dealt with.           *)
Books == TypeOK /\ StacksApart /\ TaskInv /\ OpInv /\ NewTaskInv /\ MapInv

LEMMA InvBooks == FrameSafe' /\ TablesCover' /\ Books' => IInv'
BY DEF Books, IInv, FrameSafe, Safe, StacksApart, OneHolder, HeldIsUsed

LEMMA Initial == Init => IInv
<1> SUFFICES ASSUME Init PROVE IInv
  OBVIOUS
<1>1. Live = {}
  BY DEF Init, Live
<1>2. Spaces = {} /\ KStacks = {}
  BY <1>1, NoOpTypes DEF Init, Spaces, KStacks
<1>3. TypeOK
  BY NoOpTypes, OneInNat, ProcMemAssumption DEF Init, TypeOK
<1>4. OpInv /\ NewTaskInv /\ MapInv
  BY <1>1, NoOpTypes DEF Init, OpInv, NewTaskInv, MapInv, Running
<1>5. TaskInv
  BY <1>1, OneInNat DEF Init, TaskInv
<1> QED BY <1>1, <1>2, <1>3, <1>4, <1>5 DEF IInv, OneHolder, HeldIsUsed, TablesCover

(* A step that ends the running call: op and pc are as at the start.       *)
LEMMA ReturnHolds ==
  ASSUME IInv, Return
  PROVE  /\ op' \in Ops /\ pc' = "user"
         /\ OpInv' /\ NewTaskInv' /\ MapInv'
BY NoOpTypes DEF Return, OpInv, NewTaskInv, MapInv, Running

(* A call makes a new op of a live caller and changes no task.             *)
LEMMA CallBooks ==
  ASSUME IInv, UNCHANGED taskVars, pc = "user", op' \in Ops, op'.kstack = None,
         used' \subseteq used, ent' \in EntriesType,
         \/ op'.kind = "run" /\ Live = {} /\ op'.pd = None /\ pc' = "newSpace"
            /\ op'.area = Image /\ op'.i = 1
         \/ /\ op'.kind = "fork" /\ op'.pd = None /\ pc' = "newSpace"
            /\ op'.area = Image /\ op'.i = 1
            /\ op'.task \in Live /\ op'.slot \in FreeSlots
         \/ /\ op'.kind = "thread" /\ op'.pd = cr3[op'.task] /\ pc' = "kstack"
            /\ op'.task \in Live /\ op'.slot \in FreeSlots
         \/ /\ op'.kind = "malloc" /\ op'.pd = cr3[op'.task] /\ pc' = "map"
            /\ op'.task \in Live /\ op'.area = Heap /\ op'.i \in 1 .. Size[Heap]
         \/ /\ op'.kind = "exec" /\ op'.pd = cr3[op'.task] /\ pc' = "map"
            /\ op'.task \in Live /\ op'.area = Image /\ op'.i = 1
  PROVE  Books' /\ Spaces' \subseteq Spaces /\ KStacks' \subseteq KStacks
<1> USE DEF taskVars
<1>1. TypeOK /\ StacksApart /\ TaskInv
  BY InvParts
<1>2. Live' = Live /\ FreeSlots' = FreeSlots
  BY DEF Live, FreeSlots
<1>3. \A s \in Live : s \in Slots /\ cr3[s] \in Frames /\ stack[s] \in Frames
  BY <1>1 DEF Live, TaskInv
<1>4. None \notin Frames /\ None # Lfb
  BY ProcMemAssumption
<1>5. Spaces' \subseteq Spaces
  BY <1>2, <1>3 DEF Spaces
<1>6. KStacks' \subseteq KStacks
  BY <1>2, <1>3 DEF KStacks
<1>7. TypeOK'
  BY <1>1 DEF TypeOK, EntriesType
<1>8. StacksApart' /\ TaskInv'
  BY <1>1, <1>2, <1>3, <1>4 DEF StacksApart, TaskInv
<1>9. OpInv'
  BY <1>2, <1>3, <1>4 DEF OpInv, Running
<1>10. NewTaskInv'
  BY <1>2, <1>4 DEF NewTaskInv, Running
<1>11. MapInv'
  <2>1. op'.len \in 1 .. Size[Image] /\ Size[Image] \in Nat
    BY AreaFacts DEF Ops
  <2>2. Heap # Image /\ Heap[1] = "heap" /\ Image[1] = "image"
    BY DEF Heap, Image
  <2> QED BY <2>1, <2>2 DEF MapInv, Running
<1> QED BY <1>5, <1>6, <1>7, <1>8, <1>9, <1>10, <1>11 DEF Books

LEMMA RunCallHolds ==
  ASSUME IInv, NEW len \in 1 .. Size[Image], RunCall(len)
  PROVE  IInv'
<1>1. Live = {} /\ pc = "user" /\ pc' = "newSpace"
  BY DEF RunCall, Live, Goto
<1>2. /\ op' \in Ops /\ op'.kind = "run" /\ op'.pd = None /\ op'.kstack = None
      /\ op'.area = Image /\ op'.i = 1
  BY NoOpTypes DEF RunCall, Ops, NoOp
<1>3. UNCHANGED << used, ent, taskVars >> /\ ent' \in EntriesType
  BY InvParts DEF RunCall, TypeOK, EntriesType
<1>4. Books' /\ Spaces' \subseteq Spaces /\ KStacks' \subseteq KStacks
  BY <1>1, <1>2, <1>3, CallBooks
<1> QED BY <1>3, <1>4, NoMoreHeld, InvBooks

LEMMA ForkCallHolds ==
  ASSUME IInv, NEW s \in Slots, ForkCall(s)
  PROVE  IInv'
<1>1. s \in Live /\ pc = "user" /\ pc' = "newSpace"
  BY DEF ForkCall, Live, UserTask, Goto
<1>2. PICK t \in FreeSlots :
        op' = [NoOp EXCEPT !.kind = "fork", !.task = s, !.slot = t]
  BY DEF ForkCall, Lowest
<1>3. /\ op' \in Ops /\ op'.kind = "fork" /\ op'.pd = None /\ op'.kstack = None
      /\ op'.task = s /\ op'.slot = t /\ op'.area = Image /\ op'.i = 1
  BY <1>2, NoOpTypes DEF Ops, FreeSlots, NoOp
<1>4. UNCHANGED << used, ent, taskVars >> /\ ent' \in EntriesType
  BY InvParts DEF ForkCall, TypeOK, EntriesType
<1>5. Books' /\ Spaces' \subseteq Spaces /\ KStacks' \subseteq KStacks
  BY <1>1, <1>2, <1>3, <1>4, CallBooks
<1> QED BY <1>4, <1>5, NoMoreHeld, InvBooks

LEMMA ThreadCallHolds ==
  ASSUME IInv, NEW s \in Slots, ThreadCall(s)
  PROVE  IInv'
<1>1. s \in Live /\ pc = "user" /\ pc' = "kstack"
  BY DEF ThreadCall, Live, UserTask, Goto
<1>2. PICK t \in FreeSlots :
        op' = [NoOp EXCEPT !.kind = "thread", !.task = s, !.slot = t, !.pd = cr3[s]]
  BY DEF ThreadCall, Lowest
<1>3. /\ op' \in Ops /\ op'.kind = "thread" /\ op'.pd = cr3[s] /\ op'.kstack = None
      /\ op'.task = s /\ op'.slot = t
  BY <1>2, NoOpTypes, InvParts DEF Ops, FreeSlots, TypeOK
<1>4. UNCHANGED << used, ent, taskVars >> /\ ent' \in EntriesType
  BY InvParts DEF ThreadCall, TypeOK, EntriesType
<1>5. Books' /\ Spaces' \subseteq Spaces /\ KStacks' \subseteq KStacks
  BY <1>1, <1>2, <1>3, <1>4, CallBooks
<1> QED BY <1>4, <1>5, NoMoreHeld, InvBooks

LEMMA MallocCallHolds ==
  ASSUME IInv, NEW s \in Slots, MallocCall(s)
  PROVE  IInv'
<1>1. s \in Live /\ pc = "user" /\ pc' = "map"
  BY DEF MallocCall, Live, UserTask, Goto
<1>2. PICK i \in 1 .. Size[Heap] :
        op' = [NoOp EXCEPT !.kind = "malloc", !.task = s, !.pd = cr3[s],
                           !.area = Heap, !.i = i]
  BY DEF MallocCall, Lowest
<1>3. /\ op' \in Ops /\ op'.kind = "malloc" /\ op'.pd = cr3[s] /\ op'.kstack = None
      /\ op'.task = s /\ op'.area = Heap /\ op'.i = i
  <2>1. i \in Nat /\ Heap \in Areas
    BY AreaFacts
  <2> QED BY <1>2, <2>1, NoOpTypes, InvParts DEF Ops, TypeOK
<1>4. UNCHANGED << used, ent, taskVars >> /\ ent' \in EntriesType
  BY InvParts DEF MallocCall, TypeOK, EntriesType
<1>5. Books' /\ Spaces' \subseteq Spaces /\ KStacks' \subseteq KStacks
  BY <1>1, <1>2, <1>3, <1>4, CallBooks
<1> QED BY <1>4, <1>5, NoMoreHeld, InvBooks

-----------------------------------------------------------------------------
(* Giving back directories and kernel stacks nobody holds afterwards, with *)
(* or without what the directory p holds.                                  *)
LEMMA GiveBack ==
  ASSUME IInv, NEW p \in Spaces, NEW G, used' = used \ G,
         \/ ent' = [ent EXCEPT ![p] = Empty] /\ G \subseteq Content(p) \cup Spaces \cup KStacks
         \/ UNCHANGED ent /\ G \subseteq Spaces \cup KStacks,
         Spaces' \subseteq Spaces, KStacks' \subseteq KStacks,
         (Spaces' \cup KStacks') \cap G \subseteq Content(p)
  PROVE  FrameSafe' /\ TablesCover' /\ used' \subseteq Frames /\ ent' \in EntriesType
<1>1. TypeOK /\ TaskInv /\ TablesCover /\ Safe(used, ent, Spaces, KStacks)
  BY InvParts DEF FrameSafe
<1>2. /\ Spaces \in SUBSET Frames /\ ent \in EntriesType
      /\ None \notin Spaces \cup KStacks
  BY <1>1, HolderTypes
<1>3. Empty \in [Entries -> Frames \cup {Lfb, None}]
  BY DEF Empty
<1>4. \A f \in Content(p) : \E x \in Entries : f = ent[p][x] /\ f \in Frames
  BY <1>1, <1>2, ProcMemAssumption DEF Content, EntriesType
<1>5. Spaces' \cup KStacks' \subseteq used'
  BY <1>1, <1>4 DEF Safe
<1>6. \A q \in Spaces' : ent'[q] = ent[q] \/ ent'[q] = Empty
  BY <1>2 DEF EntriesType
<1>7. ASSUME NEW q \in Spaces', NEW x \in Entries
      PROVE  ent'[q][x] \in used' \cup {None, Lfb}
  <2>1. q \in Spaces /\ ent[q][x] \in used \cup {None, Lfb}
    BY <1>1 DEF Safe
  <2>2. CASE ent'[q][x] = None
    BY <2>2
  <2>3. CASE ent'[q][x] = ent[q][x] /\ G \subseteq Spaces \cup KStacks
    BY <1>1, <2>1, <2>3 DEF Safe
  <2>4. CASE ent'[q][x] = ent[q][x] /\ q # p /\ G \subseteq Content(p) \cup Spaces \cup KStacks
    <3>1. ent[q][x] \notin Content(p)
      BY <1>1, <1>4, <2>1, <2>4 DEF Safe
    <3>2. ent[q][x] \notin Spaces \cup KStacks
      BY <1>1, <2>1 DEF Safe
    <3> QED BY <2>1, <2>4, <3>1, <3>2
  <2> QED BY <1>2, <2>1, <2>2, <2>3, <2>4 DEF EntriesType, Empty
<1>8. Safe(used', ent', Spaces', KStacks')
  BY <1>1, <1>2, <1>5, <1>6, <1>7, SafeDrop
<1>9. TablesCover'
  <2>1. \A q \in Spaces' : \A g \in Pages :
          ent'[q][g] # None => ent'[q][TableOf(g)] # None
    BY <1>1, <1>6, AreaFacts DEF TablesCover, Empty
  <2> QED BY <2>1 DEF TablesCover, TableOf
<1>10. used' \subseteq Frames
  BY <1>1 DEF TypeOK
<1>11. ent' \in EntriesType
  BY <1>2, <1>3 DEF EntriesType
<1> QED BY <1>8, <1>9, <1>10, <1>11 DEF FrameSafe

LEMMA ExecCallHolds ==
  ASSUME IInv, NEW s \in Slots, NEW len \in 1 .. Size[Image], ExecCall(s, len)
  PROVE  IInv'
<1>1. s \in Live /\ pc = "user" /\ pc' = "map"
  BY DEF ExecCall, Live, UserTask, Goto
<1>2. /\ op' \in Ops /\ op'.kind = "exec" /\ op'.pd = cr3[s] /\ op'.kstack = None
      /\ op'.task = s /\ op'.area = Image /\ op'.i = 1
  BY NoOpTypes, InvParts DEF ExecCall, Ops, TypeOK, NoOp
<1>3. /\ UNCHANGED taskVars
      /\ used' = used \ Content(cr3[s])
      /\ ent' = [ent EXCEPT ![cr3[s]] = Empty]
  BY DEF ExecCall
<1>4. cr3[s] \in Spaces
  BY <1>1 DEF Spaces
<1>5. ent' \in EntriesType /\ used' \subseteq used
  BY <1>3, InvParts DEF TypeOK, EntriesType, Empty
<1>7. Books' /\ Spaces' \subseteq Spaces /\ KStacks' \subseteq KStacks
  BY <1>1, <1>2, <1>3, <1>5, CallBooks
<1>8. FrameSafe' /\ TablesCover'
  BY <1>3, <1>4, <1>7, GiveBack
<1> QED BY <1>7, <1>8, InvBooks

-----------------------------------------------------------------------------
(* A call that gives up leaves its caller as it was.                       *)
LEMMA ReturnBooks ==
  ASSUME IInv, Return, UNCHANGED taskVars, used' \subseteq Frames, ent' \in EntriesType
  PROVE  /\ Books'
         /\ Spaces' = {cr3[s] : s \in Live} /\ Spaces' \subseteq Spaces
         /\ KStacks' = {stack[s] : s \in Live} /\ KStacks' \subseteq KStacks
<1> USE DEF taskVars
<1>1. TypeOK /\ StacksApart /\ TaskInv
  BY InvParts
<1>2. Live' = Live
  BY DEF Live
<1>3. /\ op' \in Ops /\ pc' = "user" /\ op'.pd = None /\ op'.kstack = None
      /\ OpInv' /\ NewTaskInv' /\ MapInv'
  BY ReturnHolds, NoOpTypes DEF Return
<1>4. Spaces' = {cr3[s] : s \in Live} /\ KStacks' = {stack[s] : s \in Live}
  BY <1>2, <1>3 DEF Spaces, KStacks
<1>5. TypeOK'
  BY <1>1, <1>3 DEF TypeOK, EntriesType
<1>6. StacksApart' /\ TaskInv'
  BY <1>1, <1>2, <1>3, ProcMemAssumption DEF StacksApart, TaskInv
<1> QED BY <1>3, <1>4, <1>5, <1>6 DEF Books, Spaces, KStacks

(* DiscardSpace and Return: a new space that never came to be a task's.    *)
LEMMA DiscardSpaceHolds ==
  ASSUME IInv, op.pd \in Frames, op.kind \in {"run", "fork"}, DiscardSpace, Return,
         UNCHANGED taskVars
  PROVE  IInv'
<1> DEFINE S == {cr3[s] : s \in Live}
           K == {stack[s] : s \in Live}
<1>1. /\ OpInv /\ op.pd \in Spaces
      /\ S \subseteq Spaces /\ K \subseteq KStacks
      /\ Spaces \cap KStacks = {}
  BY InvParts, HolderTypes DEF FrameSafe, Safe, Spaces, KStacks
<1>2. op.pd \notin S \cup K
  BY <1>1 DEF OpInv
<1>3. ent' \in EntriesType /\ used' \subseteq Frames
  BY InvParts DEF DiscardSpace, TypeOK, EntriesType, Empty
<1>4. /\ Books' /\ Spaces' = S /\ KStacks' = K
      /\ Spaces' \subseteq Spaces /\ KStacks' \subseteq KStacks
  BY <1>3, ReturnBooks
<1>5. FrameSafe' /\ TablesCover'
  <2> DEFINE G == Content(op.pd) \cup {op.pd}
  <2>1. used' = used \ G /\ ent' = [ent EXCEPT ![op.pd] = Empty]
    BY DEF DiscardSpace
  <2>2. G \subseteq Content(op.pd) \cup Spaces \cup KStacks
    BY <1>1
  <2>3. (Spaces' \cup KStacks') \cap G \subseteq Content(op.pd)
    BY <1>2, <1>4
  <2> HIDE DEF G
  <2> QED BY <1>1, <1>4, <2>1, <2>2, <2>3, GiveBack
<1> QED BY <1>4, <1>5, InvBooks

(* A call gives back a new directory, a new kernel stack, or nothing.      *)
LEMMA DropNewHolds ==
  ASSUME IInv, NEW G, G \subseteq {op.pd, op.kstack} \ {None},
         op.pd \in G => op.kind \in {"run", "fork"},
         used' = used \ G, UNCHANGED ent, Return, UNCHANGED taskVars
  PROVE  IInv'
<1> DEFINE S == {cr3[s] : s \in Live}
           K == {stack[s] : s \in Live}
<1>1. /\ OpInv /\ StacksApart /\ op.kstack \in Frames \cup {None}
      /\ S \subseteq Spaces /\ K \subseteq KStacks
      /\ Spaces \cap KStacks = {}
  BY InvParts, HolderTypes DEF FrameSafe, Safe, Spaces, KStacks, TypeOK, Ops
<1>2. ent' \in EntriesType /\ used' \subseteq Frames
  BY InvParts DEF TypeOK, EntriesType
<1>3. /\ Books' /\ Spaces' = S /\ KStacks' = K
      /\ Spaces' \subseteq Spaces /\ KStacks' \subseteq KStacks
  BY <1>2, ReturnBooks
<1>4. (G \cap {op.pd}) \subseteq Spaces /\ (G \cap {op.kstack}) \subseteq KStacks
  BY DEF Spaces, KStacks
<1>5. G \subseteq Spaces \cup KStacks
  BY <1>4
<1>6. op.kstack \notin S \cup K \/ op.kstack \notin G
  BY <1>1, <1>4 DEF StacksApart
<1>7. op.pd \notin S \cup K \/ op.pd \notin G
  BY <1>1, <1>4 DEF OpInv
<1>8. (Spaces' \cup KStacks') \cap G = {}
  BY <1>3, <1>6, <1>7
<1>9. FrameSafe' /\ TablesCover'
  <2>1. CASE Spaces = {}
    <3>1. Spaces' = {}
      BY <1>3, <2>1
    <3>2. KStacks' \subseteq used'
      BY <1>3, <1>8, InvParts DEF FrameSafe, Safe
    <3>3. Spaces' \cap KStacks' = {}
      BY <3>1
    <3> QED BY <3>1, <3>2, <3>3 DEF FrameSafe, Safe, TablesCover
  <2>2. CASE Spaces # {}
    <3>1. PICK p \in Spaces : TRUE
      BY <2>2
    <3> HIDE DEF S, K
    <3> QED BY <1>3, <1>5, <1>8, <3>1, GiveBack
  <2> QED BY <2>1, <2>2
<1> QED BY <1>3, <1>9, InvBooks

LEMMA NewSpaceFailsHolds == ASSUME IInv, NewSpaceFails PROVE IInv'
<1>1. used' = used \ {} /\ UNCHANGED ent /\ UNCHANGED taskVars /\ Return
  BY DEF NewSpaceFails
<1> QED BY <1>1, DropNewHolds

LEMMA MallocFailsHolds == ASSUME IInv, MallocFails PROVE IInv'
<1>1. used' = used \ {} /\ UNCHANGED ent /\ UNCHANGED taskVars /\ Return
  BY DEF MallocFails
<1> QED BY <1>1, DropNewHolds

LEMMA CopyFailsHolds == ASSUME IInv, CopyFails PROVE IInv'
<1>1. pc = "copy" /\ DiscardSpace /\ Return /\ UNCHANGED taskVars
  BY DEF CopyFails
<1>2. op.pd \in Frames /\ op.kind = "fork"
  BY <1>1, InvParts DEF OpInv, Running
<1> QED BY <1>1, <1>2, DiscardSpaceHolds

LEMMA MapStackFailsHolds == ASSUME IInv, MapStackFails PROVE IInv'
<1>1. pc = "map" /\ Return /\ UNCHANGED ent /\ UNCHANGED taskVars
  BY DEF MapStackFails, MapImpossible
<1>2. MapInv /\ OpInv
  BY InvParts
<1>3. Stack[1] = "stack"
  BY DEF Stack
<1>4. \/ used' = used \ {op.pd, op.kstack} /\ op.pd # None /\ op.kstack # None /\ Running("run")
      \/ used' = used \ {}
      \/ used' = used \ {op.kstack} /\ op.kstack # None /\ Running("thread")
  BY <1>1, <1>2, ProcMemAssumption DEF MapStackFails, MapInv, OpInv
<1>5. CASE used' = used \ {op.pd, op.kstack} /\ op.pd # None /\ op.kstack # None /\ Running("run")
  BY <1>1, <1>5, DropNewHolds DEF Running
<1>6. CASE used' = used \ {}
  BY <1>1, <1>6, DropNewHolds
<1>7. CASE used' = used \ {op.kstack} /\ op.kstack # None /\ Running("thread")
  <2>1. op.pd \in Spaces /\ op.kstack \in KStacks
    BY <1>1, <1>2, <1>7, InvParts, HolderTypes DEF OpInv, KStacks
  <2>2. op.pd # op.kstack
    BY <2>1, InvParts DEF FrameSafe, Safe
  <2> QED BY <1>1, <1>7, <2>2, DropNewHolds
<1> QED BY <1>4, <1>5, <1>6, <1>7

LEMMA KernelStackFailsHolds == ASSUME IInv, KernelStackFails PROVE IInv'
<1>1. pc = "kstack" /\ Return /\ UNCHANGED taskVars
  BY DEF KernelStackFails
<1>2. op.pd \in Frames /\ op.pd # None
  BY <1>1, InvParts, ProcMemAssumption DEF OpInv
<1>3. CASE Running("run") /\ DiscardDirectory
  BY <1>1, <1>2, <1>3, DropNewHolds DEF DiscardDirectory, Running
<1>4. CASE Running("fork") /\ DiscardSpace
  BY <1>1, <1>2, <1>4, DiscardSpaceHolds DEF Running
<1>5. CASE UNCHANGED << used, ent >>
  <2>1. used' = used \ {} /\ UNCHANGED ent
    BY <1>5
  <2> QED BY <1>1, <2>1, DropNewHolds
<1> QED BY <1>3, <1>4, <1>5 DEF KernelStackFails

-----------------------------------------------------------------------------
(* The steps of a call that go on.                                         *)
LEMMA StepBooks ==
  ASSUME IInv, UNCHANGED taskVars, used' \subseteq Frames, ent' \in EntriesType,
         op' \in Ops,
         pc' \in {"user", "newSpace", "map", "copy", "slot", "kstack", "start", "kill"},
         op'.kstack = op.kstack \/ op'.kstack \notin KStacks
  PROVE  /\ TypeOK' /\ StacksApart' /\ TaskInv'
         /\ Live' = Live /\ FreeSlots' = FreeSlots
<1> USE DEF taskVars
<1>1. TypeOK /\ StacksApart /\ TaskInv
  BY InvParts
<1>2. Live' = Live /\ FreeSlots' = FreeSlots
  BY DEF Live, FreeSlots
<1>3. TypeOK'
  BY <1>1 DEF TypeOK, EntriesType
<1>4. StacksApart'
  BY <1>1, <1>2 DEF StacksApart, KStacks
<1>5. TaskInv'
  BY <1>1, <1>2 DEF TaskInv
<1> QED BY <1>2, <1>3, <1>4, <1>5

(* What a step that goes on leaves held.                                   *)
LEMMA StepHolders ==
  ASSUME UNCHANGED taskVars
  PROVE  /\ op'.pd = op.pd => Spaces' = Spaces
         /\ op'.kstack = op.kstack => KStacks' = KStacks
         /\ op.pd = None /\ op'.pd # None => Spaces' = Spaces \cup {op'.pd}
         /\ op.kstack = None /\ op'.kstack # None => KStacks' = KStacks \cup {op'.kstack}
BY DEF taskVars, Spaces, KStacks, Live

LEMMA NewSpaceHolds == ASSUME IInv, NewSpace PROVE IInv'
<1>1. PICK p \in Frames \ used :
        /\ used' = used \cup {p}
        /\ ent' = [ent EXCEPT ![p] = Empty]
        /\ op' = [op EXCEPT !.pd = p]
  BY DEF NewSpace, Lowest, Free
<1>2. /\ pc = "newSpace" /\ UNCHANGED taskVars
      /\ op.pd = None /\ op.kstack = None /\ op.kind \in {"run", "fork"}
      /\ pc' = IF op.kind = "fork" THEN "copy" ELSE "map"
  BY InvParts DEF NewSpace, OpInv, NewTaskInv, Goto, Running
<1>3. /\ TypeOK /\ TaskInv /\ TablesCover /\ Safe(used, ent, Spaces, KStacks)
      /\ OpInv /\ NewTaskInv
  BY InvParts DEF FrameSafe
<1>4. /\ Spaces \in SUBSET Frames /\ ent \in EntriesType /\ used \in SUBSET Frames
  BY <1>3, HolderTypes DEF TypeOK
<1>5. op \in Ops /\ op' \in Ops /\ op'.pd = p /\ op'.kstack = op.kstack /\ p # None
  BY <1>1, <1>3, ProcMemAssumption DEF TypeOK, Ops
<1>6. ent' \in EntriesType /\ used' \subseteq Frames
  BY <1>1, <1>4 DEF EntriesType, Empty
<1>7. TypeOK' /\ StacksApart' /\ TaskInv' /\ Live' = Live /\ FreeSlots' = FreeSlots
  BY <1>2, <1>5, <1>6, StepBooks
<1>8. Spaces' = Spaces \cup {p} /\ KStacks' = KStacks
  BY <1>2, <1>5, StepHolders
<1>9. FrameSafe'
  <2>1. Safe(used \cup {p}, ent', Spaces \cup {p}, KStacks)
    BY <1>1, <1>3, <1>4, SafeSpace
  <2> QED BY <1>1, <1>8, <2>1 DEF FrameSafe
<1>10. TablesCover'
  <2>1. \A q \in Spaces' : \A g \in Pages :
          ent'[q][g] # None => ent'[q][TableOf(g)] # None
    BY <1>1, <1>3, <1>4, <1>8, AreaFacts DEF TablesCover, Empty, EntriesType
  <2> QED BY <2>1 DEF TablesCover, TableOf
<1>11. \A s \in Live : cr3[s] \in Spaces
  BY <1>3, HolderTypes
<1>12. \A s \in Live : cr3[s] # p
  BY <1>3, <1>11 DEF Safe
<1>13. /\ op'.kind = op.kind /\ op'.task = op.task /\ op'.slot = op.slot
       /\ op'.len = op.len /\ op'.area = op.area /\ op'.i = op.i
  BY <1>1, <1>5 DEF Ops
<1>14. OpInv'
  BY <1>2, <1>3, <1>5, <1>7, <1>12, <1>13 DEF OpInv, Running, taskVars
<1>15. NewTaskInv'
  BY <1>2, <1>3, <1>5, <1>7, <1>13 DEF NewTaskInv, Running
<1>16. MapInv'
  <2>1. op'.len \in 1 .. Size[Image] /\ Size[Image] \in Nat /\ op'.area[1] = "image"
    BY <1>2, <1>3, <1>5, <1>13, AreaFacts DEF Ops, NewTaskInv, Image
  <2>2. op'.area = Image /\ op'.i = 1 /\ op'.area # Heap /\ op'.area # Stack
    BY <1>2, <1>3, <1>13 DEF NewTaskInv, Image, Heap, Stack
  <2>3. op'.kind = "run" \/ pc' # "map"
    BY <1>2, <1>13
  <2> QED BY <1>2, <1>5, <2>1, <2>2, <2>3 DEF MapInv, Running
<1> QED BY <1>7, <1>9, <1>10, <1>14, <1>15, <1>16, InvBooks DEF Books

LEMMA CopyDoneHolds == ASSUME IInv, CopyDone PROVE IInv'
<1>1. /\ pc = "copy" /\ pc' = "kstack" /\ UNCHANGED taskVars
      /\ used' = used /\ ent' = ent /\ op' = op
  BY DEF CopyDone, Goto
<1>2. TypeOK /\ OpInv /\ NewTaskInv
  BY InvParts
<1>3. op' \in Ops /\ ent' \in EntriesType /\ used' \subseteq Frames
  BY <1>1, <1>2 DEF TypeOK, EntriesType
<1>4. TypeOK' /\ StacksApart' /\ TaskInv' /\ Live' = Live /\ FreeSlots' = FreeSlots
  BY <1>1, <1>3, StepBooks
<1>5. Spaces' = Spaces /\ KStacks' = KStacks
  BY <1>1, StepHolders
<1>6. FrameSafe' /\ TablesCover'
  BY <1>1, <1>5, NoMoreHeld
<1>7. OpInv' /\ NewTaskInv' /\ MapInv'
  BY <1>1, <1>2, <1>4 DEF OpInv, NewTaskInv, MapInv, Running, taskVars
<1> QED BY <1>4, <1>6, <1>7, InvBooks DEF Books

LEMMA PickSlotHolds == ASSUME IInv, PickSlot PROVE IInv'
<1>1. pc = "slot" /\ UNCHANGED taskVars
  BY DEF PickSlot
<1>2. TypeOK /\ OpInv /\ NewTaskInv /\ op.kind = "run" /\ op.pd \in Frames /\ op.kstack = None
  BY <1>1, InvParts DEF OpInv, NewTaskInv, Running
<1>3. CASE DiscardDirectory /\ Return
  <2>1. used' = used \ {op.pd} /\ ent' = ent /\ op.pd # None
    BY <1>2, <1>3, ProcMemAssumption DEF DiscardDirectory
  <2> QED BY <1>1, <1>2, <1>3, <2>1, DropNewHolds
<1>4. CASE /\ \E t \in Lowest(FreeSlots) : op' = [op EXCEPT !.slot = t]
           /\ Goto("kstack") /\ UNCHANGED << used, ent >>
  <2>1. PICK t \in FreeSlots : op' = [op EXCEPT !.slot = t]
    BY <1>4 DEF Lowest
  <2>2. pc' = "kstack" /\ used' = used /\ ent' = ent
    BY <1>4 DEF Goto
  <2>3. /\ op' \in Ops /\ op'.slot = t /\ op'.kind = op.kind /\ op'.task = op.task
        /\ op'.pd = op.pd /\ op'.kstack = op.kstack
    BY <1>2, <2>1 DEF TypeOK, Ops, FreeSlots
  <2>4. ent' \in EntriesType /\ used' \subseteq Frames
    BY <1>2, <2>2 DEF TypeOK, EntriesType
  <2>5. TypeOK' /\ StacksApart' /\ TaskInv' /\ Live' = Live /\ FreeSlots' = FreeSlots
    BY <1>1, <2>2, <2>3, <2>4, StepBooks
  <2>6. Spaces' = Spaces /\ KStacks' = KStacks
    BY <1>1, <2>3, StepHolders
  <2>7. FrameSafe' /\ TablesCover'
    BY <2>2, <2>6, NoMoreHeld
  <2>8. OpInv' /\ NewTaskInv' /\ MapInv'
    BY <1>1, <1>2, <2>2, <2>3, <2>5 DEF OpInv, NewTaskInv, MapInv, Running, taskVars
  <2> QED BY <2>5, <2>7, <2>8, InvBooks DEF Books
<1> QED BY <1>3, <1>4 DEF PickSlot

LEMMA ThreadStackFacts ==
  \A a \in ThreadStack : a \in Areas /\ a[1] = "thread"
<1>1. \A a \in ThreadStack : \E k \in 1 .. Stacks : a = << "thread", k >>
  BY ProcMemAssumption DEF ThreadStack, StackAreas, Lowest
<1> QED BY <1>1, AreaFacts

LEMMA KernelStackHolds == ASSUME IInv, KernelStack PROVE IInv'
<1>1. PICK f \in Frames \ used, a \in IF Running("thread") THEN ThreadStack ELSE {Stack} :
        /\ used' = used \cup {f}
        /\ op' = [op EXCEPT !.kstack = f, !.area = a, !.i = 1]
  BY DEF KernelStack, Lowest, Free
<1>2. /\ pc = "kstack" /\ ent' = ent /\ UNCHANGED taskVars
      /\ pc' = IF op.kind = "fork" THEN "start" ELSE "map"
  BY DEF KernelStack, Goto, Running
<1>3. /\ TypeOK /\ TaskInv /\ OpInv /\ NewTaskInv /\ TablesCover
      /\ Safe(used, ent, Spaces, KStacks)
  BY InvParts DEF FrameSafe
<1>4. op.kstack = None /\ op.pd \in Frames /\ op.kind \in {"run", "fork", "thread"}
  BY <1>2, <1>3 DEF OpInv, NewTaskInv
<1>5. /\ a \in Areas /\ a # Heap /\ a # Image /\ a[1] \in {"thread", "stack"}
      /\ a[1] = "thread" <=> op.kind = "thread"
      /\ a = Stack <=> op.kind # "thread"
  BY ThreadStackFacts, AreaFacts DEF Stack, Heap, Image, Running
<1>6. /\ op' \in Ops /\ op'.kstack = f /\ op'.i = 1 /\ op'.area = a /\ op'.kind = op.kind
      /\ op'.task = op.task /\ op'.slot = op.slot /\ op'.pd = op.pd
  BY <1>1, <1>3, <1>5 DEF TypeOK, Ops
<1>7. ent' \in EntriesType /\ used' \subseteq Frames /\ f # None
  BY <1>1, <1>2, <1>3, ProcMemAssumption DEF TypeOK, EntriesType
<1>8. f \notin KStacks
  BY <1>3 DEF Safe
<1>9. TypeOK' /\ StacksApart' /\ TaskInv' /\ Live' = Live /\ FreeSlots' = FreeSlots
  BY <1>2, <1>6, <1>7, <1>8, StepBooks
<1>10. Spaces' = Spaces /\ KStacks' = KStacks \cup {f}
  BY <1>2, <1>4, <1>6, <1>7, StepHolders
<1>11. FrameSafe'
  <2>1. Safe(used \cup {f}, ent, Spaces, KStacks \cup {f})
    BY <1>3, SafeStack
  <2> QED BY <1>1, <1>2, <1>10, <2>1 DEF FrameSafe
<1>12. TablesCover'
  BY <1>2, <1>3, <1>10 DEF TablesCover, TableOf
<1>13. OpInv'
  BY <1>2, <1>3, <1>4, <1>6, <1>9 DEF OpInv, Running, taskVars
<1>14. NewTaskInv'
  BY <1>2, <1>3, <1>4, <1>6, <1>9 DEF NewTaskInv, Running
<1>15. MapInv'
  <2>1. Size[a] \in Nat \ {0}
    BY <1>5, AreaFacts
  <2> QED BY <1>2, <1>3, <1>4, <1>5, <1>6, <1>9, <2>1 DEF MapInv, NewTaskInv, Running
<1> QED BY <1>9, <1>11, <1>12, <1>13, <1>14, <1>15, InvBooks DEF Books

LEMMA CopyBooks ==
  ASSUME IInv, UNCHANGED << op, pc, taskVars >>, used' \subseteq Frames,
         ent' \in EntriesType
  PROVE  Books' /\ Spaces' = Spaces /\ KStacks' = KStacks
<1>1. op' = op /\ pc' = pc /\ UNCHANGED taskVars
  OBVIOUS
<1>2. TypeOK /\ OpInv /\ NewTaskInv /\ MapInv
  BY InvParts
<1>3. TypeOK' /\ StacksApart' /\ TaskInv' /\ Live' = Live /\ FreeSlots' = FreeSlots
  BY <1>1, <1>2, StepBooks DEF TypeOK
<1>4. OpInv' /\ NewTaskInv' /\ MapInv'
  BY <1>1, <1>2, <1>3 DEF OpInv, NewTaskInv, MapInv, Running, taskVars
<1> QED BY <1>1, <1>3, <1>4, StepHolders DEF Books

LEMMA PagesNotTables == Pages \cap Tables = {} /\ Entries = Pages \cup Tables
<1>1. \A a \in Areas : a[1] # "table"
  BY DEF Areas
<1>2. \A g \in Pages : g[1] # "table"
  BY <1>1 DEF Pages
<1>3. \A g \in Tables : g[1] = "table"
  BY DEF Tables
<1> QED BY <1>2, <1>3 DEF Entries

(* What paging_copy_user_space copies next: a table, or a page whose table *)
(* is already there.                                                       *)
LEMMA NextCopyFacts ==
  ASSUME TablesCover, cr3[op.task] \in Spaces, ToCopy # {}
  PROVE  /\ NextCopy \in Entries /\ NextCopy \in ToCopy
         /\ NextCopy \in Pages => ent[op.pd][TableOf(NextCopy)] # None
<1>1. CASE Ready # {}
  <2>1. NextCopy \in Ready
    BY <1>1 DEF NextCopy
  <2> QED BY <2>1, PagesNotTables DEF Ready
<1>2. CASE Ready = {}
  <2>1. PICK x \in ToCopy : TRUE
    OBVIOUS
  <2>2. ToCopy \cap Tables # {}
    <3>1. CASE x \in Tables
      BY <2>1, <3>1
    <3>2. CASE x \in Pages
      <4>1. TableOf(x) \in Tables /\ TableOf(x) \in Entries
        BY <3>2, AreaFacts
      <4>2. Parent[TableOf(x)] # None
        BY <2>1, <3>2 DEF ToCopy, Parent, TablesCover
      <4>3. ent[op.pd][TableOf(x)] = None
        BY <1>2, <2>1, <3>2 DEF Ready
      <4> QED BY <4>1, <4>2, <4>3 DEF ToCopy
    <3> QED BY <2>1, <3>1, <3>2, PagesNotTables DEF ToCopy
  <2>3. NextCopy \in ToCopy \cap Tables
    BY <1>2, <2>2 DEF NextCopy
  <2> QED BY <2>3, PagesNotTables DEF ToCopy
<1> QED BY <1>1, <1>2

LEMMA CopyHolds == ASSUME IInv, Copy PROVE IInv'
<1>1. PICK f \in (Frames \ used) \cup {Lfb} :
        /\ used' = used \cup ({f} \ {Lfb})
        /\ ent' = [ent EXCEPT ![op.pd] = [@ EXCEPT ![NextCopy] = f]]
  BY DEF Copy, Lowest, Free
<1>2. pc = "copy" /\ ToCopy # {} /\ UNCHANGED << op, pc, taskVars >>
  BY DEF Copy
<1>3. /\ TypeOK /\ TaskInv /\ OpInv /\ TablesCover
      /\ Safe(used, ent, Spaces, KStacks)
  BY InvParts DEF FrameSafe
<1>4. /\ op.pd \in Frames /\ op.task \in Live /\ op.pd \in Spaces
      /\ cr3[op.task] \in Spaces
      /\ Spaces \in SUBSET Frames /\ ent \in EntriesType /\ Lfb \notin KStacks
  BY <1>2, <1>3, HolderTypes DEF OpInv, Running
<1>5. /\ NextCopy \in Entries
      /\ NextCopy \in Pages => ent[op.pd][TableOf(NextCopy)] # None
  BY <1>2, <1>3, <1>4, NextCopyFacts
<1>6. used' \subseteq Frames /\ ent' \in EntriesType
  BY <1>1, <1>3, <1>4 DEF TypeOK, EntriesType
<1>7. Books' /\ Spaces' = Spaces /\ KStacks' = KStacks
  BY <1>2, <1>6, CopyBooks
<1>8. FrameSafe'
  <2>1. Safe(used', ent', Spaces, KStacks)
    BY <1>1, <1>3, <1>4, <1>5, SafeFill
  <2> QED BY <1>7, <2>1 DEF FrameSafe
<1>9. TablesCover'
  <2>1. f # None
    BY ProcMemAssumption
  <2>2. ASSUME NEW q \in Spaces, NEW g \in Pages, ent'[q][g] # None
        PROVE  ent'[q][TableOf(g)] # None
    <3>1. ent'[q] = IF q = op.pd THEN [ent[q] EXCEPT ![NextCopy] = f] ELSE ent[q]
      BY <1>1, <1>4 DEF EntriesType
    <3>2. \A y \in Entries : ent'[q][y] = IF q = op.pd /\ y = NextCopy THEN f ELSE ent[q][y]
      BY <1>4, <3>1 DEF EntriesType
    <3>3. TableOf(g) \in Entries /\ g \in Entries
      BY AreaFacts
    <3>4. ent[q][TableOf(g)] # None
      BY <1>3, <1>5, <2>2, <3>2, <3>3 DEF TablesCover
    <3> QED BY <2>1, <3>2, <3>3, <3>4
  <2> QED BY <1>7, <2>2 DEF TablesCover, TableOf
<1> QED BY <1>7, <1>8, <1>9, InvBooks

-----------------------------------------------------------------------------
(* map_page: one entry, or the table's and then the page's.                *)
LEMMA MapPageSafe ==
  ASSUME IInv, op.pd \in Frames, NEW g \in Pages, MapPage(g)
  PROVE  /\ Safe(used', ent', Spaces, KStacks)
         /\ used' \subseteq Frames /\ ent' \in EntriesType
         /\ \A q \in Spaces : \A y \in Pages :
              ent'[q][y] # None => ent'[q][TableOf(y)] # None
<1>1. /\ TypeOK /\ TaskInv /\ TablesCover /\ Safe(used, ent, Spaces, KStacks)
  BY InvParts DEF FrameSafe
<1>2. /\ op.pd \in Spaces /\ Spaces \in SUBSET Frames /\ ent \in EntriesType
      /\ Lfb \notin KStacks /\ used \subseteq Frames
  BY <1>1, HolderTypes DEF TypeOK
<1>3. /\ g \in Entries /\ TableOf(g) \in Entries /\ TableOf(g) # g
      /\ \A y \in Pages : y \in Entries /\ TableOf(y) \in Entries
  BY AreaFacts, PagesNotTables
<1>4. PICK f \in (Frames \ used) \cup {Lfb} :
        IF TableMissing(g)
        THEN \E t \in (Frames \ used) \ {f} :
               /\ used' = used \cup ({f, t} \ {Lfb})
               /\ ent' = [ent EXCEPT ![op.pd] = [@ EXCEPT ![g] = f, ![TableOf(g)] = t]]
        ELSE /\ used' = used \cup ({f} \ {Lfb})
             /\ ent' = [ent EXCEPT ![op.pd] = [@ EXCEPT ![g] = f]]
  BY DEF MapPage, Lowest, Free
<1>5. f # None
  BY ProcMemAssumption
<1> DEFINE u1 == used \cup ({f} \ {Lfb})
           e1 == [ent EXCEPT ![op.pd] = [@ EXCEPT ![g] = f]]
<1>6. Safe(u1, e1, Spaces, KStacks)
  BY <1>1, <1>2, <1>3, SafeFill
<1>7. /\ e1 \in EntriesType
      /\ \A q \in Spaces : \A y \in Entries :
           e1[q][y] = IF q = op.pd /\ y = g THEN f ELSE ent[q][y]
  BY <1>2 DEF EntriesType
<1>8. CASE ~TableMissing(g)
  <2>1. used' = u1 /\ ent' = e1
    BY <1>4, <1>8
  <2>2. ent[op.pd][TableOf(g)] # None
    BY <1>8 DEF TableMissing
  <2>3. \A q \in Spaces : \A y \in Pages :
          ent'[q][y] # None => ent'[q][TableOf(y)] # None
    BY <1>1, <1>3, <1>5, <1>7, <2>1, <2>2 DEF TablesCover
  <2> QED BY <1>2, <1>6, <1>7, <2>1, <2>3
<1>9. CASE TableMissing(g)
  <2>1. PICK t \in (Frames \ used) \ {f} :
          /\ used' = used \cup ({f, t} \ {Lfb})
          /\ ent' = [ent EXCEPT ![op.pd] = [@ EXCEPT ![g] = f, ![TableOf(g)] = t]]
    BY <1>4, <1>9
  <2>2. t \notin u1 /\ t # Lfb /\ t # None
    BY ProcMemAssumption
  <2>3. used' = u1 \cup ({t} \ {Lfb})
    BY <2>1, <2>2
  <2>4. ent' = [e1 EXCEPT ![op.pd] = [@ EXCEPT ![TableOf(g)] = t]]
    BY <1>2, <2>1 DEF EntriesType
  <2> HIDE DEF u1, e1
  <2>5. Safe(used', ent', Spaces, KStacks)
    <3>1. t \in (Frames \ u1) \cup {Lfb}
      BY <2>2
    <3> QED BY <1>2, <1>3, <1>6, <1>7, <2>3, <2>4, <3>1, SafeFill
  <2>6. /\ ent' \in EntriesType
        /\ \A q \in Spaces : \A y \in Entries :
             ent'[q][y] = IF q = op.pd /\ y = TableOf(g) THEN t ELSE e1[q][y]
    BY <1>2, <1>7, <2>4 DEF EntriesType
  <2>7. ASSUME NEW q \in Spaces, NEW y \in Pages, ent'[q][y] # None
        PROVE  ent'[q][TableOf(y)] # None
    <3>1. CASE q = op.pd /\ TableOf(y) = TableOf(g)
      BY <1>3, <2>2, <2>6, <3>1
    <3>2. CASE ~(q = op.pd /\ TableOf(y) = TableOf(g))
      <4>1. y # g \/ q # op.pd
        BY <3>2
      <4>2. y \in Entries /\ TableOf(y) \in Entries /\ y # TableOf(g) /\ TableOf(y) # g
        BY <1>3, AreaFacts, PagesNotTables
      <4>3. ent[q][y] # None
        BY <1>7, <2>6, <2>7, <4>1, <4>2
      <4>4. ent[q][TableOf(y)] # None
        BY <1>1, <4>3 DEF TablesCover
      <4> QED BY <1>7, <2>6, <3>2, <4>2, <4>4
    <3> QED BY <3>1, <3>2
  <2>8. used' \subseteq Frames
    BY <1>2, <2>1
  <2> QED BY <2>5, <2>6, <2>7, <2>8
<1> QED BY <1>8, <1>9

LEMMA NextAreaFacts ==
  /\ \A n \in {"image", "dll", "lfb"} :
       /\ NextArea(n) \in Areas /\ NextArea(n) # Heap /\ NextArea(n) # Image
       /\ NextArea(n) # Stack /\ NextArea(n)[1] # "thread"
  /\ NextArea("tib") = Stack
  /\ Stack \in Areas /\ Stack # Heap /\ Stack # Image /\ Stack[1] = "stack"
BY AreaFacts DEF NextArea, Heap, Image, Stack

(* A step of a mapping loop that goes on keeps the call and moves on in    *)
(* the areas.                                                              *)
LEMMA GoOnBooks ==
  ASSUME IInv, pc = "map", UNCHANGED taskVars, used' \subseteq Frames,
         ent' \in EntriesType, op' \in Ops,
         op'.kind = op.kind, op'.task = op.task, op'.pd = op.pd, op'.slot = op.slot,
         op'.kstack = op.kstack, op'.len = op.len,
         \/ pc' = "map" /\ op'.area = op.area /\ op'.area # Heap
            /\ op'.i \in 1 .. (IF op.area = Image THEN op.len ELSE Size[op.area])
         \/ pc' = "map" /\ op'.i = 1
            /\ \/ op.area[1] \in {"image", "dll", "lfb"} /\ op'.area = NextArea(op.area[1])
               \/ op.kind = "exec" /\ op.area # Heap /\ op.area[1] # "thread"
                  /\ op'.area = Stack
         \/ pc' = "slot" /\ op.area # Stack /\ op.kind = "run"
         \/ pc' = "start" /\ op.area = Stack /\ op.kind = "run"
         \/ pc' = "start" /\ op.area[1] = "thread"
         \/ pc' = "kill" /\ op.kind = "exec"
  PROVE  Books' /\ Spaces' = Spaces /\ KStacks' = KStacks
<1>1. TypeOK /\ OpInv /\ NewTaskInv /\ MapInv
  BY InvParts
<1>2. TypeOK' /\ StacksApart' /\ TaskInv' /\ Live' = Live /\ FreeSlots' = FreeSlots
  BY StepBooks
<1>3. Spaces' = Spaces /\ KStacks' = KStacks
  BY StepHolders
<1>4. op.pd \in Frames /\ op.kind # "fork"
  BY <1>1 DEF OpInv, MapInv, Running
<1>5. op.kind = "malloc" <=> op.area = Heap
  BY <1>1 DEF MapInv, Running
<1>6. op.kind = "thread" <=> op.area[1] = "thread"
  BY <1>1 DEF MapInv, Running
<1>7. op.kind = "run" =>
        IF op.area = Stack THEN op.kstack \in Frames /\ op.slot \in FreeSlots
        ELSE op.kstack = None
  BY <1>1 DEF MapInv, Running
<1>8. OpInv'
  <2>1. pc' \in {"map", "slot", "start", "kill"}
    OBVIOUS
  <2>2. pc' = "slot" => op.kind = "run"
    BY NextAreaFacts
  <2>3. pc' = "kill" => op.kind = "exec"
    OBVIOUS
  <2>4. pc' = "start" => op.kind \in {"run", "fork", "thread"}
    BY <1>6
  <2> QED BY <1>1, <1>2, <1>4, <2>1, <2>2, <2>3, <2>4 DEF OpInv, Running, taskVars
<1>9. NewTaskInv'
  <2>1. pc' = "slot" => op.kstack = None
    BY <1>7
  <2>2. pc' = "start" => op.kstack \in Frames
    BY <1>1, <1>6, <1>7 DEF MapInv, Running
  <2>3. pc' = "start" /\ op.kind = "run" => op.slot \in FreeSlots
    BY <1>6, <1>7
  <2>4. pc' \in {"map", "slot", "start", "kill"}
    OBVIOUS
  <2> QED BY <1>1, <1>2, <2>1, <2>2, <2>3, <2>4 DEF NewTaskInv, Running
<1>10. MapInv'
  <2>1. CASE pc' = "map" /\ op'.area = op.area /\ op'.area # Heap
             /\ op'.i \in 1 .. (IF op.area = Image THEN op.len ELSE Size[op.area])
    BY <1>1, <1>2, <2>1 DEF MapInv, Running
  <2>2. CASE pc' = "map" /\ op'.i = 1 /\ op.area[1] \in {"image", "dll", "lfb"}
             /\ op'.area = NextArea(op.area[1])
    <3>1. op.area # Heap /\ op.area # Stack /\ op.area[1] # "thread"
      BY <2>2 DEF Heap, Stack
    <3>2. /\ op'.area \in Areas /\ op'.area # Heap /\ op'.area # Image
          /\ op'.area # Stack /\ op'.area[1] # "thread"
      BY <2>2, NextAreaFacts
    <3>3. Size[op'.area] \in Nat \ {0}
      BY <3>2, AreaFacts
    <3> QED BY <1>4, <1>5, <1>6, <1>7, <2>2, <3>1, <3>2, <3>3 DEF MapInv, Running
  <2>3. CASE pc' = "map" /\ op'.i = 1 /\ op.kind = "exec" /\ op'.area = Stack
    <3>1. Size[Stack] \in Nat \ {0}
      BY AreaFacts
    <3> QED BY <1>4, <2>3, <3>1, NextAreaFacts DEF MapInv, Running
  <2>4. CASE pc' # "map"
    BY <2>4 DEF MapInv
  <2> QED BY <2>1, <2>2, <2>3, <2>4
<1> QED BY <1>2, <1>3, <1>8, <1>9, <1>10 DEF Books

(* The page a mapping loop is at is one of the area's.                     *)
LEMMA HereIsPage ==
  ASSUME IInv, pc = "map"
  PROVE  /\ Here \in Pages /\ op.pd \in Frames
         /\ op.i \in Nat /\ op.len \in 1 .. Size[Image] /\ op.area \in Areas
<1>1. op \in Ops /\ MapInv /\ op.pd \in Frames
  BY InvParts DEF TypeOK, OpInv
<1>2. op.len \in 1 .. Size[Image] /\ op.area \in Areas /\ op.i \in Nat
  BY <1>1 DEF Ops
<1>3. Size[op.area] \in Nat /\ Size[Image] \in Nat
  BY <1>2, AreaFacts
<1>4. op.i \in 1 .. Size[op.area]
  BY <1>1, <1>2, <1>3 DEF MapInv
<1> QED BY <1>1, <1>2, <1>4, AreaFacts DEF Here

LEMMA MapNextHolds == ASSUME IInv, MapNext PROVE IInv'
<1> DEFINE last == IF op.area = Image THEN op.len ELSE Size[op.area]
<1>1. pc = "map" /\ MapPage(Here) /\ UNCHANGED taskVars
  BY DEF MapNext
<1>2. /\ Here \in Pages /\ op.pd \in Frames
      /\ op.i \in Nat /\ op.len \in 1 .. Size[Image] /\ op.area \in Areas
  BY <1>1, HereIsPage
<1>3. /\ Safe(used', ent', Spaces, KStacks)
      /\ used' \subseteq Frames /\ ent' \in EntriesType
      /\ \A q \in Spaces : \A y \in Pages :
           ent'[q][y] # None => ent'[q][TableOf(y)] # None
  BY <1>1, <1>2, MapPageSafe
<1>4. op \in Ops /\ op.i \in 1 .. last /\ last \in Nat
  BY <1>1, <1>2, AreaFacts, InvParts DEF TypeOK, MapInv
<1>5. ASSUME Books', Spaces' \subseteq Spaces, KStacks' \subseteq KStacks
      PROVE  IInv'
  <2>1. Spaces' \cup KStacks' \subseteq used'
    BY <1>3, <1>5 DEF Safe
  <2>2. \A p \in Spaces' : \A x \in Entries : ent'[p][x] \in used' \cup {None, Lfb}
    BY <1>3, <1>5 DEF Safe
  <2>3. None \notin Spaces \cup KStacks
    BY InvParts, HolderTypes
  <2>4. Safe(used', ent', Spaces', KStacks')
    BY <1>3, <1>5, <2>1, <2>2, <2>3, SafeDrop
  <2>5. TablesCover'
    BY <1>3, <1>5 DEF TablesCover, TableOf
  <2> QED BY <1>5, <2>4, <2>5, InvBooks DEF FrameSafe
<1>6. CASE ~LastPage /\ op.area # Heap /\ op' = [op EXCEPT !.i = @ + 1] /\ Goto("map")
  <2>1. /\ op' \in Ops /\ op'.i = op.i + 1 /\ op'.area = op.area
        /\ op'.kind = op.kind /\ op'.task = op.task /\ op'.pd = op.pd
        /\ op'.slot = op.slot /\ op'.kstack = op.kstack /\ op'.len = op.len
    BY <1>2, <1>4, <1>6 DEF Ops
  <2>2. op'.i \in 1 .. last /\ op'.area # Heap
    BY <1>4, <1>6, <2>1 DEF LastPage
  <2> QED BY <1>1, <1>3, <1>5, <1>6, <2>1, <2>2, GoOnBooks DEF Goto
<1>7. CASE /\ \/ op.area[1] \in {"image", "dll", "lfb"}
              \/ op.area[1] = "tib" /\ Running("exec")
           /\ Continue(NextArea(op.area[1])) /\ Goto("map")
  <2>1. /\ op' \in Ops /\ op'.i = 1 /\ op'.area = NextArea(op.area[1])
        /\ op'.kind = op.kind /\ op'.task = op.task /\ op'.pd = op.pd
        /\ op'.slot = op.slot /\ op'.kstack = op.kstack /\ op'.len = op.len
    BY <1>4, <1>7, NextAreaFacts DEF Continue, Ops
  <2>2. CASE op.area[1] \in {"image", "dll", "lfb"}
    BY <1>1, <1>3, <1>5, <1>7, <2>1, <2>2, GoOnBooks DEF Goto
  <2>3. CASE op.area[1] = "tib" /\ Running("exec")
    <3>1. op.area # Heap /\ op.area[1] # "thread" /\ op'.area = Stack
      BY <2>1, <2>3, NextAreaFacts DEF Heap
    <3> QED BY <1>1, <1>3, <1>5, <1>7, <2>1, <2>3, <3>1, GoOnBooks DEF Goto, Running
  <2> QED BY <1>7, <2>2, <2>3
<1>8. CASE op.area[1] = "tib" /\ Running("run") /\ Goto("slot") /\ UNCHANGED op
  <2>1. op.area # Stack
    BY <1>8 DEF Stack
  <2> QED BY <1>1, <1>3, <1>4, <1>5, <1>8, <2>1, GoOnBooks DEF Goto, Running
<1>9. CASE op.area = Stack /\ Running("run") /\ Goto("start") /\ UNCHANGED op
  BY <1>1, <1>3, <1>4, <1>5, <1>9, GoOnBooks DEF Goto, Running
<1>10. CASE op.area[1] = "thread" /\ Goto("start") /\ UNCHANGED op
  BY <1>1, <1>3, <1>4, <1>5, <1>10, GoOnBooks DEF Goto, Running
<1>11. CASE Return
  <2>1. Books' /\ Spaces' \subseteq Spaces /\ KStacks' \subseteq KStacks
    BY <1>1, <1>3, <1>11, ReturnBooks
  <2> QED BY <1>5, <2>1
<1> QED BY <1>6, <1>7, <1>8, <1>9, <1>10, <1>11 DEF MapNext

LEMMA MapImageFailsHolds == ASSUME IInv, MapImageFails PROVE IInv'
<1>1. pc = "map" /\ UNCHANGED taskVars /\ op.area = Image
  BY DEF MapImageFails, MapImpossible
<1>2. op.pd \in Frames /\ op \in Ops
  BY <1>1, InvParts DEF OpInv, TypeOK
<1>3. CASE Running("run") /\ DiscardSpace /\ Return
  BY <1>1, <1>2, <1>3, DiscardSpaceHolds DEF Running
<1>4. CASE Running("exec") /\ UNCHANGED << used, ent, op >> /\ Goto("kill")
  <2>1. used' = used /\ ent' = ent /\ op' = op /\ pc' = "kill" /\ op.kind = "exec"
    BY <1>4 DEF Goto, Running
  <2>2. used' \subseteq Frames /\ ent' \in EntriesType
    BY <2>1, InvParts DEF TypeOK, EntriesType
  <2>3. Books' /\ Spaces' = Spaces /\ KStacks' = KStacks
    BY <1>1, <1>2, <2>1, <2>2, GoOnBooks
  <2>4. FrameSafe' /\ TablesCover'
    BY <2>1, <2>3, NoMoreHeld
  <2> QED BY <2>3, <2>4, InvBooks
<1> QED BY <1>3, <1>4 DEF MapImageFails

LEMMA MapModulesFailsHolds == ASSUME IInv, MapModulesFails PROVE IInv'
<1>1. /\ pc = "map" /\ UNCHANGED taskVars /\ ent' = ent
      /\ op.area[1] \in {"dll", "lfb", "tib"}
      /\ used \subseteq used' /\ used' \subseteq Frames
  BY InvParts DEF MapModulesFails, MapImpossible, Lowest, Free, TypeOK
<1>2. op \in Ops /\ ent' \in EntriesType
  BY <1>1, InvParts DEF TypeOK, EntriesType
<1>3. op.area # Stack /\ op.area # Heap /\ op.area[1] # "thread"
  BY <1>1 DEF Stack, Heap
<1>4. Books' /\ Spaces' = Spaces /\ KStacks' = KStacks
  <2>1. CASE Running("run") /\ Goto("slot") /\ UNCHANGED op
    BY <1>1, <1>2, <1>3, <2>1, GoOnBooks DEF Goto, Running
  <2>2. CASE Running("exec") /\ Continue(Stack) /\ Goto("map")
    <3>1. /\ op' \in Ops /\ op'.i = 1 /\ op'.area = Stack
          /\ op'.kind = op.kind /\ op'.task = op.task /\ op'.pd = op.pd
          /\ op'.slot = op.slot /\ op'.kstack = op.kstack /\ op'.len = op.len
      BY <1>2, <2>2, AreaFacts DEF Continue, Ops
    <3> QED BY <1>1, <1>2, <1>3, <2>2, <3>1, GoOnBooks DEF Goto, Running
  <2> QED BY <2>1, <2>2 DEF MapModulesFails
<1>5. FrameSafe' /\ TablesCover'
  BY <1>1, <1>4, NoMoreHeld
<1> QED BY <1>4, <1>5, InvBooks

-----------------------------------------------------------------------------
(* The new task takes over the space and the stack the call was holding.   *)
LEMMA StartHolds == ASSUME IInv, Start PROVE IInv'
<1>1. /\ TypeOK /\ StacksApart /\ TaskInv /\ OpInv /\ NewTaskInv
      /\ pc = "start" /\ used' = used /\ ent' = ent /\ Return
  BY InvParts DEF Start
<1>2. /\ op.pd \in Frames /\ op.kstack \in Frames /\ None \notin Frames
      /\ op.kind \in {"run", "fork", "thread"}
  BY <1>1, ProcMemAssumption DEF OpInv, NewTaskInv
<1>3. op.slot \in Slots \ {Idle} /\ op.slot \notin Live /\ op.slot \in Slots
  BY <1>1, <1>2 DEF NewTaskInv, FreeSlots, Live, Running
<1>4. /\ Live' = Live \cup {op.slot}
      /\ \A s \in Slots : /\ cr3'[s] = IF s = op.slot THEN op.pd ELSE cr3[s]
                          /\ stack'[s] = IF s = op.slot THEN op.kstack ELSE stack[s]
      /\ \A s \in Slots \ {op.slot} : isThread'[s] = isThread[s]
      /\ op.kind = "thread" => isThread'[op.slot]
  BY <1>1, <1>3 DEF Start, Live, TypeOK, Running
<1>5. \A s \in Live : s \in Slots /\ s # op.slot
  BY <1>3 DEF Live
<1>6. /\ op' \in Ops /\ OpInv' /\ NewTaskInv' /\ MapInv' /\ pc' = "user"
      /\ op'.pd = None /\ op'.kstack = None
  BY <1>1, ReturnHolds, NoOpTypes DEF Return
<1>7. TypeOK'
  <2>1. /\ alive' \in [Slots -> BOOLEAN] /\ cr3' \in [Slots -> Frames \cup {None}]
        /\ stack' \in [Slots -> Frames \cup {None}]
    BY <1>1, <1>2 DEF Start, TypeOK
  <2>2. isThread' \in [Slots -> BOOLEAN]
    BY <1>1 DEF Start, TypeOK
  <2> QED BY <1>1, <1>6, <2>1, <2>2 DEF TypeOK
<1>8. Spaces' = Spaces /\ KStacks' = KStacks
  BY <1>2, <1>3, <1>4, <1>5, <1>6 DEF Spaces, KStacks
<1>9. FrameSafe' /\ TablesCover'
  BY <1>1, <1>8, NoMoreHeld
<1>10. StacksApart'
  <2>1. \A s \in Live' : stack'[s] \in Frames
    BY <1>1, <1>2, <1>3, <1>4, <1>5 DEF TaskInv
  <2>2. \A s, t \in Live' : stack'[s] = stack'[t] => s = t
    BY <1>1, <1>3, <1>4, <1>5 DEF StacksApart
  <2> QED BY <1>2, <1>6, <2>1, <2>2 DEF StacksApart
<1>11. TaskInv'
  <2>1. \A s \in Live' : cr3'[s] \in Frames /\ stack'[s] \in Frames
    BY <1>1, <1>2, <1>3, <1>4, <1>5 DEF TaskInv
  <2>2. ASSUME NEW s \in Live', NEW t \in Live',
               cr3'[s] = cr3'[t], ~isThread'[s], ~isThread'[t]
        PROVE  s = t
    <3>1. CASE s \in Live /\ t \in Live
      BY <1>1, <1>4, <1>5, <2>2, <3>1 DEF TaskInv
    <3>2. CASE op.kind = "thread"
      <4>1. s # op.slot /\ t # op.slot
        BY <1>4, <2>2, <3>2
      <4> QED BY <1>4, <3>1, <4>1
    <3>3. CASE op.kind \in {"run", "fork"}
      BY <1>1, <1>3, <1>4, <1>5, <2>2, <3>1, <3>3 DEF OpInv, Running
    <3> QED BY <1>2, <3>2, <3>3
  <2>3. cr3'[Idle] = None
    BY <1>1, <1>3, <1>4, OneInNat DEF TaskInv
  <2> QED BY <2>1, <2>2, <2>3 DEF TaskInv
<1> QED BY <1>6, <1>7, <1>9, <1>10, <1>11, InvBooks DEF Books

(* A task dies; a process takes its threads along.                         *)
LEMMA DieHolds == ASSUME IInv, NEW s \in Slots, Die(s) PROVE IInv'
<1> DEFINE T == ThreadsOf(s)
           p == cr3[s]
<1>1. /\ TypeOK /\ StacksApart /\ TaskInv /\ OpInv /\ NewTaskInv
      /\ Safe(used, ent, Spaces, KStacks) /\ Return
  BY InvParts DEF FrameSafe, Die
<1>2. s \in Live
  BY <1>1 DEF Die, OpInv, Running, Live, UserTask
<1>3. /\ Live' = Live \ ({s} \cup T)
      /\ \A t \in Live' : cr3'[t] = cr3[t] /\ stack'[t] = stack[t] /\ isThread'[t] = isThread[t]
  BY <1>1 DEF Die, Live, TypeOK
<1>4. /\ op' \in Ops /\ OpInv' /\ NewTaskInv' /\ MapInv' /\ pc' = "user"
      /\ op'.pd = None /\ op'.kstack = None
  BY <1>1, ReturnHolds, NoOpTypes DEF Return
<1>5. /\ Spaces' = {cr3[t] : t \in Live'} /\ Spaces' \subseteq Spaces
      /\ KStacks' = {stack[t] : t \in Live'} /\ KStacks' \subseteq KStacks
  BY <1>3, <1>4 DEF Spaces, KStacks
<1>6. /\ alive' \in [Slots -> BOOLEAN] /\ cr3' \in [Slots -> Frames \cup {None}]
      /\ isThread' = isThread /\ stack' = stack
  BY <1>1 DEF Die, TypeOK
<1>7. StacksApart' /\ TaskInv'
  <2>1. \A t \in Live' : t \in Live
    BY <1>3
  <2>2. StacksApart'
    BY <1>1, <1>3, <1>4, <2>1, ProcMemAssumption DEF StacksApart, TaskInv
  <2>3. TaskInv'
    <3>1. s # Idle /\ cr3'[Idle] = None
      BY <1>1, <1>2, OneInNat DEF Die, Live, TaskInv
    <3> QED BY <1>1, <1>3, <2>1, <3>1 DEF TaskInv
  <2> QED BY <2>2, <2>3
<1>8. p \in Spaces /\ \A t \in T : t \in Live /\ stack[t] \in KStacks
  <2>1. Idle \notin T
    BY <1>1, <1>2, ProcMemAssumption DEF ThreadsOf, TaskInv
  <2> QED BY <1>2, <2>1 DEF Spaces, KStacks, ThreadsOf, Live
<1>9. CASE isThread[s]
  <2>1. used' = used /\ ent' = ent
    BY <1>9 DEF Die
  <2>2. FrameSafe' /\ TablesCover'
    BY <1>5, <2>1, NoMoreHeld
  <2> QED BY <1>1, <1>4, <1>6, <1>7, <2>1, <2>2, InvBooks DEF Books, TypeOK
<1>10. CASE ~isThread[s]
  <2> DEFINE G == (Content(p) \cup {p}) \cup {stack[t] : t \in T}
  <2>1. used' = used \ G /\ ent' = [ent EXCEPT ![p] = Empty]
    BY <1>10 DEF Die
  <2>2. G \subseteq Content(p) \cup Spaces \cup KStacks
    BY <1>8
  <2>3. p \notin Spaces'
    <3>1. ASSUME NEW t \in Live', cr3[t] = p PROVE FALSE
      <4>1. t \in Live /\ t # s /\ t \notin T
        BY <1>3
      <4>2. ~isThread[t]
        BY <1>10, <3>1, <4>1 DEF ThreadsOf, Live
      <4> QED BY <1>1, <1>2, <1>10, <3>1, <4>1, <4>2 DEF TaskInv
    <3> QED BY <1>5, <3>1
  <2>4. \A t \in T : stack[t] \notin KStacks'
    BY <1>1, <1>3, <1>5, <1>8 DEF StacksApart
  <2>5. (Spaces' \cup KStacks') \cap G \subseteq Content(p)
    <3>1. Spaces \cap KStacks = {}
      BY <1>1 DEF Safe
    <3> QED BY <1>5, <1>8, <2>3, <2>4, <3>1
  <2> HIDE DEF G, p
  <2>6. FrameSafe' /\ TablesCover' /\ used' \subseteq Frames /\ ent' \in EntriesType
    BY <1>5, <1>8, <2>1, <2>2, <2>5, GiveBack
  <2> QED BY <1>4, <1>6, <1>7, <2>6, <1>1, InvBooks DEF Books, TypeOK, EntriesType
<1> QED BY <1>9, <1>10

-----------------------------------------------------------------------------
(* Every step keeps the invariant, and so every reachable state has it.    *)
LEMMA StepHolds == IInv /\ [Next]_vars => IInv'
<1> SUFFICES ASSUME IInv, [Next]_vars PROVE IInv'
  OBVIOUS
<1>1. CASE Call
  BY <1>1, RunCallHolds, ForkCallHolds, ThreadCallHolds, MallocCallHolds, ExecCallHolds
     DEF Call
<1>2. CASE Map
  BY <1>2, MapNextHolds, MapImageFailsHolds, MapModulesFailsHolds, MapStackFailsHolds,
     MallocFailsHolds DEF Map
<1>3. CASE Create
  BY <1>3, NewSpaceHolds, NewSpaceFailsHolds, CopyHolds, CopyDoneHolds, CopyFailsHolds,
     PickSlotHolds, KernelStackHolds, KernelStackFailsHolds, StartHolds DEF Create
<1>4. CASE \E s \in Slots : Die(s)
  BY <1>4, DieHolds
<1>5. CASE UNCHANGED vars
  <2>1. used' = used /\ ent' = ent /\ UNCHANGED << op, pc, taskVars >>
    BY <1>5 DEF vars, taskVars
  <2>2. Books' /\ Spaces' = Spaces /\ KStacks' = KStacks
    BY <2>1, InvParts, CopyBooks DEF TypeOK, EntriesType
  <2> QED BY <2>1, <2>2, NoMoreHeld, InvBooks
<1> QED BY <1>1, <1>2, <1>3, <1>4, <1>5 DEF Next

(* The inductive invariant, for every memory size, table size and layout.  *)
THEOREM Invariance == Spec => []IInv
<1>1. Init => IInv
  BY Initial
<1>2. IInv /\ [Next]_vars => IInv'
  BY StepHolds
<1> QED BY <1>1, <1>2, PTL DEF Spec

(* Every variable keeps its type: a page of the frame buffer never enters  *)
(* the bitmap, a task is never given something that is not a frame.        *)
THEOREM Typing == Spec => []TypeOK
<1>1. IInv => TypeOK
  BY DEF IInv
<1> QED BY <1>1, Invariance, PTL

(* No frame is a page, a table, a directory or a kernel stack twice.       *)
THEOREM EveryFrameHasOneHolder == Spec => []OneHolder
<1>1. IInv => OneHolder
  BY DEF IInv
<1> QED BY <1>1, Invariance, PTL

(* No frame in use is ever free for the PMM to hand out.                   *)
THEOREM NothingHeldIsFree == Spec => []HeldIsUsed
<1>1. IInv => HeldIsUsed
  BY DEF IInv
<1> QED BY <1>1, Invariance, PTL

(* No page hides under a table that is not there.                          *)
THEOREM FreeingFindsEveryPage == Spec => []TablesCover
<1>1. IInv => TablesCover
  BY DEF IInv
<1> QED BY <1>1, Invariance, PTL

-----------------------------------------------------------------------------
(* WHAT A CALL MAY LOSE                                                    *)

LEMMA HeldIs ==
  /\ \A f : f \in Held <=> \/ f \in Spaces \cup KStacks
                           \/ \E p \in Spaces, x \in Entries : f = ent[p][x] /\ f \notin {None, Lfb}
  /\ \A f : f \in Held' <=>
       \/ f \in Spaces' \cup KStacks'
       \/ \E p \in Spaces', x \in Entries : f = ent'[p][x] /\ f \notin {None, Lfb}
<1>1. /\ \A p : \A f : f \in Content(p) <=> \E x \in Entries : f = ent[p][x] /\ f \notin {None, Lfb}
      /\ \A p : \A f : f \in Content(p)' <=> \E x \in Entries : f = ent'[p][x] /\ f \notin {None, Lfb}
  BY DEF Content
<1> QED BY <1>1 DEF Held

(* What is marked was so before or is held now, and what was held and is   *)
(* still marked is held on: then nothing but X is lost.                    *)
LEMMA LossIs ==
  ASSUME NEW X, used' \subseteq used \cup Held' \cup X,
         \A f \in used' : f \in Held => f \in Held' \cup X
  PROVE  Lost' \subseteq Lost \cup X
BY DEF Lost

(* A step that gives nothing back: what it takes it holds, but for X.      *)
LEMMA Grows ==
  ASSUME Spaces \subseteq Spaces', KStacks \subseteq KStacks',
         \A p \in Spaces : \A x \in Entries : ent[p][x] \in {None, Lfb, ent'[p][x]},
         NEW X, used' \subseteq used \cup Held' \cup X
  PROVE  Lost' \subseteq Lost \cup X
<1>1. \A f : f \in Held => f \in Held'
  BY HeldIs
<1> QED BY <1>1, LossIs

(* The end of a call that held no new space: a new kernel stack goes.      *)
LEMMA ReturnHolders ==
  ASSUME IInv, Return, UNCHANGED taskVars,
         op.pd = None \/ op.kind \in {"exec", "malloc", "thread"}
  PROVE  Spaces' = Spaces /\ KStacks \subseteq KStacks' \cup ({op.kstack} \ {None})
<1>1. TypeOK /\ OpInv /\ TaskInv
  BY InvParts
<1>2. Spaces' = {cr3[s] : s \in Live} /\ KStacks' = {stack[s] : s \in Live}
  BY NoOpTypes DEF Return, Spaces, KStacks, Live, taskVars
<1>3. op.pd # None => op.pd \in {cr3[s] : s \in Live}
  <2>1. ASSUME op.kind \in {"exec", "malloc", "thread"} PROVE op.pd = cr3[op.task] /\ op.task \in Live
    BY <1>1, <2>1 DEF OpInv, Running
  <2> QED BY <2>1
<1> QED BY <1>2, <1>3 DEF Spaces, KStacks

LEMMA ReturnLoss ==
  ASSUME IInv, Return, UNCHANGED taskVars, UNCHANGED ent,
         op.pd = None \/ op.kind \in {"exec", "malloc", "thread"},
         used' = used \ ({op.kstack} \ {None})
  PROVE  Lost' \subseteq Lost
<1>1. Spaces' = Spaces /\ KStacks \subseteq KStacks' \cup ({op.kstack} \ {None})
  BY ReturnHolders
<1>2. \A f \in used' : f \in Held => f \in Held'
  BY <1>1, HeldIs
<1>3. Lost' \subseteq Lost \cup {}
  BY <1>2, LossIs
<1> QED BY <1>3

(* DiscardSpace: the directory, its tables and its pages.                  *)
LEMMA DiscardLoss ==
  ASSUME IInv, op.pd \in Frames, op.kind = "fork", op.kstack = None, DiscardSpace, Return,
         UNCHANGED taskVars
  PROVE  Lost' \subseteq Lost
<1>1. OpInv /\ ent \in EntriesType /\ Spaces \in SUBSET Frames
  BY InvParts, HolderTypes
<1>2. Spaces' = {cr3[s] : s \in Live} /\ KStacks' = {stack[s] : s \in Live}
  BY NoOpTypes DEF Return, Spaces, KStacks, Live, taskVars
<1>3. Spaces \subseteq Spaces' \cup {op.pd} /\ op.pd \notin Spaces' /\ Spaces' \subseteq Spaces
      /\ KStacks \subseteq KStacks'
  BY <1>1, <1>2 DEF OpInv, Running, Spaces, KStacks
<1>4. \A p \in Spaces' : ent'[p] = ent[p]
  BY <1>1, <1>3 DEF DiscardSpace, EntriesType
<1>5. \A f \in used' : f \in Held => f \in Held'
  <2> SUFFICES ASSUME NEW f \in used', f \in Held PROVE f \in Held'
    OBVIOUS
  <2>1. f \notin Content(op.pd) /\ f # op.pd
    BY DEF DiscardSpace
  <2>2. CASE f \in Spaces \cup KStacks
    BY <1>3, <2>1, <2>2, HeldIs
  <2>3. CASE \E p \in Spaces, x \in Entries : f = ent[p][x] /\ f \notin {None, Lfb}
    <3>1. PICK p \in Spaces, x \in Entries : f = ent[p][x] /\ f \notin {None, Lfb}
      BY <2>3
    <3>2. p # op.pd
      BY <2>1, <3>1 DEF Content
    <3>3. p \in Spaces' /\ ent'[p][x] = f
      BY <1>3, <1>4, <3>1, <3>2
    <3> QED BY <3>1, <3>3, HeldIs
  <2> QED BY <2>2, <2>3, HeldIs
<1>6. used' \subseteq used
  BY DEF DiscardSpace
<1>7. Lost' \subseteq Lost \cup {}
  BY <1>5, <1>6, LossIs
<1> QED BY <1>7

(* map_page takes a frame for the page, and one for its table.             *)
LEMMA MapPageTakes ==
  ASSUME IInv, op.pd \in Frames, NEW g \in Pages, ~Mapped(g), MapPage(g)
  PROVE  /\ \A p \in Spaces : \A x \in Entries : ent[p][x] \in {None, Lfb, ent'[p][x]}
         /\ \A f \in used' \ used : f \notin {None, Lfb} /\ \E x \in Entries : f = ent'[op.pd][x]
<1>1. ent \in EntriesType /\ Spaces \in SUBSET Frames
  BY InvParts, HolderTypes
<1>2. g \in Entries /\ TableOf(g) \in Entries /\ TableOf(g) # g
  BY AreaFacts, PagesNotTables
<1>3. PICK f \in (Frames \ used) \cup {Lfb} :
        IF TableMissing(g)
        THEN \E t \in (Frames \ used) \ {f} :
               /\ used' = used \cup ({f, t} \ {Lfb})
               /\ ent' = [ent EXCEPT ![op.pd] = [@ EXCEPT ![g] = f, ![TableOf(g)] = t]]
        ELSE /\ used' = used \cup ({f} \ {Lfb})
             /\ ent' = [ent EXCEPT ![op.pd] = [@ EXCEPT ![g] = f]]
  BY DEF MapPage, Lowest, Free
<1>4. f # None /\ None \notin Frames /\ Lfb \notin Frames
  BY ProcMemAssumption
<1>5. ent[op.pd][g] = None
  BY DEF Mapped
<1>6. CASE ~TableMissing(g)
  <2>1. used' = used \cup ({f} \ {Lfb}) /\ ent' = [ent EXCEPT ![op.pd] = [@ EXCEPT ![g] = f]]
    BY <1>3, <1>6
  <2>2. \A p \in Frames : \A x \in Entries :
          ent'[p][x] = IF p = op.pd /\ x = g THEN f ELSE ent[p][x]
    BY <1>1, <2>1 DEF EntriesType
  <2> QED BY <1>1, <1>2, <1>4, <1>5, <2>1, <2>2
<1>7. CASE TableMissing(g)
  <2>1. PICK t \in (Frames \ used) \ {f} :
          /\ used' = used \cup ({f, t} \ {Lfb})
          /\ ent' = [ent EXCEPT ![op.pd] = [@ EXCEPT ![g] = f, ![TableOf(g)] = t]]
    BY <1>3, <1>7
  <2>2. \A p \in Frames : \A x \in Entries :
          ent'[p][x] = IF p = op.pd /\ x = TableOf(g) THEN t
                       ELSE IF p = op.pd /\ x = g THEN f ELSE ent[p][x]
    BY <1>1, <1>2, <2>1 DEF EntriesType
  <2>3. ent[op.pd][TableOf(g)] = None
    BY <1>7 DEF TableMissing
  <2> QED BY <1>1, <1>2, <1>4, <1>5, <2>1, <2>2, <2>3
<1> QED BY <1>6, <1>7

LEMMA MapNextLoss ==
  ASSUME IInv, MapNext, op.kind # "run"
  PROVE  Lost' \subseteq Lost
<1>1. /\ pc = "map" /\ MapPage(Here) /\ UNCHANGED taskVars /\ ~Mapped(Here)
      /\ \/ op'.pd = op.pd /\ op'.kstack = op.kstack
         \/ Return
  BY InvParts DEF MapNext, CanMap, Continue, TypeOK, Ops
<1>2. Here \in Pages /\ op.pd \in Frames
  BY <1>1, HereIsPage
<1>3. /\ \A p \in Spaces : \A x \in Entries : ent[p][x] \in {None, Lfb, ent'[p][x]}
      /\ \A f \in used' \ used : f \notin {None, Lfb} /\ \E x \in Entries : f = ent'[op.pd][x]
  BY <1>1, <1>2, MapPageTakes
<1>4. op.pd \in Spaces
  BY <1>2, InvParts, HolderTypes
<1>5. Spaces' = Spaces /\ KStacks \subseteq KStacks'
  <2>1. CASE op'.pd = op.pd /\ op'.kstack = op.kstack
    BY <1>1, <2>1, StepHolders
  <2>2. CASE Return /\ op.kind # "thread"
    <3>1. op.kind \in {"exec", "malloc"} /\ op.kstack = None
      BY <1>1, <2>2, InvParts DEF OpInv, NewTaskInv, MapInv, TypeOK, Ops, Running
    <3> QED BY <1>1, <2>2, <3>1, ReturnHolders
  <2>3. CASE op.kind = "thread"
    <3>1. op.area[1] = "thread" /\ op.area # Heap /\ op.area # Stack /\ op \in Ops
      BY <1>1, <2>3, InvParts DEF MapInv, Running, Heap, Stack, TypeOK
    <3>2. op' = op \/ op' = [op EXCEPT !.i = @ + 1]
      BY <2>3, <3>1 DEF MapNext, Running
    <3>3. op'.pd = op.pd /\ op'.kstack = op.kstack
      BY <3>1, <3>2 DEF Ops
    <3> QED BY <1>1, <3>3, StepHolders
  <2> QED BY <1>1, <2>1, <2>2, <2>3
<1>6. used' \subseteq used \cup Held' \cup {}
  BY <1>3, <1>4, <1>5, HeldIs
<1>7. Lost' \subseteq Lost \cup {}
  BY <1>3, <1>5, <1>6, Grows
<1> QED BY <1>7

(* One frame at the most is the lowest of a set.                           *)
LEMMA LowestIsOne ==
  ASSUME NEW S, S \subseteq Nat, NEW L, L \subseteq Lowest(S)
  PROVE  Cardinality(L) <= 1
<1>1. \A f, g \in L : f = g
  BY DEF Lowest
<1>2. L = {} \/ \E f : L = {f}
  BY <1>1
<1>3. Cardinality(L) = 0 \/ Cardinality(L) = 1
  BY <1>2, FS_EmptySet, FS_Singleton
<1> QED BY <1>3

LEMMA NothingIsOne == ASSUME NEW L, L = {} PROVE Cardinality(L) <= 1
<1>1. Cardinality(L) = 0
  BY FS_EmptySet
<1> QED BY <1>1

LEMMA NewSpaceLoss == ASSUME IInv, NewSpace PROVE Lost' \subseteq Lost
<1>1. PICK p \in Frames \ used :
        /\ used' = used \cup {p}
        /\ ent' = [ent EXCEPT ![p] = Empty]
        /\ op' = [op EXCEPT !.pd = p]
  BY DEF NewSpace, Lowest, Free
<1>2. UNCHANGED taskVars /\ op.pd = None /\ op \in Ops /\ p # None
  BY InvParts, ProcMemAssumption DEF NewSpace, OpInv, TypeOK
<1>3. op'.pd = p /\ op'.kstack = op.kstack
  BY <1>1, <1>2 DEF Ops
<1>4. Spaces' = Spaces \cup {p} /\ KStacks' = KStacks
  BY <1>2, <1>3, StepHolders
<1>5. p \notin Spaces /\ Spaces \in SUBSET Frames /\ ent \in EntriesType
  BY InvParts, HolderTypes DEF FrameSafe, Safe
<1>6. \A q \in Spaces : ent'[q] = ent[q]
  BY <1>1, <1>5 DEF EntriesType
<1>7. used' \subseteq used \cup Held' \cup {}
  BY <1>1, <1>4, HeldIs
<1>8. Lost' \subseteq Lost \cup {}
  BY <1>4, <1>6, <1>7, Grows
<1> QED BY <1>8

LEMMA CopyLoss == ASSUME IInv, Copy PROVE Lost' \subseteq Lost
<1>1. PICK f \in (Frames \ used) \cup {Lfb} :
        /\ used' = used \cup ({f} \ {Lfb})
        /\ ent' = [ent EXCEPT ![op.pd] = [@ EXCEPT ![NextCopy] = f]]
  BY DEF Copy, Lowest, Free
<1>2. /\ pc = "copy" /\ ToCopy # {} /\ op' = op /\ UNCHANGED taskVars
      /\ TypeOK /\ TaskInv /\ OpInv /\ TablesCover
  BY InvParts DEF Copy
<1>3. /\ op.pd \in Frames /\ op.pd \in Spaces /\ cr3[op.task] \in Spaces
      /\ Spaces \in SUBSET Frames /\ ent \in EntriesType
  BY <1>2, HolderTypes DEF OpInv, Running
<1>4. NextCopy \in ToCopy
  BY <1>2, <1>3, NextCopyFacts
<1>5. NextCopy \in Entries /\ ent[op.pd][NextCopy] = None
  BY <1>4 DEF ToCopy
<1>6. \A p \in Frames : \A x \in Entries :
        ent'[p][x] = IF p = op.pd /\ x = NextCopy THEN f ELSE ent[p][x]
  BY <1>1, <1>3 DEF EntriesType
<1>7. Spaces' = Spaces /\ KStacks' = KStacks
  BY <1>2, StepHolders
<1>8. used' \subseteq used \cup Held' \cup {}
  <2>1. \A x \in used' \ used : x = f /\ x \notin {None, Lfb}
    BY <1>1, ProcMemAssumption
  <2>2. ent'[op.pd][NextCopy] = f
    BY <1>3, <1>5, <1>6
  <2> QED BY <1>3, <1>5, <1>7, <2>1, <2>2, HeldIs
<1>9. \A p \in Spaces : \A x \in Entries : ent[p][x] \in {None, Lfb, ent'[p][x]}
  BY <1>3, <1>5, <1>6
<1>10. Lost' \subseteq Lost \cup {}
  BY <1>7, <1>8, <1>9, Grows
<1> QED BY <1>10

LEMMA KernelStackLoss == ASSUME IInv, KernelStack PROVE Lost' \subseteq Lost
<1>1. PICK f \in Frames \ used, a \in IF Running("thread") THEN ThreadStack ELSE {Stack} :
        /\ used' = used \cup {f}
        /\ op' = [op EXCEPT !.kstack = f, !.area = a, !.i = 1]
  BY DEF KernelStack, Lowest, Free
<1>2. /\ UNCHANGED taskVars /\ ent' = ent /\ op.kstack = None /\ op \in Ops /\ f # None
  BY InvParts, ProcMemAssumption DEF KernelStack, NewTaskInv, TypeOK
<1>3. op'.pd = op.pd /\ op'.kstack = f
  BY <1>1, <1>2 DEF Ops
<1>4. Spaces' = Spaces /\ KStacks' = KStacks \cup {f}
  BY <1>2, <1>3, StepHolders
<1>5. used' \subseteq used \cup Held' \cup {}
  BY <1>1, <1>4, HeldIs
<1>6. Lost' \subseteq Lost \cup {}
  BY <1>2, <1>4, <1>5, Grows
<1> QED BY <1>6

LEMMA StartLoss == ASSUME IInv, Start PROVE Lost' \subseteq Lost
<1>1. /\ TypeOK /\ TaskInv /\ OpInv /\ NewTaskInv /\ pc = "start" /\ used' = used /\ ent' = ent
  BY InvParts DEF Start
<1>2. /\ op.pd \in Frames /\ op.kstack \in Frames /\ op.pd # None /\ op.kstack # None
      /\ op.slot \in Slots \ {Idle} /\ op.slot \notin Live
  BY <1>1, ProcMemAssumption DEF OpInv, NewTaskInv, FreeSlots, Live, Running
<1>3. \A s \in Live : s \in Slots /\ s # op.slot
  BY <1>2 DEF Live
<1>4. /\ Live' = Live \cup {op.slot}
      /\ \A s \in Slots : /\ cr3'[s] = IF s = op.slot THEN op.pd ELSE cr3[s]
                          /\ stack'[s] = IF s = op.slot THEN op.kstack ELSE stack[s]
  BY <1>1, <1>2 DEF Start, Live, TypeOK
<1>5. Spaces \subseteq Spaces' /\ KStacks \subseteq KStacks'
  BY <1>2, <1>3, <1>4 DEF Spaces, KStacks
<1>6. Lost' \subseteq Lost \cup {}
  BY <1>1, <1>5, Grows
<1> QED BY <1>6

(* A failed call, and what exec loses of the TIB.                          *)
LEMMA ModulesLoss ==
  ASSUME IInv, MapModulesFails, op.kind = "exec"
  PROVE  Lost' \subseteq Lost \cup Lowest(Free)
<1>1. /\ UNCHANGED taskVars /\ ent' = ent /\ used' \subseteq used \cup Lowest(Free)
      /\ op'.pd = op.pd /\ op'.kstack = op.kstack
  BY InvParts DEF MapModulesFails, Continue, TypeOK, Ops, Running
<1>2. Spaces' = Spaces /\ KStacks' = KStacks
  BY <1>1, StepHolders
<1> QED BY <1>1, <1>2, Grows

LEMMA SameLoss ==
  ASSUME UNCHANGED << used, ent, op, taskVars >>
  PROVE  Lost' \subseteq Lost
<1>1. Spaces' = Spaces /\ KStacks' = KStacks
  BY StepHolders
<1>2. Lost' \subseteq Lost \cup {}
  BY <1>1, Grows
<1> QED BY <1>2

(* Of a process that dies only its own kernel stack is lost.               *)
LEMMA DieLoss ==
  ASSUME IInv, NEW s \in Slots, Die(s), ~isThread[s]
  PROVE  Lost' \subseteq Lost \cup {stack[s]}
<1> DEFINE T == ThreadsOf(s)
           p == cr3[s]
           G == (Content(p) \cup {p}) \cup {stack[t] : t \in T}
<1>1. TypeOK /\ TaskInv /\ OpInv /\ NewTaskInv /\ Return
  BY InvParts DEF Die
<1>2. s \in Live
  BY <1>1 DEF Die, OpInv, Running, Live, UserTask
<1>3. op.pd \in {None, p} /\ op.kstack = None
  <2>1. CASE pc = "user"
    BY <1>1, <2>1, NoOpTypes DEF OpInv
  <2>2. CASE pc = "kill" /\ s = op.task
    BY <1>1, <2>2 DEF OpInv, NewTaskInv, Running
  <2> QED BY <2>1, <2>2 DEF Die
<1>4. /\ Live' = Live \ ({s} \cup T)
      /\ \A t \in Live' : cr3'[t] = cr3[t] /\ stack'[t] = stack[t]
  BY <1>1 DEF Die, Live, TypeOK
<1>5. op'.pd = None /\ op'.kstack = None
  BY <1>1, NoOpTypes DEF Return
<1>6. Spaces' = {cr3[t] : t \in Live'} /\ KStacks' = {stack[t] : t \in Live'}
  BY <1>4, <1>5 DEF Spaces, KStacks
<1>7. used' = used \ G /\ ent' = [ent EXCEPT ![p] = Empty]
  BY DEF Die
<1>8. \A t \in T : cr3[t] = p
  BY DEF ThreadsOf
<1>9. Spaces \subseteq Spaces' \cup {p}
  <2>1. \A t \in Live : t \in Live' \/ cr3[t] = p
    BY <1>4, <1>8
  <2> QED BY <1>3, <1>6, <2>1 DEF Spaces
<1>10. KStacks \subseteq KStacks' \cup {stack[t] : t \in T} \cup {stack[s]}
  BY <1>3, <1>4, <1>6 DEF KStacks
<1>11. ent \in EntriesType /\ Spaces \in SUBSET Frames
  BY <1>1, HolderTypes
<1>12. \A f \in used' : f \in Held => f \in Held' \cup {stack[s]}
  <2> SUFFICES ASSUME NEW f \in used', f \in Held PROVE f \in Held' \cup {stack[s]}
    OBVIOUS
  <2>1. f \notin Content(p) /\ f # p /\ f \notin {stack[t] : t \in T}
    BY <1>7
  <2> HIDE DEF T, p, G
  <2>2. CASE f \in Spaces \cup KStacks
    BY <1>9, <1>10, <2>1, <2>2, HeldIs
  <2>3. CASE \E q \in Spaces, x \in Entries : f = ent[q][x] /\ f \notin {None, Lfb}
    <3>1. PICK q \in Spaces, x \in Entries : f = ent[q][x] /\ f \notin {None, Lfb}
      BY <2>3
    <3>2. q # p
      BY <2>1, <3>1 DEF Content
    <3>3. q \in Spaces' /\ ent'[q][x] = f
      BY <1>7, <1>9, <1>11, <3>1, <3>2 DEF EntriesType
    <3> QED BY <3>1, <3>3, HeldIs
  <2> QED BY <2>2, <2>3, HeldIs
<1>13. used' \subseteq used
  BY <1>7
<1> QED BY <1>12, <1>13, LossIs

(* Fork, thread creation and malloc, to their end or to any failure.       *)
LEMMA CallLoss ==
  ASSUME IInv, Next, op.kind \in {"fork", "thread", "malloc"}
  PROVE  Lost' \subseteq Lost
<1>1. OpInv /\ NewTaskInv /\ pc # "user" /\ op.kind # "run" /\ op.kind # "exec"
  BY InvParts DEF OpInv, Running
<1>2. ~Call
  BY <1>1 DEF Call, RunCall, ForkCall, ThreadCall, MallocCall, ExecCall
<1>3. \A s \in Slots : ~Die(s)
  BY <1>1 DEF Die, OpInv, Running
<1>4. ~MapImageFails /\ ~MapModulesFails /\ ~PickSlot
  BY <1>1 DEF MapImageFails, MapModulesFails, PickSlot, OpInv, Running
<1>5. CASE MapNext
  BY <1>1, <1>5, MapNextLoss
<1>6. CASE NewSpace
  BY <1>6, NewSpaceLoss
<1>7. CASE Copy
  BY <1>7, CopyLoss
<1>8. CASE CopyDone
  <2>1. UNCHANGED << used, ent, op, taskVars >>
    BY <1>8 DEF CopyDone
  <2> QED BY <2>1, SameLoss
<1>9. CASE KernelStack
  BY <1>9, KernelStackLoss
<1>10. CASE Start
  BY <1>10, StartLoss
<1>11. CASE NewSpaceFails
  <2>1. op.pd = None /\ op.kstack = None /\ Return /\ UNCHANGED << used, ent, taskVars >>
    BY <1>1, <1>11 DEF NewSpaceFails, OpInv, NewTaskInv
  <2>2. used' = used \ ({op.kstack} \ {None})
    BY <2>1
  <2> QED BY <2>1, <2>2, ReturnLoss
<1>12. CASE MallocFails
  <2>1. /\ op.kstack = None /\ op.kind = "malloc" /\ Return /\ UNCHANGED << used, ent, taskVars >>
    BY <1>1, <1>12, InvParts DEF MallocFails, MapImpossible, NewTaskInv, MapInv, Running
  <2>2. used' = used \ ({op.kstack} \ {None})
    BY <2>1
  <2> QED BY <2>1, <2>2, ReturnLoss
<1>13. CASE MapStackFails
  <2>1. pc = "map" /\ Return /\ UNCHANGED << ent, taskVars >>
    BY <1>13 DEF MapStackFails, MapImpossible
  <2>2. op.area # Stack
    BY <1>1, <2>1, <1>13, InvParts DEF MapStackFails, MapInv, Running, Stack, Heap
  <2>3. op.area[1] = "thread" /\ used' = used \ {op.kstack}
    BY <1>13, <2>2 DEF MapStackFails
  <2>4. op.kind = "thread" /\ op.kstack \in Frames
    BY <2>1, <2>3, InvParts DEF MapInv, Running
  <2>5. used' = used \ ({op.kstack} \ {None})
    BY <2>3, <2>4, ProcMemAssumption
  <2> QED BY <2>1, <2>4, <2>5, ReturnLoss
<1>14. CASE CopyFails
  <2>1. /\ op.pd \in Frames /\ op.kind = "fork" /\ op.kstack = None /\ DiscardSpace /\ Return
        /\ UNCHANGED taskVars
    BY <1>1, <1>14 DEF CopyFails, OpInv, NewTaskInv, Running
  <2> QED BY <2>1, DiscardLoss
<1>15. CASE KernelStackFails
  <2>1. op.pd \in Frames /\ op.kstack = None /\ Return /\ UNCHANGED taskVars
    BY <1>1, <1>15 DEF KernelStackFails, OpInv, NewTaskInv
  <2>2. CASE op.kind = "fork"
    <3>1. DiscardSpace
      BY <1>15, <2>2 DEF KernelStackFails, Running
    <3> QED BY <2>1, <2>2, <3>1, DiscardLoss
  <2>3. CASE op.kind = "thread"
    <3>1. UNCHANGED << used, ent >>
      BY <1>15, <2>3 DEF KernelStackFails, Running
    <3>2. used' = used \ ({op.kstack} \ {None})
      BY <2>1, <3>1
    <3> QED BY <2>1, <2>3, <3>1, <3>2, ReturnLoss
  <2> QED BY <1>15, <2>2, <2>3 DEF KernelStackFails, Running
<1> QED BY <1>2, <1>3, <1>4, <1>5, <1>6, <1>7, <1>8, <1>9, <1>10, <1>11, <1>12, <1>13, <1>14,
           <1>15 DEF Next, Map, Create

(* Exec, while it maps the new program: a frame for the TIB at the most.   *)
LEMMA ExecLoss ==
  ASSUME IInv, Next, op.kind = "exec", pc = "map"
  PROVE  Cardinality(Lost' \ Lost) <= 1
<1>1. OpInv /\ NewTaskInv /\ op.kstack = None
  BY InvParts DEF NewTaskInv
<1>2. ~Call /\ ~Create /\ \A s \in Slots : ~Die(s)
  BY DEF Call, RunCall, ForkCall, ThreadCall, MallocCall, ExecCall, Create, NewSpace,
         NewSpaceFails, Copy, CopyDone, CopyFails, PickSlot, KernelStack, KernelStackFails,
         Start, Die
<1>3. ASSUME Lost' \subseteq Lost PROVE Cardinality(Lost' \ Lost) <= 1
  <2>1. Lost' \ Lost = {}
    BY <1>3
  <2> QED BY <2>1, NothingIsOne
<1>4. CASE MapNext
  BY <1>3, <1>4, MapNextLoss
<1>5. CASE MapImageFails
  <2>1. UNCHANGED << used, ent, op, taskVars >>
    BY <1>5 DEF MapImageFails, Running
  <2> QED BY <1>3, <2>1, SameLoss
<1>6. CASE MapModulesFails
  <2>1. Lost' \ Lost \subseteq Lowest(Free) /\ Free \subseteq Nat
    BY <1>6, ModulesLoss, ProcMemAssumption DEF Free
  <2> QED BY <2>1, LowestIsOne
<1>7. CASE MapStackFails \/ MallocFails
  <2>1. Return /\ UNCHANGED << ent, taskVars >> /\ used' = used
    <3>1. op.area[1] # "thread"
      BY InvParts DEF MapInv, Running
    <3> QED BY <1>7, <3>1 DEF MapStackFails, MallocFails, Running
  <2>2. used' = used \ ({op.kstack} \ {None})
    BY <1>1, <2>1
  <2> QED BY <1>3, <2>1, <2>2, ReturnLoss
<1> QED BY <1>2, <1>4, <1>5, <1>6, <1>7 DEF Next, Map

(* Only its own death takes the address space from a live task.            *)
LEMMA DeathLoss ==
  ASSUME IInv, Next, NEW s \in Live, ~isThread[s], cr3'[s] = None
  PROVE  Lost' \subseteq Lost \cup {stack[s]}
<1>1. s \in Slots /\ cr3[s] # None /\ TypeOK
  BY InvParts, ProcMemAssumption DEF TaskInv, Live
<1>2. ~Call /\ ~Map
  BY <1>1 DEF Call, RunCall, ForkCall, ThreadCall, MallocCall, ExecCall, Map, MapNext,
         MapImageFails, MapModulesFails, MapStackFails, MallocFails, taskVars
<1>3. ~Create
  <2>1. ~Start
    <3> SUFFICES ASSUME Start PROVE FALSE
      OBVIOUS
    <3>1. op.slot # s
      BY InvParts DEF Start, OpInv, NewTaskInv, FreeSlots, Live, Running
    <3> QED BY <1>1, <3>1 DEF Start, TypeOK
  <2> QED BY <1>1, <2>1 DEF Create, NewSpace, NewSpaceFails, Copy, CopyDone, CopyFails,
         PickSlot, KernelStack, KernelStackFails, taskVars
<1>4. PICK t \in Slots : Die(t)
  BY <1>2, <1>3 DEF Next
<1>5. t = s
  BY <1>1, <1>4 DEF Die, TypeOK
<1> QED BY <1>4, <1>5, DieLoss

(* What is lost, as the code loses it and no more: fork, thread creation   *)
(* and malloc nothing, exec a frame that win32_tib_map forgets, a process  *)
(* that dies its own kernel stack, at every failure and whatever its       *)
(* threads hold.                                                           *)
THEOREM LossesKnown == Spec => CallsLoseNothing
<1> DEFINE A == /\ op.kind \in {"fork", "thread", "malloc"} => Lost' \subseteq Lost
                /\ op.kind = "exec" /\ pc = "map" => Cardinality(Lost' \ Lost) <= 1
                /\ \A s \in Live : ~isThread[s] /\ cr3'[s] = None =>
                     Lost' \ Lost \subseteq {stack[s]}
<1>1. IInv /\ [Next]_vars => [A]_vars
  <2>1. IInv /\ Next => A
    BY CallLoss, ExecLoss, DeathLoss
  <2> QED BY <2>1
<1> QED BY <1>1, Invariance, PTL DEF Spec, CallsLoseNothing
=============================================================================

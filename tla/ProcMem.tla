------------------------------ MODULE ProcMem ------------------------------
(***************************************************************************)
(* Who holds which physical frame: the frame bitmap of kernel/mem/pmm.c,   *)
(* the user half of the address spaces of kernel/mem/paging.c, the kernel  *)
(* stacks of kernel/task/task.c, and the calls that move frames between    *)
(* them: the shell's `run`, fork, thread creation, exec, the growth of the *)
(* user heap, exit and the page fault that kills.                          *)
(*                                                                         *)
(* One kernel routine runs at a time, one frame request per step: what a   *)
(* tick in the middle of one does is the business of TaskRing and Pmm.     *)
(* Any live task may make the next call.                                   *)
(***************************************************************************)
EXTENDS Integers, FiniteSets

CONSTANTS
  Frames,     (* frames the PMM can hand out, as numbers                     *)
  Lfb,        (* the frame of the frame buffer, not the PMM's                *)
  None,       (* an entry that is not present, a field that is 0             *)
  MaxTasks,   (* slots of the task table                                     *)
  Stacks,     (* user stacks a process has room for besides its own (16)     *)
  Size,       (* pages of each area, at most for the image of a program      *)
  PdeOf       (* the page-directory entry each area lies under               *)

(* The areas of a user address space.                                      *)
Areas == {<< "image", 0 >>, << "dll", 0 >>, << "lfb", 0 >>, << "tib", 0 >>,
          << "heap", 0 >>, << "stack", 0 >>} \cup {<< "thread", k >> : k \in 1 .. Stacks}
Image == << "image", 0 >>
Heap  == << "heap", 0 >>
Stack == << "stack", 0 >>

ASSUME ProcMemAssumption ==
  /\ Frames \subseteq Nat /\ IsFiniteSet(Frames)
  /\ Lfb \notin Frames /\ None \notin Frames /\ Lfb # None
  /\ MaxTasks \in Nat \ {0} /\ Stacks \in Nat \ {0}
  /\ Size \in [Areas -> Nat \ {0}]
  /\ PdeOf \in [Areas -> Nat]

Slots == 0 .. MaxTasks - 1
Idle  == 0

(* The entries of an address space: one per page, holding its frame, and   *)
(* one per page-directory entry, holding the frame of the page table.      *)
Pages   == UNION {{<< a[1], a[2], i >> : i \in 1 .. Size[a]} : a \in Areas}
Tables  == {<< "table", PdeOf[a], 0 >> : a \in Areas}
Entries == Pages \cup Tables
Page(a, i) == << a[1], a[2], i >>
TableOf(g) == << "table", PdeOf[<< g[1], g[2] >>], 0 >>

VARIABLES
  used,      \* frames whose bit is set in the bitmap of the PMM
  ent,       \* ent[p]: what the directory in frame p and its tables hold
  alive,     \* tasks[i].state is READY or RUNNING
  cr3,       \* tasks[i].cr3, None for the kernel's and for 0
  isThread,  \* tasks[i].is_thread
  stack,     \* tasks[i].stack_base
  pc,        \* "user", or where the running kernel routine is
  op         \* its locals

taskVars == << alive, cr3, isThread, stack >>
vars == << used, ent, alive, cr3, isThread, stack, pc, op >>

(* task made the call; pd is the space being built; slot and kstack are    *)
(* those of the new task; len is the pages of the program being loaded;    *)
(* area and i the next page to map.                                        *)
Ops == [kind : {"none", "run", "fork", "thread", "exec", "malloc"},
        task : Slots, pd : Frames \cup {None}, slot : Slots,
        kstack : Frames \cup {None}, len : 1 .. Size[Image], area : Areas, i : Nat]
NoOp == [kind |-> "none", task |-> Idle, pd |-> None, slot |-> Idle,
         kstack |-> None, len |-> 1, area |-> Image, i |-> 1]

Init ==
  /\ used = {}
  /\ ent = [p \in Frames |-> [x \in Entries |-> None]]
  /\ alive = [s \in Slots |-> s = Idle]
  /\ cr3 = [s \in Slots |-> None]
  /\ isThread = [s \in Slots |-> FALSE]
  /\ stack = [s \in Slots |-> None]
  /\ pc = "user" /\ op = NoOp

-----------------------------------------------------------------------------
(* pmm_alloc_frame: the lowest free frame.                                 *)
Lowest(S) == {f \in S : \A g \in S : f <= g}
Free == Frames \ used

(* free_slot.                                                              *)
FreeSlots == {s \in Slots \ {Idle} : ~alive[s]}

(* What paging_free_user_space gives back: pages, tables, not the LFB.     *)
Content(p) == {ent[p][x] : x \in Entries} \ {None, Lfb}
Empty == [x \in Entries |-> None]

Goto(label) == pc' = label
Return == pc' = "user" /\ op' = NoOp
Running(k) == op.kind = k

(* A bug: the pages of the new space are not given back.                   *)
DiscardNothingInIt ==
  /\ used' = used \ {op.pd}
  /\ ent' = [ent EXCEPT ![op.pd] = Empty]

(* Give back a new space altogether (elf_load, pe_load, task_fork) ...     *)
DiscardSpace ==
  /\ used' = used \ (Content(op.pd) \cup {op.pd})
  /\ ent' = [ent EXCEPT ![op.pd] = Empty]
(* ... or its directory only (shell_run_file).                             *)
DiscardDirectory ==
  /\ used' = used \ {op.pd}
  /\ UNCHANGED ent

-----------------------------------------------------------------------------
(* The calls.                                                              *)

(* `run`, from the prompt, which needs every user task to be gone.         *)
RunCall(len) ==
  /\ pc = "user" /\ \A s \in Slots \ {Idle} : ~alive[s]
  /\ op' = [NoOp EXCEPT !.kind = "run", !.len = len]
  /\ Goto("newSpace")
  /\ UNCHANGED << used, ent, taskVars >>

UserTask(s) == s # Idle /\ alive[s]

ForkCall(s) ==
  /\ pc = "user" /\ UserTask(s)
  /\ \E t \in Lowest(FreeSlots) :
       op' = [NoOp EXCEPT !.kind = "fork", !.task = s, !.slot = t]
  /\ Goto("newSpace")
  /\ UNCHANGED << used, ent, taskVars >>

ThreadCall(s) ==
  /\ pc = "user" /\ UserTask(s)
  /\ \E t \in Lowest(FreeSlots) :
       op' = [NoOp EXCEPT !.kind = "thread", !.task = s, !.slot = t,
                          !.pd = cr3[s]]
  /\ Goto("kstack")
  /\ UNCHANGED << used, ent, taskVars >>

(* exec with a program that passes the checks of its headers: they come    *)
(* before the old space is given back.                                     *)
ExecCall(s, len) ==
  /\ pc = "user" /\ UserTask(s)
  /\ used' = used \ Content(cr3[s])
  /\ ent' = [ent EXCEPT ![cr3[s]] = Empty]
  /\ op' = [NoOp EXCEPT !.kind = "exec", !.task = s, !.pd = cr3[s], !.len = len]
  /\ Goto("map")
  /\ UNCHANGED taskVars

(* SYS_MALLOC when the heap has to grow.                                   *)
MallocCall(s) ==
  /\ pc = "user" /\ UserTask(s)
  /\ \E i \in Lowest({j \in 1 .. Size[Heap] : ent[cr3[s]][Page(Heap, j)] = None}) :
       op' = [NoOp EXCEPT !.kind = "malloc", !.task = s, !.pd = cr3[s],
                          !.area = Heap, !.i = i]
  /\ Goto("map")
  /\ UNCHANGED << used, ent, taskVars >>

-----------------------------------------------------------------------------
(* paging_create_user_pd.                                                  *)
NewSpace ==
  /\ pc = "newSpace"
  /\ \E p \in Lowest(Free) :
       /\ used' = used \cup {p}
       /\ ent' = [ent EXCEPT ![p] = Empty]
       /\ op' = [op EXCEPT !.pd = p]
  /\ Goto(IF Running("fork") THEN "copy" ELSE "map")
  /\ UNCHANGED taskVars

NewSpaceFails ==
  /\ pc = "newSpace" /\ Free = {}
  /\ Return
  /\ UNCHANGED << used, ent, taskVars >>

(* map_page with a frame of its own: a frame, and a table if there is none *)
(* yet.  When it fails nothing has changed: the frame goes back.           *)
Mapped(g) == ent[op.pd][g] # None
TableMissing(g) == ent[op.pd][TableOf(g)] = None
Needed(g) == (IF g[1] = "lfb" THEN 0 ELSE 1) + (IF TableMissing(g) THEN 1 ELSE 0)
CanMap(g) == ~Mapped(g) /\ Cardinality(Free) >= Needed(g)

(* Bugs: the table is taken before the page's frame is marked; the new     *)
(* table is not entered in the directory; the LFB is marked as used.       *)
MapPageTwice(g) ==
  \E f \in IF g[1] = "lfb" THEN {Lfb} ELSE Lowest(Free) :
    IF TableMissing(g)
    THEN \E t \in Lowest(Free) :
           /\ used' = used \cup ({f, t} \ {Lfb})
           /\ ent' = [ent EXCEPT ![op.pd] = [@ EXCEPT ![g] = f, ![TableOf(g)] = t]]
    ELSE /\ used' = used \cup ({f} \ {Lfb})
         /\ ent' = [ent EXCEPT ![op.pd] = [@ EXCEPT ![g] = f]]
MapPageOnly(g) ==
  \E f \in IF g[1] = "lfb" THEN {Lfb} ELSE Lowest(Free) :
    /\ used' = used \cup ({f} \ {Lfb})
    /\ ent' = [ent EXCEPT ![op.pd] = [@ EXCEPT ![g] = f]]
MapPage(g) ==
  \E f \in IF g[1] = "lfb" THEN {Lfb} ELSE Lowest(Free) :
    IF TableMissing(g)
    THEN \E t \in Lowest(Free \ {f}) :
           /\ used' = used \cup ({f, t} \ {Lfb})
           /\ ent' = [ent EXCEPT ![op.pd] = [@ EXCEPT ![g] = f, ![TableOf(g)] = t]]
    ELSE /\ used' = used \cup ({f} \ {Lfb})
         /\ ent' = [ent EXCEPT ![op.pd] = [@ EXCEPT ![g] = f]]

Here == Page(op.area, op.i)
LastPage == op.i = IF op.area = Image THEN op.len ELSE Size[op.area]
NextArea(a) == CASE a = "image" -> << "dll", 0 >>
                 [] a = "dll"   -> << "lfb", 0 >>
                 [] a = "lfb"   -> << "tib", 0 >>
                 [] OTHER       -> Stack
Continue(a) == op' = [op EXCEPT !.area = a, !.i = 1]

(* The loops of load_segments, map_module, paging_user_map_lfb,            *)
(* win32_tib_map and paging_user_map, one page at a time.                  *)
MapNext ==
  /\ pc = "map" /\ CanMap(Here)
  /\ MapPage(Here)
  /\ \/ /\ ~LastPage /\ op.area # Heap
        /\ op' = [op EXCEPT !.i = @ + 1]
        /\ Goto("map")
     \/ /\ LastPage
        /\ \/ op.area[1] \in {"image", "dll", "lfb"}
           \/ op.area[1] = "tib" /\ Running("exec")
        /\ Continue(NextArea(op.area[1]))
        /\ Goto("map")
     \/ /\ LastPage /\ op.area[1] = "tib" /\ Running("run")
        /\ Goto("slot") /\ UNCHANGED op
     \/ /\ LastPage /\ op.area = Stack /\ Running("run")
        /\ Goto("start") /\ UNCHANGED op
     \/ /\ LastPage /\ op.area[1] = "thread"
        /\ Goto("start") /\ UNCHANGED op
     \/ /\ \/ op.area = Heap
           \/ LastPage /\ op.area = Stack /\ Running("exec")
        /\ Return
  /\ UNCHANGED taskVars

MapImpossible == pc = "map" /\ ~CanMap(Here)

(* The program does not fit: a new space goes back, exec kills the task.   *)
MapImageFails ==
  /\ MapImpossible /\ op.area = Image
  /\ \/ Running("run") /\ DiscardSpace /\ Return
     \/ Running("exec") /\ UNCHANGED << used, ent, op >> /\ Goto("kill")
  /\ UNCHANGED taskVars

(* win32_map_all stops at the first failure and nobody looks at its result;*)
(* win32_tib_map forgets the frame it has when there is none for a table.  *)
MapModulesFails ==
  /\ MapImpossible /\ op.area[1] \in {"dll", "lfb", "tib"}
  /\ used' = IF op.area[1] = "tib" THEN used \cup Lowest(Free) ELSE used
  /\ \/ Running("run") /\ Goto("slot") /\ UNCHANGED op
     \/ Running("exec") /\ Continue(Stack) /\ Goto("map")
  /\ UNCHANGED << ent, taskVars >>

(* A bug: a thread that gets no user stack keeps its kernel stack.         *)
MapStackForgets ==
  /\ MapImpossible
  /\ \/ /\ op.area = Stack /\ Running("run")
        /\ used' = used \ {op.pd, op.kstack}
     \/ op.area = Stack /\ Running("exec") /\ UNCHANGED used
     \/ op.area[1] = "thread" /\ UNCHANGED used
  /\ Return
  /\ UNCHANGED << ent, taskVars >>
(* No room for a user stack: what was mapped of it stays mapped.           *)
MapStackFails ==
  /\ MapImpossible
  /\ \/ /\ op.area = Stack /\ Running("run")
        /\ used' = used \ {op.pd, op.kstack}
     \/ op.area = Stack /\ Running("exec") /\ UNCHANGED used
     \/ op.area[1] = "thread" /\ used' = used \ {op.kstack}
  /\ Return
  /\ UNCHANGED << ent, taskVars >>

MallocFails ==
  /\ MapImpossible /\ op.area = Heap
  /\ Return
  /\ UNCHANGED << used, ent, taskVars >>

-----------------------------------------------------------------------------
(* paging_copy_user_space: table by table, each table's pages after it; a  *)
(* page of the frame buffer is shared.                                     *)
Parent == ent[cr3[op.task]]
ToCopy == {x \in Entries : Parent[x] # None /\ ent[op.pd][x] = None}
Ready  == {g \in ToCopy \cap Pages : ent[op.pd][TableOf(g)] # None}
NextCopy == IF Ready # {} THEN CHOOSE g \in Ready : TRUE
            ELSE CHOOSE x \in ToCopy \cap Tables : TRUE

Copy ==
  /\ pc = "copy" /\ ToCopy # {}
  /\ \E f \in IF Parent[NextCopy] = Lfb THEN {Lfb} ELSE Lowest(Free) :
       /\ used' = used \cup ({f} \ {Lfb})
       /\ ent' = [ent EXCEPT ![op.pd] = [@ EXCEPT ![NextCopy] = f]]
  /\ UNCHANGED << pc, op, taskVars >>

CopyDone ==
  /\ pc = "copy" /\ ToCopy = {}
  /\ Goto("kstack")
  /\ UNCHANGED << used, ent, op, taskVars >>

CopyFails ==
  /\ pc = "copy" /\ ToCopy # {} /\ Parent[NextCopy] # Lfb /\ Free = {}
  /\ DiscardSpace /\ Return
  /\ UNCHANGED taskVars

-----------------------------------------------------------------------------
(* task_create_user takes its slot last; fork and thread creation had one. *)
PickSlot ==
  /\ pc = "slot"
  /\ IF FreeSlots = {}
     THEN DiscardDirectory /\ Return
     ELSE /\ \E t \in Lowest(FreeSlots) : op' = [op EXCEPT !.slot = t]
          /\ Goto("kstack")
          /\ UNCHANGED << used, ent >>
  /\ UNCHANGED taskVars

(* The first stack area whose lowest page is not mapped; the first of all  *)
(* when none is left, and mapping that one fails.                          *)
StackAreas == {k \in 1 .. Stacks : ~Mapped(Page(<< "thread", k >>, 1))}
ThreadStack == {<< "thread", k >> :
                  k \in IF StackAreas = {} THEN {1} ELSE Lowest(StackAreas)}

KernelStack ==
  /\ pc = "kstack"
  /\ \E f \in Lowest(Free), a \in IF Running("thread") THEN ThreadStack ELSE {Stack} :
       /\ used' = used \cup {f}
       /\ op' = [op EXCEPT !.kstack = f, !.area = a, !.i = 1]
  /\ Goto(IF Running("fork") THEN "start" ELSE "map")
  /\ UNCHANGED << ent, taskVars >>

KernelStackFails ==
  /\ pc = "kstack" /\ Free = {}
  /\ \/ Running("run") /\ DiscardDirectory
     \/ Running("fork") /\ DiscardSpace
     \/ Running("thread") /\ UNCHANGED << used, ent >>
  /\ Return
  /\ UNCHANGED taskVars

(* The fields of the new task; only task_create_thread writes is_thread.   *)
Start ==
  /\ pc = "start"
  /\ alive' = [alive EXCEPT ![op.slot] = TRUE]
  /\ cr3' = [cr3 EXCEPT ![op.slot] = op.pd]
  /\ stack' = [stack EXCEPT ![op.slot] = op.kstack]
  /\ isThread' = [isThread EXCEPT ![op.slot] = @ \/ Running("thread")]
  /\ Return
  /\ UNCHANGED << used, ent >>

-----------------------------------------------------------------------------
ThreadsOf(s) == IF isThread[s] THEN {}
                ELSE {t \in Slots \ {s} : alive[t] /\ cr3[t] = cr3[s] /\ isThread[t]}

(* sched_kill_current: exit, the end of a thread, a page fault in ring 3,  *)
(* an exec that failed.                                                    *)
Die(s) ==
  /\ \/ pc = "user" /\ UserTask(s)
     \/ pc = "kill" /\ s = op.task
  /\ LET space == Content(cr3[s]) \cup {cr3[s]} IN
     IF isThread[s]
     THEN UNCHANGED << used, ent >>
     ELSE /\ used' = used \ (space \cup {stack[t] : t \in ThreadsOf(s)})
          /\ ent' = [ent EXCEPT ![cr3[s]] = Empty]
  /\ alive' = [t \in Slots |-> alive[t] /\ t # s /\ t \notin ThreadsOf(s)]
  /\ cr3' = [cr3 EXCEPT ![s] = None]
  /\ Return
  /\ UNCHANGED << isThread, stack >>

-----------------------------------------------------------------------------
Call == \/ \E len \in 1 .. Size[Image] : RunCall(len)
        \/ \E s \in Slots : ForkCall(s) \/ ThreadCall(s) \/ MallocCall(s)
        \/ \E s \in Slots, len \in 1 .. Size[Image] : ExecCall(s, len)

Map == MapNext \/ MapImageFails \/ MapModulesFails \/ MapStackFails \/ MallocFails

Create == \/ NewSpace \/ NewSpaceFails \/ Copy \/ CopyDone \/ CopyFails
          \/ PickSlot \/ KernelStack \/ KernelStackFails \/ Start

Next == Call \/ Map \/ Create \/ \E s \in Slots : Die(s)

Spec == Init /\ [][Next]_vars

-----------------------------------------------------------------------------
(* PROPERTIES                                                              *)

(* Every variable has its type.                                            *)
TypeOK ==
  /\ used \subseteq Frames
  /\ ent \in [Frames -> [Entries -> Frames \cup {Lfb, None}]]
  /\ alive \in [Slots -> BOOLEAN]
  /\ cr3 \in [Slots -> Frames \cup {None}]
  /\ isThread \in [Slots -> BOOLEAN]
  /\ stack \in [Slots -> Frames \cup {None}]
  /\ pc \in {"user", "newSpace", "map", "copy", "slot", "kstack", "start", "kill"}
  /\ op \in Ops

(* The address spaces and the kernel stacks somebody holds.                *)
Live   == {s \in Slots \ {Idle} : alive[s]}
Spaces == {cr3[s] : s \in Live} \cup ({op.pd} \ {None})
KStacks == {stack[s] : s \in Live} \cup ({op.kstack} \ {None})

(* No two address spaces, and no two entries of one, hold the same frame;  *)
(* a frame that is a page or a table is nobody's directory or kernel stack,*)
(* and no kernel stack serves two tasks (pmm.c, paging.c: a frame is       *)
(* cleared and written through the kernel's identity map unchecked).       *)
OneHolder ==
  /\ \A p, q \in Spaces : \A x, y \in Entries :
       ent[p][x] = ent[q][y] /\ ent[p][x] \in Frames => p = q /\ x = y
  /\ \A p \in Spaces : \A x \in Entries : ent[p][x] \notin Spaces \cup KStacks
  /\ Spaces \cap KStacks = {}
  /\ \A s, t \in Live : stack[s] = stack[t] => s = t
  /\ \A s \in Live : stack[s] # op.kstack

(* Every frame somebody holds is marked in the bitmap: the PMM does not    *)
(* hand it out again, and nothing a live task uses was freed under it.     *)
HeldIsUsed ==
  /\ Spaces \cup KStacks \subseteq used
  /\ \A p \in Spaces : \A x \in Entries : ent[p][x] \in used \cup {None, Lfb}

(* A page is reachable only through a table that is there: freeing a space *)
(* walks the tables and finds every page.                                  *)
TablesCover ==
  \A p \in Spaces : \A g \in Pages : ent[p][g] # None => ent[p][TableOf(g)] # None

Held == Spaces \cup KStacks \cup UNION {Content(p) : p \in Spaces}
Lost == used \ Held

(* Frames nobody holds any more and the bitmap still marks: fork, thread   *)
(* creation and malloc lose none, whether they fail or not (task_fork's    *)
(* two error paths, task_create_thread's); exec at most the one page that  *)
(* win32_tib_map forgets; and a process that dies loses its own kernel     *)
(* stack and nothing else, threads and all.                                *)
CallsLoseNothing ==
  [][/\ op.kind \in {"fork", "thread", "malloc"} => Lost' \subseteq Lost
     /\ op.kind = "exec" /\ pc = "map" => Cardinality(Lost' \ Lost) <= 1
     /\ \A s \in Live : ~isThread[s] /\ cr3'[s] = None =>
          Lost' \ Lost \subseteq {stack[s]}]_vars

(* "libera solo su pila de kernel" (task.c:364): a thread that ends gives  *)
(* its kernel stack back.  Not kept: nobody frees it.                      *)
ThreadStackFreed ==
  [][\A s \in Live : isThread[s] /\ ~alive'[s] => stack[s] \notin used']_vars

-----------------------------------------------------------------------------
(* The inductive invariant: the properties above and what the running call *)
(* knows of its locals.                                                    *)

(* A live task has an address space and a kernel stack of its own, the     *)
(* idle task runs in the kernel's; two tasks share a space only if one of  *)
(* them is a thread.                                                       *)
TaskInv ==
  /\ cr3[Idle] = None
  /\ \A s \in Live : cr3[s] \in Frames /\ stack[s] \in Frames
  /\ \A s, t \in Live :
       cr3[s] = cr3[t] /\ ~isThread[s] /\ ~isThread[t] => s = t

(* A new space is the caller's own business until the task starts; exec,   *)
(* malloc and thread creation work on the space of the task that called.   *)
OpInv ==
  /\ pc = "user" <=> Running("none")
  /\ pc = "user" => op = NoOp
  /\ pc # "user" /\ ~Running("run") => op.task \in Live
  /\ Running("run") => Live = {}
  /\ op.kind \in {"exec", "malloc", "thread"} => op.pd = cr3[op.task]
  /\ op.kind \in {"run", "fork"} => \A s \in Live : cr3[s] # op.pd
  /\ pc = "newSpace" => op.pd = None /\ op.kind \in {"run", "fork"}
  /\ pc \in {"copy", "map", "slot", "kstack", "start"} => op.pd \in Frames
  /\ pc = "copy" => Running("fork")
  /\ pc = "slot" => Running("run")
  /\ pc = "kill" => Running("exec")
  /\ pc \in {"kstack", "start"} => op.kind \in {"run", "fork", "thread"}

NewTaskInv ==
  /\ op.kind \in {"fork", "thread"} => op.slot \in FreeSlots
  /\ Running("run") /\ pc \in {"kstack", "start"} => op.slot \in FreeSlots
  /\ op.kind \in {"exec", "malloc"} => op.kstack = None
  /\ pc \in {"newSpace", "copy", "slot", "kstack"} => op.kstack = None
  /\ pc = "start" => op.kstack \in Frames
  /\ pc = "newSpace" => op.area = Image /\ op.i = 1

MapInv ==
  pc = "map" =>
    /\ op.i \in 1 .. (IF op.area = Image THEN op.len ELSE Size[op.area])
    /\ Running("malloc") <=> op.area = Heap
    /\ Running("thread") <=> op.area[1] = "thread"
    /\ Running("thread") => op.kstack \in Frames
    /\ ~Running("fork")
    /\ Running("run") =>
         IF op.area = Stack THEN op.kstack \in Frames /\ op.slot \in FreeSlots
         ELSE op.kstack = None

IInv == TypeOK /\ OneHolder /\ HeldIsUsed /\ TablesCover /\ TaskInv /\ OpInv
          /\ NewTaskInv /\ MapInv
=============================================================================

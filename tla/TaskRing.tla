------------------------------ MODULE TaskRing ------------------------------
(***************************************************************************)
(* The task table and the circular run list of kernel/task/task.c, cut at  *)
(* the accesses to shared state between which the timer interrupt matters. *)
(*                                                                         *)
(* There is one CPU: only the task `current` points to takes steps, and    *)
(* Tick (IRQ0) is the only thing that moves `current`.  pc[s] says where   *)
(* slot s is: "user" outside the calls modelled here, "stub" in the halt   *)
(* loop of a dead task (task_stub_exit), otherwise inside fork, thread     *)
(* creation, the shell's `run` (slot 0, the idle task, is the shell) or    *)
(* sched_kill_current.                                                     *)
(*                                                                         *)
(* syscall_handler enables interrupts on entry (syscall.c:187), so a tick  *)
(* may come between any two steps of a call; only a death by page fault    *)
(* runs with IF = 0.  Nothing locks the table.  Two history variables,     *)
(* which no step reads, record what the calls did to one another: caller   *)
(* is the slot that took the last step of a call, and raced becomes TRUE   *)
(* once a call is stepped while another is unfinished, or a dying task     *)
(* loses the processor after it gave up its page directory.                *)
(***************************************************************************)
EXTENDS Integers, FiniteSets

CONSTANTS
  MaxTasks,   (* slots of the table, MAX_TASKS                             *)
  PDs,        (* frames that can hold a user page directory                *)
  KernelPD,   (* the page directory of the kernel                          *)
  NoPD,       (* the value 0 of a cr3 field                                *)
  PidSpace    (* values of the counter next_pid: 2^32 in the code          *)

ASSUME TaskRingAssumption ==
  /\ MaxTasks \in Nat \ {0}
  /\ PidSpace \in Nat \ {0}
  /\ KernelPD \notin PDs /\ NoPD \notin PDs /\ KernelPD # NoPD

Slots == 0 .. MaxTasks - 1
Idle  == 0
Nil   == -1     \* a NULL task pointer

VARIABLES
  state,      \* tasks[i].state
  next,       \* tasks[i].next
  cr3,        \* tasks[i].cr3
  isThread,   \* tasks[i].is_thread
  pid,        \* tasks[i].pid
  nextPid,    \* next_pid
  taskCount,  \* task_count
  current,    \* the pointer current
  livePds,    \* user page directories handed out by the PMM
  pc,         \* control position of each slot
  loc,        \* locals of the kernel function each slot is in
  caller,     \* history: who took the last step of a call
  raced       \* history: calls have met, or a death was interrupted

vars == << state, next, cr3, isThread, pid, nextPid, taskCount, current,
           livePds, pc, loc, caller, raced >>

Creating == {"pick", "fill", "init", "ready", "link", "insert"}
Killing  == {"reap", "reapWalk", "reapCut", "freePd", "clear", "walk", "cut",
             "free"}

(* slot and pd belong to a creation (pd is NoPD in fork until it creates   *)
(* one), thread tells task_create_thread from the other two, ticket is the *)
(* value read from next_pid; t, nx and p are the pointers of               *)
(* sched_kill_current and list_remove; masked is IF = 0 (a page fault).    *)
Locals == [slot : Slots \cup {Nil}, pd : PDs \cup {NoPD}, thread : BOOLEAN,
           ticket : Nat, t : Slots, nx : Slots \cup {Nil}, p : Slots,
           masked : BOOLEAN]

NoLocals == [slot |-> Nil, pd |-> NoPD, thread |-> FALSE, ticket |-> 0,
             t |-> Idle, nx |-> Nil, p |-> Idle, masked |-> FALSE]

Alive(s) == state[s] \in {"READY", "RUNNING"}

(* The slots a walk along `next` from s visits: the least set that holds s *)
(* and is closed under next.                                               *)
Closed(S) == \A x \in S : next[x] \in S
Orbit(s)  == {x \in Slots :
                \A S \in SUBSET Slots : s \in S /\ Closed(S) => x \in S}

(* list_remove looks for the predecessor of t, starting at t->next.        *)
Predecessors(t) == {p \in Orbit(next[t]) : next[p] = t}

(* free_slot: the first free slot above the idle task.                     *)
FreeSlots == {s \in Slots \ {Idle} : state[s] = "FREE"}
FirstFree == {t \in FreeSlots : \A u \in FreeSlots : t <= u}

(* sched_user_busy, as the shell evaluates it: a task of another address   *)
(* space is in the run list.                                               *)
UserBusy == \E s \in Orbit(current) : cr3[s] # KernelPD /\ Alive(s)

-----------------------------------------------------------------------------
(* sched_init.                                                             *)
Init ==
  /\ state     = [s \in Slots |-> IF s = Idle THEN "RUNNING" ELSE "FREE"]
  /\ next      = [s \in Slots |-> IF s = Idle THEN Idle ELSE Nil]
  /\ cr3       = [s \in Slots |-> IF s = Idle THEN KernelPD ELSE NoPD]
  /\ isThread  = [s \in Slots |-> FALSE]
  /\ pid       = [s \in Slots |-> 0]
  /\ nextPid   = 1 % PidSpace
  /\ taskCount = 1
  /\ current   = Idle
  /\ livePds   = {}
  /\ pc        = [s \in Slots |-> "user"]
  /\ loc       = [s \in Slots |-> NoLocals]
  /\ caller    = Idle
  /\ raced     = FALSE

At(label) == pc[current] = label
me        == loc[current]
Goto(label) == pc' = [pc EXCEPT ![current] = label]
Return      == /\ Goto("user")
               /\ loc' = [loc EXCEPT ![current] = NoLocals]

tableVars == << state, next, cr3, isThread, pid, nextPid, taskCount >>

-----------------------------------------------------------------------------
(* sched_tick.  The walk stops at the first task that can run, or back at  *)
(* the task it left.  With one task left and that task alive it returns    *)
(* without switching.                                                      *)
IF_set == ~me.masked

Stops(s) == Alive(s) \/ s = current
Hop[n \in Nat] == IF n = 0 THEN next[current] ELSE next[Hop[n - 1]]
(* A bug: the turn goes by the order of the slots, not of the list.        *)
NextReadyInTable ==
  LET later == {s \in Orbit(next[current]) : Alive(s) /\ s > current} IN
  IF later = {} THEN Idle ELSE CHOOSE s \in later : \A t \in later : s <= t

NextReady ==
  IF Stops(next[current]) THEN next[current]
  ELSE Hop[CHOOSE n \in 1 .. MaxTasks :
             Stops(Hop[n]) /\ \A m \in 0 .. n - 1 : ~Stops(Hop[m])]

Alone == taskCount < 2 /\ Alive(current)

TickReturns ==
  IF_set /\ Alone /\ UNCHANGED << tableVars, current, livePds, pc, loc >>

Tick ==
  /\ IF_set
  /\ ~Alone
  /\ \E s \in Orbit(next[current]) : Stops(s)   \* otherwise it never returns
  /\ current' = NextReady
  /\ UNCHANGED << tableVars, livePds, pc, loc >>

-----------------------------------------------------------------------------
(* The shell's `run`, fork and thread creation.  `run` loads the program   *)
(* into a new page directory before it asks for a slot; fork and thread    *)
(* creation ask for the slot first and allocate memory afterwards.         *)
RunCall(p) ==
  /\ At("user") /\ current = Idle /\ ~UserBusy
  /\ p \notin livePds
  /\ livePds' = livePds \cup {p}
  /\ loc' = [loc EXCEPT ![Idle] = [NoLocals EXCEPT !.pd = p]]
  /\ Goto("pick")
  /\ UNCHANGED << tableVars, current >>

RunPick ==
  /\ At("pick")
  /\ IF FreeSlots = {}
     THEN /\ livePds' = livePds \ {me.pd}
          /\ Return
     ELSE /\ \E t \in FirstFree : loc' = [loc EXCEPT ![current].slot = t]
          /\ Goto("fill")
          /\ UNCHANGED livePds
  /\ UNCHANGED << tableVars, current >>

UserCall == At("user") /\ current # Idle

ForkCall ==
  /\ UserCall
  /\ \E t \in FirstFree :
       loc' = [loc EXCEPT ![current] = [NoLocals EXCEPT !.slot = t]]
  /\ Goto("fill")
  /\ UNCHANGED << tableVars, current, livePds >>

ThreadCall ==
  /\ UserCall
  /\ \E t \in FirstFree :
       loc' = [loc EXCEPT ![current] =
                 [NoLocals EXCEPT !.slot = t, !.pd = cr3[current],
                                  !.thread = TRUE]]
  /\ Goto("fill")
  /\ UNCHANGED << tableVars, current, livePds >>

(* Kernel stack, user stack or page directory: the long part of a          *)
(* creation, which may run out of frames.                                  *)
FillFork(p) ==
  /\ At("fill") /\ me.pd = NoPD
  /\ p \notin livePds
  /\ livePds' = livePds \cup {p}
  /\ loc' = [loc EXCEPT ![current].pd = p]
  /\ Goto("init")
  /\ UNCHANGED << tableVars, current >>

FillMapped ==
  /\ At("fill") /\ me.pd # NoPD
  /\ Goto("init")
  /\ UNCHANGED << tableVars, current, livePds, loc >>

FillFails ==
  /\ At("fill")
  /\ livePds' = IF current = Idle THEN livePds \ {me.pd} ELSE livePds
  /\ Return
  /\ UNCHANGED << tableVars, current >>

(* The new task's esp, cr3 and (for a thread only) is_thread; then the     *)
(* read half of next_pid++.  Writing esp is what makes the slot restart at *)
(* its entry point.                                                        *)
InitSlot ==
  /\ At("init")
  /\ LET t == me.slot IN
     /\ cr3' = [cr3 EXCEPT ![t] = me.pd]
     /\ isThread' = [isThread EXCEPT ![t] = @ \/ me.thread]
     /\ pc'  = [pc EXCEPT ![current] = "ready", ![t] = "user"]
     /\ loc' = [loc EXCEPT ![current].ticket = nextPid, ![t] = NoLocals]
  /\ UNCHANGED << state, next, pid, nextPid, taskCount, current, livePds >>

SetReady ==
  /\ At("ready")
  /\ nextPid' = (me.ticket + 1) % PidSpace
  /\ pid'   = [pid EXCEPT ![me.slot] = me.ticket]
  /\ state' = [state EXCEPT ![me.slot] = "READY"]
  /\ Goto("link")
  /\ UNCHANGED << next, cr3, isThread, taskCount, current, livePds, loc >>

(* list_insert: its two writes, the second with task_count++.              *)
LinkNew ==
  /\ At("link")
  /\ next' = [next EXCEPT ![me.slot] = next[current]]
  /\ Goto("insert")
  /\ UNCHANGED << state, cr3, isThread, pid, nextPid, taskCount, current,
                  livePds, loc >>

InsertNew ==
  /\ At("insert")
  /\ next' = [next EXCEPT ![current] = me.slot]
  /\ taskCount' = taskCount + 1
  /\ Return
  /\ UNCHANGED << state, cr3, isThread, pid, nextPid, current, livePds >>

-----------------------------------------------------------------------------
(* sched_kill_current, from SYS_EXIT and SYS_THREADEXIT (masked = FALSE)   *)
(* or from a page fault in ring 3 (masked = TRUE).                         *)
KillCall(masked) ==
  /\ UserCall
  /\ cr3[current] # NoPD
  /\ loc' = [loc EXCEPT ![current] =
               [NoLocals EXCEPT !.masked = masked, !.t = next[current]]]
  /\ Goto(IF isThread[current] THEN "clear" ELSE "reap")
  /\ UNCHANGED << tableVars, current, livePds >>

(* A bug: the threads of a dead process stay.                              *)
NoThreadMatches(s) == s \notin Slots

SameSpaceThread(s) == cr3[s] = cr3[current] /\ isThread[s]

(* The loop that takes the threads of the process out of the list.         *)
ReapSkip ==
  /\ At("reap") /\ me.t # current
  /\ ~SameSpaceThread(me.t)
  /\ loc' = [loc EXCEPT ![current].t = next[me.t]]
  /\ UNCHANGED << tableVars, current, livePds, pc >>

ReapMatch ==
  /\ At("reap") /\ me.t # current
  /\ SameSpaceThread(me.t)
  /\ loc' = [loc EXCEPT ![current].nx = next[me.t]]
  /\ Goto("reapWalk")
  /\ UNCHANGED << tableVars, current, livePds >>

ReapWalk ==
  /\ At("reapWalk")
  /\ \E q \in Predecessors(me.t) : loc' = [loc EXCEPT ![current].p = q]
  /\ Goto("reapCut")
  /\ UNCHANGED << tableVars, current, livePds >>

ReapCut ==
  /\ At("reapCut")
  /\ next'  = [next EXCEPT ![me.p] = next[me.t]]
  /\ state' = [state EXCEPT ![me.t] = "FREE"]
  /\ taskCount' = taskCount - 1
  /\ loc' = [loc EXCEPT ![current].t = me.nx]
  /\ Goto("reap")
  /\ UNCHANGED << cr3, isThread, pid, nextPid, current, livePds >>

ReapDone ==
  /\ At("reap") /\ me.t = current
  /\ Goto("freePd")
  /\ UNCHANGED << tableVars, current, livePds, loc >>

FreePd ==
  /\ At("freePd")
  /\ livePds' = livePds \ {cr3[current]}
  /\ Goto("clear")
  /\ UNCHANGED << tableVars, current, loc >>

ClearCr3 ==
  /\ At("clear")
  /\ cr3' = [cr3 EXCEPT ![current] = NoPD]
  /\ Goto("walk")
  /\ UNCHANGED << state, next, isThread, pid, nextPid, taskCount, current,
                  livePds, loc >>

RemoveWalk ==
  /\ At("walk")
  /\ \E q \in Predecessors(current) : loc' = [loc EXCEPT ![current].p = q]
  /\ Goto("cut")
  /\ UNCHANGED << tableVars, current, livePds >>

(* Bugs: the dying task is never unlinked; it is linked to itself.         *)
RemoveCutForgotten ==
  /\ At("cut")
  /\ Goto("free")
  /\ UNCHANGED << tableVars, current, livePds, loc >>
RemoveCutSelfLink ==
  /\ At("cut")
  /\ next' = [next EXCEPT ![me.p] = next[current], ![current] = current]
  /\ Goto("free")
  /\ UNCHANGED << state, cr3, isThread, pid, nextPid, taskCount, current,
                  livePds, loc >>

RemoveCut ==
  /\ At("cut")
  /\ next' = [next EXCEPT ![me.p] = next[current]]
  /\ Goto("free")
  /\ UNCHANGED << state, cr3, isThread, pid, nextPid, taskCount, current,
                  livePds, loc >>

FreeSelf ==
  /\ At("free")
  /\ state' = [state EXCEPT ![current] = "FREE"]
  /\ taskCount' = taskCount - 1
  /\ loc' = [loc EXCEPT ![current] = NoLocals]
  /\ Goto("stub")
  /\ UNCHANGED << next, cr3, isThread, pid, nextPid, current, livePds >>

-----------------------------------------------------------------------------
Call == \/ \E p \in PDs : RunCall(p)
        \/ ForkCall
        \/ ThreadCall
        \/ \E masked \in BOOLEAN : KillCall(masked)

Create == \/ RunPick \/ \E p \in PDs : FillFork(p)
          \/ FillMapped \/ FillFails
          \/ InitSlot \/ SetReady \/ LinkNew \/ InsertNew

Kill == \/ ReapSkip \/ ReapMatch \/ ReapWalk \/ ReapCut \/ ReapDone
        \/ FreePd \/ ClearCr3 \/ RemoveWalk \/ RemoveCut \/ FreeSelf

(* What the history records of a step of a call and of a tick.             *)
Inside(s) == pc[s] \notin {"user", "stub"}
Dying(s)  == pc[s] \in {"clear", "walk", "cut", "free"}

NoteCall ==
  /\ caller' = current
  /\ raced' = (raced \/ \E s \in Slots \ {current} : Inside(s))
NoteTick ==
  /\ raced' = (raced \/ (Dying(current) /\ current' # current))
  /\ UNCHANGED caller

Begin     == Call /\ NoteCall
Continue  == (Create \/ Kill) /\ NoteCall
Interrupt == Tick /\ NoteTick

Next == Begin \/ Continue \/ Interrupt \/ (TickReturns /\ NoteTick)

Spec == Init /\ [][Next]_vars

(* A turn is many instructions long, so a call that gets the processor     *)
(* again and again goes on, and an interrupt the PIC has latched is        *)
(* delivered at the first instruction boundary with IF = 1, however        *)
(* briefly a program leaves it set.                                        *)
Fairness == SF_vars(Continue) /\ SF_vars(Interrupt)
FairSpec == Spec /\ Fairness

-----------------------------------------------------------------------------
(* PROPERTIES                                                              *)
(*                                                                         *)
(* Nothing in task.c keeps two calls apart, so what they promise can only  *)
(* hold while raced is FALSE: ticks come anywhere, in the middle of a      *)
(* creation or of the loop that reaps threads as well, and other tasks run *)
(* meanwhile, but they begin no such call and no tick falls between the    *)
(* freeing of a dying task's directory and the end of its death.           *)

(* Every variable has its type.                                            *)
TypeOK ==
  /\ state \in [Slots -> {"FREE", "READY", "RUNNING"}]
  /\ next \in [Slots -> Slots \cup {Nil}]
  /\ cr3 \in [Slots -> PDs \cup {KernelPD, NoPD}]
  /\ isThread \in [Slots -> BOOLEAN]
  /\ pid \in [Slots -> Nat] /\ nextPid \in Nat
  /\ taskCount \in Nat
  /\ current \in Slots
  /\ livePds \subseteq PDs
  /\ pc \in [Slots -> {"user", "stub"} \cup Creating \cup Killing]
  /\ loc \in [Slots -> Locals]
  /\ caller \in Slots /\ raced \in BOOLEAN

LiveTasks == {s \in Slots : Alive(s)}

(* Nobody is in the middle of a creation or a death.                       *)
Quiet == \A s \in LiveTasks \cup {current} : ~Inside(s)

(* Between the calls the run list holds exactly the tasks whose slot is    *)
(* taken: creations and deaths leave no task out and no dead task in, so   *)
(* sched_tick and sched_proc_task, which walk the list, see them all.      *)
(* Not kept when calls race (task.c:38-43, 56-66).                         *)
RingIsLive == Quiet => Orbit(Idle) = LiveTasks

(* ... and kept for as long as they do not, however ticks cut the calls.   *)
RingIsLiveUnraced == ~raced => RingIsLive

(* sched_task_count() is the number of live tasks, idle included           *)
(* (task.h:83); sched_tick decides on it whether to switch at all.         *)
CountExact == ~raced /\ Quiet => taskCount = Cardinality(LiveTasks)

(* No switch loads CR3 with 0 or with a page directory given back to the   *)
(* PMM (task.h:46, switch.asm:36).                                         *)
SwitchLoadsLivePd ==
  [][~raced' /\ current' # current =>
       cr3[current'] \in livePds \cup {KernelPD}]_vars

(* The page directory a dying process gives back is used by no other live  *)
(* task: its threads went first (task.c:345-358).                          *)
FreedPdUnused ==
  [][~raced' => \A p \in livePds \ livePds' :
                  \A s \in LiveTasks : s # current => cr3[s] # p]_vars

(* When a process dies its page directory is given back (docs/04-multitarea*)
(* lines 49-50): between the calls every directory belongs to a live task. *)
(* Not kept: is_thread outlives the thread whose slot it was set in.       *)
PdReleased == Quiet => \A p \in livePds : \E s \in LiveTasks : cr3[s] = p

(* Round-robin: a live task gets the processor again and again, or dies.   *)
RoundRobin == \A s \in Slots : Alive(s) ~> (current = s \/ ~Alive(s))

(* ... and it does if from some moment on no task is created.              *)
FairShare == []~raced /\ <>[][~InsertNew]_vars => RoundRobin

-----------------------------------------------------------------------------
(* The inductive invariant while no calls have raced.  The one task that   *)
(* may be inside a call is the caller, with the processor or without it.   *)

Doing(label) == pc[caller] = label
its          == loc[caller]

(* A task under construction is alive but not yet in the list; a task that *)
(* has unlinked itself is still marked alive.                              *)
Outside == (IF Doing("link") \/ Doing("insert") THEN {its.slot} ELSE {})
             \cup (IF Doing("free") THEN {caller} ELSE {})
Linked  == LiveTasks \ Outside

(* next is one cycle through the linked tasks: it is injective on them and *)
(* no proper non-empty subset is closed under it.                          *)
OneCycle ==
  /\ Idle \in Linked
  /\ \A x \in Linked : next[x] \in Linked
  /\ \A x, y \in Linked : next[x] = next[y] => x = y
  /\ \A S \in SUBSET Linked : S # {} /\ Closed(S) => S = Linked

CountInv ==
  taskCount = Cardinality(Linked) + (IF Doing("free") THEN 1 ELSE 0)

(* Whoever has the processor is in the list, except the caller at the end  *)
(* of its death, who still points into it and keeps the processor from the *)
(* freeing of its directory on.  The shell leaves the prompt only when it  *)
(* is alone.                                                               *)
ControlInv ==
  /\ \A s \in Slots : s # caller => ~Inside(s)
  /\ \A s \in Slots : pc[s] = "stub" => s \notin LiveTasks
  /\ current \notin Linked =>
       /\ current = caller
       /\ pc[caller] \in {"free", "stub"}
       /\ next[caller] \in Linked
  /\ Inside(caller) => caller \in LiveTasks
  /\ Dying(caller) => current = caller
  /\ pc[Idle] \notin Killing \cup {"stub"}
  /\ pc[Idle] # "user" => Linked = {Idle}
  /\ caller # Idle => pc[caller] # "pick"

(* The slot a creation holds is free until SetReady takes it.              *)
CreateInv ==
  /\ pc[caller] \in {"fill", "init", "ready"} => its.slot \in FreeSlots
  /\ pc[caller] \in {"link", "insert"} =>
       its.slot \in LiveTasks \ {Idle, caller}
  /\ Doing("ready") => pc[its.slot] = "user"
  /\ Doing("insert") => next[its.slot] = next[caller]

(* Address spaces.  `Doomed` holds the caller once its own cr3 no longer   *)
(* stands for a directory it holds.                                        *)
Doomed == IF Dying(caller) THEN {caller} ELSE {}
SpaceInv ==
  /\ \A s \in LiveTasks : s = Idle <=> cr3[s] = KernelPD
  /\ \A s \in LiveTasks \ (Doomed \cup {Idle}) : cr3[s] \in livePds
  /\ \A s, u \in LiveTasks \ (Doomed \cup {Idle}) :
       cr3[s] = cr3[u] /\ ~isThread[s] /\ ~isThread[u] => s = u
  /\ pc[caller] \in {"reap", "reapWalk", "reapCut", "freePd"} =>
       ~isThread[caller]

(* The directory of a creation is its own, or the creator's for a thread.  *)
NewSpaceInv ==
  /\ caller = Idle /\ pc[caller] \in Creating => ~its.thread
  /\ Doing("pick") => its.pd \in livePds
  /\ Doing("fill") /\ caller = Idle => its.pd \in livePds
  /\ Doing("fill") /\ caller # Idle =>
       its.pd = IF its.thread THEN cr3[caller] ELSE NoPD
  /\ pc[caller] \in {"pick", "fill", "init", "ready"} /\ ~its.thread =>
       \A s \in LiveTasks : cr3[s] # its.pd
  /\ pc[caller] \in {"init", "ready"} =>
       its.pd \in IF its.thread THEN {cr3[caller]} ELSE livePds
  /\ Doing("ready") => /\ cr3[its.slot] = its.pd
                       /\ its.thread => isThread[its.slot]

(* The reaping loop: V are the tasks it has passed.                        *)
SameSpaceAs(c, s) == cr3[s] = cr3[c] /\ isThread[s]
ReapInv ==
  /\ pc[caller] \in {"reap", "reapWalk", "reapCut"} =>
       /\ its.t \in Linked
       /\ \E V \in SUBSET Linked :
            /\ caller \in V
            /\ \A x \in V : ~SameSpaceAs(caller, x)
            /\ \A x \in V : next[x] \in V \cup {its.t}
  /\ pc[caller] \in {"reapWalk", "reapCut"} =>
       /\ SameSpaceAs(caller, its.t) /\ its.t # caller
       /\ its.nx = next[its.t]
  /\ Doing("reapCut") => its.p \in Linked /\ next[its.p] = its.t
  /\ Doing("cut") => its.p \in Linked /\ next[its.p] = caller
  /\ Doing("freePd") =>
       \A s \in LiveTasks \ {caller} : cr3[s] # cr3[caller]

Inv  == /\ TypeOK /\ OneCycle /\ CountInv /\ ControlInv /\ CreateInv
        /\ SpaceInv /\ NewSpaceInv /\ ReapInv
IInv == ~raced => Inv
=============================================================================

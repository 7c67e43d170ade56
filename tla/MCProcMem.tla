---------------------------- MODULE MCProcMem ----------------------------
(* TLC instances of ProcMem: one page per area, except for the programs,   *)
(* which can be mapped in part; and, in the behaviours of `threads`, two   *)
(* threads to a process, two pages to the stack of one, and a table of its *)
(* own for the TIB.                                                        *)
EXTENDS ProcMem

OnePage == [a \in Areas |-> 1]
OneTable == [a \in Areas |-> 1]

VARIABLES threads, used2, ent2, alive2, cr32, isThread2, stack2, pc2, op2
vars2 == << used2, ent2, alive2, cr32, isThread2, stack2, pc2, op2 >>

ThreadAreas == Areas \cup {<< "thread", 2 >>}
T == INSTANCE ProcMem WITH Frames <- 1 .. 12, Stacks <- 2,
       Size <- [a \in ThreadAreas |-> IF a[1] = "image" THEN 3 ELSE IF a[1] = "thread" THEN 2 ELSE 1],
       PdeOf <- [a \in ThreadAreas |-> IF a[1] = "tib" THEN 2 ELSE 1],
       used <- used2, ent <- ent2, alive <- alive2, cr3 <- cr32, isThread <- isThread2,
       stack <- stack2, pc <- pc2, op <- op2

BothInit == threads \in BOOLEAN /\ Init /\ T!Init
BothNext ==
  /\ UNCHANGED threads
  /\ \/ ~threads /\ Next /\ UNCHANGED vars2
     \/ threads /\ T!Next /\ UNCHANGED vars
BothSpec == BothInit /\ [][BothNext]_<< threads, vars, vars2 >>

(* With threads: a call loses no more than without them, and what a thread *)
(* holds, its kernel stack and the user stack in its process, is in use.   *)
ThreadsLoseNothing == T!CallsLoseNothing /\ [](T!HeldIsUsed)
===========================================================================

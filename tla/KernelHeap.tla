------------------------------ MODULE KernelHeap ------------------------------
(***************************************************************************)
(* kmalloc and kfree of kernel/mem/heap.c: first fit with split in a fixed *)
(* range, and nothing that was split is ever joined.                       *)
(*                                                                         *)
(* A call looks for a block and then splits and marks it.  With Preempt a  *)
(* tick can come in between: system calls run with interrupts on           *)
(* (syscall.c:187).                                                        *)
(***************************************************************************)
EXTENDS Blocks

CONSTANTS
  HEAP_SIZE, Tasks, Preempt

KernelHeapParameters ==
  HEAP_SIZE \in Nat /\ HEAP_SIZE >= Header /\ Preempt \in BOOLEAN

VARIABLES
  kblocks,    \* the list
  found,      \* what a task's kmalloc has found: << block, n >>, or << >>
  kheld       \* history: address and size of what callers were given
kvars == << kblocks, found, kheld >>

KernelInit ==
  /\ kblocks = [a \in {0} |-> Block(HEAP_SIZE - Header, TRUE, None)]
  /\ found = [t \in Tasks |-> << >>] /\ kheld = {}

Alone == Preempt \/ \A u \in Tasks : found[u] = << >>
Find(t, n) ==
  /\ found[t] = << >> /\ Alone
  /\ Fitting(kblocks, n) # {}
  /\ found' = [found EXCEPT ![t] = << First(Fitting(kblocks, n)), n >>]
  /\ UNCHANGED << kblocks, kheld >>
Mark(t) ==
  /\ found[t] # << >>
  /\ kblocks' = Take(kblocks, found[t][1], found[t][2])
  /\ kheld' = kheld \cup {found[t]} /\ found' = [found EXCEPT ![t] = << >>]
kfree(x) ==
  /\ x \in kheld /\ Alone /\ kheld' = kheld \ {x}
  /\ kblocks' = [kblocks EXCEPT ![x[1]].free = TRUE]
  /\ UNCHANGED found

KernelNext == (\E t \in Tasks : Mark(t) \/ \E n \in Sizes : Find(t, n)) \/ (\E x \in kheld : kfree(x))
KernelSpec == KernelInit /\ [][KernelNext]_kvars

-----------------------------------------------------------------------------
KernelTypeOK ==
  /\ DOMAIN kblocks \subseteq Nat
  /\ kblocks \in [DOMAIN kblocks -> [size : Nat, free : BOOLEAN, next : Nat \cup {None}]]
  /\ found \in [Tasks -> {<< >>} \cup (Nat \X Sizes)] /\ kheld \subseteq Nat \X Sizes
(* No two callers hold the same memory, nor that of a header.              *)
KernelHeldApart == Apart(kblocks, kheld)
(* The blocks fill the heap: no unit is lost, however often blocks are     *)
(* split.                                                                  *)
Tiled ==
  /\ 0 \in DOMAIN kblocks
  /\ \A a \in DOMAIN kblocks :
       IF kblocks[a].next = None THEN End(kblocks, a) = HEAP_SIZE ELSE End(kblocks, a) = kblocks[a].next
(* The list behind them.  What one task has found is still free and large  *)
(* enough when it marks it.                                                *)
KernelHeapInv ==
  /\ KernelTypeOK /\ Ordered(kblocks) /\ Backed(kblocks, kheld) /\ Tiled
  /\ \A t \in Tasks : found[t] # << >> => found[t][1] \in Fitting(kblocks, found[t][2])
  /\ \A t, u \in Tasks : found[t] # << >> /\ found[u] # << >> => t = u
(* mem/heap.c: the list is in order and fills the heap, and two callers of *)
(* kmalloc never hold the same memory.                                     *)
KernelHeapKept == KernelHeapInv /\ KernelHeldApart
=============================================================================

------------------------------- MODULE UserHeap -------------------------------
(***************************************************************************)
(* The heap of a process, kernel/mem/uheap.c: first fit with split and     *)
(* coalescing over pages that are mapped when the list has no room.        *)
(***************************************************************************)
EXTENDS Blocks, FiniteSets

CONSTANTS
  Page,       (* units of a page, 512                                       *)
  Limit,      (* USER_HEAP_END, the heap begins at 0                        *)
  Frames      (* pages there are frames for                                 *)

UserHeapParameters == Page \in Nat /\ Page > Header /\ Limit \in Nat /\ Frames \in Nat

VARIABLES
  blocks,     \* the list; heap_head is 0 when there is none
  heap_cur,   \* where it grows
  mapped,     \* the pages below are mapped
  held        \* history: address and size of what the program was given
vars == << blocks, heap_cur, mapped, held >>

Init == blocks = << >> /\ heap_cur = 0 /\ mapped = 0 /\ held = {}

PageAlign(a) == ((a + Page - 1) \div Page) * Page
(* paging_user_map: page by page, until there is no frame.                 *)
MapTo(a) == LET wanted == a \div Page IN IF wanted <= Frames THEN wanted ELSE Frames
(* The first call makes a block without payload in a page of its own.      *)
Started == blocks # << >>
List == IF Started THEN blocks ELSE [a \in {0} |-> Block(0, TRUE, None)]
Cur == IF Started THEN heap_cur ELSE PageAlign(Header)
Last(h) == CHOOSE a \in DOMAIN h : h[a].next = None

AllocFit(n) ==
  /\ Started /\ Fitting(blocks, n) # {}
  /\ LET a == First(Fitting(blocks, n))
     IN  blocks' = Take(blocks, a, n) /\ held' = held \cup {<< a, n >>}
  /\ UNCHANGED << heap_cur, mapped >>
(* Nothing fits: a new block at the end.  The pages of a growth that       *)
(* failed half way stay mapped.                                            *)
Grown(n) == PageAlign(Cur + Header + n)
AllocGrow(n) ==
  /\ Fitting(List, n) = {} /\ (Started \/ Frames > 0)
  /\ LET first == IF Started THEN mapped ELSE 1
         top == IF Cur < first * Page \/ Grown(n) > Limit THEN first ELSE MapTo(Grown(n))
         fits == Grown(n) <= Limit /\ (Cur < first * Page \/ Grown(n) \div Page <= Frames)
     IN  /\ mapped' = top
         /\ IF fits
            THEN /\ blocks' = [a \in DOMAIN List \cup {Cur} |->
                                 IF a = Cur THEN Block(n, FALSE, None)
                                 ELSE IF a = Last(List) THEN [List[a] EXCEPT !.next = Cur] ELSE List[a]]
                 /\ heap_cur' = Grown(n) /\ held' = held \cup {<< Cur, n >>}
            ELSE blocks' = List /\ heap_cur' = Cur /\ UNCHANGED held

(* The block goes together with the free one behind it, and the free one   *)
(* in front with both.                                                     *)
WithNext(h, a) == IF h[a].next # None /\ h[h[a].next].free THEN Absorb(h, a) ELSE h
WithPrev(h, a) ==
  LET P == {b \in DOMAIN h : h[b].next = a}
  IN  IF P # {} /\ h[First(P)].free THEN Absorb(h, First(P)) ELSE h
(* A bug: only the block behind is looked at.                              *)
FreedForward(h, a) == WithNext([h EXCEPT ![a].free = TRUE], a)
Freed(h, a) == WithPrev(WithNext([h EXCEPT ![a].free = TRUE], a), a)
Free(x) ==
  /\ x \in held /\ held' = held \ {x}
  /\ blocks' = Freed(blocks, x[1])
  /\ UNCHANGED << heap_cur, mapped >>
(* exec: uheap_reset, in a new space.                                      *)
Reset == blocks' = << >> /\ heap_cur' = 0 /\ mapped' = 0 /\ held' = {}

Next == (\E n \in Sizes : AllocFit(n) \/ AllocGrow(n)) \/ (\E x \in held : Free(x)) \/ Reset
Spec == Init /\ [][Next]_vars

-----------------------------------------------------------------------------
TypeOK ==
  /\ DOMAIN blocks \subseteq Nat /\ blocks \in [DOMAIN blocks -> [size : Nat, free : BOOLEAN, next : Nat \cup {None}]]
  /\ heap_cur \in Nat /\ mapped \in Nat /\ held \subseteq Nat \X Sizes
(* What the program holds never overlaps, nor a header, however blocks     *)
(* were split and joined.                                                  *)
UserHeldApart == Apart(blocks, held)
(* ... and is memory the program has, as long as there is a frame for each *)
(* page: after a growth that failed half way, the next call takes the      *)
(* first page that is mapped for all of them.                              *)
HeldIsMapped ==
  Limit <= Frames * Page => \A x \in held : x[1] + Header + x[2] <= mapped * Page
(* Freed memory is one block with what is free around it, so that a heap   *)
(* in which nothing is held is one block.                                  *)
NoFreeNeighbours ==
  \A a \in DOMAIN blocks : blocks[a].free /\ blocks[a].next # None => ~blocks[blocks[a].next].free
(* The heap of a process keeps all this, and the list behind it its shape: *)
(* in the order of addresses, each block in use one that was given out and *)
(* is as large as asked for, the last one below heap_cur.                  *)
UserHeapInv ==
  /\ TypeOK /\ UserHeldApart /\ HeldIsMapped /\ NoFreeNeighbours
  /\ Ordered(blocks) /\ Backed(blocks, held)
  /\ \A a \in DOMAIN blocks : End(blocks, a) <= heap_cur
  /\ (DOMAIN blocks # {} => 0 \in DOMAIN blocks)
=============================================================================

-------------------------------- MODULE Blocks --------------------------------
(***************************************************************************)
(* A heap as a list of blocks, as the kernel's (kernel/mem/heap.c) and     *)
(* the programs' (kernel/mem/uheap.c) are: a block is a header and a       *)
(* payload behind it, and is known by the address of its header.  Sizes    *)
(* are in units of the alignment, eight bytes.                             *)
(***************************************************************************)
EXTENDS Integers

CONSTANTS
  Header,     (* units of a header, 2                                       *)
  Sizes,      (* what is asked for, in units                                *)
  None

ASSUME BlocksAssumption == Header \in Nat \ {0} /\ Sizes \subseteq Nat \ {0} /\ None \notin Int

Block(size, free, next) == [size |-> size, free |-> free, next |-> next]
End(h, a) == a + Header + h[a].size
(* The list goes from each block to the next higher one.                   *)
First(S) == CHOOSE a \in S : \A b \in S : a <= b
Fitting(h, n) == {a \in DOMAIN h : h[a].free /\ h[a].size >= n}

(* Block a of list h is given to a caller who asked for n: what is too     *)
(* much becomes a block, when it has room for a header and a unit.         *)
(* A bug: the header of the rest is not counted.                           *)
TakeWide(h, a, n) ==
  LET rest == a + Header + n
  IN  IF h[a].size >= n + Header + 1
      THEN [b \in DOMAIN h \cup {rest} |->
              IF b = a THEN Block(n, FALSE, rest)
              ELSE IF b = rest THEN Block(h[a].size - n, TRUE, h[a].next) ELSE h[b]]
      ELSE [h EXCEPT ![a].free = FALSE]
Take(h, a, n) ==
  LET rest == a + Header + n
  IN  IF h[a].size >= n + Header + 1
      THEN [b \in DOMAIN h \cup {rest} |->
              IF b = a THEN Block(n, FALSE, rest)
              ELSE IF b = rest THEN Block(h[a].size - n - Header, TRUE, h[a].next) ELSE h[b]]
      ELSE [h EXCEPT ![a].free = FALSE]

(* a takes in the block behind it.                                         *)
Absorb(h, a) ==
  [b \in DOMAIN h \ {h[a].next} |->
     IF b = a THEN Block(h[a].size + Header + h[h[a].next].size, h[a].free, h[h[a].next].next) ELSE h[b]]

-----------------------------------------------------------------------------
(* The list is in the order of addresses and no block reaches into the     *)
(* next one.                                                               *)
Ordered(h) ==
  /\ \A a \in DOMAIN h :
       /\ h[a].size >= 0
       /\ h[a].next # None =>
            /\ h[a].next \in DOMAIN h /\ End(h, a) <= h[a].next
            /\ \A b \in DOMAIN h : b <= a \/ b >= h[a].next
       /\ h[a].next = None => \A b \in DOMAIN h : b <= a
(* What callers hold are blocks in use, at least as large as asked for.    *)
Backed(h, held) ==
  /\ \A x \in held : x[1] \in DOMAIN h /\ ~h[x[1]].free /\ h[x[1]].size >= x[2]
  /\ \A x, y \in held : x[1] = y[1] => x = y
(* No two callers hold the same unit, and none holds that of a header.     *)
Apart(h, held) ==
  /\ \A x, y \in held : x # y => x[1] + Header + x[2] <= y[1] \/ y[1] + Header + y[2] <= x[1]
  /\ \A x \in held, b \in DOMAIN h : b <= x[1] \/ b >= x[1] + Header + x[2]
=============================================================================

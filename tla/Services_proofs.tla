--------------------------- MODULE Services_proofs ---------------------------
(***************************************************************************)
(* What serves a program beside its windows.                               *)
(*                                                                         *)
(* The two heaps, for every size of a header, a page and the heap, every   *)
(* limit, number of frames and of tasks, and every set of sizes asked for. *)
(* First what Take and Absorb do to a list of blocks: they keep it in the  *)
(* order of addresses, and keep the blocks callers hold.  Then the heap of *)
(* a process: the list stays in order under splitting, growing and         *)
(* joining, what the program holds is apart, and no two free blocks follow *)
(* each other.  Then the heap of the kernel, when no tick comes between    *)
(* the two steps of kmalloc: its list stays in order, fills the heap, and  *)
(* callers hold memory apart.                                              *)
(*                                                                         *)
(* Then the file dialogs, for every directory, filter, key and click, and  *)
(* every size of the list, the name and the program's buffer.              *)
(*                                                                         *)
(* Last the keyboard and the mouse, for every keyboard, every button and   *)
(* every size of the rings: what a ring holds and where, what is left of a *)
(* key's bytes and of a packet, and what who reads the events hears.       *)
(***************************************************************************)
EXTENDS UserHeap, KernelHeap, FileDialog, Input, FiniteSetTheorems, WellFoundedInduction, TLAPS

(* A list of blocks, each with its fields.                                 *)
Listed(h) ==
  /\ DOMAIN h \subseteq Nat
  /\ h \in [DOMAIN h -> [size : Nat, free : BOOLEAN, next : Nat \cup {None}]]
Asked(given) == given \subseteq Nat \X Nat

LEMMA NoneIsNoAddress == None \notin Nat
BY BlocksAssumption

LEMMA BlockTyped ==
  ASSUME NEW s \in Nat, NEW f \in BOOLEAN, NEW n \in Nat \cup {None}
  PROVE  /\ Block(s, f, n) \in [size : Nat, free : BOOLEAN, next : Nat \cup {None}]
         /\ Block(s, f, n).size = s /\ Block(s, f, n).free = f /\ Block(s, f, n).next = n
BY DEF Block

(* A block ends before any block behind it.                                *)
LEMMA EndsBefore ==
  ASSUME NEW h, Listed(h), Ordered(h), NEW a \in DOMAIN h, NEW b \in DOMAIN h, a < b
  PROVE  End(h, a) <= b
<1>1. a \in Nat /\ b \in Nat /\ h[a].size \in Nat /\ h[a].next \in Nat \cup {None}
  BY DEF Listed
<1>2. h[a].next # None
  BY <1>1 DEF Ordered
<1>3. End(h, a) <= h[a].next /\ b >= h[a].next
  BY <1>1, <1>2 DEF Ordered
<1>4. End(h, a) \in Nat /\ h[a].next \in Nat
  BY <1>1, <1>2, BlocksAssumption DEF End
<1> QED BY <1>1, <1>3, <1>4

(* ... so that what callers hold of different blocks is apart.             *)
LEMMA BackedIsApart ==
  ASSUME NEW h, Listed(h), Ordered(h), NEW given, Asked(given), Backed(h, given)
  PROVE  Apart(h, given)
<1>1. ASSUME NEW x \in given
      PROVE  /\ x[1] \in DOMAIN h /\ x[1] \in Nat /\ x[2] \in Nat
             /\ x[1] + Header + x[2] <= End(h, x[1]) /\ End(h, x[1]) \in Nat
  <2>1. x[1] \in DOMAIN h /\ h[x[1]].size >= x[2]
    BY DEF Backed
  <2>2. x[1] \in Nat /\ x[2] \in Nat /\ h[x[1]].size \in Nat
    BY <2>1 DEF Listed, Asked
  <2> QED BY <2>1, <2>2, BlocksAssumption DEF End
<1>2. ASSUME NEW x \in given, NEW b \in DOMAIN h, x[1] < b
      PROVE  x[1] + Header + x[2] <= b
  <2>1. End(h, x[1]) <= b
    BY <1>1, <1>2, EndsBefore
  <2> QED BY <1>1, <2>1, BlocksAssumption DEF Listed
<1>3. ASSUME NEW x \in given, NEW y \in given, x # y
      PROVE  x[1] + Header + x[2] <= y[1] \/ y[1] + Header + y[2] <= x[1]
  <2>1. x[1] # y[1]
    BY <1>3 DEF Backed
  <2> QED BY <2>1, <1>1, <1>2
<1>4. ASSUME NEW x \in given, NEW b \in DOMAIN h
      PROVE  b <= x[1] \/ b >= x[1] + Header + x[2]
  <2>1. b \in Nat
    BY DEF Listed
  <2> QED BY <2>1, <1>1, <1>2, BlocksAssumption
<1> QED BY <1>3, <1>4 DEF Apart

(* First fit finds a block whenever one fits.                              *)
LEMMA FirstIsLeast ==
  ASSUME NEW S, S \subseteq Nat, S # {}
  PROVE  First(S) \in S /\ \A b \in S : First(S) <= b
<1>1. PICK a \in S : \A b \in S : ~(<< b, a >> \in OpToRel(<, Nat))
  BY NatLessThanWellFounded, WFMin
<1>2. \A b \in S : ~(b < a)
  BY <1>1 DEF OpToRel
<1>3. \A b \in S : a <= b
  BY <1>2
<1> QED BY <1>3 DEF First

-----------------------------------------------------------------------------
(* TAKE                                                                    *)

(* Where the rest of a block that is split begins.                         *)
Rest(a, n) == a + Header + n
Splits(h, a, n) == h[a].size >= n + Header + 1

LEMMA FittingBlock ==
  ASSUME NEW h, Listed(h), NEW n \in Nat, NEW a \in Fitting(h, n)
  PROVE  /\ a \in DOMAIN h /\ a \in Nat /\ h[a].free /\ h[a].size >= n
         /\ h[a].size \in Nat /\ h[a].next \in Nat \cup {None}
         /\ End(h, a) = a + Header + h[a].size /\ End(h, a) \in Nat
BY BlocksAssumption DEF Listed, Fitting, End

(* A block that is taken whole changes its mark only.                      *)
TakenBlock(h, a, g) ==
  /\ DOMAIN g = DOMAIN h
  /\ \A b \in DOMAIN h : g[b].size = h[b].size /\ g[b].next = h[b].next /\ g[b].free = (h[b].free /\ b # a)

LEMMA TakenWhole ==
  ASSUME NEW h, Listed(h), NEW n \in Nat, NEW a \in Fitting(h, n), ~Splits(h, a, n)
  PROVE  TakenBlock(h, a, Take(h, a, n)) /\ Listed(Take(h, a, n))
<1> SUFFICES ASSUME NEW g, g = Take(h, a, n) PROVE TakenBlock(h, a, g) /\ Listed(g)
  OBVIOUS
<1>1. g = [h EXCEPT ![a].free = FALSE]
  BY DEF Take, Splits
<1>2. a \in DOMAIN h
  BY FittingBlock
<1>3. DOMAIN g = DOMAIN h
  BY <1>1
<1>4. ASSUME NEW b \in DOMAIN h
      PROVE  /\ g[b].size = h[b].size /\ g[b].next = h[b].next /\ g[b].free = (h[b].free /\ b # a)
             /\ g[b] \in [size : Nat, free : BOOLEAN, next : Nat \cup {None}]
  <2>1. h[b] \in [size : Nat, free : BOOLEAN, next : Nat \cup {None}]
    BY DEF Listed
  <2>2. CASE b = a
    <3>1. g[b] = [h[b] EXCEPT !.free = FALSE]
      BY <1>1, <2>2
    <3> QED BY <2>1, <2>2, <3>1
  <2>3. CASE b # a
    <3>1. g[b] = h[b]
      BY <1>1, <2>3
    <3> QED BY <2>1, <2>3, <3>1
  <2> QED BY <2>2, <2>3
<1>5. g \in [DOMAIN g -> [size : Nat, free : BOOLEAN, next : Nat \cup {None}]]
  <2>1. g = [b \in DOMAIN g |-> g[b]]
    BY <1>1
  <2> QED BY <1>3, <1>4, <2>1
<1> QED BY <1>3, <1>4, <1>5 DEF Listed, TakenBlock

(* One that is split is followed by a free block, the rest.                *)
LEMMA TakenSplit ==
  ASSUME NEW h, Listed(h), NEW n \in Nat, NEW a \in Fitting(h, n), Splits(h, a, n)
  PROVE  /\ Rest(a, n) \in Nat /\ Rest(a, n) > a
         /\ Take(h, a, n) =
              [b \in DOMAIN h \cup {Rest(a, n)} |->
                 IF b = a THEN Block(n, FALSE, Rest(a, n))
                 ELSE IF b = Rest(a, n) THEN Block(h[a].size - n - Header, TRUE, h[a].next) ELSE h[b]]
         /\ h[a].size - n - Header \in Nat
         /\ Rest(a, n) + Header + (h[a].size - n - Header) = End(h, a)
         /\ Listed(Take(h, a, n))
<1>1. a \in DOMAIN h /\ a \in Nat /\ h[a].size \in Nat /\ h[a].next \in Nat \cup {None}
  BY FittingBlock
<1>2. Rest(a, n) \in Nat /\ Rest(a, n) > a
  BY <1>1, BlocksAssumption DEF Rest
<1>3. h[a].size - n - Header \in Nat
  BY <1>1, BlocksAssumption DEF Splits
<1>4. Rest(a, n) + Header + (h[a].size - n - Header) = End(h, a)
  BY <1>1, BlocksAssumption DEF Rest, End
<1>5. Take(h, a, n) =
              [b \in DOMAIN h \cup {Rest(a, n)} |->
                 IF b = a THEN Block(n, FALSE, Rest(a, n))
                 ELSE IF b = Rest(a, n) THEN Block(h[a].size - n - Header, TRUE, h[a].next) ELSE h[b]]
  BY DEF Take, Splits, Rest
<1>6. Listed(Take(h, a, n))
  <2>1. Block(n, FALSE, Rest(a, n)) \in [size : Nat, free : BOOLEAN, next : Nat \cup {None}]
    BY <1>2 DEF Block
  <2>2. Block(h[a].size - n - Header, TRUE, h[a].next) \in [size : Nat, free : BOOLEAN, next : Nat \cup {None}]
    BY <1>1, <1>3 DEF Block
  <2> QED BY <1>2, <1>5, <2>1, <2>2 DEF Listed
<1> QED BY <1>2, <1>3, <1>4, <1>5, <1>6

(* What a split makes of a list: g has a new block behind a.               *)
SplitInto(h, a, n, g) ==
  /\ DOMAIN g = DOMAIN h \cup {Rest(a, n)} /\ Rest(a, n) \notin DOMAIN h
  /\ Rest(a, n) \in Nat /\ a < Rest(a, n) /\ Rest(a, n) <= End(h, a)
  /\ h[a].size - n - Header \in Nat
  /\ g[a].size = n /\ ~g[a].free /\ g[a].next = Rest(a, n)
  /\ g[Rest(a, n)].size = h[a].size - n - Header /\ g[Rest(a, n)].free
  /\ g[Rest(a, n)].next = h[a].next
  /\ \A b \in DOMAIN h : b # a => g[b] = h[b]
  /\ End(g, a) = Rest(a, n) /\ End(g, Rest(a, n)) = End(h, a)
  /\ \A b \in DOMAIN h : b <= a \/ b >= End(h, a)

LEMMA TakeSplits ==
  ASSUME NEW h, Listed(h), Ordered(h), NEW n \in Nat, NEW a \in Fitting(h, n), Splits(h, a, n)
  PROVE  SplitInto(h, a, n, Take(h, a, n))
<1> SUFFICES ASSUME NEW g, g = Take(h, a, n) PROVE SplitInto(h, a, n, g)
  OBVIOUS
<1> DEFINE r == Rest(a, n)
<1>1. a \in DOMAIN h /\ a \in Nat /\ h[a].next \in Nat \cup {None} /\ h[a].size \in Nat
  BY FittingBlock
<1>2. /\ r \in Nat /\ r > a /\ h[a].size - n - Header \in Nat
      /\ r + Header + (h[a].size - n - Header) = End(h, a)
  BY TakenSplit
<1>0. g = [b \in DOMAIN h \cup {r} |->
             IF b = a THEN Block(n, FALSE, r)
             ELSE IF b = r THEN Block(h[a].size - n - Header, TRUE, h[a].next) ELSE h[b]]
  BY DEF Take, Splits, Rest
<1>3. \A b \in DOMAIN h : b <= a \/ b >= End(h, a)
  <2> TAKE b \in DOMAIN h
  <2>1. b \in Nat
    BY DEF Listed
  <2>2. CASE a < b
    BY <1>1, <2>2, EndsBefore, FittingBlock
  <2> QED BY <1>1, <2>1, <2>2
<1>4. r < End(h, a)
  BY <1>1, <1>2, BlocksAssumption DEF Splits, Rest, End
<1>5. r \notin DOMAIN h
  <2> SUFFICES ASSUME r \in DOMAIN h PROVE FALSE
    OBVIOUS
  <2>1. r <= a \/ r >= End(h, a)
    BY <1>3
  <2> QED BY <1>1, <1>2, <1>4, <2>1, FittingBlock
<1>6. g[a] = Block(n, FALSE, r) /\ g[r] = Block(h[a].size - n - Header, TRUE, h[a].next)
  BY <1>1, <1>0, <1>5
<1>7. \A b \in DOMAIN h : b # a => g[b] = h[b]
  BY <1>0, <1>5
<1>8. /\ g[a].size = n /\ ~g[a].free /\ g[a].next = r
      /\ g[r].size = h[a].size - n - Header /\ g[r].free /\ g[r].next = h[a].next
  BY <1>6 DEF Block
<1>9. End(g, a) = r /\ End(g, r) = End(h, a)
  BY <1>2, <1>8 DEF End, Rest
<1>10. DOMAIN g = DOMAIN h \cup {r}
  BY <1>0
<1> QED BY <1>2, <1>3, <1>4, <1>5, <1>7, <1>8, <1>9, <1>10, FittingBlock DEF SplitInto

LEMMA TakeListed ==
  ASSUME NEW h, Listed(h), NEW n \in Nat, NEW a \in Fitting(h, n)
  PROVE  Listed(Take(h, a, n))
BY TakenWhole, TakenSplit

(* Order is a matter of sizes and successors.                              *)
LEMMA SameShapeOrdered ==
  ASSUME NEW h, Listed(h), Ordered(h), NEW g, DOMAIN g = DOMAIN h,
         \A b \in DOMAIN h : g[b].size = h[b].size /\ g[b].next = h[b].next
  PROVE  Ordered(g)
<1>1. \A b \in DOMAIN h : End(g, b) = End(h, b)
  BY DEF End
<1> QED BY <1>1 DEF Ordered

LEMMA TakeOrdered ==
  ASSUME NEW h, Listed(h), Ordered(h), NEW n \in Nat, NEW a \in Fitting(h, n)
  PROVE  Ordered(Take(h, a, n))
<1> DEFINE r == Rest(a, n)
<1>1. CASE ~Splits(h, a, n)
  <2>1. TakenBlock(h, a, Take(h, a, n))
    BY <1>1, TakenWhole
  <2> QED BY <2>1, SameShapeOrdered DEF TakenBlock
<1>2. CASE Splits(h, a, n)
  <2> SUFFICES ASSUME NEW g, g = Take(h, a, n) PROVE Ordered(g)
    OBVIOUS
  <2>0. SplitInto(h, a, n, g)
    BY <1>2, TakeSplits
  <2>1. /\ DOMAIN g = DOMAIN h \cup {r} /\ g[a].size = n /\ g[a].next = r
        /\ g[r].size = h[a].size - n - Header /\ g[r].next = h[a].next
        /\ \A b \in DOMAIN h : b # a => g[b] = h[b]
        /\ End(g, a) = r /\ End(g, r) = End(h, a)
        /\ \A b \in DOMAIN h : b <= a \/ b >= End(h, a)
        /\ r \notin DOMAIN h
    BY <2>0 DEF SplitInto
  <2>2. /\ a \in DOMAIN h /\ a \in Nat /\ End(h, a) \in Nat
        /\ r \in Nat /\ r > a /\ r <= End(h, a) /\ h[a].size - n - Header \in Nat
    <3>1. a \in DOMAIN h /\ a \in Nat /\ End(h, a) \in Nat
      BY FittingBlock
    <3>2. r \in Nat /\ a < r /\ r <= End(h, a) /\ h[a].size - n - Header \in Nat
      BY <2>0 DEF SplitInto
    <3> QED BY <3>1, <3>2
  <2>3. DOMAIN h \subseteq Nat
    BY DEF Listed
  <2> HIDE DEF r
  <2>4. ASSUME NEW c \in DOMAIN g
        PROVE  /\ g[c].size >= 0
               /\ g[c].next # None =>
                    /\ g[c].next \in DOMAIN g /\ End(g, c) <= g[c].next
                    /\ \A b \in DOMAIN g : b <= c \/ b >= g[c].next
               /\ g[c].next = None => \A b \in DOMAIN g : b <= c
    <3>1. CASE c = a
      <4>1. \A b \in DOMAIN g : b <= a \/ b >= r
        BY <2>1, <2>2, <2>3
      <4>2. r # None
        BY <2>2, BlocksAssumption
      <4> QED BY <2>1, <2>2, <3>1, <4>1, <4>2
    <3>2. CASE c = r
      <4>1. CASE h[a].next = None
        <5>1. \A b \in DOMAIN h : b <= a
          BY <2>2, <4>1 DEF Ordered
        <5> QED BY <2>1, <2>2, <2>3, <3>2, <4>1, <5>1
      <4>2. CASE h[a].next # None
        <5>1. /\ h[a].next \in DOMAIN h /\ End(h, a) <= h[a].next
              /\ \A b \in DOMAIN h : b <= a \/ b >= h[a].next
          BY <2>2, <4>2 DEF Ordered
        <5> QED BY <2>1, <2>2, <2>3, <3>2, <4>2, <5>1
      <4> QED BY <4>1, <4>2
    <3>3. CASE c \in DOMAIN h /\ c # a
      <4>1. g[c] = h[c] /\ End(g, c) = End(h, c) /\ c \in Nat
        BY <2>1, <2>3, <3>3 DEF End
      <4>2. h[c].size >= 0
        BY <3>3 DEF Ordered
      <4>3. CASE h[c].next = None
        <5>1. \A b \in DOMAIN h : b <= c
          BY <3>3, <4>3 DEF Ordered
        <5>2. a <= c /\ c # a
          BY <2>2, <3>3, <5>1
        <5>3. c >= End(h, a)
          BY <2>1, <2>2, <3>3, <4>1, <5>2
        <5> QED BY <2>1, <2>2, <4>1, <4>2, <4>3, <5>1, <5>3
      <4>4. CASE h[c].next # None
        <5>1. /\ h[c].next \in DOMAIN h /\ End(h, c) <= h[c].next
              /\ \A b \in DOMAIN h : b <= c \/ b >= h[c].next
          BY <3>3, <4>4 DEF Ordered
        <5>2. r <= c \/ r >= h[c].next
          <6>1. CASE c < a
            <7>1. a >= h[c].next
              BY <2>2, <4>1, <5>1, <6>1
            <7> QED BY <2>2, <2>3, <5>1, <7>1
          <6>2. CASE c > a
            <7>1. c >= End(h, a)
              BY <2>1, <2>2, <3>3, <4>1, <6>2
            <7> QED BY <2>2, <4>1, <7>1
          <6> QED BY <2>2, <3>3, <4>1, <6>1, <6>2
        <5> QED BY <2>1, <4>1, <4>2, <4>4, <5>1, <5>2
      <4> QED BY <4>3, <4>4
    <3> QED BY <2>1, <3>1, <3>2, <3>3
  <2> QED BY <2>4 DEF Ordered
<1> QED BY <1>1, <1>2

(* The caller's block is in use and large enough, and nobody had it.       *)
LEMMA TakeBacked ==
  ASSUME NEW h, Listed(h), Ordered(h), NEW n \in Nat, NEW a \in Fitting(h, n),
         NEW given, Asked(given), Backed(h, given)
  PROVE  Backed(Take(h, a, n), given \cup {<< a, n >>})
<1> SUFFICES ASSUME NEW g, g = Take(h, a, n) PROVE Backed(g, given \cup {<< a, n >>})
  OBVIOUS
<1>1. a \in DOMAIN h /\ h[a].free /\ h[a].size >= n /\ h[a].size \in Nat
  BY FittingBlock
<1>2. a \in DOMAIN g /\ ~g[a].free /\ g[a].size >= n
  <2>1. CASE Splits(h, a, n)
    <3>1. SplitInto(h, a, n, g)
      BY <2>1, TakeSplits
    <3> QED BY <1>1, <3>1 DEF SplitInto
  <2>2. CASE ~Splits(h, a, n)
    <3>1. TakenBlock(h, a, g)
      BY <2>2, TakenWhole
    <3> QED BY <1>1, <3>1 DEF TakenBlock
  <2> QED BY <2>1, <2>2
<1>3. \A b \in DOMAIN h \ {a} : b \in DOMAIN g /\ g[b] = h[b]
  <2>1. CASE Splits(h, a, n)
    <3>1. SplitInto(h, a, n, g)
      BY <2>1, TakeSplits
    <3> QED BY <3>1 DEF SplitInto
  <2>2. CASE ~Splits(h, a, n)
    BY <2>2 DEF Take, Splits
  <2> QED BY <2>1, <2>2
<1>4. \A x \in given : x[1] \in DOMAIN h \ {a} /\ ~h[x[1]].free /\ h[x[1]].size >= x[2]
  BY <1>1 DEF Backed
<1>5. \A x \in given \cup {<< a, n >>} : x[1] \in DOMAIN g /\ ~g[x[1]].free /\ g[x[1]].size >= x[2]
  BY <1>2, <1>3, <1>4
<1>6. \A x, y \in given \cup {<< a, n >>} : x[1] = y[1] => x = y
  BY <1>4 DEF Backed
<1> QED BY <1>5, <1>6 DEF Backed

(* A caller gives a block back: its mark changes and nothing else.         *)
Given(h, given, x, g) ==
  /\ DOMAIN g = DOMAIN h /\ Listed(g) /\ Ordered(g) /\ Backed(g, given \ {x})
  /\ x[1] \in DOMAIN h /\ g[x[1]].free
  /\ \A b \in DOMAIN h : g[b].size = h[b].size /\ g[b].next = h[b].next
  /\ \A b \in DOMAIN h \ {x[1]} : g[b] = h[b]

LEMMA GivenBack ==
  ASSUME NEW h, Listed(h), Ordered(h), NEW given, Asked(given), Backed(h, given), NEW x \in given
  PROVE  Given(h, given, x, [h EXCEPT ![x[1]].free = TRUE])
<1> SUFFICES ASSUME NEW g, g = [h EXCEPT ![x[1]].free = TRUE] PROVE Given(h, given, x, g)
  OBVIOUS
<1> DEFINE a == x[1]
<1>1. a \in DOMAIN h
  BY DEF Backed
<1>2. DOMAIN g = DOMAIN h /\ g[a] = [h[a] EXCEPT !.free = TRUE] /\ \A b \in DOMAIN h \ {a} : g[b] = h[b]
  BY <1>1
<1> HIDE DEF a
<1>3. ASSUME NEW b \in DOMAIN h
      PROVE  /\ g[b].size = h[b].size /\ g[b].next = h[b].next
             /\ g[b] \in [size : Nat, free : BOOLEAN, next : Nat \cup {None}]
  <2>1. h[b] \in [size : Nat, free : BOOLEAN, next : Nat \cup {None}]
    BY DEF Listed
  <2> QED BY <1>2, <2>1
<1>4. g[a].free
  <2>1. h[a] \in [size : Nat, free : BOOLEAN, next : Nat \cup {None}]
    BY <1>1 DEF Listed
  <2> QED BY <1>2, <2>1
<1>5. Listed(g)
  <2>1. g = [b \in DOMAIN g |-> g[b]]
    OBVIOUS
  <2> QED BY <1>2, <1>3, <2>1 DEF Listed
<1>6. Ordered(g)
  BY <1>2, <1>3, SameShapeOrdered
<1>7. Backed(g, given \ {x})
  <2>1. \A y \in given \ {x} : y[1] \in DOMAIN h \ {a}
    BY DEF Backed, a
  <2> QED BY <1>2, <2>1 DEF Backed
<1> QED BY <1>1, <1>2, <1>3, <1>4, <1>5, <1>6, <1>7 DEF a, Given

-----------------------------------------------------------------------------
(* ABSORB                                                                  *)

(* What joining a with the block behind it makes of a list.                *)
Joined(h, a, g) ==
  LET m == h[a].next
  IN  /\ m \in DOMAIN h /\ a < m /\ DOMAIN g = DOMAIN h \ {m}
      /\ g[a].size = h[a].size + Header + h[m].size /\ g[a].free = h[a].free /\ g[a].next = h[m].next
      /\ \A b \in DOMAIN h \ {a, m} : g[b] = h[b]
      /\ \A b \in DOMAIN h \ {a} : h[b].next # m
      /\ End(g, a) <= End(h, m)

LEMMA NextIsBehind ==
  ASSUME NEW h, Listed(h), Ordered(h), NEW a \in DOMAIN h, h[a].next # None
  PROVE  h[a].next \in DOMAIN h /\ h[a].next \in Nat /\ a \in Nat /\ a < h[a].next
<1>1. h[a].next \in DOMAIN h /\ End(h, a) <= h[a].next
  BY DEF Ordered
<1>2. a \in Nat /\ h[a].size \in Nat /\ h[a].next \in Nat
  BY <1>1 DEF Listed
<1> QED BY <1>1, <1>2, BlocksAssumption DEF End

(* A block is the successor of one block only.                             *)
LEMMA OneBefore ==
  ASSUME NEW h, Listed(h), Ordered(h), NEW a \in DOMAIN h, NEW b \in DOMAIN h,
         h[a].next # None, h[b].next = h[a].next
  PROVE  a = b
<1>1. a \in Nat /\ b \in Nat /\ a < h[a].next /\ b < h[a].next /\ h[a].next \in Nat
  BY NextIsBehind
<1>2. (b <= a \/ b >= h[a].next) /\ (a <= b \/ a >= h[b].next)
  BY DEF Ordered
<1> QED BY <1>1, <1>2

LEMMA AbsorbJoins ==
  ASSUME NEW h, Listed(h), Ordered(h), NEW a \in DOMAIN h, h[a].next # None
  PROVE  Joined(h, a, Absorb(h, a)) /\ Listed(Absorb(h, a))
<1> SUFFICES ASSUME NEW g, g = Absorb(h, a) PROVE Joined(h, a, g) /\ Listed(g)
  OBVIOUS
<1> DEFINE m == h[a].next
<1>1. m \in DOMAIN h /\ m \in Nat /\ a \in Nat /\ a < m
  BY NextIsBehind
<1>2. /\ h[a].size \in Nat /\ h[m].size \in Nat /\ h[a].free \in BOOLEAN /\ h[m].next \in Nat \cup {None}
  BY <1>1 DEF Listed
<1>3. g = [b \in DOMAIN h \ {m} |->
             IF b = a THEN Block(h[a].size + Header + h[m].size, h[a].free, h[m].next) ELSE h[b]]
  BY DEF Absorb
<1>4. End(h, a) <= m /\ End(h, a) = a + Header + h[a].size /\ End(h, m) = m + Header + h[m].size
  BY DEF Ordered, End
<1>5. \A b \in DOMAIN h \ {a} : h[b].next # m
  BY OneBefore
<1> HIDE DEF m
<1>6. DOMAIN g = DOMAIN h \ {m} /\ a \in DOMAIN g
  BY <1>1, <1>3
<1>7. g[a] = Block(h[a].size + Header + h[m].size, h[a].free, h[m].next)
  BY <1>3, <1>6
<1>8. \A b \in DOMAIN h \ {a, m} : g[b] = h[b]
  BY <1>3
<1>9. g[a].size = h[a].size + Header + h[m].size /\ g[a].free = h[a].free /\ g[a].next = h[m].next
  BY <1>7 DEF Block
<1>10. h[a].size + Header + h[m].size \in Nat
  BY <1>2, BlocksAssumption
<1>11. End(g, a) <= End(h, m)
  <2>1. End(g, a) = a + Header + (h[a].size + Header + h[m].size)
    BY <1>9 DEF End
  <2> QED BY <1>1, <1>2, <1>4, <2>1, BlocksAssumption
<1>12. Listed(g)
  <2>1. g[a] \in [size : Nat, free : BOOLEAN, next : Nat \cup {None}]
    <3>1. \A n \in Nat, f \in BOOLEAN, k \in Nat \cup {None} :
            Block(n, f, k) \in [size : Nat, free : BOOLEAN, next : Nat \cup {None}]
      BY BlockTyped
    <3> DEFINE s == h[a].size + Header + h[m].size  f == h[a].free  k == h[m].next
    <3>2. s \in Nat /\ f \in BOOLEAN /\ k \in Nat \cup {None} /\ g[a] = Block(s, f, k)
      BY <1>2, <1>7, <1>10
    <3> HIDE DEF s, f, k
    <3>3. Block(s, f, k) \in [size : Nat, free : BOOLEAN, next : Nat \cup {None}]
      BY <3>1, <3>2, Zenon
    <3> QED BY <3>2, <3>3
  <2>2. \A b \in DOMAIN g : g[b] \in [size : Nat, free : BOOLEAN, next : Nat \cup {None}]
    BY <1>6, <1>8, <2>1 DEF Listed
  <2>3. g = [b \in DOMAIN g |-> g[b]]
    BY <1>3
  <2> QED BY <1>6, <2>2, <2>3 DEF Listed
<1> QED BY <1>1, <1>5, <1>6, <1>8, <1>9, <1>11, <1>12 DEF Joined, m

LEMMA AbsorbOrdered ==
  ASSUME NEW h, Listed(h), Ordered(h), NEW a \in DOMAIN h, h[a].next # None
  PROVE  Ordered(Absorb(h, a))
<1> SUFFICES ASSUME NEW g, g = Absorb(h, a) PROVE Ordered(g)
  OBVIOUS
<1> DEFINE m == h[a].next
<1>1. Joined(h, a, g)
  BY AbsorbJoins
<1>2. /\ m \in DOMAIN h /\ a < m /\ DOMAIN g = DOMAIN h \ {m}
      /\ g[a].size = h[a].size + Header + h[m].size /\ g[a].next = h[m].next
      /\ \A b \in DOMAIN h \ {a, m} : g[b] = h[b]
      /\ \A b \in DOMAIN h \ {a} : h[b].next # m
      /\ End(g, a) <= End(h, m)
  BY <1>1 DEF Joined
<1>3. DOMAIN h \subseteq Nat /\ a \in Nat /\ m \in Nat /\ m # None
  BY <1>2 DEF Listed
<1>4. \A b \in DOMAIN h : b <= a \/ b >= m
  BY DEF Ordered
<1>5. h[a].size \in Nat /\ h[m].size \in Nat /\ h[m].next \in Nat \cup {None}
  BY <1>2 DEF Listed
<1>6. End(g, a) \in Nat /\ End(h, m) \in Nat
  BY <1>2, <1>3, <1>5, BlocksAssumption DEF End
<1>7. /\ h[m].next # None => /\ h[m].next \in DOMAIN h /\ End(h, m) <= h[m].next
                             /\ \A b \in DOMAIN h : b <= m \/ b >= h[m].next
      /\ h[m].next = None => \A b \in DOMAIN h : b <= m
  BY <1>2 DEF Ordered
<1>8. h[m].next # None => m < h[m].next
  BY <1>2, NextIsBehind
<1> HIDE DEF m
<1>9. /\ g[a].size >= 0
      /\ g[a].next # None =>
           /\ g[a].next \in DOMAIN g /\ End(g, a) <= g[a].next
           /\ \A b \in DOMAIN g : b <= a \/ b >= g[a].next
      /\ g[a].next = None => \A b \in DOMAIN g : b <= a
  <2>1. g[a].size >= 0
    BY <1>2, <1>5, BlocksAssumption
  <2>2. CASE h[m].next = None
    <3>1. \A b \in DOMAIN g : b <= a
      BY <1>2, <1>3, <1>4, <1>7, <2>2
    <3> QED BY <1>2, <2>1, <2>2, <3>1
  <2>3. CASE h[m].next # None
    <3>1. h[m].next \in DOMAIN g
      BY <1>2, <1>3, <1>7, <1>8, <2>3
    <3>2. End(g, a) <= h[m].next
      BY <1>2, <1>3, <1>5, <1>6, <1>7, <2>3
    <3>3. \A b \in DOMAIN g : b <= a \/ b >= h[m].next
      BY <1>2, <1>3, <1>4, <1>7, <2>3
    <3> QED BY <1>2, <2>1, <2>3, <3>1, <3>2, <3>3
  <2> QED BY <2>2, <2>3
<1>10. ASSUME NEW c \in DOMAIN g \ {a}
       PROVE /\ g[c].size >= 0
             /\ g[c].next # None =>
                  /\ g[c].next \in DOMAIN g /\ End(g, c) <= g[c].next
                  /\ \A b \in DOMAIN g : b <= c \/ b >= g[c].next
             /\ g[c].next = None => \A b \in DOMAIN g : b <= c
  <2>1. c \in DOMAIN h /\ g[c] = h[c] /\ End(g, c) = End(h, c) /\ h[c].next # m
    BY <1>2 DEF End
  <2> QED BY <1>2, <2>1 DEF Ordered
<1> QED BY <1>9, <1>10 DEF Ordered

(* Only a free block is taken in, so callers lose nothing.                 *)
LEMMA AbsorbBacked ==
  ASSUME NEW h, Listed(h), Ordered(h), NEW a \in DOMAIN h, h[a].next # None, h[h[a].next].free,
         NEW given, Asked(given), Backed(h, given)
  PROVE  Backed(Absorb(h, a), given)
<1> SUFFICES ASSUME NEW g, g = Absorb(h, a) PROVE Backed(g, given)
  OBVIOUS
<1> DEFINE m == h[a].next
<1>1. Joined(h, a, g)
  BY AbsorbJoins
<1>2. /\ m \in DOMAIN h /\ a < m /\ DOMAIN g = DOMAIN h \ {m}
      /\ g[a].size = h[a].size + Header + h[m].size /\ g[a].free = h[a].free
      /\ \A b \in DOMAIN h \ {a, m} : g[b] = h[b]
  BY <1>1 DEF Joined
<1>3. h[a].size \in Nat /\ h[m].size \in Nat
  BY <1>2 DEF Listed
<1>4. ASSUME NEW x \in given PROVE x[1] \in DOMAIN g /\ ~g[x[1]].free /\ g[x[1]].size >= x[2]
  <2>1. x[1] \in DOMAIN h /\ ~h[x[1]].free /\ h[x[1]].size >= x[2] /\ x[2] \in Nat
    BY DEF Backed, Asked
  <2>2. x[1] # m
    BY <2>1
  <2>3. CASE x[1] = a
    <3>1. h[a].size + Header + h[m].size >= x[2]
      BY <1>3, <2>1, <2>3, BlocksAssumption
    <3> QED BY <1>2, <2>1, <2>2, <2>3, <3>1
  <2>4. CASE x[1] # a
    BY <1>2, <2>1, <2>2, <2>4
  <2> QED BY <2>3, <2>4
<1> QED BY <1>4 DEF Backed

-----------------------------------------------------------------------------
(* THE HEAP OF A PROCESS                                                   *)

(* No block is free together with the one behind it.                       *)
Joint(h) == \A a \in DOMAIN h : h[a].free /\ h[a].next # None => ~h[h[a].next].free
(* A list has blocks, one of them the last, and they end before c.         *)
Whole(h, c) ==
  /\ Listed(h) /\ Ordered(h) /\ 0 \in DOMAIN h
  /\ \E a \in DOMAIN h : h[a].next = None
  /\ \A a \in DOMAIN h : End(h, a) <= c

(* What the steps preserve.                                                *)
IInv ==
  /\ TypeOK /\ Backed(blocks, held) /\ Joint(blocks)
  /\ blocks # << >> => Whole(blocks, heap_cur)

LEMMA AlignedUp ==
  ASSUME UserHeapParameters, NEW a \in Nat
  PROVE  PageAlign(a) \in Nat /\ a <= PageAlign(a)
<1>1. Page \in Nat /\ Page > 0
  BY BlocksAssumption DEF UserHeapParameters
<1> DEFINE x == a + Page - 1  q == x \div Page
<1>2. x \in Nat
  BY <1>1
<1> HIDE DEF x
<1>3. q \in Int /\ x - Page < Page * q
  BY <1>1, <1>2, SMTT(30)
<1>4. PageAlign(a) = q * Page
  BY DEF PageAlign, x
<1> HIDE DEF q
<1>5. q * Page = Page * q /\ q * Page \in Int
  BY <1>1, <1>3
<1> QED BY <1>1, <1>3, <1>4, <1>5 DEF x

(* A whole number of pages is mapped by as many pages.                     *)
LEMMA PagesOf ==
  ASSUME UserHeapParameters, NEW q \in Nat
  PROVE  (q * Page) \div Page = q
<1>1. Page \in Nat /\ Page > 0
  BY BlocksAssumption DEF UserHeapParameters
<1> DEFINE x == q * Page  d == x \div Page
<1>2. x \in Nat
  BY <1>1, SMTT(30)
<1>3. d \in Int /\ Page * d <= x /\ x < Page * d + Page
  <2> HIDE DEF x
  <2> QED BY <1>1, <1>2, SMTT(30)
<1>4. (q - d) * Page < Page /\ (q - d) * Page >= 0
  <2> HIDE DEF d
  <2> QED BY <1>1, <1>2, <1>3, SMTT(30) DEF x
<1> HIDE DEF d
<1>5. CASE q - d >= 1
  <2>1. (q - d) * Page >= Page
    BY <1>1, <1>3, <1>5, SMTT(30)
  <2> QED BY <1>1, <1>3, <1>4, <2>1, SMTT(30)
<1>6. CASE q - d <= -1
  <2>1. (q - d) * Page <= -Page
    BY <1>1, <1>3, <1>6, SMTT(30)
  <2> QED BY <1>1, <1>3, <1>4, <2>1, SMTT(30)
<1>7. CASE q - d = 0
  BY <1>3, <1>7 DEF d, x
<1> QED BY <1>3, <1>5, <1>6, <1>7

LEMMA EmptyHoldsNothing ==
  ASSUME Backed(<< >>, held)
  PROVE  held = {}
BY DEF Backed

-----------------------------------------------------------------------------
(* The list AllocGrow works on, with the block of the first call.          *)
LEMMA ListHolds ==
  ASSUME UserHeapParameters, IInv
  PROVE  /\ Whole(List, Cur) /\ Cur \in Nat /\ Joint(List) /\ Backed(List, held)
<1>1. CASE Started
  BY <1>1 DEF Started, List, Cur, IInv, TypeOK
<1>2. CASE ~Started
  <2>1. held = {}
    BY <1>2, EmptyHoldsNothing DEF Started, IInv
  <2>2. Header \in Nat /\ Cur \in Nat /\ Header <= Cur
    BY <1>2, AlignedUp, BlocksAssumption DEF Cur
  <2>3. DOMAIN List = {0} /\ List = [a \in {0} |-> List[0]] /\ List[0] = Block(0, TRUE, None)
    BY <1>2 DEF List
  <2>4. List[0].size = 0 /\ List[0].next = None
    BY <2>3 DEF Block
  <2>5. List[0] \in [size : Nat, free : BOOLEAN, next : Nat \cup {None}]
    <3>1. Block(0, TRUE, None) \in [size : Nat, free : BOOLEAN, next : Nat \cup {None}]
      BY DEF Block
    <3> QED BY <2>3, <3>1
  <2>6. Listed(List)
    BY <2>3, <2>5 DEF Listed
  <2>7. End(List, 0) = Header
    <3>1. End(List, 0) = 0 + Header + List[0].size
      BY DEF End
    <3> QED BY <2>2, <2>4, <3>1
  <2>8. Ordered(List)
    BY <2>3, <2>4 DEF Ordered
  <2> QED BY <2>1, <2>2, <2>3, <2>4, <2>6, <2>7, <2>8 DEF Whole, Joint, Backed
<1> QED BY <1>1, <1>2

LEMMA TakeWhole ==
  ASSUME NEW h, NEW c \in Nat, Whole(h, c), NEW n \in Nat, NEW a \in Fitting(h, n)
  PROVE  Whole(Take(h, a, n), c)
<1> SUFFICES ASSUME NEW g, g = Take(h, a, n) PROVE Whole(g, c)
  OBVIOUS
<1>1. Listed(h) /\ Ordered(h) /\ 0 \in DOMAIN h /\ \A b \in DOMAIN h : End(h, b) <= c
  BY DEF Whole
<1>2. PICK l \in DOMAIN h : h[l].next = None
  BY DEF Whole
<1>3. Listed(g) /\ Ordered(g)
  BY <1>1, TakeListed, TakeOrdered
<1>4. a \in DOMAIN h /\ End(h, a) \in Nat
  BY <1>1, FittingBlock
<1>5. CASE Splits(h, a, n)
  <2> DEFINE r == Rest(a, n)
  <2>1. SplitInto(h, a, n, g)
    BY <1>1, <1>5, TakeSplits
  <2>2. /\ DOMAIN g = DOMAIN h \cup {r} /\ g[r].next = h[a].next /\ r \in Nat /\ r <= End(h, a)
        /\ End(g, a) = r /\ End(g, r) = End(h, a)
        /\ \A b \in DOMAIN h : b # a => g[b] = h[b]
    BY <2>1 DEF SplitInto
  <2>3. \A b \in DOMAIN h : b # a => End(g, b) = End(h, b)
    BY <2>2 DEF End
  <2> HIDE DEF r
  <2>4. \E b \in DOMAIN g : g[b].next = None
    BY <1>2, <1>4, <2>2
  <2>5. End(g, a) <= c
    BY <1>1, <1>4, <2>2
  <2>6. \A b \in DOMAIN g : End(g, b) <= c
    BY <1>1, <1>4, <2>2, <2>3, <2>5
  <2> QED BY <1>1, <1>3, <2>2, <2>4, <2>6 DEF Whole
<1>6. CASE ~Splits(h, a, n)
  <2>1. TakenBlock(h, a, g)
    BY <1>1, <1>6, TakenWhole
  <2>2. DOMAIN g = DOMAIN h /\ \A b \in DOMAIN h : g[b].size = h[b].size /\ g[b].next = h[b].next
    BY <2>1 DEF TakenBlock
  <2>3. \A b \in DOMAIN h : End(g, b) = End(h, b)
    BY <2>2 DEF End
  <2> QED BY <1>1, <1>2, <1>3, <2>2, <2>3 DEF Whole
<1> QED BY <1>5, <1>6

(* The rest of a block that was split is behind a block in use and before  *)
(* one that was already in use.                                            *)
LEMMA TakeJoint ==
  ASSUME NEW h, NEW c \in Nat, Whole(h, c), Joint(h), NEW n \in Nat, NEW a \in Fitting(h, n)
  PROVE  Joint(Take(h, a, n))
<1> SUFFICES ASSUME NEW g, g = Take(h, a, n) PROVE Joint(g)
  OBVIOUS
<1>1. Listed(h) /\ Ordered(h)
  BY DEF Whole
<1>2. a \in DOMAIN h /\ h[a].free
  BY <1>1, FittingBlock
<1>3. CASE Splits(h, a, n)
  <2> DEFINE r == Rest(a, n)
  <2>1. SplitInto(h, a, n, g)
    BY <1>1, <1>3, TakeSplits
  <2>2. /\ DOMAIN g = DOMAIN h \cup {r} /\ ~g[a].free /\ g[r].next = h[a].next
        /\ \A b \in DOMAIN h : b # a => g[b] = h[b]
        /\ r \notin DOMAIN h
    BY <2>1 DEF SplitInto
  <2> HIDE DEF r
  <2>3. ASSUME NEW b \in DOMAIN g, g[b].free, g[b].next # None PROVE ~g[g[b].next].free
    <3>1. CASE b = r
      <4>1. h[a].next \in DOMAIN h /\ ~h[h[a].next].free
        BY <1>1, <1>2, <2>2, <2>3, <3>1, NextIsBehind DEF Joint
      <4> QED BY <2>2, <3>1, <4>1
    <3>2. CASE b \in DOMAIN h
      <4>1. b # a /\ g[b] = h[b]
        BY <2>2, <2>3, <3>2
      <4>2. h[b].next \in DOMAIN h /\ ~h[h[b].next].free
        BY <1>1, <2>3, <3>2, <4>1, NextIsBehind DEF Joint
      <4> QED BY <2>2, <4>1, <4>2
    <3> QED BY <2>2, <3>1, <3>2
  <2> QED BY <2>3 DEF Joint
<1>4. CASE ~Splits(h, a, n)
  <2>1. TakenBlock(h, a, g)
    BY <1>1, <1>4, TakenWhole
  <2>2. /\ DOMAIN g = DOMAIN h
        /\ \A b \in DOMAIN h : g[b].next = h[b].next /\ g[b].free = (h[b].free /\ b # a)
    BY <2>1 DEF TakenBlock
  <2>3. ASSUME NEW b \in DOMAIN g, g[b].free, g[b].next # None PROVE ~g[g[b].next].free
    <3>1. b \in DOMAIN h /\ h[b].free /\ h[b].next # None
      BY <2>2, <2>3
    <3>2. h[b].next \in DOMAIN h /\ ~h[h[b].next].free
      BY <1>1, <3>1, NextIsBehind DEF Joint
    <3> QED BY <2>2, <3>1, <3>2
  <2> QED BY <2>3 DEF Joint
<1> QED BY <1>3, <1>4

-----------------------------------------------------------------------------
(* A block at the end                                                      *)
Appended(h, c, n) ==
  [a \in DOMAIN h \cup {c} |->
     IF a = c THEN Block(n, FALSE, None)
     ELSE IF a = Last(h) THEN [h[a] EXCEPT !.next = c] ELSE h[a]]

(* The only block without a successor is the one in front of what is new.  *)
LEMMA LastIsLast ==
  ASSUME NEW h, NEW c \in Nat, Whole(h, c)
  PROVE  /\ Last(h) \in DOMAIN h /\ h[Last(h)].next = None
         /\ \A b \in DOMAIN h : b <= Last(h) /\ (b # Last(h) => h[b].next # None)
<1>1. Last(h) \in DOMAIN h /\ h[Last(h)].next = None
  BY DEF Whole, Last
<1>2. \A b \in DOMAIN h : b <= Last(h)
  BY <1>1 DEF Whole, Ordered
<1>3. ASSUME NEW b \in DOMAIN h, h[b].next = None PROVE b = Last(h)
  <2>1. Last(h) <= b /\ b <= Last(h)
    BY <1>1, <1>2, <1>3 DEF Whole, Ordered
  <2> QED BY <1>1, <2>1 DEF Whole, Listed
<1> QED BY <1>1, <1>2, <1>3

LEMMA AppendWhole ==
  ASSUME NEW h, NEW c \in Nat, Whole(h, c), Joint(h), NEW n \in Nat,
         NEW d \in Nat, c + Header + n <= d
  PROVE  Whole(Appended(h, c, n), d) /\ Joint(Appended(h, c, n))
<1> SUFFICES ASSUME NEW g, g = Appended(h, c, n) PROVE Whole(g, d) /\ Joint(g)
  OBVIOUS
<1> DEFINE l == Last(h)
<1>1. Listed(h) /\ Ordered(h) /\ 0 \in DOMAIN h /\ \A b \in DOMAIN h : End(h, b) <= c
  BY DEF Whole
<1>2. l \in DOMAIN h /\ h[l].next = None /\ \A b \in DOMAIN h : b <= l /\ (b # l => h[b].next # None)
  BY LastIsLast
<1>3. \A b \in DOMAIN h : b \in Nat /\ b < c /\ End(h, b) \in Nat
  BY <1>1, BlocksAssumption DEF Listed, End
<1>4. c \notin DOMAIN h /\ c # None
  BY <1>3, NoneIsNoAddress
<1>5. /\ DOMAIN g = DOMAIN h \cup {c} /\ g[c] = Block(n, FALSE, None)
      /\ g[l] = [h[l] EXCEPT !.next = c]
      /\ \A b \in DOMAIN h \ {l} : g[b] = h[b]
      /\ g = [b \in DOMAIN g |-> g[b]]
  BY <1>2, <1>4 DEF Appended
<1> HIDE DEF l
<1>6. g[c].size = n /\ ~g[c].free /\ g[c].next = None
  BY <1>5 DEF Block
<1>7. \A b \in DOMAIN h : h[b] \in [size : Nat, free : BOOLEAN, next : Nat \cup {None}]
  BY <1>1 DEF Listed
<1>8. /\ g[l].size = h[l].size /\ g[l].free = h[l].free /\ g[l].next = c
      /\ g[l] \in [size : Nat, free : BOOLEAN, next : Nat \cup {None}]
  BY <1>2, <1>5, <1>7
<1>9. g[c] \in [size : Nat, free : BOOLEAN, next : Nat \cup {None}]
  BY <1>5 DEF Block
<1>10. Listed(g)
  BY <1>3, <1>5, <1>7, <1>8, <1>9 DEF Listed
<1>11. End(g, c) = c + Header + n /\ \A b \in DOMAIN h : End(g, b) = End(h, b)
  BY <1>2, <1>5, <1>6, <1>8 DEF End
<1>12. ASSUME NEW b \in DOMAIN g
       PROVE  /\ g[b].size >= 0
              /\ g[b].next # None =>
                   /\ g[b].next \in DOMAIN g /\ End(g, b) <= g[b].next
                   /\ \A e \in DOMAIN g : e <= b \/ e >= g[b].next
              /\ g[b].next = None => \A e \in DOMAIN g : e <= b
  <2>1. CASE b = c
    <3>1. \A e \in DOMAIN g : e <= c
      BY <1>3, <1>5
    <3> QED BY <1>6, <2>1, <3>1
  <2>2. CASE b = l
    <3>1. \A e \in DOMAIN g : e <= l \/ e >= c
      BY <1>2, <1>5
    <3>2. End(g, l) <= c
      BY <1>1, <1>2, <1>11
    <3>3. g[l].size >= 0
      BY <1>2, <1>7, <1>8
    <3> QED BY <1>4, <1>5, <1>8, <2>2, <3>1, <3>2, <3>3
  <2>3. CASE b \in DOMAIN h /\ b # l
    <3>1. g[b] = h[b] /\ End(g, b) = End(h, b) /\ h[b].next # None
      BY <1>2, <1>5, <1>11, <2>3
    <3>2. /\ h[b].size >= 0 /\ h[b].next \in DOMAIN h /\ End(h, b) <= h[b].next
          /\ \A e \in DOMAIN h : e <= b \/ e >= h[b].next
      BY <1>1, <2>3, <3>1 DEF Ordered
    <3>3. c >= h[b].next
      BY <1>3, <3>2
    <3> QED BY <1>5, <3>1, <3>2, <3>3
  <2> QED BY <1>5, <2>1, <2>2, <2>3
<1>13. Ordered(g)
  BY <1>12 DEF Ordered
<1>14. \A b \in DOMAIN g : End(g, b) <= d
  <2>1. ASSUME NEW b \in DOMAIN h PROVE End(g, b) <= d
    <3>1. End(g, b) <= c /\ End(g, b) \in Nat
      BY <1>1, <1>3, <1>11
    <3>2. c <= d
      BY BlocksAssumption
    <3> QED BY <3>1, <3>2
  <2> QED BY <1>5, <1>11, <2>1
<1>15. Joint(g)
  <2> SUFFICES ASSUME NEW b \in DOMAIN g, g[b].free, g[b].next # None PROVE ~g[g[b].next].free
    BY DEF Joint
  <2>1. CASE b = l
    BY <1>6, <1>8, <2>1
  <2>2. CASE b \in DOMAIN h /\ b # l
    <3>1. g[b] = h[b] /\ h[b].next \in DOMAIN h /\ ~h[h[b].next].free
      BY <1>1, <1>5, <2>2, NextIsBehind DEF Joint
    <3> QED BY <1>5, <1>8, <3>1
  <2> QED BY <1>5, <1>6, <2>1, <2>2
<1> QED BY <1>1, <1>5, <1>6, <1>10, <1>13, <1>14, <1>15 DEF Whole

LEMMA AppendBacked ==
  ASSUME NEW h, NEW c \in Nat, Whole(h, c), NEW n \in Nat, Asked(held), Backed(h, held)
  PROVE  Backed(Appended(h, c, n), held \cup {<< c, n >>})
<1> SUFFICES ASSUME NEW g, g = Appended(h, c, n) PROVE Backed(g, held \cup {<< c, n >>})
  OBVIOUS
<1>1. Listed(h) /\ \A b \in DOMAIN h : End(h, b) <= c
  BY DEF Whole
<1>2. c \notin DOMAIN h
  <2> SUFFICES ASSUME c \in DOMAIN h PROVE FALSE
    OBVIOUS
  <2>1. h[c].size \in Nat /\ End(h, c) <= c
    BY <1>1 DEF Listed
  <2> QED BY <2>1, BlocksAssumption DEF End
<1>3. /\ DOMAIN g = DOMAIN h \cup {c} /\ g[c] = Block(n, FALSE, None)
      /\ \A b \in DOMAIN h : g[b] = h[b] \/ g[b] = [h[b] EXCEPT !.next = c]
  BY <1>2 DEF Appended
<1>4. g[c].size = n /\ ~g[c].free
  BY <1>3 DEF Block
<1>5. \A b \in DOMAIN h : g[b].size = h[b].size /\ g[b].free = h[b].free
  <2>1. \A b \in DOMAIN h : h[b] \in [size : Nat, free : BOOLEAN, next : Nat \cup {None}]
    BY <1>1 DEF Listed
  <2> QED BY <1>3, <2>1
<1>6. \A x \in held : x[1] \in DOMAIN h
  BY DEF Backed
<1>7. \A x \in held : x[1] \in DOMAIN g /\ ~g[x[1]].free /\ g[x[1]].size >= x[2]
  BY <1>3, <1>5, <1>6 DEF Backed
<1>8. \A x, y \in held \cup {<< c, n >>} : x[1] = y[1] => x = y
  BY <1>2, <1>6 DEF Backed
<1>9. \A x \in {<< c, n >>} : x[1] \in DOMAIN g /\ ~g[x[1]].free /\ g[x[1]].size >= x[2]
  <2>1. c \in DOMAIN g /\ ~g[c].free /\ g[c].size >= n
    <3>1. g[c].size >= n
      BY <1>4
    <3>2. c \in DOMAIN g
      BY <1>3
    <3> QED BY <1>4, <3>1, <3>2
  <2>2. \A x \in {<< c, n >>} : x[1] = c /\ x[2] = n
    OBVIOUS
  <2> QED BY <2>1, <2>2
<1> QED BY <1>7, <1>8, <1>9 DEF Backed

-----------------------------------------------------------------------------
(* Free and join                                                           *)

LEMMA AbsorbWhole ==
  ASSUME NEW h, NEW c \in Nat, Whole(h, c), NEW a \in DOMAIN h, h[a].next # None
  PROVE  Whole(Absorb(h, a), c)
<1> SUFFICES ASSUME NEW g, g = Absorb(h, a) PROVE Whole(g, c)
  OBVIOUS
<1> DEFINE m == h[a].next
<1>1. Listed(h) /\ Ordered(h) /\ 0 \in DOMAIN h /\ \A b \in DOMAIN h : End(h, b) <= c
  BY DEF Whole
<1>2. Joined(h, a, g) /\ Listed(g) /\ Ordered(g)
  BY <1>1, AbsorbJoins, AbsorbOrdered
<1>3. /\ m \in DOMAIN h /\ a < m /\ DOMAIN g = DOMAIN h \ {m}
      /\ g[a].next = h[m].next /\ g[a].size = h[a].size + Header + h[m].size
      /\ \A b \in DOMAIN h \ {a, m} : g[b] = h[b]
      /\ End(g, a) <= End(h, m)
  BY <1>2 DEF Joined
<1>4. a \in Nat /\ m \in Nat /\ h[a].size \in Nat /\ h[m].size \in Nat
  BY <1>1, <1>3 DEF Listed
<1> HIDE DEF m
<1>5. 0 \in DOMAIN g
  BY <1>1, <1>3, <1>4
<1>6. \E b \in DOMAIN g : g[b].next = None
  <2>1. PICK l \in DOMAIN h : h[l].next = None
    BY DEF Whole
  <2>2. l # a
    BY <2>1
  <2>3. CASE l = m
    BY <1>3, <1>4, <2>1, <2>3
  <2>4. CASE l # m
    BY <1>3, <2>1, <2>2, <2>4
  <2> QED BY <2>3, <2>4
<1>7. End(g, a) <= c
  <2>1. End(h, m) \in Nat /\ End(g, a) \in Nat /\ End(h, m) <= c
    BY <1>1, <1>3, <1>4, BlocksAssumption DEF End
  <2> QED BY <1>3, <2>1
<1>8. \A b \in DOMAIN g : End(g, b) <= c
  <2>1. \A b \in DOMAIN g \ {a} : End(g, b) = End(h, b)
    BY <1>3 DEF End
  <2> QED BY <1>1, <1>3, <1>7, <2>1
<1> QED BY <1>2, <1>5, <1>6, <1>8 DEF Whole

(* The only two free blocks in a row may be a and the one in front of it.  *)
JointBut(h, a) ==
  \A b \in DOMAIN h : h[b].free /\ h[b].next # None /\ h[h[b].next].free => h[b].next = a

LEMMA GivenJointBut ==
  ASSUME NEW h, Listed(h), Ordered(h), Joint(h), NEW a \in DOMAIN h, NEW g, Listed(g), Ordered(g),
         DOMAIN g = DOMAIN h, g[a].free, g[a].next = h[a].next,
         \A b \in DOMAIN h \ {a} : g[b] = h[b]
  PROVE  JointBut(WithNext(g, a), a)
<1> SUFFICES ASSUME NEW w, w = WithNext(g, a), NEW b \in DOMAIN w,
                    w[b].free, w[b].next # None, w[w[b].next].free
             PROVE  w[b].next = a
  BY DEF JointBut
<1> DEFINE m == g[a].next
<1>1. CASE m # None /\ g[m].free
  <2>1. w = Absorb(g, a)
    BY <1>1 DEF WithNext
  <2>2. Joined(g, a, w)
    BY <1>1, <2>1, AbsorbJoins
  <2>3. /\ m \in DOMAIN g /\ a < m /\ DOMAIN w = DOMAIN g \ {m}
        /\ w[a].next = g[m].next
        /\ \A e \in DOMAIN g \ {a, m} : w[e] = g[e]
        /\ \A e \in DOMAIN g \ {a} : g[e].next # m
    BY <2>2 DEF Joined
  <2>4. a \in Nat /\ m \in Nat /\ m # a
    BY <2>3 DEF Listed
  <2>5. h[m].free /\ g[m] = h[m]
    BY <1>1, <2>3, <2>4
  <2>6. CASE b = a
    <3> DEFINE k == g[m].next
    <3>1. k # None /\ w[b].next = k
      BY <2>3, <2>6
    <3>2. k \in DOMAIN g /\ k \in Nat /\ m < k
      BY <2>3, <3>1, NextIsBehind
    <3>3. k # a /\ k # m
      BY <2>3, <2>4, <3>2
    <3>4. w[k] = g[k] /\ g[k] = h[k]
      BY <2>3, <3>2, <3>3
    <3>5. ~h[k].free
      BY <2>3, <2>5, <3>1, <3>2 DEF Joint
    <3> QED BY <3>1, <3>4, <3>5
  <2>7. CASE b # a /\ w[b].next # a
    <3>1. b \in DOMAIN h /\ w[b] = g[b] /\ g[b] = h[b] /\ h[b].next # m /\ h[b].next # None /\ h[b].free
      BY <2>3, <2>7
    <3>2. h[b].next \in DOMAIN h
      BY <3>1, NextIsBehind
    <3>3. w[h[b].next] = h[h[b].next]
      BY <2>3, <2>7, <3>1, <3>2
    <3>4. ~h[h[b].next].free
      BY <3>1 DEF Joint
    <3> QED BY <3>1, <3>3, <3>4
  <2> QED BY <2>6, <2>7
<1>2. CASE ~(m # None /\ g[m].free)
  <2>1. w = g
    BY <1>2 DEF WithNext
  <2>2. b # a
    BY <1>2, <2>1
  <2>3. CASE w[b].next # a
    <3>1. b \in DOMAIN h /\ g[b] = h[b] /\ h[b].free /\ h[b].next # None
      BY <2>1, <2>2
    <3>2. h[b].next \in DOMAIN h
      BY <3>1, NextIsBehind
    <3>3. g[h[b].next] = h[h[b].next]
      BY <2>1, <2>3, <3>1, <3>2
    <3> QED BY <2>1, <3>1, <3>3 DEF Joint
  <2> QED BY <2>3
<1> QED BY <1>1, <1>2

LEMMA PrevJoint ==
  ASSUME NEW w, Listed(w), Ordered(w), NEW a \in DOMAIN w, w[a].free, JointBut(w, a)
  PROVE  Joint(WithPrev(w, a))
<1> DEFINE P == {b \in DOMAIN w : w[b].next = a}
<1> SUFFICES ASSUME NEW v, v = WithPrev(w, a), NEW b \in DOMAIN v, v[b].free, v[b].next # None
             PROVE  ~v[v[b].next].free
  BY DEF Joint
<1>1. P # {} => First(P) \in P
  <2>1. P \subseteq Nat
    BY DEF Listed
  <2> QED BY <2>1, FirstIsLeast
<1>2. a \in Nat /\ a # None
  BY NoneIsNoAddress DEF Listed
<1>3. \A e \in P : e = First(P)
  <2> SUFFICES ASSUME NEW e \in P PROVE e = First(P)
    OBVIOUS
  <2>1. First(P) \in P
    BY <1>1
  <2> QED BY <1>2, <2>1, OneBefore
<1>4. CASE P # {} /\ w[First(P)].free
  <2> DEFINE p == First(P)  k == w[a].next
  <2>1. p \in DOMAIN w /\ w[p].next = a /\ w[p].free
    BY <1>1, <1>4
  <2>2. v = Absorb(w, p)
    BY <1>4 DEF WithPrev
  <2> HIDE DEF p
  <2>3. Joined(w, p, v)
    BY <1>2, <2>1, <2>2, AbsorbJoins
  <2>4. /\ p < a /\ DOMAIN v = DOMAIN w \ {a}
        /\ v[p].next = k /\ v[p].free
        /\ \A e \in DOMAIN w \ {p, a} : v[e] = w[e]
        /\ \A e \in DOMAIN w \ {p} : w[e].next # a
    BY <2>1, <2>3 DEF Joined
  <2>5. p \in Nat
    BY <2>1 DEF Listed
  <2>6. CASE b = p
    <3>1. k # None /\ v[b].next = k
      BY <2>4, <2>6
    <3>2. k \in DOMAIN w /\ k \in Nat /\ a < k
      BY <3>1, NextIsBehind
    <3>3. k # p /\ k # a
      BY <1>2, <2>4, <2>5, <3>2
    <3>4. ~w[k].free
      BY <3>1, <3>3 DEF JointBut
    <3> QED BY <2>4, <3>1, <3>2, <3>3, <3>4
  <2>7. CASE b # p
    <3>1. b \in DOMAIN w /\ v[b] = w[b] /\ w[b].free /\ w[b].next # None /\ w[b].next # a
      BY <2>4, <2>7
    <3>2. w[b].next \in DOMAIN w
      BY <3>1, NextIsBehind
    <3>3. ~w[w[b].next].free
      BY <3>1 DEF JointBut
    <3>4. w[b].next # p
      BY <2>1, <3>3
    <3> QED BY <2>4, <3>1, <3>2, <3>3, <3>4
  <2> QED BY <2>6, <2>7
<1>5. CASE ~(P # {} /\ w[First(P)].free)
  <2>1. v = w
    BY <1>5 DEF WithPrev
  <2>2. CASE w[b].next = a
    <3>1. b \in P
      BY <2>1, <2>2
    <3>2. b = First(P) /\ P # {}
      BY <1>3, <3>1
    <3> HIDE DEF P
    <3> QED BY <1>5, <2>1, <3>2
  <2>3. CASE w[b].next # a
    BY <2>1, <2>3 DEF JointBut
  <2> QED BY <2>2, <2>3
<1> QED BY <1>4, <1>5

LEMMA FreedHolds ==
  ASSUME NEW h, NEW c \in Nat, Whole(h, c), Joint(h), Asked(held), Backed(h, held), NEW x \in held
  PROVE  Whole(Freed(h, x[1]), c) /\ Joint(Freed(h, x[1])) /\ Backed(Freed(h, x[1]), held \ {x})
<1> DEFINE a == x[1]  g == [h EXCEPT ![x[1]].free = TRUE]  w == WithNext(g, a)  rest == held \ {x}
<1>1. Listed(h) /\ Ordered(h) /\ 0 \in DOMAIN h /\ \A b \in DOMAIN h : End(h, b) <= c
  BY DEF Whole
<1>2. Given(h, held, x, g)
  BY <1>1, GivenBack
<1> HIDE DEF g
<1>3. /\ DOMAIN g = DOMAIN h /\ Listed(g) /\ Ordered(g) /\ Backed(g, rest)
      /\ a \in DOMAIN h /\ g[a].free
      /\ \A b \in DOMAIN h : g[b].size = h[b].size /\ g[b].next = h[b].next
      /\ \A b \in DOMAIN h \ {a} : g[b] = h[b]
  BY <1>2 DEF Given
<1>4. Whole(g, c)
  <2>1. \A b \in DOMAIN h : End(g, b) = End(h, b)
    BY <1>3 DEF End
  <2> QED BY <1>1, <1>3, <2>1 DEF Whole
<1>5. Asked(rest)
  BY DEF Asked
<1> HIDE DEF rest, a
<1>6. JointBut(w, a)
  BY <1>1, <1>3, GivenJointBut
<1>7. Whole(w, c) /\ Backed(w, rest) /\ a \in DOMAIN w /\ w[a].free
  <2>1. CASE g[a].next # None /\ g[g[a].next].free
    <3>1. w = Absorb(g, a)
      BY <2>1 DEF WithNext
    <3>2. Whole(w, c) /\ Backed(w, rest)
      BY <1>3, <1>4, <1>5, <2>1, <3>1, AbsorbWhole, AbsorbBacked
    <3>3. Joined(g, a, w)
      BY <1>3, <2>1, <3>1, AbsorbJoins
    <3>4. a \in DOMAIN w /\ w[a].free
      BY <1>3, <3>3 DEF Joined, Listed
    <3> QED BY <3>2, <3>4
  <2>2. CASE ~(g[a].next # None /\ g[g[a].next].free)
    BY <1>3, <1>4, <2>2 DEF WithNext
  <2> QED BY <2>1, <2>2
<1>8. Freed(h, x[1]) = WithPrev(w, a)
  BY DEF Freed, a, g
<1> HIDE DEF w
<1>9. Listed(w) /\ Ordered(w)
  BY <1>7 DEF Whole
<1>10. Joint(WithPrev(w, a))
  BY <1>6, <1>7, <1>9, PrevJoint
<1>11. Whole(WithPrev(w, a), c) /\ Backed(WithPrev(w, a), rest)
  <2> DEFINE P == {b \in DOMAIN w : w[b].next = a}
  <2>1. CASE P # {} /\ w[First(P)].free
    <3>1. P \subseteq Nat
      BY <1>9 DEF Listed
    <3>2. First(P) \in P
      BY <2>1, <3>1, FirstIsLeast
    <3> DEFINE p == First(P)
    <3>3. p \in DOMAIN w /\ w[p].next = a
      BY <3>2
    <3>4. WithPrev(w, a) = Absorb(w, p)
      BY <2>1 DEF WithPrev
    <3>5. a # None
      BY <1>7, <1>9, NoneIsNoAddress DEF Listed
    <3> HIDE DEF p
    <3> QED BY <1>5, <1>7, <1>9, <3>3, <3>4, <3>5, AbsorbWhole, AbsorbBacked
  <2>2. CASE ~(P # {} /\ w[First(P)].free)
    <3>1. WithPrev(w, a) = w
      BY <2>2 DEF WithPrev
    <3> QED BY <1>7, <3>1
  <2> QED BY <2>1, <2>2
<1> QED BY <1>8, <1>10, <1>11 DEF rest

-----------------------------------------------------------------------------
(* THE STEPS                                                               *)

LEMMA AskedFor ==
  ASSUME UserHeapParameters, TypeOK
  PROVE  /\ Listed(blocks) /\ Asked(held) /\ heap_cur \in Nat /\ mapped \in Nat
         /\ \A n \in Sizes : n \in Nat
BY BlocksAssumption DEF UserHeapParameters, TypeOK, Listed, Asked

LEMMA WholeIsNotEmpty ==
  ASSUME NEW h, NEW c, Whole(h, c)
  PROVE  h # << >>
<1>1. 0 \in DOMAIN h
  BY DEF Whole
<1>2. DOMAIN << >> = {}
  OBVIOUS
<1> QED BY <1>1, <1>2

(* A step that ends in a list with the parts of the invariant ends in the  *)
(* invariant.                                                              *)
LEMMA StepHolds ==
  ASSUME Whole(blocks', heap_cur'), Joint(blocks'), Backed(blocks', held'),
         heap_cur' \in Nat, mapped' \in Nat, held' \subseteq Nat \X Sizes
  PROVE  IInv'
<1>1. Listed(blocks')
  BY DEF Whole
<1>2. TypeOK'
  BY <1>1 DEF TypeOK, Listed
<1> QED BY <1>2 DEF IInv, Joint, Whole, Backed, Ordered, Listed, End

LEMMA InitHolds == Init => IInv
<1> SUFFICES ASSUME Init PROVE IInv
  OBVIOUS
<1>1. blocks = << >> /\ DOMAIN blocks = {} /\ heap_cur = 0 /\ mapped = 0 /\ held = {}
  BY DEF Init
<1>2. blocks \in [DOMAIN blocks -> [size : Nat, free : BOOLEAN, next : Nat \cup {None}]]
  BY <1>1
<1> QED BY <1>1, <1>2 DEF IInv, TypeOK, Backed, Joint

LEMMA AllocFitHolds ==
  ASSUME UserHeapParameters, IInv, NEW n \in Sizes, AllocFit(n)
  PROVE  IInv'
<1> DEFINE a == First(Fitting(blocks, n))
<1>1. /\ Whole(blocks, heap_cur) /\ Joint(blocks) /\ Backed(blocks, held)
      /\ held \subseteq Nat \X Sizes
  BY DEF IInv, AllocFit, Started, TypeOK
<1>2. heap_cur \in Nat /\ mapped \in Nat /\ n \in Nat /\ Asked(held) /\ Listed(blocks) /\ Ordered(blocks)
  BY <1>1, AskedFor DEF IInv, Whole
<1>3. /\ blocks' = Take(blocks, a, n) /\ held' = held \cup {<< a, n >>}
      /\ heap_cur' = heap_cur /\ mapped' = mapped /\ Fitting(blocks, n) # {}
  BY DEF AllocFit
<1>4. a \in Fitting(blocks, n) /\ a \in Nat
  <2>1. Fitting(blocks, n) \subseteq Nat
    BY <1>2 DEF Fitting, Listed
  <2> QED BY <1>3, <2>1, FirstIsLeast
<1> HIDE DEF a
<1>5. Whole(blocks', heap_cur') /\ Joint(blocks')
  BY <1>1, <1>2, <1>3, <1>4, TakeWhole, TakeJoint
<1>6. Backed(blocks', held')
  BY <1>1, <1>2, <1>3, <1>4, TakeBacked
<1>7. held' \subseteq Nat \X Sizes
  BY <1>1, <1>3, <1>4
<1> QED BY <1>2, <1>3, <1>5, <1>6, <1>7, StepHolds

LEMMA AllocGrowHolds ==
  ASSUME UserHeapParameters, IInv, NEW n \in Sizes, AllocGrow(n)
  PROVE  IInv'
<1>1. Whole(List, Cur) /\ Cur \in Nat /\ Joint(List) /\ Backed(List, held)
  BY ListHolds
<1>2. n \in Nat /\ Asked(held) /\ mapped \in Nat /\ held \subseteq Nat \X Sizes
  BY AskedFor DEF IInv, TypeOK
<1>3. Grown(n) \in Nat /\ Cur + Header + n <= Grown(n)
  <2>1. Cur + Header + n \in Nat
    BY <1>1, <1>2, BlocksAssumption
  <2> QED BY <2>1, AlignedUp DEF Grown
<1> DEFINE first == IF Started THEN mapped ELSE 1
           fits == Grown(n) <= Limit /\ (Cur < first * Page \/ Grown(n) \div Page <= Frames)
<1>4. mapped' \in Nat
  <2>1. first \in Nat /\ Frames \in Nat /\ Page \in Nat /\ Page > 0
    BY <1>2, BlocksAssumption DEF UserHeapParameters
  <2>2. Grown(n) \div Page \in Nat
    BY <1>3, <2>1, SMTT(30)
  <2>3. MapTo(Grown(n)) \in Nat
    BY <2>1, <2>2 DEF MapTo
  <2>4. mapped' = IF Cur < first * Page \/ Grown(n) > Limit THEN first ELSE MapTo(Grown(n))
    BY DEF AllocGrow
  <2> QED BY <2>1, <2>3, <2>4
<1>5. CASE fits
  <2>1. blocks' = Appended(List, Cur, n) /\ heap_cur' = Grown(n) /\ held' = held \cup {<< Cur, n >>}
    BY <1>5 DEF AllocGrow, Appended
  <2>2. Whole(blocks', heap_cur') /\ Joint(blocks')
    BY <1>1, <1>2, <1>3, <2>1, AppendWhole
  <2>3. Backed(blocks', held')
    BY <1>1, <1>2, <2>1, AppendBacked
  <2>4. held' \subseteq Nat \X Sizes
    BY <1>1, <1>2, <2>1
  <2> QED BY <1>3, <1>4, <2>1, <2>2, <2>3, <2>4, StepHolds
<1>6. CASE ~fits
  <2>1. blocks' = List /\ heap_cur' = Cur /\ held' = held
    BY <1>6 DEF AllocGrow
  <2> QED BY <1>1, <1>2, <1>4, <2>1, StepHolds
<1> QED BY <1>5, <1>6

LEMMA FreeHolds ==
  ASSUME UserHeapParameters, IInv, NEW x \in held, Free(x)
  PROVE  IInv'
<1>1. /\ held' = held \ {x} /\ blocks' = Freed(blocks, x[1])
      /\ heap_cur' = heap_cur /\ mapped' = mapped
  BY DEF Free
<1>2. heap_cur \in Nat /\ mapped \in Nat /\ Asked(held) /\ held \subseteq Nat \X Sizes
  BY AskedFor DEF IInv, TypeOK
<1>3. Backed(blocks, held) /\ Joint(blocks)
  BY DEF IInv
<1>4. Whole(blocks, heap_cur)
  <2>1. blocks # << >>
    BY <1>3, EmptyHoldsNothing
  <2> QED BY <2>1 DEF IInv
<1>5. Whole(blocks', heap_cur') /\ Joint(blocks') /\ Backed(blocks', held')
  BY <1>1, <1>2, <1>3, <1>4, FreedHolds
<1> QED BY <1>1, <1>2, <1>5, StepHolds

LEMMA NextHolds == UserHeapParameters /\ IInv /\ [Next]_vars => IInv'
<1> SUFFICES ASSUME UserHeapParameters, IInv, [Next]_vars PROVE IInv'
  OBVIOUS
<1>1. ASSUME NEW n \in Sizes, AllocFit(n) PROVE IInv'
  BY <1>1, AllocFitHolds
<1>2. ASSUME NEW n \in Sizes, AllocGrow(n) PROVE IInv'
  BY <1>2, AllocGrowHolds
<1>3. ASSUME NEW x \in held, Free(x) PROVE IInv'
  BY <1>3, FreeHolds
<1>4. CASE Reset
  <2>1. Init'
    BY <1>4 DEF Reset, Init
  <2> QED BY <2>1, InitHolds, PTL
<1>5. CASE UNCHANGED vars
  BY <1>5 DEF vars, IInv, TypeOK, Backed, Joint, Whole, Listed, Ordered, End
<1> QED BY <1>1, <1>2, <1>3, <1>4, <1>5 DEF Next

-----------------------------------------------------------------------------
(* kernel/mem/uheap.c: the list is in order, ends where the heap has grown *)
(* to, every caller has a block in use that is large enough, and what is   *)
(* free is joined.                                                         *)
THEOREM Invariance ==
  ASSUME UserHeapParameters
  PROVE  Spec => []IInv
<1>1. IInv /\ [Next]_vars => IInv'
  BY NextHolds
<1> QED BY <1>1, InitHolds, PTL DEF Spec

(* With a frame for each page, the list ends where the mapped pages end.   *)
Covered == Limit <= Frames * Page /\ Started => heap_cur = mapped * Page

LEMMA AlignedIsPages ==
  ASSUME UserHeapParameters, NEW a \in Nat
  PROVE  PageAlign(a) = (PageAlign(a) \div Page) * Page
<1> DEFINE q == (a + Page - 1) \div Page
<1>1. Page \in Nat /\ Page > 0
  BY BlocksAssumption DEF UserHeapParameters
<1>2. q \in Nat
  <2>1. a + Page - 1 \in Nat
    BY <1>1
  <2> QED BY <1>1, <2>1, SMTT(30)
<1>3. PageAlign(a) = q * Page
  BY DEF PageAlign
<1> HIDE DEF q
<1> QED BY <1>2, <1>3, PagesOf

LEMMA FirstPage ==
  ASSUME UserHeapParameters
  PROVE  PageAlign(Header) = 1 * Page
<1>1. Page \in Nat /\ Header \in Nat /\ 0 < Header /\ Header < Page
  BY BlocksAssumption DEF UserHeapParameters
<1> DEFINE x == Header + Page - 1  q == x \div Page
<1>2. x \in Nat /\ Page <= x /\ x < 2 * Page
  BY <1>1
<1> HIDE DEF x
<1>3. q = 1
  BY <1>1, <1>2, SMTT(30)
<1>4. PageAlign(Header) = q * Page
  BY DEF PageAlign, x
<1> QED BY <1>3, <1>4

(* A growth within the limit finds all its frames.                         *)
LEMMA FramesSuffice ==
  ASSUME UserHeapParameters, Limit <= Frames * Page, NEW q \in Nat, q * Page <= Limit
  PROVE  q <= Frames
<1>1. Page \in Nat /\ Page > 0 /\ Frames \in Nat /\ Limit \in Nat
  BY BlocksAssumption DEF UserHeapParameters
<1>2. CASE q - Frames >= 1
  <2>1. (q - Frames) * Page >= Page
    BY <1>1, <1>2, SMTT(30)
  <2>2. (q - Frames) * Page = q * Page - Frames * Page
    BY <1>1, SMTT(30)
  <2>3. q * Page \in Nat /\ Frames * Page \in Nat
    BY <1>1, SMTT(30)
  <2> QED BY <1>1, <2>1, <2>2, <2>3
<1> QED BY <1>1, <1>2

LEMMA GrowthCovers ==
  ASSUME UserHeapParameters, IInv, Covered, NEW n \in Sizes, AllocGrow(n)
  PROVE  Covered'
<1> SUFFICES ASSUME Limit <= Frames * Page, Started' PROVE heap_cur' = mapped' * Page
  BY DEF Covered, UserHeapParameters
<1> DEFINE first == IF Started THEN mapped ELSE 1
           top == IF Cur < first * Page \/ Grown(n) > Limit THEN first ELSE MapTo(Grown(n))
           fits == Grown(n) <= Limit /\ (Cur < first * Page \/ Grown(n) \div Page <= Frames)
<1>1. Page \in Nat /\ Page > 0 /\ Frames \in Nat /\ Limit \in Nat /\ n \in Nat
  BY AskedFor, BlocksAssumption DEF UserHeapParameters, IInv
<1>2. Cur = first * Page /\ first \in Nat /\ Cur \in Nat
  BY ListHolds, FirstPage DEF Covered, Cur, IInv, TypeOK
<1>3. Cur + Header + n \in Nat
  BY <1>1, <1>2, BlocksAssumption
<1>4. Grown(n) = (Grown(n) \div Page) * Page /\ Grown(n) \in Nat
  BY <1>3, AlignedIsPages, AlignedUp DEF Grown
<1>5. ~(Cur < first * Page)
  BY <1>2
<1>6. mapped' = top
  BY DEF AllocGrow
<1>7. heap_cur' = IF fits THEN Grown(n) ELSE Cur
  BY DEF AllocGrow
<1> DEFINE q == Grown(n) \div Page
<1>8. q \in Nat
  BY <1>1, <1>4, SMTT(30)
<1>9. CASE Grown(n) <= Limit
  <2>1. q <= Frames
    BY <1>4, <1>8, <1>9, FramesSuffice
  <2>2. fits /\ heap_cur' = Grown(n)
    BY <1>7, <1>9, <2>1
  <2>3. MapTo(Grown(n)) = q
    BY <2>1 DEF MapTo
  <2>4. top = q
    BY <1>1, <1>4, <1>5, <1>9, <2>3
  <2> HIDE DEF top, q, fits
  <2> QED BY <1>4, <1>6, <2>2, <2>4 DEF q
<1>10. CASE ~(Grown(n) <= Limit)
  <2>1. top = first /\ ~fits
    BY <1>1, <1>4, <1>10
  <2> HIDE DEF top, fits, first
  <2> QED BY <1>2, <1>6, <1>7, <2>1
<1> QED BY <1>9, <1>10

LEMMA CoveredHolds == UserHeapParameters /\ IInv /\ Covered /\ [Next]_vars => Covered'
<1> SUFFICES ASSUME UserHeapParameters, IInv, Covered, [Next]_vars PROVE Covered'
  OBVIOUS
<1>1. ASSUME NEW n \in Sizes, AllocFit(n) PROVE Covered'
  BY <1>1 DEF AllocFit, Covered, Started
<1>2. ASSUME NEW n \in Sizes, AllocGrow(n) PROVE Covered'
  BY <1>2, GrowthCovers
<1>3. ASSUME NEW x \in held, Free(x) PROVE Covered'
  <2>1. Started
    BY EmptyHoldsNothing DEF Started, IInv
  <2> QED BY <1>3, <2>1 DEF Free, Covered, Started
<1>4. CASE Reset
  BY <1>4 DEF Reset, Covered, Started
<1>5. CASE UNCHANGED vars
  BY <1>5 DEF vars, Covered, Started
<1> QED BY <1>1, <1>2, <1>3, <1>4, <1>5 DEF Next

LEMMA CoveredIsMapped == UserHeapParameters /\ IInv /\ Covered => HeldIsMapped
<1> SUFFICES ASSUME UserHeapParameters, IInv, Covered, Limit <= Frames * Page, NEW x \in held
             PROVE  x[1] + Header + x[2] <= mapped * Page
  BY DEF HeldIsMapped
<1>1. Started
  BY EmptyHoldsNothing DEF Started, IInv
<1>2. heap_cur = mapped * Page /\ heap_cur \in Nat
  BY <1>1 DEF Covered, IInv, TypeOK
<1>3. /\ x[1] \in DOMAIN blocks /\ x[2] <= blocks[x[1]].size /\ x[1] \in Nat /\ x[2] \in Nat
      /\ blocks[x[1]].size \in Nat
  BY AskedFor DEF IInv, Backed, Listed, Asked
<1>4. End(blocks, x[1]) <= heap_cur
  BY <1>1, <1>3 DEF IInv, Whole, Started
<1> QED BY <1>2, <1>3, <1>4, BlocksAssumption DEF End

LEMMA InvIsApart == UserHeapParameters /\ IInv => UserHeldApart
<1> SUFFICES ASSUME UserHeapParameters, IInv PROVE UserHeldApart
  OBVIOUS
<1>1. CASE blocks # << >>
  BY <1>1, AskedFor, BackedIsApart DEF IInv, Whole, UserHeldApart
<1>2. CASE blocks = << >>
  BY <1>2, EmptyHoldsNothing DEF IInv, UserHeldApart, Apart
<1> QED BY <1>1, <1>2

LEMMA InvIsJoined == IInv => NoFreeNeighbours
BY DEF IInv, Joint, NoFreeNeighbours

(* What a program was given has pages, in a machine with a frame for each  *)
(* page of the heap.                                                       *)
THEOREM HeldHasPages ==
  ASSUME UserHeapParameters
  PROVE  Spec => []HeldIsMapped
<1>1. Init => Covered
  BY DEF Init, Covered, Started
<1> QED BY <1>1, Invariance, CoveredHolds, CoveredIsMapped, PTL DEF Spec

(* The list of a process's heap keeps its shape, nothing overlaps and what *)
(* is free is joined.                                                      *)
THEOREM ListCorrect ==
  ASSUME UserHeapParameters
  PROVE  Spec => []UserHeapInv
<1>1. IInv /\ HeldIsMapped => UserHeapInv
  <2> SUFFICES ASSUME IInv, HeldIsMapped PROVE UserHeapInv
    OBVIOUS
  <2> USE InvIsApart, InvIsJoined
  <2>1. CASE blocks # << >>
    BY <2>1 DEF IInv, UserHeapInv, Whole
  <2>2. CASE blocks = << >>
    <3>1. DOMAIN blocks = {}
      BY <2>2
    <3> QED BY <3>1 DEF IInv, UserHeapInv, Ordered
  <2> QED BY <2>1, <2>2
<1> QED BY <1>1, Invariance, HeldHasPages, PTL

(* What a program was given never overlaps, nor a header.                  *)
THEOREM HeldApart ==
  ASSUME UserHeapParameters
  PROVE  Spec => []UserHeldApart
<1> QED BY InvIsApart, Invariance, PTL

(* free() leaves no two free blocks in a row, whatever was freed before.   *)
THEOREM FreeIsJoined ==
  ASSUME UserHeapParameters
  PROVE  Spec => []NoFreeNeighbours
<1> QED BY InvIsJoined, Invariance, PTL

-----------------------------------------------------------------------------
(* THE HEAP OF THE KERNEL                                                  *)

(* What the theorems assume: the parameters, and calls one at a time.      *)
KernelParameters == KernelHeapParameters /\ ~Preempt

LEMMA TypedIsListed ==
  ASSUME KernelParameters, KernelTypeOK
  PROVE  Listed(kblocks) /\ Asked(kheld)
BY BlocksAssumption DEF KernelTypeOK, Listed, Asked, KernelParameters, KernelHeapParameters

LEMMA KernelInitHolds ==
  ASSUME KernelParameters, KernelInit
  PROVE  KernelHeapInv
<1>1. /\ HEAP_SIZE - Header \in Nat /\ Header \in Nat
      /\ DOMAIN kblocks = {0} /\ kblocks[0] = Block(HEAP_SIZE - Header, TRUE, None)
      /\ kblocks = [a \in {0} |-> kblocks[0]]
      /\ kheld = {} /\ \A t \in Tasks : found[t] = << >>
  BY BlocksAssumption DEF KernelInit, KernelParameters, KernelHeapParameters
<1>2. kblocks[0].size = HEAP_SIZE - Header /\ kblocks[0].free /\ kblocks[0].next = None
  BY <1>1 DEF Block
<1>3. kblocks[0] \in [size : Nat, free : BOOLEAN, next : Nat \cup {None}]
  <2>1. HEAP_SIZE - Header \in Nat /\ TRUE \in BOOLEAN /\ None \in Nat \cup {None}
    BY <1>1
  <2>2. Block(HEAP_SIZE - Header, TRUE, None) \in [size : Nat, free : BOOLEAN, next : Nat \cup {None}]
    BY <2>1, BlockTyped
  <2> QED BY <1>1, <2>2
<1>4. KernelTypeOK
  <2>1. DOMAIN kblocks \subseteq Nat /\ kheld \subseteq Nat \X Sizes
    BY <1>1
  <2>2. kblocks \in [DOMAIN kblocks -> [size : Nat, free : BOOLEAN, next : Nat \cup {None}]]
    BY <1>1, <1>3
  <2>3. found \in [Tasks -> {<< >>} \cup (Nat \X Sizes)]
    BY DEF KernelInit
  <2> QED BY <2>1, <2>2, <2>3 DEF KernelTypeOK
<1>5. Ordered(kblocks)
  BY <1>1, <1>2 DEF Ordered
<1>6. Tiled
  <2>1. End(kblocks, 0) = HEAP_SIZE
    <3>1. HEAP_SIZE \in Nat /\ Header \in Nat
      BY BlocksAssumption DEF KernelParameters, KernelHeapParameters
    <3>2. End(kblocks, 0) = 0 + Header + kblocks[0].size
      BY DEF End
    <3>3. 0 + Header + (HEAP_SIZE - Header) = HEAP_SIZE
      BY <3>1
    <3> QED BY <1>2, <3>2, <3>3
  <2> QED BY <1>1, <1>2, <2>1 DEF Tiled
<1> QED BY <1>1, <1>4, <1>5, <1>6 DEF KernelHeapInv, Backed

LEMMA FindHolds ==
  ASSUME KernelParameters, KernelHeapInv, NEW t \in Tasks, NEW n \in Sizes, Find(t, n)
  PROVE  KernelHeapInv'
<1>1. /\ kblocks' = kblocks /\ kheld' = kheld
      /\ found \in [Tasks -> {<< >>} \cup (Nat \X Sizes)]
      /\ found' = [found EXCEPT ![t] = << First(Fitting(kblocks, n)), n >>]
      /\ Fitting(kblocks, n) # {}
  BY DEF Find, KernelHeapInv, KernelTypeOK
<1>2. \A u \in Tasks : found[u] = << >>
  BY DEF Find, Alone, KernelParameters
<1>3. First(Fitting(kblocks, n)) \in Fitting(kblocks, n)
  <2>1. Fitting(kblocks, n) \subseteq Nat
    BY DEF Fitting, KernelHeapInv, KernelTypeOK
  <2> QED BY <1>1, <2>1, FirstIsLeast
<1>4. First(Fitting(kblocks, n)) \in Nat
  BY <1>3 DEF Fitting, KernelHeapInv, KernelTypeOK
<1>5. KernelTypeOK'
  <2>1. found' \in [Tasks -> {<< >>} \cup (Nat \X Sizes)]
    BY <1>1, <1>4
  <2> QED BY <1>1, <2>1 DEF KernelHeapInv, KernelTypeOK
<1>6. Ordered(kblocks)' /\ Backed(kblocks, kheld)' /\ Tiled'
  BY <1>1 DEF KernelHeapInv, Ordered, Backed, Tiled, End
<1>7. \A u \in Tasks : found'[u] # << >> => u = t /\ found'[u] = << First(Fitting(kblocks, n)), n >>
  BY <1>1, <1>2
<1>8. \A u \in Tasks : found'[u] # << >> => found'[u][1] \in Fitting(kblocks, found'[u][2])
  BY <1>3, <1>7
<1> QED BY <1>1, <1>5, <1>6, <1>7, <1>8 DEF KernelHeapInv, Fitting

(* A block that is split fills what it filled, together with its rest.     *)
LEMMA TakeTiled ==
  ASSUME KernelParameters, KernelHeapInv, NEW n \in Nat, NEW a \in Fitting(kblocks, n),
         kblocks' = Take(kblocks, a, n)
  PROVE  Tiled'
<1>1. Listed(kblocks) /\ Ordered(kblocks)
  BY TypedIsListed DEF KernelHeapInv
<1>2. /\ 0 \in DOMAIN kblocks
      /\ \A b \in DOMAIN kblocks : /\ kblocks[b].next = None => End(kblocks, b) = HEAP_SIZE
                                   /\ kblocks[b].next # None => End(kblocks, b) = kblocks[b].next
  BY DEF KernelHeapInv, Tiled
<1>3. CASE Splits(kblocks, a, n)
  <2> DEFINE r == Rest(a, n)
  <2>1. SplitInto(kblocks, a, n, kblocks')
    BY <1>1, <1>3, TakeSplits
  <2>2. a \in DOMAIN kblocks /\ r # None
    BY <2>1, NoneIsNoAddress, FittingBlock, <1>1 DEF SplitInto
  <2>3. /\ DOMAIN kblocks' = DOMAIN kblocks \cup {r} /\ r \notin DOMAIN kblocks
        /\ kblocks'[a].next = r /\ kblocks'[r].next = kblocks[a].next
        /\ End(kblocks', a) = r /\ End(kblocks', r) = End(kblocks, a)
        /\ \A b \in DOMAIN kblocks : b # a => kblocks'[b] = kblocks[b]
    BY <2>1 DEF SplitInto
  <2>4. \A b \in DOMAIN kblocks : b # a => End(kblocks', b) = End(kblocks, b)
    BY <2>3 DEF End
  <2> HIDE DEF r
  <2>5. ASSUME NEW b \in DOMAIN kblocks'
        PROVE  IF kblocks'[b].next = None THEN End(kblocks', b) = HEAP_SIZE
               ELSE End(kblocks', b) = kblocks'[b].next
    <3>1. CASE b = a
      BY <2>2, <2>3, <3>1
    <3>2. CASE b = r
      <4>1. /\ kblocks[a].next = None => End(kblocks, a) = HEAP_SIZE
            /\ kblocks[a].next # None => End(kblocks, a) = kblocks[a].next
        BY <1>2, <2>2
      <4>2. kblocks'[r].next = kblocks[a].next /\ End(kblocks', r) = End(kblocks, a)
        BY <2>3
      <4> QED BY <3>2, <4>1, <4>2
    <3>3. CASE b # a /\ b # r
      <4>1. b \in DOMAIN kblocks
        BY <2>3, <3>3
      <4>2. kblocks'[b] = kblocks[b] /\ End(kblocks', b) = End(kblocks, b)
        BY <2>3, <2>4, <3>3, <4>1
      <4>3. /\ kblocks[b].next = None => End(kblocks, b) = HEAP_SIZE
            /\ kblocks[b].next # None => End(kblocks, b) = kblocks[b].next
        BY <1>2, <4>1
      <4> QED BY <4>2, <4>3
    <3> QED BY <3>1, <3>2, <3>3
  <2>6. 0 \in DOMAIN kblocks'
    BY <1>2, <2>3
  <2> QED BY <2>5, <2>6 DEF Tiled, End
<1>4. CASE ~Splits(kblocks, a, n)
  <2>1. TakenBlock(kblocks, a, kblocks')
    BY <1>1, <1>4, TakenWhole
  <2>2. DOMAIN kblocks' = DOMAIN kblocks
        /\ \A b \in DOMAIN kblocks : kblocks'[b].size = kblocks[b].size /\ kblocks'[b].next = kblocks[b].next
    BY <2>1 DEF TakenBlock
  <2>3. \A b \in DOMAIN kblocks : End(kblocks', b) = End(kblocks, b)
    BY <2>2 DEF End
  <2>4. ASSUME NEW b \in DOMAIN kblocks
        PROVE  IF kblocks'[b].next = None THEN End(kblocks', b) = HEAP_SIZE
               ELSE End(kblocks', b) = kblocks'[b].next
    <3>1. /\ kblocks[b].next = None => End(kblocks, b) = HEAP_SIZE
          /\ kblocks[b].next # None => End(kblocks, b) = kblocks[b].next
      BY <1>2
    <3>2. kblocks'[b].next = kblocks[b].next /\ End(kblocks', b) = End(kblocks, b)
      BY <2>2, <2>3
    <3> QED BY <3>1, <3>2
  <2>5. 0 \in DOMAIN kblocks'
    BY <1>2, <2>2
  <2> QED BY <2>2, <2>4, <2>5 DEF Tiled, End
<1> QED BY <1>3, <1>4

LEMMA MarkHolds ==
  ASSUME KernelParameters, KernelHeapInv, NEW t \in Tasks, Mark(t)
  PROVE  KernelHeapInv'
<1> DEFINE a == found[t][1]  n == found[t][2]
<1>1. /\ found[t] # << >> /\ kblocks' = Take(kblocks, a, n)
      /\ kheld' = kheld \cup {found[t]} /\ found' = [found EXCEPT ![t] = << >>]
  BY DEF Mark
<1>2. found \in [Tasks -> {<< >>} \cup (Nat \X Sizes)] /\ kheld \subseteq Nat \X Sizes
  BY DEF KernelHeapInv, KernelTypeOK
<1>3. /\ found[t] = << a, n >> /\ found[t] \in Nat \X Sizes /\ n \in Nat /\ a \in Fitting(kblocks, n)
  <2>1. found[t] \in Nat \X Sizes
    BY <1>1, <1>2
  <2>2. found[t] = << a, n >> /\ n \in Sizes
    BY <2>1
  <2>3. a \in Fitting(kblocks, n)
    BY <1>1 DEF KernelHeapInv
  <2> QED BY <2>1, <2>2, <2>3, BlocksAssumption DEF KernelParameters, KernelHeapParameters
<1>4. Listed(kblocks) /\ Ordered(kblocks) /\ Asked(kheld) /\ Backed(kblocks, kheld)
  BY TypedIsListed DEF KernelHeapInv
<1> HIDE DEF a, n
<1>5. Listed(kblocks')
  BY <1>1, <1>3, <1>4, TakeListed
<1>6. KernelTypeOK'
  <2>1. found' \in [Tasks -> {<< >>} \cup (Nat \X Sizes)]
    BY <1>1, <1>2
  <2>2. kheld' \subseteq Nat \X Sizes
    BY <1>1, <1>2, <1>3
  <2> QED BY <1>5, <2>1, <2>2 DEF KernelTypeOK, Listed
<1>7. Ordered(kblocks')
  BY <1>1, <1>3, <1>4, TakeOrdered
<1>8. Backed(kblocks', kheld')
  <2>1. kheld' = kheld \cup {<< a, n >>}
    BY <1>1, <1>3
  <2>2. Backed(Take(kblocks, a, n), kheld \cup {<< a, n >>})
    BY <1>3, <1>4, TakeBacked
  <2> QED BY <1>1, <2>1, <2>2
<1>9. Tiled'
  BY <1>1, <1>3, TakeTiled
<1>10. \A u \in Tasks : found'[u] = << >>
  BY <1>1, <1>2 DEF KernelHeapInv
<1> QED BY <1>6, <1>7, <1>8, <1>9, <1>10 DEF KernelHeapInv, Ordered, Backed, End

LEMMA kfreeHolds ==
  ASSUME KernelParameters, KernelHeapInv, NEW x \in kheld, kfree(x)
  PROVE  KernelHeapInv'
<1>1. kheld' = kheld \ {x} /\ kblocks' = [kblocks EXCEPT ![x[1]].free = TRUE] /\ found' = found
  BY DEF kfree
<1>2. \A u \in Tasks : found[u] = << >>
  BY DEF kfree, Alone, KernelParameters
<1>3. Listed(kblocks) /\ Ordered(kblocks) /\ Asked(kheld) /\ Backed(kblocks, kheld)
  BY TypedIsListed DEF KernelHeapInv
<1>4. /\ DOMAIN kblocks' = DOMAIN kblocks /\ Listed(kblocks') /\ Ordered(kblocks')
      /\ Backed(kblocks', kheld \ {x})
      /\ \A b \in DOMAIN kblocks : kblocks'[b].size = kblocks[b].size /\ kblocks'[b].next = kblocks[b].next
  <2>1. Given(kblocks, kheld, x, kblocks')
    BY <1>1, <1>3, GivenBack
  <2> QED BY <2>1 DEF Given
<1>5. KernelTypeOK'
  BY <1>1, <1>4 DEF KernelHeapInv, KernelTypeOK, Listed
<1>6. Tiled'
  <2>1. \A b \in DOMAIN kblocks : End(kblocks', b) = End(kblocks, b)
    BY <1>4 DEF End
  <2> QED BY <1>4, <2>1 DEF KernelHeapInv, Tiled, End
<1> QED BY <1>1, <1>2, <1>4, <1>5, <1>6 DEF KernelHeapInv, Ordered, Backed, End

LEMMA KernelNextHolds ==
  ASSUME KernelParameters, KernelHeapInv, [KernelNext]_kvars
  PROVE  KernelHeapInv'
<1>1. ASSUME NEW t \in Tasks, Mark(t) PROVE KernelHeapInv'
  BY <1>1, MarkHolds
<1>2. ASSUME NEW t \in Tasks, NEW n \in Sizes, Find(t, n) PROVE KernelHeapInv'
  BY <1>2, FindHolds
<1>3. ASSUME NEW x \in kheld, kfree(x) PROVE KernelHeapInv'
  BY <1>3, kfreeHolds
<1>4. CASE UNCHANGED kvars
  BY <1>4 DEF kvars, KernelHeapInv, KernelTypeOK, Ordered, Backed, Tiled, End, Fitting
<1> QED BY <1>1, <1>2, <1>3, <1>4 DEF KernelNext

-----------------------------------------------------------------------------
(* kernel/mem/heap.c: the list is in the order of addresses, fills the     *)
(* heap, and every caller has a block in use that is large enough.         *)
THEOREM KernelInvariance ==
  ASSUME KernelHeapParameters, ~Preempt
  PROVE  KernelSpec => []KernelHeapInv
<1>1. KernelParameters
  BY DEF KernelParameters
<1>2. KernelInit => KernelHeapInv
  BY <1>1, KernelInitHolds
<1>3. KernelHeapInv /\ [KernelNext]_kvars => KernelHeapInv'
  BY <1>1, KernelNextHolds
<1> QED BY <1>2, <1>3, PTL DEF KernelSpec

(* No two callers of kmalloc hold the same memory, nor that of a header,   *)
(* and the list they are taken from stays as it should be.                 *)
THEOREM KernelKept ==
  ASSUME KernelHeapParameters, ~Preempt
  PROVE  KernelSpec => []KernelHeapKept
<1>1. KernelParameters
  BY DEF KernelParameters
<1>2. KernelHeapInv => KernelHeapKept
  BY <1>1, TypedIsListed, BackedIsApart
     DEF KernelHeapInv, KernelHeldApart, KernelHeapKept
<1> QED BY <1>2, KernelInvariance, PTL

(* However often blocks are split, no unit of the heap is lost.            *)
THEOREM NothingLost ==
  ASSUME KernelHeapParameters, ~Preempt
  PROVE  KernelSpec => []Tiled
<1>1. KernelHeapInv => Tiled
  BY DEF KernelHeapInv
<1> QED BY <1>1, KernelInvariance, PTL

-----------------------------------------------------------------------------
(* FILE DIALOGS                                                            *)

LEMMA LeastElement ==
  ASSUME NEW S, S \subseteq Nat, S # {}
  PROVE  \E n \in S : \A m \in S : n <= m
<1>1. First(S) \in S /\ \A b \in S : First(S) <= b
  BY FirstIsLeast
<1> QED BY <1>1

LEMMA LeastIsLess ==
  ASSUME NEW a \in Int, NEW b \in Int
  PROVE  Least(a, b) \in {a, b} /\ Least(a, b) <= a /\ Least(a, b) <= b
BY DEF Least

(* A set of places has as many members as there are, one after the other.  *)
LEMMA NthExists ==
  ASSUME NEW n \in Nat, NEW S \in SUBSET (1 .. n), NEW k \in 1 .. Cardinality(S)
  PROVE  Nth(S, k) \in S
<1> DEFINE Up(i) == {j \in S : j <= i}
           Enough == {i \in 0 .. n : Cardinality(Up(i)) >= k}
<1>1. /\ IsFiniteSet(S) /\ \A i \in 0 .. n : Up(i) \in SUBSET S /\ IsFiniteSet(Up(i))
      /\ \A i \in 0 .. n : Cardinality(Up(i)) \in Nat
  <2>1. IsFiniteSet(1 .. n)
    BY FS_Interval
  <2>2. IsFiniteSet(S)
    BY <2>1, FS_Subset
  <2>3. ASSUME NEW i \in 0 .. n PROVE Up(i) \in SUBSET S /\ IsFiniteSet(Up(i)) /\ Cardinality(Up(i)) \in Nat
    <3>1. Up(i) \in SUBSET S
      OBVIOUS
    <3> HIDE DEF Up
    <3> QED BY <3>1, <2>2, FS_Subset, FS_CardinalityType
  <2> QED BY <2>2, <2>3
<1>2. Up(n) = S /\ Up(0) = {}
  <2>1. \A j \in S : j \in Int /\ 1 <= j /\ j <= n
    OBVIOUS
  <2>2. \A j \in S : j <= n /\ ~(j <= 0)
    BY <2>1
  <2> QED BY <2>2
<1>3. n \in Enough /\ 0 \notin Enough
  <2>1. Cardinality(Up(n)) >= k
    BY <1>1, <1>2, FS_CardinalityType
  <2>2. Cardinality(Up(0)) = 0
    BY <1>2, FS_EmptySet
  <2> QED BY <2>1, <2>2
<1>4. PICK i \in Enough : \A m \in Enough : i <= m
  <2>1. Enough \subseteq Nat
    <3> HIDE DEF Up
    <3> QED OBVIOUS
  <2> HIDE DEF Enough
  <2> QED BY <2>1, <1>3, LeastElement
<1>5. i \in 1 .. n /\ i - 1 \in 0 .. n /\ ~(Cardinality(Up(i - 1)) >= k) /\ Cardinality(Up(i)) >= k
  <2>1. i \in 0 .. n /\ Cardinality(Up(i)) >= k
    BY <1>4
  <2>2. i # 0 
    BY <1>3
  <2>3. i \in 1 .. n /\ i - 1 \in 0 .. n /\ ~(i <= i - 1)
    BY <2>1, <2>2
  <2>4. i - 1 \notin Enough
    <3> HIDE DEF Enough
    <3> QED BY <1>4, <2>3
  <2> QED BY <2>1, <2>3, <2>4
<1>6. i \in S /\ Up(i) = Up(i - 1) \cup {i}
  <2>0. \A j \in S : j \in Int /\ (j <= i <=> j <= i - 1 \/ j = i)
    BY <1>5
  <2>1. CASE i \in S
    BY <2>0, <2>1, <1>5
  <2>2. CASE i \notin S
    <3>1. Up(i) = Up(i - 1)
      BY <2>0, <2>2
    <3> HIDE DEF Up
    <3> QED BY <3>1, <1>5
  <2> QED BY <2>1, <2>2
<1>7. i \notin Up(i - 1)
  BY <1>5
<1>8. Cardinality(Up(i)) = k
  <2> HIDE DEF Up, Enough
  <2>1. Cardinality(Up(i)) = Cardinality(Up(i - 1)) + 1
    BY <1>1, <1>5, <1>6, <1>7, FS_AddElement
  <2> QED BY <2>1, <1>1, <1>5
<1>9. \E m \in S : Cardinality({j \in S : j <= m}) = k
  BY <1>6, <1>8
<1> QED BY <1>9 DEF Nth

(* The list has names of the directory, and no more than there is room for.*)
LEMMA ListTyped ==
  ASSUME FileDialogAssumption, NEW names \in Seq(Seq(STRING)), NEW exts
  PROVE  /\ load_list(names, exts) \in Seq(Seq(STRING))
         /\ Len(load_list(names, exts)) <= MAX_FILES
<1> DEFINE S == {i \in DOMAIN names : file_matches(names[i], exts)}
           n == Least(Cardinality(S), MAX_FILES)
<1>1. S \in SUBSET (1 .. Len(names)) /\ Len(names) \in Nat
  OBVIOUS
<1>2. load_list(names, exts) = [k \in 1 .. n |-> names[Nth(S, k)]]
  BY DEF load_list
<1> HIDE DEF S
<1>3. IsFiniteSet(S) /\ Cardinality(S) \in Nat
  <2>1. IsFiniteSet(1 .. Len(names))
    BY <1>1, FS_Interval
  <2> QED BY <1>1, <2>1, FS_Subset, FS_CardinalityType
<1>4. n \in Nat /\ n <= MAX_FILES /\ n <= Cardinality(S)
  BY <1>3, LeastIsLess DEF FileDialogAssumption
<1> HIDE DEF n
<1>5. ASSUME NEW k \in 1 .. n PROVE names[Nth(S, k)] \in Seq(STRING)
  <2>1. k \in 1 .. Cardinality(S)
    BY <1>3, <1>4
  <2>2. Nth(S, k) \in S
    BY <2>1, <1>1, NthExists
  <2>3. Nth(S, k) \in 1 .. Len(names)
    BY <2>2, <1>1
  <2> QED BY <2>3
<1> QED BY <1>2, <1>4, <1>5 DEF FileDialogAssumption

-----------------------------------------------------------------------------
(* What parse_filter finds: strings end, and extensions are strings.       *)
LEMMA EndsSomewhere ==
  ASSUME NEW s \in Seq(STRING)
  PROVE  StringEnd(s, 1) \in 1 .. Len(s) + 1
<1> DEFINE Nul == {j \in 1 .. Len(s) + 1 : At(s, j) = NUL}
<1>1. Len(s) + 1 \in Nul /\ Nul \subseteq Nat
  BY DEF At
<1>2. PICK j \in Nul : \A m \in Nul : j <= m
  BY <1>1, LeastElement
<1>3. \A k \in 1 .. j - 1 : At(s, k) # NUL
  BY <1>2
<1>4. \E m \in 1 .. Len(s) + 1 : At(s, m) = NUL /\ \A k \in 1 .. m - 1 : At(s, k) # NUL
  BY <1>2, <1>3
<1> QED BY <1>4 DEF StringEnd

LEMMA PartTyped ==
  ASSUME NEW S, NEW s \in Seq(S), NEW i \in Nat, NEW j \in Nat, i >= 1, j <= Len(s)
  PROVE  SubSeq(s, i, j) \in Seq(S)
OBVIOUS

LEMMA UpTo ==
  ASSUME NEW e \in Nat, e >= 1
  PROVE  e \in 1 - 1 .. e /\ \A m \in 1 - 1 .. e : m \in Nat /\ m <= e
OBVIOUS

LEMMA ExtsTyped ==
  ASSUME NEW s \in Seq(STRING), NEW e \in 1 .. Len(s) + 1
  PROVE  Exts(s, 1, e) \subseteq Seq(STRING)
<1> DEFINE From3(w) == SubSeq(w, 3, Len(w))
           cut == {i \in 1 - 1 .. e : i \in {1 - 1, e} \/ s[i] = ";"}
           Word(i) == LET ends == {j \in cut : j >= i}
                      IN  SubSeq(s, i, (CHOOSE j \in ends : \A k \in ends : j <= k) - 1)
           words == {Word(i + 1) : i \in cut \ {e}}
           exts == {From3(w) : w \in {w \in words : Len(w) >= 3 /\ w[1] = "*" /\ w[2] = "."}}
<1>0. e \in Nat /\ e >= 1 /\ Len(s) \in Nat /\ e <= Len(s) + 1
  OBVIOUS
<1>1. ASSUME NEW i \in cut \ {e} PROVE Word(i + 1) \in Seq(STRING)
  <2> DEFINE ends == {j \in cut : j >= i + 1}
             j == CHOOSE j \in ends : \A k \in ends : j <= k
  <2>1. e \in cut /\ \A m \in cut : m \in Nat /\ m <= e
    BY <1>0, UpTo, Zenon
  <2>2. i \in Nat /\ i < e
    <3> HIDE DEF cut
    <3> QED BY <2>1, <1>0
  <2>3. Word(i + 1) = SubSeq(s, i + 1, j - 1)
    OBVIOUS
  <2> HIDE DEF cut, Word, words, exts
  <2>4. e \in ends /\ ends \subseteq Nat /\ \A m \in ends : m >= i + 1 /\ m <= e
    <3>1. e \in ends
      BY <2>1, <2>2, <1>0
    <3>2. \A m \in ends : m \in cut /\ m >= i + 1
      OBVIOUS
    <3> HIDE DEF ends
    <3> QED BY <3>1, <3>2, <2>1
  <2>5. j \in ends
    <3> HIDE DEF ends
    <3>1. \E m \in ends : \A k \in ends : m <= k
      BY <2>4, LeastElement
    <3> QED BY <3>1
  <2> HIDE DEF j, ends
  <2>6. j \in Nat /\ j >= i + 1 /\ j <= e
    BY <2>4, <2>5
  <2>7. i + 1 \in Nat /\ i + 1 >= 1 /\ j - 1 \in Nat /\ j - 1 <= Len(s)
    BY <2>2, <2>6, <1>0
  <2> QED BY <2>3, <2>7, PartTyped
<1>2. words \subseteq Seq(STRING)
  <2> HIDE DEF Word, cut
  <2> QED BY <1>1
<1>3. exts \subseteq Seq(STRING)
  <2>1. ASSUME NEW w \in Seq(STRING), Len(w) >= 3 PROVE From3(w) \in Seq(STRING)
    <3>1. 3 \in Nat /\ Len(w) \in Nat /\ 3 >= 1 /\ Len(w) <= Len(w)
      OBVIOUS
    <3> QED BY <3>1, PartTyped
  <2> HIDE DEF words, From3
  <2> QED BY <1>2, <2>1
<1>4. Exts(s, 1, e) = IF << "*" >> \in exts THEN {} ELSE exts
  BY DEF Exts
<1> HIDE DEF exts
<1> QED BY <1>3, <1>4

LEMMA MatchIsEnd ==
  ASSUME NEW name \in Seq(STRING), NEW x \in Seq(STRING)
  PROVE  /\ Len(name) > Len(x) + 1 /\ name[Len(name) - Len(x)] = "."
         /\ Begins(SubSeq(name, Len(name) - Len(x) + 1, Len(name)), x)
         <=> Ends(name, x)
<1> DEFINE k == Len(name) - Len(x)
           tail == SubSeq(name, k + 1, Len(name))
<1>1. CASE ~(Len(name) > Len(x) + 1)
  BY <1>1 DEF Ends
<1>2. CASE Len(name) > Len(x) + 1
  <2>1. k \in 2 .. Len(name) /\ Len(tail) = Len(x) /\ \A i \in DOMAIN x : tail[i] = name[k + i]
    BY <1>2
  <2>2. Begins(tail, x) <=> \A i \in DOMAIN x : low8(name[k + i]) = low8(x[i])
    <3> HIDE DEF k, tail
    <3> QED BY <2>1 DEF Begins
  <2>3. Ends(name, x) <=> name[k] = "." /\ \A i \in DOMAIN x : low8(name[k + i]) = low8(x[i])
    <3>1. \A m \in DOMAIN name : m > 1 /\ Len(name) = m + Len(x) => m = k
      OBVIOUS
    <3>2. k \in DOMAIN name /\ k > 1 /\ Len(name) = k + Len(x)
      BY <2>1
    <3> HIDE DEF k
    <3> QED BY <3>1, <3>2 DEF Ends
  <2> HIDE DEF tail
  <2> QED BY <1>2, <2>2, <2>3 DEF tail
<1> QED BY <1>1, <1>2

LEMMA ListsThem == FileDialogAssumption => ListsByEnd
<1> SUFFICES ASSUME FileDialogAssumption, NEW f \in Filters, NEW d \in Dirs, NEW i \in DOMAIN d
             PROVE  LET x == Exts(f, 1, StringEnd(f, 1)) IN
                      file_matches(d[i], x) <=> x = {} \/ \E e \in x : Ends(d[i], e)
  BY DEF ListsByEnd
<1> DEFINE x == Exts(f, 1, StringEnd(f, 1))
<1>1. x \subseteq Seq(STRING) /\ d[i] \in Seq(STRING)
  BY EndsSomewhere, ExtsTyped DEF FileDialogAssumption
<1> HIDE DEF x
<1>2. file_matches(d[i], x) <=> x = {} \/ \E e \in x : Ends(d[i], e)
  BY <1>1, MatchIsEnd DEF file_matches
<1> QED BY <1>2 DEF x

-----------------------------------------------------------------------------
(* Every variable has its type; the name is shorter than its buffer, and   *)
(* what is given back than the program's.                                  *)
FileTypes ==
  /\ is_save \in BOOLEAN /\ out_n \in Outs
  /\ files \in Seq(Seq(STRING)) /\ Len(files) <= MAX_FILES
  /\ sel \in Int /\ scroll \in Int
  /\ fname \in Seq(STRING) /\ Len(fname) < NAME_MAX
  /\ pressed \subseteq {"ok", "cancel", "yes", "no"}
  /\ state \in {"no", "open", "confirm", "done"}
  /\ result \in BOOLEAN /\ asked \in BOOLEAN /\ agreed \in BOOLEAN
  /\ out \in Seq(STRING) /\ Len(out) < out_n
(* The selection is in the list and is seen, from the beginning on, and    *)
(* what is not open has given nothing.                                     *)
InSight ==
  /\ state = "no" => sel = 0 /\ scroll = 0 /\ result = FALSE
  /\ file_count > 0 => sel \in 0 .. file_count - 1 /\ scroll >= 0 /\ sel \in scroll .. scroll + Rows - 1
(* Only what is saved is asked about.                                      *)
AsksToSave == state = "confirm" => is_save
FileInv == FileTypes /\ InSight /\ AsksToSave /\ OpensAFile /\ TypedIsConfirmed

LEMMA CountIsNat == FileTypes => file_count \in Nat /\ file_count = Len(files)
BY DEF FileTypes, file_count

LEMMA FirstRow ==
  ASSUME FileDialogAssumption, NEW n \in Nat, NEW s, s = 0, NEW first, first = 0
  PROVE  n > 0 => s \in 0 .. n - 1 /\ first >= 0 /\ s \in first .. first + Rows - 1
BY DEF FileDialogAssumption

LEMMA FilesBegin == FileDialogAssumption /\ FileDialogInit => FileInv
<1> SUFFICES ASSUME FileDialogAssumption, FileDialogInit PROVE FileInv
  OBVIOUS
<1>1. /\ << >> \in Seq(Seq(STRING)) /\ << >> \in Seq(STRING) /\ Len(<< >>) = 0
  OBVIOUS
<1>2. out_n \in Outs /\ out_n \in Nat \ {0}
  BY DEF FileDialogInit, FileDialogAssumption
<1>3. FileTypes
  <2>1. files \in Seq(Seq(STRING)) /\ Len(files) <= MAX_FILES /\ fname \in Seq(STRING) /\ Len(fname) < NAME_MAX
    BY <1>1 DEF FileDialogInit, FileDialogAssumption
  <2>2. out \in Seq(STRING) /\ Len(out) < out_n
    BY <1>1, <1>2 DEF FileDialogInit
  <2>3. sel \in Int /\ scroll \in Int
    BY DEF FileDialogInit
  <2>4. pressed \subseteq {"ok", "cancel", "yes", "no"} /\ state \in {"no", "open", "confirm", "done"}
    BY DEF FileDialogInit
  <2>5. is_save \in BOOLEAN /\ result \in BOOLEAN /\ asked \in BOOLEAN /\ agreed \in BOOLEAN
    BY DEF FileDialogInit
  <2> QED BY <1>2, <2>1, <2>2, <2>3, <2>4, <2>5 DEF FileTypes
<1>4. file_count = 0
  BY <1>1 DEF FileDialogInit, file_count
<1> QED BY <1>3, <1>4 DEF FileDialogInit, FileInv, InSight, AsksToSave, OpensAFile, TypedIsConfirmed

(* clamp_view brings any row in sight.                                     *)
LEMMA Clamped ==
  ASSUME FileDialogAssumption, NEW s \in Nat, NEW first \in Nat
  PROVE  /\ View(s, first) \in Nat
         /\ s \in View(s, first) .. View(s, first) + Rows - 1
BY DEF View, FileDialogAssumption

LEMMA ViewTyped ==
  ASSUME FileDialogAssumption, NEW s \in Int, NEW first \in Int
  PROVE  View(s, first) \in Int
BY DEF View, FileDialogAssumption

(* A row of the list is selected; when there is no list, any.              *)
LEMMA Selects ==
  ASSUME FileDialogAssumption, FileInv, NEW s \in Int, Select(s),
         file_count > 0 => s \in 0 .. file_count - 1,
         file_count' = file_count, state' = state, InDialog
  PROVE  sel' \in Int /\ scroll' \in Int /\ InSight'
<1>1. sel' = s /\ scroll' = View(s, scroll) /\ scroll \in Int /\ state' # "no"
  BY DEF Select, FileInv, FileTypes, InDialog
<1>2. scroll' \in Int
  BY <1>1, ViewTyped
<1>3. ASSUME file_count > 0
      PROVE  sel' \in 0 .. file_count - 1 /\ scroll' >= 0 /\ sel' \in scroll' .. scroll' + Rows - 1
  <2>1. s \in Nat /\ scroll \in Nat
    BY <1>1, <1>3, CountIsNat DEF FileInv, InSight
  <2> QED BY <1>1, <1>3, <2>1, Clamped
<1> QED BY <1>1, <1>2, <1>3 DEF InSight

(* What changes only what is selected, and what is typed.                  *)
LEMMA Browses ==
  ASSUME FileInv, InDialog, Same, sel' \in Int, scroll' \in Int, InSight',
         fname' \in Seq(STRING), Len(fname') < NAME_MAX
  PROVE  FileInv'
BY DEF FileInv, InDialog, Same, FileTypes, AsksToSave, OpensAFile, TypedIsConfirmed

LEMMA SameCount == Same => file_count' = file_count /\ state' = state
BY DEF Same, file_count

-----------------------------------------------------------------------------
(* What is given back is a file of the list or the typed name, shortened to*)
(* what the program has room for.                                          *)
LEMMA ChosenIsAFile ==
  ASSUME FileInv
  PROVE  /\ Chosen \in Seq(STRING)
         /\ ~is_save => \/ \E i \in DOMAIN files : Chosen = files[i]
                        \/ Chosen = fname /\ \A i \in DOMAIN files : ~Begins(files[i], fname)
<1>1. /\ file_count \in Nat /\ file_count = Len(files) /\ files \in Seq(Seq(STRING))
      /\ fname \in Seq(STRING)
  BY CountIsNat DEF FileInv, FileTypes
<1>2. ASSUME file_count > 0 PROVE sel + 1 \in DOMAIN files /\ File(sel) = files[sel + 1]
  BY <1>1, <1>2 DEF FileInv, InSight, File
<1>3. ASSUME file_count > 0 PROVE File(sel) \in Seq(STRING) /\ \E i \in DOMAIN files : File(sel) = files[i]
  BY <1>1, <1>2, <1>3
<1>4. CASE fname # << >> /\ ~is_save /\ \E i \in DOMAIN files : Begins(files[i], fname)
  <2>1. file_count > 0
    BY <1>1, <1>4
  <2> QED BY <1>3, <1>4, <2>1 DEF Chosen
<1>5. CASE fname # << >> /\ ~(~is_save /\ \E i \in DOMAIN files : Begins(files[i], fname))
  BY <1>1, <1>5 DEF Chosen
<1>6. CASE fname = << >> /\ file_count > 0
  BY <1>3, <1>6 DEF Chosen
<1>7. CASE fname = << >> /\ ~(file_count > 0)
  <2>1. DOMAIN files = {}
    BY <1>1, <1>7
  <2> QED BY <1>1, <1>7, <2>1 DEF Chosen
<1> QED BY <1>4, <1>5, <1>6, <1>7

LEMMA PutFits ==
  ASSUME NEW s \in Seq(STRING), NEW n \in Nat, n > 0, out_n = n
  PROVE  Put(s) \in Seq(STRING) /\ Len(Put(s)) < out_n
<1> DEFINE k == Least(Len(s), n - 1)
<1>1. k \in Nat /\ k <= Len(s) /\ k <= n - 1
  BY LeastIsLess
<1>2. Put(s) = SubSeq(s, 1, k)
  BY DEF Put
<1> HIDE DEF k
<1> QED BY <1>1, <1>2

(* The dialog ends: with a file, when it may be given, or without one.     *)
LEMMA Finishes ==
  ASSUME FileDialogAssumption, FileInv, NEW ok \in BOOLEAN, Finish(ok),
         state \in {"open", "confirm"},
         ok /\ is_save /\ fname \in dir => agreed',
         pressed' \subseteq {"ok", "cancel", "yes", "no"},
         asked' \in BOOLEAN, agreed' \in BOOLEAN
  PROVE  FileInv'
<1>1. /\ state' = "done" /\ result' = ok /\ out' = IF ok THEN Put(Chosen) ELSE << >>
      /\ UNCHANGED << is_save, out_n, dir, files, sel, scroll, fname >>
      /\ FileTypes /\ InSight
  BY DEF Finish, FileInv
<1>2. out_n \in Nat /\ out_n > 0
  BY <1>1 DEF FileTypes, FileDialogAssumption
<1>3. out' \in Seq(STRING) /\ Len(out') < out_n
  <2>1. CASE ok = TRUE
    BY <1>1, <1>2, <2>1, ChosenIsAFile, PutFits
  <2>2. CASE ok = FALSE
    BY <1>1, <1>2, <2>2
  <2> QED BY <2>1, <2>2
<1>4. FileTypes'
  BY <1>1, <1>3 DEF FileTypes
<1>5. InSight' /\ AsksToSave'
  BY <1>1 DEF InSight, AsksToSave, file_count
<1>6. \A s : Put(s)' = Put(s)
  BY <1>1 DEF Put
<1>7. OpensAFile'
  <2> SUFFICES ASSUME result', ~is_save'
               PROVE  \/ \E i \in DOMAIN files' : out' = Put(files[i])'
                      \/ out' = Put(fname)' /\ \A i \in DOMAIN files' : ~Begins(files'[i], fname')
    BY DEF OpensAFile
  <2>1. ok = TRUE /\ is_save = FALSE /\ out' = Put(Chosen)
    BY <1>1 DEF FileTypes
  <2>2. CASE \E i \in DOMAIN files : Chosen = files[i]
    <3>1. PICK i \in DOMAIN files : Chosen = files[i]
      BY <2>2
    <3>2. Put(files[i])' = Put(files[i])
      BY <1>1 DEF Put
    <3> QED BY <1>1, <2>1, <3>1, <3>2
  <2>3. CASE Chosen = fname /\ \A i \in DOMAIN files : ~Begins(files[i], fname)
    <3>1. Put(fname)' = Put(fname)
      BY <1>1 DEF Put
    <3> QED BY <1>1, <2>1, <2>3, <3>1
  <2> QED BY <2>1, <2>2, <2>3, ChosenIsAFile
<1>8. TypedIsConfirmed'
  BY <1>1 DEF TypedIsConfirmed
<1> QED BY <1>4, <1>5, <1>7, <1>8 DEF FileInv

(* The question comes only when the name is a file's and is saved.         *)
LEMMA Confirmed ==
  ASSUME FileDialogAssumption, FileInv, Ok, state = "open",
         pressed' \subseteq {"ok", "cancel", "yes", "no"}
  PROVE  FileInv'
<1>1. CASE wants_confirm
  <2>1. /\ state' = "confirm" /\ asked' = TRUE /\ is_save
        /\ UNCHANGED << is_save, out_n, dir, files, sel, scroll, fname, result, out, agreed >>
    BY <1>1 DEF Ok, wants_confirm
  <2> QED BY <2>1 DEF FileInv, FileTypes, InSight, file_count, AsksToSave, OpensAFile, TypedIsConfirmed
<1>2. CASE ~wants_confirm
  <2>1. Finish(TRUE) /\ UNCHANGED << asked, agreed >> /\ ~(is_save /\ fname \in dir)
    BY <1>2 DEF Ok, wants_confirm
  <2>2. asked' \in BOOLEAN /\ agreed' \in BOOLEAN
    BY <2>1 DEF FileInv, FileTypes
  <2> QED BY <2>1, <2>2, Finishes
<1> QED BY <1>1, <1>2

LEMMA Answered ==
  ASSUME FileDialogAssumption, FileInv, NEW yes \in BOOLEAN, Answer(yes), state = "confirm",
         pressed' \subseteq {"ok", "cancel", "yes", "no"}
  PROVE  FileInv'
<1>1. agreed' = yes /\ asked' = asked /\ asked' \in BOOLEAN /\ agreed' \in BOOLEAN
  BY DEF Answer, FileInv, FileTypes
<1>2. CASE yes = TRUE
  BY <1>1, <1>2, Finishes DEF Answer
<1>3. CASE yes = FALSE
  <2>1. /\ state' = "open"
        /\ UNCHANGED << is_save, out_n, dir, files, sel, scroll, fname, result, out >>
    BY <1>3 DEF Answer
  <2> QED BY <1>1, <2>1 DEF FileInv, FileTypes, InSight, file_count, AsksToSave, OpensAFile, TypedIsConfirmed
<1> QED BY <1>2, <1>3

LEMMA Cancelled ==
  ASSUME FileDialogAssumption, FileInv, Finish(FALSE), UNCHANGED << asked, agreed >>, state = "open",
         pressed' \subseteq {"ok", "cancel", "yes", "no"}
  PROVE  FileInv'
<1>1. asked' \in BOOLEAN /\ agreed' \in BOOLEAN
  BY DEF FileInv, FileTypes
<1> QED BY <1>1, Finishes

-----------------------------------------------------------------------------
LEMMA FilesKeep ==
  ASSUME FileDialogAssumption, FileInv, [FileDialogNext]_fvars
  PROVE  FileInv'
<1>1. ASSUME NEW d \in Dirs, NEW f \in Filters, NEW i \in Indexes, Run(d, f, i) PROVE FileInv'
  <2> DEFINE list == load_list(d, ext_list(f, i))
  <2>1. list \in Seq(Seq(STRING)) /\ Len(list) <= MAX_FILES
    BY ListTyped DEF FileDialogAssumption
  <2>2. /\ state = "no" /\ files' = list /\ state' \in {"open", "done"}
        /\ UNCHANGED << is_save, out_n, sel, scroll, fname, pressed, result, out, asked, agreed >>
    BY <1>1 DEF Run
  <2> HIDE DEF list
  <2>3. file_count' > 0 => sel' \in 0 .. file_count' - 1 /\ scroll' >= 0 /\ sel' \in scroll' .. scroll' + Rows - 1
    <3>1. sel' = 0 /\ scroll' = 0 /\ file_count' \in Nat
      BY <2>1, <2>2 DEF FileInv, InSight, file_count
    <3> QED BY <3>1, FirstRow
  <2>4. FileTypes'
    BY <2>1, <2>2 DEF FileInv, FileTypes
  <2>5. result' = FALSE
    BY <2>2 DEF FileInv, InSight
  <2> QED BY <2>2, <2>3, <2>4, <2>5 DEF FileInv, InSight, AsksToSave, OpensAFile, TypedIsConfirmed
<1>2. CASE Arrow
  <2>1. InDialog /\ UNCHANGED fname /\ Same /\ file_count' = file_count /\ state' = state
    BY <1>2, SameCount DEF Arrow
  <2>2. /\ file_count \in Nat /\ sel \in Int /\ PageRows \in Nat
        /\ file_count > 0 => sel \in 0 .. file_count - 1
        /\ fname' \in Seq(STRING) /\ Len(fname') < NAME_MAX
    BY <2>1, CountIsNat DEF FileInv, FileTypes, InSight, FileDialogAssumption
  <2>3. ASSUME NEW s \in Int, Select(s), file_count > 0 => s \in 0 .. file_count - 1 PROVE FileInv'
    <3>1. sel' \in Int /\ scroll' \in Int /\ InSight'
      BY <2>1, <2>3, Selects
    <3> QED BY <2>1, <2>2, <3>1, Browses
  <2>4. CASE sel > 0 /\ Select(sel - 1)
    BY <2>2, <2>3, <2>4
  <2>5. CASE sel < file_count - 1 /\ Select(sel + 1)
    BY <2>2, <2>3, <2>5
  <2>6. CASE Select(Most(sel - PageRows, 0))
    <3>1. Most(sel - PageRows, 0) \in Int
          /\ (file_count > 0 => Most(sel - PageRows, 0) \in 0 .. file_count - 1)
      BY <2>2 DEF Most
    <3> QED BY <2>3, <2>6, <3>1
  <2>7. CASE Select(Least(sel + PageRows, file_count - 1))
    <3>1. Least(sel + PageRows, file_count - 1) \in Int
          /\ (file_count > 0 => Least(sel + PageRows, file_count - 1) \in 0 .. file_count - 1)
      BY <2>2 DEF Least
    <3> QED BY <2>3, <2>7, <3>1
  <2>8. CASE sel' = 0 /\ scroll' = 0
    <3>1. file_count' > 0 => sel' \in 0 .. file_count' - 1 /\ scroll' >= 0 /\ sel' \in scroll' .. scroll' + Rows - 1
      <4>1. file_count' \in Nat
        BY <2>1, <2>2
      <4> QED BY <4>1, <2>8, FirstRow
    <3>2. InSight' /\ sel' \in Int /\ scroll' \in Int
      BY <2>1, <2>8, <3>1 DEF InSight, InDialog
    <3> QED BY <2>1, <2>2, <3>2, Browses
  <2>9. CASE Select(file_count - 1)
    BY <2>2, <2>3, <2>9
  <2> QED BY <1>2, <2>4, <2>5, <2>6, <2>7, <2>8, <2>9 DEF Arrow
<1>3. ASSUME NEW c \in Chars, Letter(c) PROVE FileInv'
  <2> DEFINE first == {i \in 0 .. file_count - 1 : Begins(File(i), fname')}
             s == CHOOSE i \in first : \A j \in first : i <= j
  <2>1. /\ InDialog /\ Len(fname) < NAME_MAX - 1 /\ fname' = Append(fname, c) /\ Same
        /\ IF first = {} THEN UNCHANGED << sel, scroll >> ELSE Select(s)
    BY <1>3 DEF Letter
  <2>2. fname' \in Seq(STRING) /\ Len(fname') < NAME_MAX
    BY <2>1 DEF FileInv, FileTypes, FileDialogAssumption
  <2>3. file_count' = file_count /\ state' = state /\ file_count \in Nat
    BY <2>1, SameCount, CountIsNat DEF FileInv
  <2>4. CASE first = {}
    <3>1. sel' \in Int /\ scroll' \in Int /\ InSight'
      BY <2>1, <2>3, <2>4 DEF FileInv, FileTypes, InSight, InDialog
    <3> QED BY <2>1, <2>2, <3>1, Browses
  <2>5. CASE first # {}
    <3>1. first \subseteq 0 .. file_count - 1 /\ first \subseteq Nat
      OBVIOUS
    <3>2. Select(s)
      BY <2>1, <2>5
    <3> HIDE DEF first
    <3>3. s \in first
      <4>1. \E i \in first : \A j \in first : i <= j
        BY <2>5, <3>1, LeastElement
      <4> QED BY <4>1
    <3> HIDE DEF s
    <3>4. s \in Int /\ (file_count > 0 => s \in 0 .. file_count - 1)
      BY <3>1, <3>3
    <3>5. sel' \in Int /\ scroll' \in Int /\ InSight'
      BY <2>1, <2>3, <3>2, <3>4, Selects
    <3> QED BY <2>1, <2>2, <3>5, Browses
  <2> QED BY <2>4, <2>5
<1>4. CASE Backspace
  <2>1. /\ InDialog /\ Same /\ UNCHANGED << sel, scroll >> /\ fname # << >>
        /\ fname' = SubSeq(fname, 1, Len(fname) - 1) /\ fname \in Seq(STRING) /\ Len(fname) < NAME_MAX
        /\ NAME_MAX \in Nat
    BY <1>4 DEF Backspace, FileInv, FileTypes, FileDialogAssumption
  <2>2. fname' \in Seq(STRING) /\ Len(fname') < NAME_MAX
    BY <2>1
  <2>3. sel' \in Int /\ scroll' \in Int /\ InSight'
    BY <2>1, SameCount DEF FileInv, FileTypes, InSight, InDialog
  <2> QED BY <2>1, <2>2, <2>3, Browses
<1>5. ASSUME NEW r \in 0 .. Rows - 1, ClickRow(r) PROVE FileInv'
  <2>1. /\ InDialog /\ Same /\ scroll + r < file_count /\ sel' = scroll + r /\ UNCHANGED << scroll, fname >>
        /\ file_count' = file_count /\ state' = state /\ file_count \in Nat /\ scroll \in Int
        /\ r \in Nat /\ r <= Rows - 1 /\ Rows \in Nat
    BY <1>5, SameCount, CountIsNat DEF ClickRow, FileInv, FileTypes, FileDialogAssumption
  <2>2. file_count > 0 => sel' \in 0 .. file_count - 1 /\ scroll' >= 0 /\ sel' \in scroll' .. scroll' + Rows - 1
    BY <2>1 DEF FileInv, InSight
  <2>3. InSight' /\ sel' \in Int /\ scroll' \in Int
    BY <2>1, <2>2 DEF InSight, InDialog
  <2>4. fname' \in Seq(STRING) /\ Len(fname') < NAME_MAX
    BY <2>1 DEF FileInv, FileTypes
  <2> QED BY <2>1, <2>3, <2>4, Browses
<1>6. CASE Enter
  <2>1. state = "open" /\ Ok /\ pressed' \subseteq {"ok", "cancel", "yes", "no"}
    BY <1>6 DEF Enter, InDialog, FileInv, FileTypes
  <2> QED BY <2>1, Confirmed
<1>7. CASE Esc
  <2>1. /\ state = "open" /\ Finish(FALSE) /\ UNCHANGED << asked, agreed >>
        /\ pressed' \subseteq {"ok", "cancel", "yes", "no"}
    BY <1>7 DEF Esc, InDialog, FileInv, FileTypes
  <2> QED BY <2>1, Cancelled
<1>8. CASE ConfirmKey
  <2>1. /\ state = "confirm" /\ \E yes \in BOOLEAN : Answer(yes)
        /\ pressed' \subseteq {"ok", "cancel", "yes", "no"}
    BY <1>8 DEF ConfirmKey, FileInv, FileTypes
  <2> QED BY <2>1, Answered
<1>9. ASSUME NEW b \in {"ok", "cancel", "yes", "no", "beside"}, Press(b) PROVE FileInv'
  <2>1. /\ pressed' = pressed \cup {b} /\ b \in {"ok", "cancel", "yes", "no"}
        /\ UNCHANGED << is_save, out_n, dir, files, sel, scroll, fname, state, result, out, asked, agreed >>
    BY <1>9 DEF Press, Buttons
  <2> QED BY <2>1 DEF FileInv, FileTypes, InSight, file_count, AsksToSave, OpensAFile, TypedIsConfirmed, Put
(* A button counts when it was pressed: one of the box that is seen.       *)
<1>10. ASSUME NEW b \in {"ok", "cancel", "yes", "no", "beside"}, Release(b) PROVE FileInv'
  <2>1. /\ state \in {"open", "confirm"} /\ pressed' \subseteq {"ok", "cancel", "yes", "no"}
        /\ IF b \in pressed THEN Pushed(b)
           ELSE UNCHANGED << is_save, out_n, dir, files, sel, scroll, fname, state, result, out, asked, agreed >>
    BY <1>10 DEF Release, FileInv, FileTypes
  <2>2. CASE b \notin pressed
    BY <2>1, <2>2 DEF FileInv, FileTypes, InSight, file_count, AsksToSave, OpensAFile, TypedIsConfirmed, Put
  <2>3. CASE b \in pressed
    <3>1. b # "beside" /\ Pushed(b)
      BY <2>1, <2>3 DEF FileInv, FileTypes
    <3>2. CASE state = "open"
      <4>1. b \in {"ok", "cancel"}
        BY <1>10, <3>1, <3>2 DEF Release, Buttons
      <4>2. CASE b = "ok"
        BY <2>1, <3>1, <3>2, <4>2, Confirmed DEF Pushed
      <4>3. CASE b = "cancel"
        BY <2>1, <3>1, <3>2, <4>3, Cancelled DEF Pushed
      <4> QED BY <4>1, <4>2, <4>3
    <3>3. CASE state = "confirm"
      <4>1. b \in {"yes", "no"}
        BY <1>10, <3>1, <3>3 DEF Release, Buttons
      <4>2. Answer(b = "yes") /\ (b = "yes") \in BOOLEAN
        BY <3>1, <4>1 DEF Pushed
      <4> QED BY <2>1, <3>3, <4>2, Answered
    <3> QED BY <2>1, <3>2, <3>3
  <2> QED BY <2>2, <2>3
<1>11. CASE UNCHANGED fvars
  BY <1>11 DEF fvars, FileInv, FileTypes, InSight, file_count, AsksToSave, OpensAFile, TypedIsConfirmed, Put
<1> QED BY <1>1, <1>2, <1>3, <1>4, <1>5, <1>6, <1>7, <1>8, <1>9, <1>10, <1>11 DEF FileDialogNext

(* comdlg32.c: every way through a file dialog keeps the selection in the  *)
(* list and in sight, gives a file of the list or the typed name, and has  *)
(* agreement for a typed name that exists.                                 *)
THEOREM FilesPicked == FileDialogSpec => []PicksAFile
<1>1. FileDialogInit => FileInv
  BY FileDialogAssumption, FilesBegin
<1>2. FileInv /\ [FileDialogNext]_fvars => FileInv'
  BY FileDialogAssumption, FilesKeep
<1>3. FileInv => PicksAFile
  BY FileDialogAssumption, ListsThem DEF FileInv, FileTypes, InSight, PicksAFile, SelectedSeen
<1> QED BY <1>1, <1>2, <1>3, PTL DEF FileDialogSpec

-----------------------------------------------------------------------------
(* KEYBOARD, MOUSE AND THEIR RINGS                                         *)

LEMMA Wraps ==
  ASSUME NEW n \in Nat, n > 0, NEW a \in Nat, a < 2 * n
  PROVE  a % n = IF a < n THEN a ELSE a - n
<1>1. CASE a < n
  BY <1>1
<1>2. CASE a >= n
  BY <1>2
<1> QED BY <1>1, <1>2

(* A ring of max places with members of E; how many it holds, and where,   *)
(* without the remainder.                                                  *)
RingTyped(r, max, E) ==
  r \in [slots : [0 .. max - 1 -> Seq(E)], head : 0 .. max - 1, tail : 0 .. max - 1, pending : Seq(E)]
Used(h, t, n) == IF h >= t THEN h - t ELSE h - t + n
Spot(t, x, n) == IF t + x - 1 < n THEN t + x - 1 ELSE t + x - 1 - n
Next1(p, n) == IF p + 1 = n THEN 0 ELSE p + 1

LEMMA UsedIs ==
  ASSUME NEW n \in Nat, NEW h \in Nat, NEW t \in Nat, h < n, t < n
  PROVE  (h - t + n) % n = Used(h, t, n) /\ Used(h, t, n) \in Nat /\ Used(h, t, n) < n
<1> DEFINE a == h - t + n
<1>1. a \in Nat /\ a < 2 * n /\ n > 0
  OBVIOUS
<1>2. a % n = IF a < n THEN a ELSE a - n
  <2> HIDE DEF a
  <2> QED BY <1>1, Wraps
<1> QED BY <1>2 DEF Used

LEMMA SpotIs ==
  ASSUME NEW n \in Nat, NEW t \in Nat, t < n, NEW x \in Nat, x >= 1, x <= n
  PROVE  (t + x - 1) % n = Spot(t, x, n) /\ Spot(t, x, n) \in 0 .. n - 1
<1> DEFINE a == t + x - 1
<1>1. a \in Nat /\ a < 2 * n /\ n > 0
  OBVIOUS
<1>2. a % n = IF a < n THEN a ELSE a - n
  <2> HIDE DEF a
  <2> QED BY <1>1, Wraps
<1> QED BY <1>1, <1>2 DEF Spot

(* One more: at the head, beside the others; one fewer: at the tail.       *)
LEMMA OneMore ==
  ASSUME NEW n \in Nat, NEW h \in Nat, NEW t \in Nat, h < n, t < n, Used(h, t, n) < n - 1
  PROVE  /\ Used(Next1(h, n), t, n) = Used(h, t, n) + 1
         /\ Spot(t, Used(h, t, n) + 1, n) = h
         /\ \A x \in Nat : x >= 1 /\ x <= Used(h, t, n) => Spot(t, x, n) # h
BY DEF Used, Spot, Next1

LEMMA OneFewer ==
  ASSUME NEW n \in Nat, NEW h \in Nat, NEW t \in Nat, h < n, t < n, h # t
  PROVE  /\ Used(h, t, n) >= 1 /\ Used(h, Next1(t, n), n) = Used(h, t, n) - 1
         /\ Spot(t, 1, n) = t
         /\ \A x \in Nat : x >= 1 /\ x <= Used(h, t, n) - 1 =>
              Spot(Next1(t, n), x, n) = Spot(t, x + 1, n) /\ Spot(t, x + 1, n) # t
BY DEF Used, Spot, Next1

Filled(r, max) ==
  /\ Len(r.pending) = Used(r.head, r.tail, max)
  /\ \A x \in 1 .. Len(r.pending) : r.slots[Spot(r.tail, x, max)] = << r.pending[x] >>

LEMMA Fields ==
  ASSUME NEW E, NEW max \in Nat, max > 0, NEW r, RingTyped(r, max, E)
  PROVE  /\ r.head \in Nat /\ r.head < max /\ r.tail \in Nat /\ r.tail < max
         /\ r.slots \in [0 .. max - 1 -> Seq(E)]
         /\ r.pending \in Seq(E) /\ Len(r.pending) \in Nat /\ DOMAIN r.pending = 1 .. Len(r.pending)
<1>1. r.head \in 0 .. max - 1 /\ r.tail \in 0 .. max - 1 /\ r.pending \in Seq(E)
      /\ r.slots \in [0 .. max - 1 -> Seq(E)]
  BY DEF RingTyped
<1> QED BY <1>1

LEMMA Places ==
  ASSUME NEW E, NEW max \in Nat, max > 0, NEW r, RingTyped(r, max, E)
  PROVE  /\ Cardinality(DOMAIN r.slots) = max
         /\ \A p \in 0 .. max - 1 : Behind(r, p) = Next1(p, max)
<1>1. Cardinality(DOMAIN r.slots) = max
  <2>1. DOMAIN r.slots = 0 .. max - 1
    BY DEF RingTyped
  <2>2. Cardinality(0 .. max - 1) = max
    BY FS_Interval
  <2> QED BY <2>1, <2>2
<1>2. ASSUME NEW p \in 0 .. max - 1 PROVE Behind(r, p) = Next1(p, max)
  <2>1. (p + 1) % max = IF p + 1 < max THEN p + 1 ELSE p + 1 - max
    BY Wraps
  <2> QED BY <1>1, <2>1 DEF Behind, Next1
<1> QED BY <1>1, <1>2

LEMMA HoldsIsFilled ==
  ASSUME NEW E, NEW max \in Nat, max > 0, NEW r, RingTyped(r, max, E)
  PROVE  Holds(r) <=> Filled(r, max)
<1>1. /\ r.head \in Nat /\ r.head < max /\ r.tail \in Nat /\ r.tail < max
      /\ Len(r.pending) \in Nat /\ DOMAIN r.pending = 1 .. Len(r.pending)
      /\ Cardinality(DOMAIN r.slots) = max
  BY Places, Fields
<1>2. /\ (r.head - r.tail + max) % max = Used(r.head, r.tail, max)
      /\ Used(r.head, r.tail, max) \in Nat /\ Used(r.head, r.tail, max) < max
  BY <1>1, UsedIs
<1>3. ASSUME NEW x \in 1 .. Len(r.pending), Len(r.pending) = Used(r.head, r.tail, max)
      PROVE  (r.tail + x - 1) % max = Spot(r.tail, x, max)
  <2>1. x \in Nat /\ x >= 1 /\ x <= max
    BY <1>1, <1>2, <1>3
  <2> QED BY <1>1, <2>1, SpotIs
<1>4. CASE Len(r.pending) = Used(r.head, r.tail, max)
  BY <1>1, <1>2, <1>3, <1>4 DEF Holds, Filled
<1>5. CASE Len(r.pending) # Used(r.head, r.tail, max)
  BY <1>1, <1>2, <1>5 DEF Holds, Filled
<1> QED BY <1>4, <1>5

(* There is room while fewer than max - 1 are pending.                     *)
LEMMA RoomIsLeft ==
  ASSUME NEW E, NEW max \in Nat, max > 0, NEW r, RingTyped(r, max, E), Filled(r, max)
  PROVE  Room(r) <=> Len(r.pending) < max - 1
<1>1. r.head \in Nat /\ r.head < max /\ r.tail \in Nat /\ r.tail < max
  BY Fields
<1>2. Behind(r, r.head) = Next1(r.head, max)
  BY <1>1, Places
<1>3. Len(r.pending) = Used(r.head, r.tail, max)
  BY DEF Filled
<1>4. ASSUME NEW h \in Nat, h < max, NEW t \in Nat, t < max
      PROVE  Next1(h, max) # t <=> Used(h, t, max) < max - 1
  BY <1>4 DEF Used, Next1
<1> QED BY <1>1, <1>2, <1>3, <1>4 DEF Room

(* What is put in a ring comes behind what was there.                      *)
LEMMA PutBehind ==
  ASSUME NEW E, NEW max \in Nat, max > 0, NEW r, RingTyped(r, max, E), Filled(r, max), NEW e \in E
  PROVE  /\ RingTyped(Push(r, e), max, E) /\ Filled(Push(r, e), max)
         /\ Push(r, e).pending = IF Len(r.pending) < max - 1 THEN Append(r.pending, e) ELSE r.pending
<1> DEFINE h == r.head
           t == r.tail
           n == Len(r.pending)
           S == [r.slots EXCEPT ![h] = << e >>]
           P == Append(r.pending, e)
           s == [slots |-> S, head |-> Behind(r, h), tail |-> t, pending |-> P]
<1>1. /\ h \in Nat /\ h < max /\ t \in Nat /\ t < max /\ r.pending \in Seq(E)
      /\ r.slots \in [0 .. max - 1 -> Seq(E)] /\ n \in Nat
  BY Fields
<1>2. Behind(r, h) = Next1(h, max) /\ Next1(h, max) \in 0 .. max - 1
  BY <1>1, Places DEF Next1
<1>3. CASE ~Room(r)
  <2>1. Push(r, e) = r
    BY <1>3 DEF Push
  <2> QED BY <1>3, <2>1, RoomIsLeft
<1>4. CASE Room(r)
  <2>1. Push(r, e) = s
    BY <1>4 DEF Push
  <2>2. s.slots = S /\ s.head = Next1(h, max) /\ s.tail = t /\ s.pending = P
    BY <1>2
  <2>3. n < max - 1 /\ n = Used(h, t, max)
    BY <1>4, RoomIsLeft DEF Filled
  <2>4. /\ P \in Seq(E) /\ Len(P) = n + 1 /\ P[n + 1] = e
        /\ \A x \in 1 .. n : P[x] = r.pending[x]
    BY <1>1
  <2>5. h \in 0 .. max - 1 /\ t \in 0 .. max - 1 /\ << e >> \in Seq(E)
    BY <1>1
  <2>6. S \in [0 .. max - 1 -> Seq(E)] /\ S[h] = << e >>
        /\ \A p \in 0 .. max - 1 : p # h => S[p] = r.slots[p]
    BY <1>1, <2>5
  <2>7. RingTyped(s, max, E)
    <3> HIDE DEF S, P, h, t
    <3> QED BY <1>2, <2>4, <2>5, <2>6 DEF RingTyped
  <2>8. /\ Used(Next1(h, max), t, max) = n + 1 /\ Spot(t, n + 1, max) = h
        /\ \A x \in Nat : x >= 1 /\ x <= n => Spot(t, x, max) # h
    <3> HIDE DEF h, t, n
    <3>1. Used(h, t, max) < max - 1
      BY <2>3
    <3>2. /\ Used(Next1(h, max), t, max) = Used(h, t, max) + 1
          /\ Spot(t, Used(h, t, max) + 1, max) = h
          /\ \A x \in Nat : x >= 1 /\ x <= Used(h, t, max) => Spot(t, x, max) # h
      BY <1>1, <3>1, OneMore
    <3> QED BY <2>3, <3>2
  <2>9. ASSUME NEW x \in 1 .. n + 1 PROVE S[Spot(t, x, max)] = << P[x] >>
    <3>1. CASE x = n + 1
      BY <2>4, <2>6, <2>8, <3>1
    <3>2. CASE x \in 1 .. n
      <4>1. x \in Nat /\ x >= 1 /\ x <= n /\ x <= max
        BY <1>1, <2>3, <3>2
      <4>2. Spot(t, x, max) # h /\ Spot(t, x, max) \in 0 .. max - 1
        BY <1>1, <2>8, <4>1, SpotIs
      <4>3. r.slots[Spot(t, x, max)] = << r.pending[x] >>
        BY <3>2 DEF Filled
      <4> QED BY <2>4, <2>6, <3>2, <4>2, <4>3
    <3> HIDE DEF S, P, n, t
    <3> QED BY <1>1, <3>1, <3>2
  <2>10. Filled(s, max)
    <3> HIDE DEF S, P, n, t, s
    <3> QED BY <2>2, <2>4, <2>8, <2>9 DEF Filled
  <2> HIDE DEF s
  <2> QED BY <2>1, <2>2, <2>3, <2>7, <2>10
<1> QED BY <1>3, <1>4

(* What is taken was put there first.                                      *)
LEMMA TakenFirst ==
  ASSUME NEW E, NEW max \in Nat, max > 0, NEW r, RingTyped(r, max, E), Filled(r, max), r.head # r.tail
  PROVE  /\ RingTyped(Pop(r), max, E) /\ Filled(Pop(r), max)
         /\ r.pending # << >> /\ r.slots[r.tail] = << r.pending[1] >> /\ Pop(r).pending = Tail(r.pending)
<1> DEFINE h == r.head
           t == r.tail
           n == Len(r.pending)
           S == [r.slots EXCEPT ![t] = << >>]
           P == Tail(r.pending)
           s == [slots |-> S, head |-> h, tail |-> Behind(r, t), pending |-> P]
<1>1. /\ h \in Nat /\ h < max /\ t \in Nat /\ t < max /\ r.pending \in Seq(E) /\ h # t
      /\ r.slots \in [0 .. max - 1 -> Seq(E)] /\ n \in Nat
  BY Fields
<1>2. Behind(r, t) = Next1(t, max) /\ Next1(t, max) \in 0 .. max - 1
  <2>1. t \in 0 .. max - 1
    BY <1>1
  <2> HIDE DEF t
  <2>2. Behind(r, t) = Next1(t, max)
    BY <2>1, Places
  <2>3. Next1(t, max) \in 0 .. max - 1
    BY <1>1 DEF Next1
  <2> QED BY <2>2, <2>3
<1>3. /\ n >= 1 /\ n = Used(h, t, max) /\ n < max /\ Used(h, Next1(t, max), max) = n - 1
      /\ Spot(t, 1, max) = t
      /\ \A x \in Nat : x >= 1 /\ x <= n - 1 =>
           Spot(Next1(t, max), x, max) = Spot(t, x + 1, max) /\ Spot(t, x + 1, max) # t
  <2>1. n = Used(h, t, max)
    BY DEF Filled
  <2> HIDE DEF h, t
  <2> QED BY <1>1, <2>1, OneFewer, UsedIs
<1>4. r.slots[t] = << r.pending[1] >>
  <2>1. r.slots[Spot(t, 1, max)] = << r.pending[1] >>
    BY <1>1, <1>3 DEF Filled
  <2> QED BY <1>3, <2>1
<1>5. r.pending # << >>
  BY <1>1, <1>3
<1>6. P \in Seq(E) /\ Len(P) = n - 1 /\ \A x \in 1 .. n - 1 : P[x] = r.pending[x + 1]
  BY <1>1, <1>5
<1>7. /\ S \in [0 .. max - 1 -> Seq(E)] /\ \A p \in 0 .. max - 1 : p # t => S[p] = r.slots[p]
      /\ h \in 0 .. max - 1
  BY <1>1
<1>8. s.slots = S /\ s.head = h /\ s.tail = Next1(t, max) /\ s.pending = P /\ Pop(r) = s
  BY <1>2 DEF Pop
<1>9. RingTyped(s, max, E)
  <2> HIDE DEF S, P, h, t
  <2> QED BY <1>2, <1>6, <1>7 DEF RingTyped
<1>10. ASSUME NEW x \in 1 .. n - 1 PROVE S[Spot(Next1(t, max), x, max)] = << P[x] >>
  <2>1. x \in Nat /\ x >= 1 /\ x <= n - 1 /\ x + 1 \in Nat /\ x + 1 >= 1 /\ x + 1 <= max
        /\ x + 1 \in 1 .. n
    BY <1>1, <1>3
  <2>2. /\ Spot(Next1(t, max), x, max) = Spot(t, x + 1, max) /\ Spot(t, x + 1, max) # t
        /\ Spot(t, x + 1, max) \in 0 .. max - 1
    BY <1>1, <1>3, <2>1, SpotIs
  <2>3. r.slots[Spot(t, x + 1, max)] = << r.pending[x + 1] >>
    BY <2>1 DEF Filled
  <2> HIDE DEF S, P
  <2> QED BY <1>6, <1>7, <2>2, <2>3
<1>11. Filled(s, max)
  <2> HIDE DEF S, P, n, t, h, s
  <2> QED BY <1>3, <1>6, <1>8, <1>10 DEF Filled
<1> HIDE DEF s
<1> QED BY <1>4, <1>5, <1>8, <1>9, <1>11

LEMMA Flushed ==
  ASSUME NEW E, NEW max \in Nat, max > 0, NEW r, RingTyped(r, max, E)
  PROVE  RingTyped(Flush(r), max, E) /\ Filled(Flush(r), max) /\ Flush(r).pending = << >>
<1>1. /\ Flush(r) = [slots |-> [p \in 0 .. max - 1 |-> << >>], head |-> r.head, tail |-> r.head,
                     pending |-> << >>]
      /\ r.head \in 0 .. max - 1
  BY DEF RingTyped, Flush
<1>2. << >> \in Seq(E) /\ Len(<< >>) = 0
  OBVIOUS
<1>3. Flush(r).pending = << >> /\ Flush(r).head = r.head /\ Flush(r).tail = r.head
  BY <1>1
<1>4. RingTyped(Flush(r), max, E)
  BY <1>1, <1>2 DEF RingTyped
<1> QED BY <1>1, <1>2, <1>3, <1>4 DEF Filled, Used

LEMMA RingBegins ==
  ASSUME NEW E, NEW max \in Nat, max > 0
  PROVE  RingTyped(Ring(max), max, E) /\ Filled(Ring(max), max) /\ Ring(max).pending = << >>
<1>1. << >> \in Seq(E) /\ Len(<< >>) = 0 /\ 0 \in 0 .. max - 1
  OBVIOUS
<1>2. Ring(max).pending = << >> /\ Ring(max).head = 0 /\ Ring(max).tail = 0
  BY DEF Ring
<1>3. RingTyped(Ring(max), max, E)
  BY <1>1 DEF Ring, RingTyped
<1> QED BY <1>1, <1>2, <1>3 DEF Filled, Used

-----------------------------------------------------------------------------
(* THE KEYBOARD                                                            *)

(* A code is the last byte of its key, a prefix may come before it, but    *)
(* never before the lock's.                                                *)
Lasts == {"shift", "ctrl", "alt", "caps", "a", "left"}
LastOf(k) == Codes[k][Len(Codes[k])]

LEMMA CodeIs ==
  ASSUME NEW k \in {"lshift", "rshift", "lctrl", "rctrl", "alt", "altgr", "caps", "a", "left"}
  PROVE  /\ LastOf(k) \in Lasts /\ (LastOf(k) = "caps" <=> k = "caps")
         /\ \/ Codes[k] = << LastOf(k) >>
            \/ Codes[k] = << "E0", LastOf(k) >> /\ LastOf(k) # "caps"
         /\ Codes[k] \in {<< "a" >>, << "E0", "left" >>} => LastOf(k) \notin Mods /\ LastOf(k) # "caps"
<1>1. /\ Codes["lshift"] = << "shift" >> /\ Codes["rshift"] = << "shift" >>
      /\ Codes["lctrl"] = << "ctrl" >> /\ Codes["rctrl"] = << "E0", "ctrl" >>
      /\ Codes["alt"] = << "alt" >> /\ Codes["altgr"] = << "E0", "alt" >>
      /\ Codes["caps"] = << "caps" >> /\ Codes["a"] = << "a" >> /\ Codes["left"] = << "E0", "left" >>
  BY DEF Codes
<1>2. \A c : Len(<< c >>) = 1 /\ << c >>[1] = c
  OBVIOUS
<1>3. \A b, c : Len(<< b, c >>) = 2 /\ << b, c >>[2] = c /\ << b, c >>[1] = b
  OBVIOUS
<1>4. CASE k \in {"lshift", "rshift"}
  BY <1>1, <1>2, <1>4 DEF LastOf, Lasts, Mods
<1>5. CASE k = "lctrl"
  BY <1>1, <1>2, <1>5 DEF LastOf, Lasts, Mods
<1>6. CASE k = "rctrl"
  BY <1>1, <1>3, <1>6 DEF LastOf, Lasts, Mods
<1>7. CASE k = "alt"
  BY <1>1, <1>2, <1>7 DEF LastOf, Lasts, Mods
<1>8. CASE k = "altgr"
  BY <1>1, <1>3, <1>8 DEF LastOf, Lasts, Mods
<1>9. CASE k = "caps"
  BY <1>1, <1>2, <1>9 DEF LastOf, Lasts, Mods
<1>10. CASE k = "a"
  BY <1>1, <1>2, <1>10 DEF LastOf, Lasts, Mods
<1>11. CASE k = "left"
  BY <1>1, <1>3, <1>11 DEF LastOf, Lasts, Mods
<1> QED BY <1>4, <1>5, <1>6, <1>7, <1>8, <1>9, <1>10, <1>11

LEMMA BytesAre ==
  ASSUME InputAssumption, NEW k \in Keys, NEW u \in BOOLEAN
  PROVE  \/ Bytes(k, u) = << Byte(LastOf(k), u) >>
         \/ Bytes(k, u) = << Byte("E0", u), Byte(LastOf(k), u) >> /\ LastOf(k) # "caps"
<1>1. \/ Codes[k] = << LastOf(k) >>
      \/ Codes[k] = << "E0", LastOf(k) >> /\ LastOf(k) # "caps"
  BY CodeIs DEF InputAssumption
<1>2. CASE Codes[k] = << LastOf(k) >>
  <2> DEFINE c == LastOf(k)
  <2>1. Bytes(k, u) = [x \in 1 .. 1 |-> Byte(<< c >>[x], u)]
    BY <1>2 DEF Bytes
  <2> HIDE DEF c
  <2>2. [x \in 1 .. 1 |-> Byte(<< c >>[x], u)] = << Byte(c, u) >>
    OBVIOUS
  <2> QED BY <2>1, <2>2 DEF c
<1>3. CASE Codes[k] = << "E0", LastOf(k) >> /\ LastOf(k) # "caps"
  <2> DEFINE c == LastOf(k)
  <2>1. Bytes(k, u) = [x \in 1 .. 2 |-> Byte(<< "E0", c >>[x], u)]
    BY <1>3 DEF Bytes
  <2> HIDE DEF c
  <2>2. [x \in 1 .. 2 |-> Byte(<< "E0", c >>[x], u)] = << Byte("E0", u), Byte(c, u) >>
    OBVIOUS
  <2> QED BY <1>3, <2>1, <2>2 DEF c
<1> QED BY <1>1, <1>2, <1>3

(* What is on the wire is what is left of a key's bytes; the prefix is     *)
(* remembered while its code is awaited.                                   *)
Coming(c, u) ==
  \/ wire = << Byte(c, u) >> /\ (ext = FALSE \/ c # "caps")
  \/ wire = << Byte("E0", u), Byte(c, u) >> /\ ext = FALSE /\ c # "caps"
WireIs == \/ wire = << >> /\ ext = FALSE
          \/ \E c \in Lasts, u \in BOOLEAN : Coming(c, u)
(* Modifiers and lock as they will be when it is taken.                    *)
Final == IF wire = << >> THEN flags ELSE FlagsAfter(wire[Len(wire)])
FinalCaps == IF wire = << >> THEN kbd_caps
             ELSE kbd_caps # (wire[Len(wire)].code = "caps" /\ ~wire[Len(wire)].up)
BothKnown ==
  /\ both \subseteq Mods /\ \A m \in both : down \cap Of(m) # {}
  /\ \A m \in Mods \ both : \A j, k \in down \cap Of(m) : j = k
KeyInv ==
  /\ down \subseteq Keys /\ flags \subseteq Mods /\ kbd_caps \in BOOLEAN /\ ext \in BOOLEAN /\ caps \in BOOLEAN
  /\ WireIs /\ BothKnown
  /\ \A m \in Mods \ both : m \in Final <=> down \cap Of(m) # {}
  /\ FinalCaps = caps

LEMMA KeysBegin == InputInit => KeyInv
<1> SUFFICES ASSUME InputInit PROVE KeyInv
  OBVIOUS
<1>1. WireIs /\ Final = {} /\ FinalCaps = caps
  BY DEF InputInit, WireIs, Final, FinalCaps
<1>2. BothKnown
  BY DEF InputInit, BothKnown
<1>3. down = {} /\ flags = {} /\ kbd_caps \in BOOLEAN /\ ext \in BOOLEAN /\ caps \in BOOLEAN
  BY DEF InputInit
<1> QED BY <1>1, <1>2, <1>3 DEF KeyInv

LEMMA KeysAreFew == ASSUME InputAssumption, NEW D \in SUBSET Keys PROVE IsFiniteSet(D)
<1> DEFINE S1 == {"lshift"}
           S2 == S1 \cup {"rshift"}
           S3 == S2 \cup {"lctrl"}
           S4 == S3 \cup {"rctrl"}
           S5 == S4 \cup {"alt"}
           S6 == S5 \cup {"altgr"}
           S7 == S6 \cup {"caps"}
           S8 == S7 \cup {"a"}
           S9 == S8 \cup {"left"}
<1>1. D \in SUBSET S9
  BY DEF InputAssumption
<1>2. IsFiniteSet(S1)
  BY FS_Singleton
<1> HIDE DEF S1
<1>3. IsFiniteSet(S2)
  BY <1>2, FS_AddElement
<1> HIDE DEF S2
<1>4. IsFiniteSet(S3)
  BY <1>3, FS_AddElement
<1> HIDE DEF S3
<1>5. IsFiniteSet(S4)
  BY <1>4, FS_AddElement
<1> HIDE DEF S4
<1>6. IsFiniteSet(S5)
  BY <1>5, FS_AddElement
<1> HIDE DEF S5
<1>7. IsFiniteSet(S6)
  BY <1>6, FS_AddElement
<1> HIDE DEF S6
<1>8. IsFiniteSet(S7)
  BY <1>7, FS_AddElement
<1> HIDE DEF S7
<1>9. IsFiniteSet(S8)
  BY <1>8, FS_AddElement
<1> HIDE DEF S8
<1>10. IsFiniteSet(S9)
  BY <1>9, FS_AddElement
<1> HIDE DEF S9
<1> QED BY <1>1, <1>10, FS_Subset

LEMMA TwoAreMore ==
  ASSUME NEW S, IsFiniteSet(S), NEW j \in S, NEW k \in S, j # k
  PROVE  Cardinality(S) > 1
<1> DEFINE R == S \ {j}
<1>1. IsFiniteSet(R) /\ Cardinality(R) = Cardinality(S) - 1
  BY FS_RemoveElement
<1>2. k \in R
  OBVIOUS
<1> HIDE DEF R
<1>3. Cardinality(R) # 0 /\ Cardinality(R) \in Nat
  BY <1>1, <1>2, FS_EmptySet, FS_CardinalityType
<1>4. Cardinality(S) \in Nat
  BY FS_CardinalityType
<1> QED BY <1>1, <1>3, <1>4

(* Which modifiers were held with both their keys since none was.          *)
LEMMA PairedKnown ==
  ASSUME InputAssumption, BothKnown, NEW D \in SUBSET Keys, down' = D, both' = Paired(D)
  PROVE  BothKnown'
<1>1. ASSUME NEW m \in Mods, Cardinality(D \cap Of(m)) > 1 PROVE D \cap Of(m) # {}
  BY <1>1, FS_EmptySet
<1>2. ASSUME NEW m \in Mods, NEW j \in D \cap Of(m), NEW k \in D \cap Of(m), j # k
      PROVE  Cardinality(D \cap Of(m)) > 1
  <2> DEFINE S == D \cap Of(m)
  <2>1. S \in SUBSET Keys
    OBVIOUS
  <2>2. IsFiniteSet(S)
    <3> HIDE DEF S
    <3> QED BY <2>1, KeysAreFew
  <2>3. j \in S /\ k \in S
    OBVIOUS
  <2> HIDE DEF S
  <2>4. Cardinality(S) > 1
    BY <1>2, <2>2, <2>3, TwoAreMore
  <2> QED BY <2>4 DEF S
<1>3. both' \subseteq Mods /\ \A m \in both' : D \cap Of(m) # {}
  BY <1>1 DEF Paired, BothKnown
<1>4. \A m \in Mods \ both' : \A j, k \in D \cap Of(m) : j = k
  BY <1>2 DEF Paired
<1> QED BY <1>3, <1>4 DEF BothKnown, Of

(* A key's bytes are sent: what they will make of modifiers and lock.      *)
After(F, c, u) == IF c \notin Mods THEN F ELSE IF u THEN F \ {c} ELSE F \cup {c}
LastCounts ==
  \A c, u :
    wire = << Byte(c, u) >> \/ wire = << Byte("E0", u), Byte(c, u) >> =>
      Final = After(flags, c, u) /\ FinalCaps = (kbd_caps # (c = "caps" /\ ~u))
LEMMA LastByte == LastCounts
<1> SUFFICES ASSUME NEW c, NEW u, wire = << Byte(c, u) >> \/ wire = << Byte("E0", u), Byte(c, u) >>
             PROVE  Final = After(flags, c, u) /\ FinalCaps = (kbd_caps # (c = "caps" /\ ~u))
  BY DEF LastCounts
<1>1. Byte(c, u).code = c /\ Byte(c, u).up = u
  BY DEF Byte
<1>2. wire # << >> /\ wire[Len(wire)] = Byte(c, u)
  <2> DEFINE b == Byte(c, u)
             p == Byte("E0", u)
  <2> HIDE DEF b, p
  <2>1. << b >> # << >> /\ << b >>[Len(<< b >>)] = b
    OBVIOUS
  <2>2. << p, b >> # << >> /\ << p, b >>[Len(<< p, b >>)] = b
    OBVIOUS
  <2> QED BY <2>1, <2>2 DEF b, p
<1> QED BY <1>1, <1>2 DEF Final, FinalCaps, FlagsAfter, After

LEMMA KeySent ==
  ASSUME InputAssumption, KeyInv, NEW k \in Keys, NEW u \in BOOLEAN,
         wire = << >>, wire' = Bytes(k, u), ext' = ext, flags' = flags, kbd_caps' = kbd_caps
  PROVE  WireIs' /\ Final' = After(flags, LastOf(k), u)
         /\ FinalCaps' = (kbd_caps # (LastOf(k) = "caps" /\ ~u))
<1> DEFINE c == LastOf(k)
<1>1. c \in Lasts
  BY CodeIs DEF InputAssumption
<1>2. ext = FALSE
  BY DEF KeyInv, WireIs, Coming
<1>3. \/ wire' = << Byte(c, u) >>
      \/ wire' = << Byte("E0", u), Byte(c, u) >> /\ c # "caps"
  BY BytesAre
<1> HIDE DEF c
<1>4. Coming(c, u)'
  BY <1>2, <1>3 DEF Coming
<1>5. WireIs'
  BY <1>1, <1>4 DEF WireIs
<1>6. LastCounts'
  BY LastByte, PTL
<1>7. Final' = After(flags', c, u) /\ FinalCaps' = (kbd_caps' # (c = "caps" /\ ~u))
  BY <1>3, <1>6 DEF LastCounts
<1> QED BY <1>5, <1>7 DEF c

(* Every step keeps the keyboard's part: the presses, the releases and the *)
(* bytes that are taken.                                                   *)
LEMMA OthersKeep ==
  ASSUME KeyInv, UNCHANGED keyboard
  PROVE  KeyInv'
BY DEF KeyInv, keyboard, WireIs, Coming, Final, FinalCaps, FlagsAfter, BothKnown, Of

LEMMA PressKeeps ==
  ASSUME InputAssumption, KeyInv, NEW k \in Keys, KeyDown(k)
  PROVE  KeyInv'
<1> DEFINE D == down \cup {k}
           c == LastOf(k)
<1>1. /\ wire = << >> /\ wire' = Bytes(k, FALSE) /\ down' = D /\ both' = Paired(D)
      /\ caps' = (caps # (k = "caps")) /\ ext' = ext /\ flags' = flags /\ kbd_caps' = kbd_caps
  BY DEF KeyDown
<1>2. /\ WireIs' /\ Final' = After(flags, c, FALSE) /\ FinalCaps' = (kbd_caps # (c = "caps" /\ ~FALSE))
  BY <1>1, KeySent
<1>3. D \in SUBSET Keys
  BY DEF KeyInv
<1>4. BothKnown /\ BothKnown'
  <2>1. BothKnown
    BY DEF KeyInv
  <2> HIDE DEF D
  <2> QED BY <1>1, <1>3, <2>1, PairedKnown
<1>5. FinalCaps' = caps'
  <2>1. kbd_caps = caps
    BY <1>1 DEF KeyInv, FinalCaps
  <2>2. c = "caps" <=> k = "caps"
    BY CodeIs DEF InputAssumption
  <2> HIDE DEF c
  <2> QED BY <1>1, <1>2, <2>1, <2>2
<1>6. ASSUME NEW m \in Mods \ both' PROVE m \in Final' <=> D \cap Of(m) # {}
  <2>1. CASE m = c
    BY <1>2, <2>1 DEF After, Of, LastOf
  <2>2. CASE m # c
    <3>1. D \cap Of(m) = down \cap Of(m)
      BY <2>2 DEF Of, LastOf
    <3>2. m \notin both
      BY <1>1, <1>4, <1>6, <3>1 DEF Paired, BothKnown
    <3>3. m \in Final' <=> m \in Final
      BY <1>1, <1>2, <2>2 DEF After, Final
    <3> QED BY <1>6, <3>1, <3>2, <3>3 DEF KeyInv
  <2> QED BY <2>1, <2>2
<1>7. \A m \in Mods \ both' : m \in Final' <=> down' \cap Of(m)' # {}
  BY <1>1, <1>6 DEF Of
<1>8. down' \subseteq Keys /\ flags' \subseteq Mods /\ kbd_caps' \in BOOLEAN /\ ext' \in BOOLEAN /\ caps' \in BOOLEAN
  BY <1>1, <1>3 DEF KeyInv
<1> HIDE DEF D, c
<1> QED BY <1>2, <1>4, <1>5, <1>7, <1>8 DEF KeyInv

LEMMA ReleaseKeeps ==
  ASSUME InputAssumption, KeyInv, NEW k \in Keys, KeyUp(k)
  PROVE  KeyInv'
<1> DEFINE D == down \ {k}
           c == LastOf(k)
<1>1. /\ wire = << >> /\ k \in down /\ wire' = Bytes(k, TRUE) /\ down' = D /\ both' = Paired(D)
      /\ caps' = caps /\ ext' = ext /\ flags' = flags /\ kbd_caps' = kbd_caps
  BY DEF KeyUp
<1>2. /\ WireIs' /\ Final' = After(flags, c, TRUE) /\ FinalCaps' = (kbd_caps # (c = "caps" /\ ~TRUE))
  BY <1>1, KeySent
<1>3. D \in SUBSET Keys
  BY DEF KeyInv
<1>4. BothKnown /\ BothKnown'
  <2>1. BothKnown
    BY DEF KeyInv
  <2> HIDE DEF D
  <2> QED BY <1>1, <1>3, <2>1, PairedKnown
<1>5. FinalCaps' = caps'
  <2>1. kbd_caps = caps /\ kbd_caps \in BOOLEAN
    BY <1>1 DEF KeyInv, FinalCaps
  <2> QED BY <1>1, <1>2, <2>1
<1>6. ASSUME NEW m \in Mods \ both' PROVE m \in Final' <=> D \cap Of(m) # {}
  <2>1. CASE m = c
    <3>1. D \cap Of(m) = {}
      <4>1. CASE m \in both
        BY <1>1, <1>6, <4>1 DEF Paired
      <4>2. CASE m \notin both
        BY <1>1, <1>4, <1>6, <2>1, <4>2 DEF BothKnown, Of, LastOf
      <4> QED BY <4>1, <4>2
    <3> QED BY <1>2, <2>1, <3>1, <1>6 DEF After
  <2>2. CASE m # c
    <3>1. D \cap Of(m) = down \cap Of(m)
      BY <2>2 DEF Of, LastOf
    <3>2. m \notin both
      BY <1>1, <1>4, <1>6, <3>1 DEF Paired, BothKnown
    <3>3. m \in Final' <=> m \in Final
      BY <1>1, <1>2, <2>2 DEF After, Final
    <3> QED BY <1>6, <3>1, <3>2, <3>3 DEF KeyInv
  <2> QED BY <2>1, <2>2
<1>7. \A m \in Mods \ both' : m \in Final' <=> down' \cap Of(m)' # {}
  BY <1>1, <1>6 DEF Of
<1>8. down' \subseteq Keys /\ flags' \subseteq Mods /\ kbd_caps' \in BOOLEAN /\ ext' \in BOOLEAN /\ caps' \in BOOLEAN
  BY <1>1, <1>3 DEF KeyInv
<1> HIDE DEF D, c
<1> QED BY <1>2, <1>4, <1>5, <1>7, <1>8 DEF KeyInv

LEMMA TakenKeeps ==
  ASSUME InputAssumption, KeyInv, keyboard_irq
  PROVE  KeyInv'
<1>1. wire # << >> /\ wire' = Tail(wire) /\ down' = down /\ both' = both /\ caps' = caps
  BY DEF keyboard_irq
<1>2. PICK c \in Lasts, u \in BOOLEAN : Coming(c, u)
  BY <1>1 DEF KeyInv, WireIs
<1>3. Final = After(flags, c, u) /\ FinalCaps = (kbd_caps # (c = "caps" /\ ~u))
  BY <1>2, LastByte DEF LastCounts, Coming
<1>4. /\ WireIs' /\ Final' = Final /\ FinalCaps' = FinalCaps
      /\ flags' \subseteq Mods /\ kbd_caps' \in BOOLEAN /\ ext' \in BOOLEAN
  <2>1. CASE wire = << Byte(c, u) >> /\ (ext = FALSE \/ c # "caps")
    <3>1. Head(wire) = Byte(c, u) /\ wire' = << >> /\ Byte(c, u).code = c /\ Byte(c, u).up = u /\ c # "E0"
      BY <1>1, <2>1 DEF Byte, Lasts
    <3>2. /\ ext' = FALSE /\ flags' = After(flags, c, u)
          /\ kbd_caps' = (kbd_caps # (c = "caps" /\ ~u /\ ~ext))
      BY <3>1 DEF keyboard_irq, ExtAfter, FlagsAfter, After
    <3>3. kbd_caps' = (kbd_caps # (c = "caps" /\ ~u))
      BY <2>1, <3>2
    <3>4. WireIs' /\ Final' = flags' /\ FinalCaps' = kbd_caps'
      BY <3>1, <3>2 DEF WireIs, Final, FinalCaps
    <3>5. flags' \subseteq Mods
      BY <3>2 DEF KeyInv, After
    <3> QED BY <1>3, <3>2, <3>3, <3>4, <3>5
  <2>2. CASE wire = << Byte("E0", u), Byte(c, u) >> /\ ext = FALSE /\ c # "caps"
    <3>1. Head(wire) = Byte("E0", u) /\ wire' = << Byte(c, u) >> /\ Byte("E0", u).code = "E0"
      BY <1>1, <2>2 DEF Byte
    <3>2. ext' = TRUE /\ flags' = flags /\ kbd_caps' = kbd_caps
      BY <3>1 DEF keyboard_irq
    <3>3. Coming(c, u)'
      BY <2>2, <3>1 DEF Coming
    <3>4. WireIs'
      BY <3>3 DEF WireIs
    <3>5. LastCounts'
      BY LastByte, PTL
    <3>6. Final' = After(flags', c, u) /\ FinalCaps' = (kbd_caps' # (c = "caps" /\ ~u))
      BY <3>1, <3>5 DEF LastCounts
    <3> QED BY <1>3, <3>2, <3>4, <3>6 DEF KeyInv
  <2> QED BY <1>2, <2>1, <2>2 DEF Coming
<1>5. BothKnown'
  BY <1>1 DEF KeyInv, BothKnown, Of
<1>6. \A m \in Mods \ both' : m \in Final' <=> down' \cap Of(m)' # {}
  BY <1>1, <1>4 DEF KeyInv, Of
<1> QED BY <1>1, <1>4, <1>5, <1>6 DEF KeyInv

LEMMA KeysStep == ASSUME InputAssumption, KeyInv, [InputNext]_ivars PROVE KeyInv'
<1>1. \/ \E k \in Keys : KeyDown(k)
      \/ \E k \in Keys : KeyUp(k)
      \/ keyboard_irq
      \/ UNCHANGED keyboard
  BY DEF InputNext, Packet, mouse_irq, mouse_event_dequeue, mouse_event_flush, keyboard_read,
         keyboard_flush, Inject, Publish, ivars
<1> QED BY <1>1, PressKeeps, ReleaseKeeps, TakenKeeps, OthersKeep

-----------------------------------------------------------------------------
(* THE BUTTONS                                                             *)

Letters == {"a", "A"}
Events == [type : {"key", "down", "up", "move"}, buttons : SUBSET (MouseButtons \cup Mods),
           key : {"left", "a", "A", "none", "injected"}]
Click(e) == e.type \in {"down", "up"}

(* What is heard is said by the last click, and without one nothing is.    *)
LEMMA LastIsHeard ==
  ASSUME NEW es, NEW known, NEW x \in Clicks(es), Clicks(es) \subseteq Int, \A y \in Clicks(es) : y <= x
  PROVE  Heard(known, es) = es[x].buttons
<1> DEFINE C == Clicks(es)
           z == CHOOSE z \in C : \A y \in C : y <= z
<1>1. z \in C /\ \A y \in C : y <= z
  OBVIOUS
<1>2. z = x
  BY <1>1
<1> QED BY <1>2 DEF Heard

LEMMA LastClick ==
  ASSUME NEW es \in Seq(Events), Clicks(es) # {}
  PROVE  \E x \in Clicks(es) : \A y \in Clicks(es) : y <= x
<1> DEFINE n == Len(es)
           C == Clicks(es)
           S == {n - x : x \in C}
<1>1. n \in Nat /\ C \subseteq 1 .. n
  BY DEF Clicks
<1> HIDE DEF C, n
<1>2. S \subseteq Nat /\ S # {}
  BY <1>1 DEF C
<1>3. PICK a \in S : \A b \in S : a <= b
  <2> HIDE DEF S
  <2> QED BY <1>2, LeastElement
<1>4. PICK x \in C : a = n - x
  BY <1>3
<1>5. ASSUME NEW y \in C PROVE y <= x
  <2>1. n - y \in S
    OBVIOUS
  <2>2. n - x <= n - y
    BY <1>3, <1>4, <2>1
  <2> QED BY <1>1, <2>2
<1> QED BY <1>4, <1>5 DEF C

LEMMA HeardBehind ==
  ASSUME NEW es \in Seq(Events), NEW e \in Events, NEW known
  PROVE  Heard(known, Append(es, e)) = IF Click(e) THEN e.buttons ELSE Heard(known, es)
<1> DEFINE n == Len(es)
           fs == Append(es, e)
<1>1. /\ n \in Nat /\ fs \in Seq(Events) /\ DOMAIN fs = 1 .. n + 1 /\ fs[n + 1] = e
      /\ DOMAIN es = 1 .. n /\ \A x \in 1 .. n : fs[x] = es[x]
  OBVIOUS
<1>2. Clicks(es) \subseteq 1 .. n /\ Clicks(fs) \subseteq 1 .. n + 1
  BY <1>1 DEF Clicks
<1> HIDE DEF n, fs
<1>3. CASE Click(e)
  <2>1. n + 1 \in Clicks(fs)
    BY <1>1, <1>3 DEF Clicks, Click
  <2>2. \A y \in Clicks(fs) : y <= n + 1
    BY <1>1, <1>2
  <2>3. Clicks(fs) \subseteq Int
    BY <1>1, <1>2
  <2>4. Heard(known, fs) = fs[n + 1].buttons
    BY <2>1, <2>2, <2>3, LastIsHeard
  <2> QED BY <1>1, <1>3, <2>4 DEF fs
<1>4. CASE ~Click(e)
  <2>1. ASSUME NEW x \in 1 .. n + 1 PROVE x \in Clicks(fs) <=> x \in Clicks(es)
    <3>1. CASE x = n + 1
      BY <1>1, <1>2, <1>4, <3>1 DEF Clicks, Click
    <3>2. CASE x \in 1 .. n
      BY <1>1, <3>2 DEF Clicks
    <3> QED BY <1>1, <3>1, <3>2
  <2>2. Clicks(fs) = Clicks(es)
    <3>1. Clicks(es) \subseteq 1 .. n + 1
      BY <1>1, <1>2
    <3> QED BY <1>2, <2>1, <3>1
  <2>3. CASE Clicks(es) = {}
    <3>1. Heard(known, es) = known /\ Heard(known, fs) = known
      BY <2>2, <2>3 DEF Heard
    <3> QED BY <1>4, <3>1 DEF fs
  <2>4. CASE Clicks(es) # {}
    <3>1. PICK x \in Clicks(es) : \A y \in Clicks(es) : y <= x
      BY <2>4, LastClick
    <3>2. Clicks(es) \subseteq Int
      BY <1>1, <1>2
    <3>3. Heard(known, es) = es[x].buttons /\ Heard(known, fs) = fs[x].buttons
      BY <2>2, <3>1, <3>2, LastIsHeard
    <3>4. fs[x] = es[x]
      BY <1>1, <1>2, <3>1
    <3> QED BY <1>4, <3>3, <3>4 DEF fs
  <2> QED BY <2>3, <2>4
<1> QED BY <1>3, <1>4

LEMMA HeardFirst ==
  ASSUME NEW es \in Seq(Events), es # << >>, NEW known
  PROVE  Heard(IF Click(es[1]) THEN es[1].buttons ELSE known, Tail(es)) = Heard(known, es)
<1> DEFINE n == Len(es)
           fs == Tail(es)
           first == IF Click(es[1]) THEN es[1].buttons ELSE known
<1>1. /\ n \in Nat /\ n >= 1 /\ fs \in Seq(Events) /\ DOMAIN fs = 1 .. n - 1
      /\ DOMAIN es = 1 .. n /\ \A x \in 1 .. n - 1 : fs[x] = es[x + 1]
  OBVIOUS
<1>2. Clicks(es) \subseteq 1 .. n /\ Clicks(fs) \subseteq 1 .. n - 1
  BY <1>1 DEF Clicks
<1>3. Clicks(es) \subseteq Int /\ Clicks(fs) \subseteq Int
  BY <1>1, <1>2
<1> HIDE DEF n, fs, first
<1>4. ASSUME NEW x \in 1 .. n - 1 PROVE x \in Clicks(fs) <=> x + 1 \in Clicks(es)
  <2>1. x + 1 \in 1 .. n /\ fs[x] = es[x + 1]
    BY <1>1
  <2> QED BY <1>1, <2>1 DEF Clicks
<1>5. CASE Clicks(fs) = {}
  <2>1. Heard(first, fs) = first
    BY <1>5 DEF Heard
  <2>2. ASSUME NEW y \in Clicks(es) PROVE y = 1
    <3>1. CASE y = 1
      BY <3>1
    <3>2. CASE y # 1
      <4>1. y - 1 \in 1 .. n - 1 /\ y - 1 + 1 = y
        BY <1>1, <1>2, <3>2
      <4> QED BY <1>4, <1>5, <4>1
    <3> QED BY <3>1, <3>2
  <2>3. CASE Click(es[1])
    <3>1. 1 \in Clicks(es)
      BY <1>1, <2>3 DEF Clicks, Click
    <3>2. Heard(known, es) = es[1].buttons
      BY <1>3, <2>2, <3>1, LastIsHeard
    <3> QED BY <2>1, <2>3, <3>2 DEF first, fs
  <2>4. CASE ~Click(es[1])
    <3>1. Clicks(es) = {}
      BY <2>2, <2>4 DEF Clicks, Click
    <3> QED BY <2>1, <2>4, <3>1 DEF Heard, first, fs
  <2> QED BY <2>3, <2>4
<1>6. CASE Clicks(fs) # {}
  <2>1. PICK x \in Clicks(fs) : \A y \in Clicks(fs) : y <= x
    BY <1>1, <1>6, LastClick
  <2>2. x \in 1 .. n - 1 /\ x + 1 \in Clicks(es)
    BY <1>2, <1>4
  <2>3. ASSUME NEW y \in Clicks(es) PROVE y <= x + 1
    <3>1. CASE y = 1
      BY <1>1, <2>2, <3>1
    <3>2. CASE y # 1
      <4>1. y - 1 \in 1 .. n - 1 /\ y - 1 + 1 = y
        BY <1>1, <1>2, <3>2
      <4>2. y - 1 <= x
        BY <1>4, <2>1, <4>1
      <4> QED BY <1>1, <2>2, <4>1, <4>2
    <3> QED BY <3>1, <3>2
  <2>4. Heard(first, fs) = fs[x].buttons
    BY <1>3, <2>1, LastIsHeard
  <2>5. Heard(known, es) = es[x + 1].buttons
    <3> DEFINE z == x + 1
    <3>1. z \in Clicks(es) /\ \A y \in Clicks(es) : y <= z
      BY <2>2, <2>3
    <3> HIDE DEF z
    <3>2. Heard(known, es) = es[z].buttons
      BY <1>3, <3>1, LastIsHeard
    <3> QED BY <3>2 DEF z
  <2> QED BY <1>1, <2>2, <2>4, <2>5 DEF first, fs
<1> QED BY <1>5, <1>6

-----------------------------------------------------------------------------
(* THE RINGS AND THE MOUSE                                                 *)

Injected == Event("key", {}, "injected")
(* Both rings are queues, also while a program's event is written and not  *)
(* yet published: it lies in the first place that is free.                 *)
RingsInv ==
  /\ RingTyped(kbd, KBD_BUF, Letters) /\ Filled(kbd, KBD_BUF)
  /\ RingTyped(ev, EV_QUEUE_MAX, Events) /\ Filled(ev, EV_QUEUE_MAX)
  /\ inject # << >> => /\ inject = << Behind(ev, ev.head) >> /\ Room(ev)
                       /\ ev.slots[ev.head] = << Injected >>
(* A packet that is begun is as the hands were when it was sent.           *)
Half(B, far, dx) ==
  LET b == [buttons |-> B, far |-> far]
  IN  /\ hand = B /\ valid = ~far
      /\ \/ mouse_pkt = << >> /\ mwire = << b, [by |-> dx], [by |-> 0] >>
         \/ mouse_pkt = << b >> /\ mwire = << [by |-> dx], [by |-> 0] >>
         \/ mouse_pkt = << b, [by |-> dx] >> /\ mwire = << [by |-> 0] >>
PacketIs == \/ mouse_pkt = << >> /\ mwire = << >> /\ (valid => mouse_buttons = hand)
            \/ \E B \in SUBSET MouseButtons, far \in BOOLEAN, dx \in Int : Half(B, far, dx)
MouseInv ==
  /\ hand \subseteq MouseButtons /\ mouse_buttons \subseteq MouseButtons /\ mouse_x \in 0 .. Width - 1
  /\ PacketIs
ToldInv == ~lost => Heard(clicked, ev.pending) = mouse_buttons
DeviceInv == KeyInv /\ RingsInv /\ MouseInv /\ ToldInv

LEMMA InjectedIs == Injected \in Events /\ ~Click(Injected)
BY DEF Injected, Event, Events, Click

LEMMA EventIs ==
  ASSUME NEW type \in {"key", "down", "up", "move"}, NEW B \in SUBSET (MouseButtons \cup Mods),
         NEW k \in {"left", "a", "A", "none", "injected"}
  PROVE  /\ Event(type, B, k) \in Events /\ Event(type, B, k).type = type /\ Event(type, B, k).buttons = B
BY DEF Event, Events

(* An event that is no click changes nothing for who counts them, found it *)
(* room or not.                                                            *)
LEMMA OtherEvent ==
  ASSUME InputAssumption, NEW r, RingTyped(r, EV_QUEUE_MAX, Events), Filled(r, EV_QUEUE_MAX),
         NEW e \in Events, ~Click(e), NEW known
  PROVE  /\ RingTyped(Push(r, e), EV_QUEUE_MAX, Events) /\ Filled(Push(r, e), EV_QUEUE_MAX)
         /\ Heard(known, Push(r, e).pending) = Heard(known, r.pending)
<1>1. EV_QUEUE_MAX \in Nat /\ EV_QUEUE_MAX > 0
  BY DEF InputAssumption
<1>2. /\ RingTyped(Push(r, e), EV_QUEUE_MAX, Events) /\ Filled(Push(r, e), EV_QUEUE_MAX)
      /\ Push(r, e).pending = IF Len(r.pending) < EV_QUEUE_MAX - 1 THEN Append(r.pending, e) ELSE r.pending
  BY <1>1, PutBehind
<1>3. r.pending \in Seq(Events)
  BY <1>1, Fields
<1>4. Heard(known, Append(r.pending, e)) = Heard(known, r.pending)
  BY <1>3, HeardBehind
<1> QED BY <1>2, <1>4

(* A click that finds room is what is heard.                               *)
LEMMA ClickHeard ==
  ASSUME InputAssumption, NEW r, RingTyped(r, EV_QUEUE_MAX, Events), Filled(r, EV_QUEUE_MAX),
         NEW e \in Events, Click(e)
  PROVE  /\ RingTyped(Push(r, e), EV_QUEUE_MAX, Events) /\ Filled(Push(r, e), EV_QUEUE_MAX)
         /\ Len(r.pending) < EV_QUEUE_MAX - 1 =>
              /\ Len(Push(r, e).pending) = Len(r.pending) + 1
              /\ \A known : Heard(known, Push(r, e).pending) = e.buttons
<1>1. EV_QUEUE_MAX \in Nat /\ EV_QUEUE_MAX > 0
  BY DEF InputAssumption
<1>2. /\ RingTyped(Push(r, e), EV_QUEUE_MAX, Events) /\ Filled(Push(r, e), EV_QUEUE_MAX)
      /\ Push(r, e).pending = IF Len(r.pending) < EV_QUEUE_MAX - 1 THEN Append(r.pending, e) ELSE r.pending
  BY <1>1, PutBehind
<1>3. r.pending \in Seq(Events)
  BY <1>1, Fields
<1>4. \A known : Heard(known, Append(r.pending, e)) = e.buttons
  BY <1>3, HeardBehind
<1>5. Len(Append(r.pending, e)) = Len(r.pending) + 1
  BY <1>3
<1> QED BY <1>2, <1>4, <1>5

LEMMA DevicesBegin == InputAssumption /\ InputInit => DeviceInv
<1> SUFFICES ASSUME InputAssumption, InputInit PROVE DeviceInv
  OBVIOUS
<1>1. RingsInv /\ ev.pending = << >>
  <2>1. KBD_BUF \in Nat /\ KBD_BUF > 0 /\ EV_QUEUE_MAX \in Nat /\ EV_QUEUE_MAX > 0
    BY DEF InputAssumption
  <2>2. kbd = Ring(KBD_BUF) /\ ev = Ring(EV_QUEUE_MAX) /\ inject = << >>
    BY DEF InputInit
  <2> QED BY <2>1, <2>2, RingBegins DEF RingsInv
<1>2. MouseInv
  <2>1. Width \div 2 \in 0 .. Width - 1
    BY DEF InputAssumption
  <2>2. /\ hand = {} /\ mouse_buttons = {} /\ mouse_x = Width \div 2 /\ mouse_pkt = << >> /\ mwire = << >>
    BY DEF InputInit
  <2> QED BY <2>1, <2>2 DEF MouseInv, PacketIs
<1>3. ToldInv
  <2>1. clicked = {} /\ mouse_buttons = {}
    BY DEF InputInit
  <2>2. Clicks(<< >>) = {}
    BY DEF Clicks
  <2> QED BY <1>1, <2>1, <2>2 DEF ToldInv, Heard
<1> QED BY <1>1, <1>2, <1>3, KeysBegin DEF DeviceInv

(* What DevicesTold says follows.                                          *)
LEMMA DeviceInvTold == ASSUME InputAssumption, DeviceInv PROVE DevicesTold
<1>1. KBD_BUF \in Nat /\ KBD_BUF > 0 /\ EV_QUEUE_MAX \in Nat /\ EV_QUEUE_MAX > 0
  BY DEF InputAssumption
<1>2. RingsAreQueues
  BY <1>1, HoldsIsFilled DEF DeviceInv, RingsInv, RingsAreQueues
<1>3. InputTypeOK
  <2>1. kbd.head \in 0 .. KBD_BUF - 1 /\ ev.head \in 0 .. EV_QUEUE_MAX - 1
    BY DEF DeviceInv, RingsInv, RingTyped
  <2>2. Len(mouse_pkt) < 3
    <3>1. Len(<< >>) < 3
      OBVIOUS
    <3>2. \A b : Len(<< b >>) < 3
      OBVIOUS
    <3>3. \A b, c : Len(<< b, c >>) < 3
      OBVIOUS
    <3> QED BY <3>1, <3>2, <3>3 DEF DeviceInv, MouseInv, PacketIs, Half
  <2> QED BY <2>1, <2>2 DEF DeviceInv, KeyInv, MouseInv, InputTypeOK
<1>4. ModifiersTrue /\ CapsFollows
  BY DEF DeviceInv, KeyInv, ModifiersTrue, CapsFollows, Final, FinalCaps
<1>5. ButtonsTold
  <2>1. ASSUME mwire = << >>, valid PROVE mouse_buttons = hand
    <3>1. \A b : << b >> # << >>
      OBVIOUS
    <3>2. \A b, c : << b, c >> # << >>
      OBVIOUS
    <3>3. \A b, c, d : << b, c, d >> # << >>
      OBVIOUS
    <3> QED BY <2>1, <3>1, <3>2, <3>3 DEF DeviceInv, MouseInv, PacketIs, Half
  <2> QED BY <2>1 DEF DeviceInv, ToldInv, ButtonsTold
<1> QED BY <1>2, <1>3, <1>4, <1>5 DEF DevicesTold

(* The keyboard's events are no clicks.                                    *)
LEMMA KeyEventsKeep ==
  ASSUME InputAssumption, DeviceInv, inject = << >>, NEW code \in Lasts, KeyEvents(code), code \in {"a", "left"},
         inject' = inject, mouse_buttons' = mouse_buttons, clicked' = clicked, lost' = lost
  PROVE  RingsInv' /\ ToldInv'
<1>1. /\ RingTyped(kbd, KBD_BUF, Letters) /\ Filled(kbd, KBD_BUF)
      /\ RingTyped(ev, EV_QUEUE_MAX, Events) /\ Filled(ev, EV_QUEUE_MAX) /\ flags \in SUBSET (MouseButtons \cup Mods)
      /\ KBD_BUF \in Nat /\ KBD_BUF > 0
  BY DEF DeviceInv, RingsInv, KeyInv, InputAssumption
<1>2. PICK k \in {"left", "a", "A"} :
        /\ ev' = Push(ev, Event("key", flags, k))
        /\ kbd' = kbd \/ (kbd' = Push(kbd, k) /\ k \in Letters)
  BY DEF KeyEvents, Letters
<1>3. Event("key", flags, k) \in Events /\ ~Click(Event("key", flags, k))
  BY <1>1, EventIs DEF Click
<1>4. /\ RingTyped(ev', EV_QUEUE_MAX, Events) /\ Filled(ev', EV_QUEUE_MAX)
      /\ Heard(clicked, ev'.pending) = Heard(clicked, ev.pending)
  BY <1>1, <1>2, <1>3, OtherEvent
<1>5. RingTyped(kbd', KBD_BUF, Letters) /\ Filled(kbd', KBD_BUF)
  BY <1>1, <1>2, PutBehind
<1>6. RingsInv'
  BY <1>4, <1>5 DEF RingsInv, RingTyped, Filled
<1>7. ToldInv'
  BY <1>4 DEF DeviceInv, ToldInv
<1> QED BY <1>6, <1>7

LEMMA KeyTakenKeeps ==
  ASSUME InputAssumption, Interrupted = FALSE, DeviceInv, keyboard_irq
  PROVE  RingsInv' /\ MouseInv' /\ ToldInv'
<1>1. /\ inject = << >> /\ wire # << >> /\ inject' = inject /\ UNCHANGED mouse /\ clicked' = clicked
  BY DEF keyboard_irq, IrqOn
<1>2. MouseInv'
  BY <1>1 DEF DeviceInv, MouseInv, PacketIs, Half, mouse
<1>3. ASSUME UNCHANGED << kbd, ev, lost >> PROVE RingsInv' /\ ToldInv'
  BY <1>1, <1>3 DEF DeviceInv, RingsInv, ToldInv, RingTyped, Filled, Room, Behind, mouse
<1>4. lost' = lost
  BY DEF keyboard_irq
<1>5. PICK c \in Lasts, u \in BOOLEAN : Coming(c, u)
  BY <1>1 DEF DeviceInv, KeyInv, WireIs
<1>6. CASE UNCHANGED << kbd, ev >>
  BY <1>2, <1>3, <1>4, <1>6
<1>7. CASE ~UNCHANGED << kbd, ev >>
  <2>1. Head(wire).code # "E0" /\ Head(wire).code \notin Mods \cup {"caps"} /\ KeyEvents(Head(wire).code)
    BY <1>7 DEF keyboard_irq
  <2>2. Head(wire) \in {Byte("E0", u), Byte(c, u)}
    BY <1>5 DEF Coming
  <2>3. Head(wire).code = c
    BY <2>1, <2>2 DEF Byte
  <2>4. c \in {"a", "left"} /\ KeyEvents(c)
    BY <2>1, <2>3 DEF Lasts, Mods
  <2>5. mouse_buttons' = mouse_buttons
    BY <1>1 DEF mouse
  <2>6. RingsInv' /\ ToldInv'
    BY <1>1, <1>4, <2>4, <2>5, KeyEventsKeep
  <2> QED BY <1>2, <2>6
<1> QED BY <1>6, <1>7

LEMMA PacketKeeps ==
  ASSUME InputAssumption, DeviceInv, NEW B \in SUBSET MouseButtons, NEW far \in BOOLEAN, NEW dx \in Steps,
         Packet(B, far, dx)
  PROVE  RingsInv' /\ MouseInv' /\ ToldInv'
<1>1. /\ mwire = << >> /\ hand' = B /\ valid' = ~far
      /\ mwire' = << [buttons |-> B, far |-> far], [by |-> dx], [by |-> 0] >>
      /\ UNCHANGED << mouse_pkt, mouse_x, mouse_buttons, kbd, ev, inject, clicked, lost >>
  BY DEF Packet
<1>2. mouse_pkt = << >>
  <2>1. \A b : << b >> # << >>
    OBVIOUS
  <2>2. \A b, c : << b, c >> # << >>
    OBVIOUS
  <2>3. \A b, c, d : << b, c, d >> # << >>
    OBVIOUS
  <2> QED BY <1>1, <2>1, <2>2, <2>3 DEF DeviceInv, MouseInv, PacketIs, Half
<1>3. dx \in Int
  BY DEF InputAssumption
<1>4. Half(B, far, dx)'
  BY <1>1, <1>2 DEF Half
<1>5. PacketIs'
  BY <1>3, <1>4 DEF PacketIs
<1>6. MouseInv'
  BY <1>1, <1>5 DEF DeviceInv, MouseInv
<1>7. RingsInv' /\ ToldInv'
  BY <1>1 DEF DeviceInv, RingsInv, ToldInv, RingTyped, Filled, Room, Behind
<1> QED BY <1>6, <1>7

(* How many events the buttons make.                                       *)
LEMMA ChangesAre ==
  ASSUME NEW B
  PROVE  /\ B \ mouse_buttons # {} /\ mouse_buttons \ B # {} => Changes(B) = 2
         /\ B \ mouse_buttons # {} /\ mouse_buttons \ B = {} => Changes(B) = 1
         /\ B \ mouse_buttons = {} /\ mouse_buttons \ B # {} => Changes(B) = 1
<1> DEFINE P == B \ mouse_buttons
           R == mouse_buttons \ B
           C == {S \in {P, R} : S # {}}
<1>1. P # {} /\ R # {} => P # R
  OBVIOUS
<1>2. Changes(B) = Cardinality(C)
  BY DEF Changes
<1> HIDE DEF P, R
<1>3. P # {} /\ R = {} => C = {P}
  OBVIOUS
<1>4. P = {} /\ R # {} => C = {R}
  OBVIOUS
<1>5. P # {} /\ R # {} => C = {P} \cup {R} /\ R \notin {P}
  BY <1>1
<1>6. \A S : IsFiniteSet({S}) /\ Cardinality({S}) = 1
  BY FS_Singleton
<1>7. ASSUME R \notin {P} PROVE Cardinality({P} \cup {R}) = 2
  <2> DEFINE D == {P}
  <2>1. IsFiniteSet(D) /\ Cardinality(D) = 1 /\ R \notin D
    BY <1>6, <1>7
  <2> HIDE DEF D
  <2>2. Cardinality(D \cup {R}) = 1 + 1
    BY <2>1, FS_AddElement
  <2> QED BY <2>2 DEF D
<1> HIDE DEF C
<1>8. /\ P # {} /\ R # {} => Changes(B) = 2
      /\ P # {} /\ R = {} => Changes(B) = 1
      /\ P = {} /\ R # {} => Changes(B) = 1
  BY <1>2, <1>3, <1>4, <1>5, <1>6, <1>7
<1> QED BY <1>8 DEF P, R

LEMMA RoomForBoth ==
  ASSUME NEW n \in Nat, NEW m \in Nat
  PROVE  /\ ~(n - 1 - m < 1) => m < n - 1
         /\ ~(n - 1 - m < 2) => m < n - 1 /\ m + 1 < n - 1
OBVIOUS

(* Who hears the clicks a packet makes hears how the buttons are now, when *)
(* all of them found room.                                                 *)
LEMMA ButtonsHeard ==
  ASSUME InputAssumption, DeviceInv, NEW B \in SUBSET MouseButtons
  PROVE  /\ RingTyped(ButtonEvents(B), EV_QUEUE_MAX, Events) /\ Filled(ButtonEvents(B), EV_QUEUE_MAX)
         /\ B = mouse_buttons => ButtonEvents(B) = ev
         /\ B # mouse_buttons /\ ~(EV_QUEUE_MAX - 1 - Len(ev.pending) < Changes(B)) =>
              \A known : Heard(known, ButtonEvents(B).pending) = B
<1> DEFINE P == B \ mouse_buttons
           R == mouse_buttons \ B
           d == Event("down", B, "none")
           u == Event("up", B, "none")
           e1 == If(P # {}, ev, d)
           e2 == If(R # {}, e1, u)
           left == EV_QUEUE_MAX - 1 - Len(ev.pending)
<1>1. /\ RingTyped(ev, EV_QUEUE_MAX, Events) /\ Filled(ev, EV_QUEUE_MAX)
      /\ EV_QUEUE_MAX \in Nat /\ EV_QUEUE_MAX > 0
  BY DEF DeviceInv, RingsInv, InputAssumption
<1>2. ButtonEvents(B) = e2
  BY DEF ButtonEvents, Released
<1>3. d \in Events /\ Click(d) /\ d.buttons = B /\ u \in Events /\ Click(u) /\ u.buttons = B
  BY EventIs DEF Click
<1>4. mouse_buttons \subseteq MouseButtons
  BY DEF DeviceInv, MouseInv
<1>5. /\ P # {} /\ R # {} => Changes(B) = 2
      /\ P # {} /\ R = {} => Changes(B) = 1
      /\ P = {} /\ R # {} => Changes(B) = 1
      /\ P = {} /\ R = {} <=> B = mouse_buttons
  BY ChangesAre
<1>6. Len(ev.pending) \in Nat
  BY <1>1, Fields
<1> HIDE DEF P, R, d, u
<1>7. CASE P # {}
  <2>1. e1 = Push(ev, d)
    BY <1>7 DEF If
  <2>2. /\ RingTyped(e1, EV_QUEUE_MAX, Events) /\ Filled(e1, EV_QUEUE_MAX)
        /\ Len(ev.pending) < EV_QUEUE_MAX - 1 =>
             Len(e1.pending) = Len(ev.pending) + 1 /\ \A known : Heard(known, e1.pending) = B
    BY <1>1, <1>3, <2>1, ClickHeard
  <2>3. CASE R = {}
    <3>1. e2 = e1
      BY <2>3 DEF If
    <3>2. ~(left < Changes(B)) => Len(ev.pending) < EV_QUEUE_MAX - 1
      BY <1>1, <1>5, <1>6, <1>7, <2>3, RoomForBoth
    <3> HIDE DEF e1, e2
    <3> QED BY <1>2, <1>5, <1>7, <2>2, <3>1, <3>2
  <2>4. CASE R # {}
    <3>1. e2 = Push(e1, u)
      BY <2>4 DEF If
    <3> HIDE DEF e1, e2
    <3>2. /\ RingTyped(e2, EV_QUEUE_MAX, Events) /\ Filled(e2, EV_QUEUE_MAX)
          /\ Len(e1.pending) < EV_QUEUE_MAX - 1 => \A known : Heard(known, e2.pending) = B
      BY <1>3, <2>2, <3>1, ClickHeard
    <3>3. ~(left < Changes(B)) => Len(ev.pending) < EV_QUEUE_MAX - 1 /\ Len(ev.pending) + 1 < EV_QUEUE_MAX - 1
      BY <1>1, <1>5, <1>6, <1>7, <2>4, RoomForBoth
    <3> QED BY <1>2, <1>5, <1>7, <2>2, <3>2, <3>3
  <2> QED BY <2>3, <2>4
<1>8. CASE P = {}
  <2>1. e1 = ev
    BY <1>8 DEF If
  <2>2. CASE R = {}
    <3>1. e2 = ev
      BY <2>1, <2>2 DEF If
    <3> HIDE DEF e1, e2
    <3> QED BY <1>1, <1>2, <1>5, <1>8, <2>2, <3>1
  <2>3. CASE R # {}
    <3>1. e2 = Push(ev, u)
      BY <2>1, <2>3 DEF If
    <3> HIDE DEF e1, e2
    <3>2. /\ RingTyped(e2, EV_QUEUE_MAX, Events) /\ Filled(e2, EV_QUEUE_MAX)
          /\ Len(ev.pending) < EV_QUEUE_MAX - 1 => \A known : Heard(known, e2.pending) = B
      BY <1>1, <1>3, <3>1, ClickHeard
    <3>3. ~(left < Changes(B)) => Len(ev.pending) < EV_QUEUE_MAX - 1
      BY <1>1, <1>5, <1>6, <1>8, <2>3, RoomForBoth
    <3> QED BY <1>2, <1>5, <1>8, <2>3, <3>2, <3>3
  <2> QED BY <2>2, <2>3
<1> QED BY <1>7, <1>8

LEMMA ClampStays == ASSUME InputAssumption, NEW x \in Int PROVE Clamp(x) \in 0 .. Width - 1
BY DEF Clamp, InputAssumption

LEMMA PacketTakenKeeps ==
  ASSUME InputAssumption, Interrupted = FALSE, DeviceInv, mouse_irq
  PROVE  RingsInv' /\ MouseInv' /\ ToldInv'
<1>1. /\ mwire # << >> /\ inject = << >> /\ mwire' = Tail(mwire)
      /\ UNCHANGED << hand, valid, keyboard, kbd, inject, clicked >>
  BY DEF mouse_irq, IrqOn
<1>2. PICK B \in SUBSET MouseButtons, far \in BOOLEAN, dx \in Int : Half(B, far, dx)
  BY <1>1 DEF DeviceInv, MouseInv, PacketIs
<1> DEFINE b == [buttons |-> B, far |-> far]
           c == [by |-> dx]
           d == [by |-> 0]
<1>3. ASSUME Len(mouse_pkt) < 2, UNCHANGED << mouse_x, mouse_buttons, ev, lost >>, Half(B, far, dx)'
      PROVE  RingsInv' /\ MouseInv' /\ ToldInv'
  <2>1. PacketIs'
    BY <1>3 DEF PacketIs
  <2>2. MouseInv'
    BY <1>1, <1>3, <2>1 DEF DeviceInv, MouseInv
  <2> QED BY <1>1, <1>3, <2>2 DEF DeviceInv, RingsInv, ToldInv, RingTyped, Filled, Room, Behind
<1>4. hand = B /\ valid = ~far
  BY <1>2 DEF Half
<1>5. CASE mouse_pkt = << >> /\ mwire = << b, c, d >>
  <2> HIDE DEF b, c, d
  <2>1. Len(mouse_pkt) < 2 /\ Append(mouse_pkt, Head(mwire)) = << b >> /\ Tail(mwire) = << c, d >>
    BY <1>5
  <2>2. mouse_pkt' = << b >> /\ mwire' = << c, d >> /\ UNCHANGED << mouse_x, mouse_buttons, ev, lost >>
    BY <1>1, <2>1 DEF mouse_irq
  <2>3. Half(B, far, dx)'
    BY <1>1, <1>4, <2>2 DEF Half, b, c, d
  <2> QED BY <1>3, <2>1, <2>2, <2>3
<1>6. CASE mouse_pkt = << b >> /\ mwire = << c, d >>
  <2> HIDE DEF b, c, d
  <2>1. Len(mouse_pkt) < 2 /\ Append(mouse_pkt, Head(mwire)) = << b, c >> /\ Tail(mwire) = << d >>
    <3>1. Len(<< b >>) < 2
      OBVIOUS
    <3>2. Append(<< b >>, c) = << b, c >>
      <4>1. << b >> \in Seq({b, c}) /\ c \in {b, c} /\ Len(<< b >>) = 1
        OBVIOUS
      <4>2. Append(<< b >>, c) = [x \in 1 .. 2 |-> IF x = 2 THEN c ELSE << b >>[x]]
        BY <4>1
      <4>3. << b, c >> = [x \in 1 .. 2 |-> IF x = 2 THEN c ELSE << b >>[x]]
        OBVIOUS
      <4> QED BY <4>2, <4>3
    <3>3. Head(<< c, d >>) = c
      OBVIOUS
    <3>4. Tail(<< c, d >>) = << d >>
      OBVIOUS
    <3> QED BY <1>6, <3>1, <3>2, <3>3, <3>4
  <2>2. mouse_pkt' = << b, c >> /\ mwire' = << d >> /\ UNCHANGED << mouse_x, mouse_buttons, ev, lost >>
    BY <1>1, <2>1 DEF mouse_irq
  <2>3. Half(B, far, dx)'
    BY <1>1, <1>4, <2>2 DEF Half, b, c, d
  <2> QED BY <1>3, <2>1, <2>2, <2>3
<1>7. CASE mouse_pkt = << b, c >> /\ mwire = << d >>
  <2> HIDE DEF b, c, d
  <2>1. ~(Len(mouse_pkt) < 2) /\ Tail(mwire) = << >> /\ mouse_pkt[1] = b /\ mouse_pkt[2] = c
    BY <1>7
  <2>2. b.buttons = B /\ b.far = far /\ c.by = dx
    BY DEF b, c
  <2>3. mwire' = << >> /\ mouse_pkt' = << >>
    BY <1>1, <2>1 DEF mouse_irq
  <2>4. CASE far
    <3>1. UNCHANGED << mouse_x, mouse_buttons, ev, lost >>
      BY <2>1, <2>2, <2>4 DEF mouse_irq
    <3>2. PacketIs'
      BY <1>1, <1>4, <2>3, <2>4 DEF PacketIs
    <3>3. MouseInv'
      BY <1>1, <3>1, <3>2 DEF DeviceInv, MouseInv
    <3> QED BY <1>1, <3>1, <3>3 DEF DeviceInv, RingsInv, ToldInv, RingTyped, Filled, Room, Behind
  <2>5. CASE ~far
    <3> DEFINE e == Event("move", B, "none")
               r == ButtonEvents(B)
    <3>1. /\ mouse_buttons' = B /\ mouse_x' = Clamp(mouse_x + dx) /\ ev' = Push(r, e)
          /\ lost' = IF B = mouse_buttons THEN lost ELSE EV_QUEUE_MAX - 1 - Len(ev.pending) < Changes(B)
      BY <2>1, <2>2, <2>5 DEF mouse_irq
    <3>2. mouse_x' \in 0 .. Width - 1
      <4>1. mouse_x \in 0 .. Width - 1
        BY DEF DeviceInv, MouseInv
      <4>2. mouse_x + dx \in Int
        BY <4>1
      <4> QED BY <3>1, <4>2, ClampStays
    <3>3. MouseInv'
      <4>1. PacketIs'
        BY <1>1, <1>4, <2>3, <3>1 DEF PacketIs
      <4> QED BY <1>1, <1>4, <3>1, <3>2, <4>1 DEF MouseInv
    <3>4. /\ RingTyped(r, EV_QUEUE_MAX, Events) /\ Filled(r, EV_QUEUE_MAX)
          /\ B = mouse_buttons => r = ev
          /\ B # mouse_buttons /\ ~(EV_QUEUE_MAX - 1 - Len(ev.pending) < Changes(B)) =>
               \A known : Heard(known, r.pending) = B
      BY ButtonsHeard
    <3>5. e \in Events /\ ~Click(e)
      BY EventIs DEF Click
    <3> HIDE DEF e, r
    <3>6. /\ RingTyped(ev', EV_QUEUE_MAX, Events) /\ Filled(ev', EV_QUEUE_MAX)
          /\ Heard(clicked, ev'.pending) = Heard(clicked, r.pending)
      BY <3>1, <3>4, <3>5, OtherEvent
    <3>7. ToldInv'
      <4>1. CASE B = mouse_buttons
        BY <1>1, <3>1, <3>4, <3>6, <4>1 DEF DeviceInv, ToldInv
      <4>2. CASE B # mouse_buttons
        BY <1>1, <3>1, <3>4, <3>6, <4>2 DEF ToldInv
      <4> QED BY <4>1, <4>2
    <3>8. RingsInv'
      BY <1>1, <3>6 DEF DeviceInv, RingsInv, RingTyped, Filled
    <3> QED BY <3>3, <3>7, <3>8
  <2> QED BY <2>4, <2>5
<1> QED BY <1>2, <1>5, <1>6, <1>7 DEF Half

-----------------------------------------------------------------------------
(* TASKS                                                                   *)

LEMMA DequeueKeeps ==
  ASSUME InputAssumption, DeviceInv, mouse_event_dequeue
  PROVE  RingsInv' /\ MouseInv' /\ ToldInv'
<1>1. /\ inject = << >> /\ ev.head # ev.tail /\ ev' = Pop(ev)
      /\ clicked' = IF Click(ev.slots[ev.tail][1]) THEN ev.slots[ev.tail][1].buttons ELSE clicked
      /\ UNCHANGED << mouse, kbd, inject, lost >>
  BY DEF mouse_event_dequeue, Click
<1>2. /\ RingTyped(ev, EV_QUEUE_MAX, Events) /\ Filled(ev, EV_QUEUE_MAX)
      /\ EV_QUEUE_MAX \in Nat /\ EV_QUEUE_MAX > 0
  BY DEF DeviceInv, RingsInv, InputAssumption
<1>3. /\ RingTyped(ev', EV_QUEUE_MAX, Events) /\ Filled(ev', EV_QUEUE_MAX)
      /\ ev.pending # << >> /\ ev.slots[ev.tail] = << ev.pending[1] >> /\ ev'.pending = Tail(ev.pending)
  BY <1>1, <1>2, TakenFirst
<1>4. ev.pending \in Seq(Events)
  BY <1>2, Fields
<1>5. ev.slots[ev.tail][1] = ev.pending[1]
  BY <1>3
<1>6. Heard(clicked', ev'.pending) = Heard(clicked, ev.pending)
  BY <1>1, <1>3, <1>4, <1>5, HeardFirst
<1>7. MouseInv' /\ mouse_buttons' = mouse_buttons
  BY <1>1 DEF DeviceInv, MouseInv, PacketIs, Half, mouse
<1>8. ToldInv'
  BY <1>1, <1>6, <1>7 DEF DeviceInv, ToldInv
<1>9. RingsInv'
  BY <1>1, <1>3 DEF DeviceInv, RingsInv, RingTyped, Filled
<1> QED BY <1>7, <1>8, <1>9

LEMMA FlushKeeps ==
  ASSUME InputAssumption, DeviceInv, mouse_event_flush
  PROVE  RingsInv' /\ MouseInv' /\ ToldInv'
<1>1. /\ inject = << >> /\ ev' = Flush(ev) /\ lost' = TRUE /\ UNCHANGED << mouse, kbd, inject, clicked >>
  BY DEF mouse_event_flush
<1>2. RingTyped(ev, EV_QUEUE_MAX, Events) /\ EV_QUEUE_MAX \in Nat /\ EV_QUEUE_MAX > 0
  BY DEF DeviceInv, RingsInv, InputAssumption
<1>3. RingTyped(ev', EV_QUEUE_MAX, Events) /\ Filled(ev', EV_QUEUE_MAX)
  BY <1>1, <1>2, Flushed
<1>4. MouseInv'
  BY <1>1 DEF DeviceInv, MouseInv, PacketIs, Half, mouse
<1>5. RingsInv'
  BY <1>1, <1>3 DEF DeviceInv, RingsInv, RingTyped, Filled
<1> QED BY <1>1, <1>4, <1>5 DEF ToldInv

LEMMA CharactersKeep ==
  ASSUME InputAssumption, DeviceInv, keyboard_read \/ keyboard_flush
  PROVE  RingsInv' /\ MouseInv' /\ ToldInv'
<1>1. /\ inject = << >> /\ UNCHANGED << mouse, ev, inject, clicked, lost >>
      /\ kbd' = Flush(kbd) \/ (kbd' = Pop(kbd) /\ kbd.head # kbd.tail)
  BY DEF keyboard_read, keyboard_flush
<1>2. /\ RingTyped(kbd, KBD_BUF, Letters) /\ Filled(kbd, KBD_BUF)
      /\ KBD_BUF \in Nat /\ KBD_BUF > 0
  BY DEF DeviceInv, RingsInv, InputAssumption
<1>3. RingTyped(kbd', KBD_BUF, Letters) /\ Filled(kbd', KBD_BUF)
  BY <1>1, <1>2, Flushed, TakenFirst
<1>4. MouseInv' /\ mouse_buttons' = mouse_buttons
  BY <1>1 DEF DeviceInv, MouseInv, PacketIs, Half, mouse
<1>5. RingsInv'
  BY <1>1, <1>3 DEF DeviceInv, RingsInv, RingTyped, Filled
<1>6. ToldInv'
  BY <1>1, <1>4 DEF DeviceInv, ToldInv
<1> QED BY <1>4, <1>5, <1>6

(* The event of a program is written where nothing is pending.             *)
LEMMA InjectKeeps ==
  ASSUME InputAssumption, DeviceInv, Inject
  PROVE  RingsInv' /\ MouseInv' /\ ToldInv'
<1> DEFINE h == ev.head
           t == ev.tail
           n == Len(ev.pending)
           S == [ev.slots EXCEPT ![h] = << Injected >>]
           max == EV_QUEUE_MAX
<1>1. /\ inject = << >> /\ Room(ev) /\ inject' = << Behind(ev, ev.head) >>
      /\ ev' = [ev EXCEPT !.slots[ev.head] = << Injected >>]
      /\ UNCHANGED << mouse, kbd, clicked, lost >>
  BY DEF Inject, Injected
<1>2. /\ RingTyped(ev, max, Events) /\ Filled(ev, max) /\ max \in Nat /\ max > 0
  BY DEF DeviceInv, RingsInv, InputAssumption
<1>3. ev' = [ev EXCEPT !.slots = S]
  BY <1>1, <1>2 DEF RingTyped
<1>4. ev'.slots = S /\ ev'.head = h /\ ev'.tail = t /\ ev'.pending = ev.pending
  BY <1>2, <1>3 DEF RingTyped
<1>5. /\ h \in Nat /\ h < max /\ t \in Nat /\ t < max /\ ev.slots \in [0 .. max - 1 -> Seq(Events)]
      /\ ev.pending \in Seq(Events) /\ n \in Nat
  BY <1>2, Fields
<1>6. h \in 0 .. max - 1 /\ << Injected >> \in Seq(Events)
  BY <1>5, InjectedIs
<1>7. S \in [0 .. max - 1 -> Seq(Events)] /\ S[h] = << Injected >>
      /\ \A p \in 0 .. max - 1 : p # h => S[p] = ev.slots[p]
  BY <1>5, <1>6
<1>8. RingTyped(ev', max, Events)
  <2> HIDE DEF S
  <2> QED BY <1>2, <1>3, <1>7 DEF RingTyped
<1>9. n = Used(h, t, max) /\ n < max - 1
  BY <1>1, <1>2, RoomIsLeft DEF Filled
<1>10. \A x \in Nat : x >= 1 /\ x <= n => Spot(t, x, max) # h
  <2> HIDE DEF h, t, n, max
  <2>1. Used(h, t, max) < max - 1
    BY <1>9
  <2>2. /\ Used(Next1(h, max), t, max) = Used(h, t, max) + 1
        /\ Spot(t, Used(h, t, max) + 1, max) = h
        /\ \A x \in Nat : x >= 1 /\ x <= Used(h, t, max) => Spot(t, x, max) # h
    BY <1>2, <1>5, <2>1, OneMore
  <2> QED BY <1>9, <2>2
<1>11. ASSUME NEW x \in 1 .. n PROVE S[Spot(t, x, max)] = << ev.pending[x] >>
  <2>1. x \in Nat /\ x >= 1 /\ x <= n /\ x <= max
    BY <1>5, <1>9
  <2>2. Spot(t, x, max) # h /\ Spot(t, x, max) \in 0 .. max - 1
    BY <1>5, <1>10, <2>1, SpotIs
  <2>3. ev.slots[Spot(t, x, max)] = << ev.pending[x] >>
    BY <1>2 DEF Filled
  <2> HIDE DEF S
  <2> QED BY <1>7, <2>2, <2>3
<1>12. Filled(ev', max)
  <2> HIDE DEF S, h, t
  <2> QED BY <1>4, <1>9, <1>11 DEF Filled
<1>13. Behind(ev, h)' = Behind(ev, h) /\ Room(ev)' /\ Behind(ev', ev'.head) = Behind(ev, h)
  <2>1. DOMAIN S = DOMAIN ev.slots
    BY <1>5
  <2> HIDE DEF S
  <2> QED BY <1>1, <1>4, <2>1 DEF Room, Behind
<1>14. RingsInv'
  <2>1. inject' = << Behind(ev', ev'.head) >> /\ ev'.slots[ev'.head] = << Injected >>
    <3> HIDE DEF S
    <3> QED BY <1>1, <1>4, <1>7, <1>13
  <2> HIDE DEF S, h, t
  <2> QED BY <1>1, <1>8, <1>12, <1>13, <2>1 DEF DeviceInv, RingsInv, RingTyped, Filled, Injected, Event
<1>15. MouseInv' /\ mouse_buttons' = mouse_buttons
  BY <1>1 DEF DeviceInv, MouseInv, PacketIs, Half, mouse
<1>16. ToldInv'
  BY <1>1, <1>4, <1>15 DEF DeviceInv, ToldInv
<1> QED BY <1>14, <1>15, <1>16

LEMMA PublishKeeps ==
  ASSUME InputAssumption, DeviceInv, Publish
  PROVE  RingsInv' /\ MouseInv' /\ ToldInv'
<1>1. /\ inject # << >> /\ inject' = << >>
      /\ ev' = [ev EXCEPT !.head = inject[1], !.pending = Append(@, Injected)]
      /\ UNCHANGED << mouse, kbd, clicked, lost >>
  BY DEF Publish, Injected
<1>2. /\ RingTyped(ev, EV_QUEUE_MAX, Events) /\ Filled(ev, EV_QUEUE_MAX)
      /\ inject = << Behind(ev, ev.head) >> /\ Room(ev) /\ ev.slots[ev.head] = << Injected >>
      /\ EV_QUEUE_MAX \in Nat /\ EV_QUEUE_MAX > 0
  BY <1>1 DEF DeviceInv, RingsInv, InputAssumption
<1>3. ev' = Push(ev, Injected)
  <2> DEFINE S == [ev.slots EXCEPT ![ev.head] = << Injected >>]
  <2>1. ev.slots \in [0 .. EV_QUEUE_MAX - 1 -> Seq(Events)]
    BY <1>2, Fields
  <2>2. S = ev.slots
    BY <1>2, <2>1
  <2>3. inject[1] = Behind(ev, ev.head)
    BY <1>2
  <2>4. Push(ev, Injected) = [slots |-> S, head |-> Behind(ev, ev.head), tail |-> ev.tail,
                              pending |-> Append(ev.pending, Injected)]
    BY <1>2 DEF Push
  <2> HIDE DEF S
  <2>5. ev' = [ev EXCEPT !.head = Behind(ev, ev.head), !.pending = Append(ev.pending, Injected)]
    BY <1>1, <1>2, <2>3 DEF RingTyped
  <2> DEFINE H == Behind(ev, ev.head)
             A == Append(ev.pending, Injected)
  <2>6. ev' = [ev EXCEPT !.head = H, !.pending = A]
    BY <2>5
  <2> HIDE DEF H, A
  <2>7. ev' = [slots |-> ev.slots, head |-> H, tail |-> ev.tail, pending |-> A]
    BY <1>2, <2>6 DEF RingTyped
  <2> QED BY <2>2, <2>4, <2>7 DEF H, A
<1>4. /\ RingTyped(ev', EV_QUEUE_MAX, Events) /\ Filled(ev', EV_QUEUE_MAX)
      /\ Heard(clicked, ev'.pending) = Heard(clicked, ev.pending)
  BY <1>2, <1>3, InjectedIs, OtherEvent
<1>5. MouseInv' /\ mouse_buttons' = mouse_buttons
  BY <1>1 DEF DeviceInv, MouseInv, PacketIs, Half, mouse
<1>6. ToldInv'
  BY <1>1, <1>4, <1>5 DEF DeviceInv, ToldInv
<1>7. RingsInv'
  BY <1>1, <1>4 DEF DeviceInv, RingsInv, RingTyped, Filled
<1> QED BY <1>5, <1>6, <1>7

LEMMA DevicesStep ==
  ASSUME InputAssumption, Interrupted = FALSE, DeviceInv, [InputNext]_ivars
  PROVE  DeviceInv'
<1>1. KeyInv'
  BY KeysStep DEF DeviceInv
<1>2. ASSUME NEW k \in Keys, KeyDown(k) \/ KeyUp(k) PROVE RingsInv' /\ MouseInv' /\ ToldInv'
  <2>1. UNCHANGED << mouse, kbd, ev, inject, clicked, lost >>
    BY <1>2 DEF KeyDown, KeyUp
  <2> QED BY <2>1 DEF DeviceInv, RingsInv, RingTyped, Filled, Room, Behind, MouseInv, PacketIs, Half,
                      ToldInv, mouse
<1>3. CASE keyboard_irq
  BY <1>1, <1>3, KeyTakenKeeps DEF DeviceInv
<1>4. CASE \E B \in SUBSET MouseButtons, far \in BOOLEAN, dx \in Steps : Packet(B, far, dx)
  BY <1>1, <1>4, PacketKeeps DEF DeviceInv
<1>5. CASE mouse_irq
  BY <1>1, <1>5, PacketTakenKeeps DEF DeviceInv
<1>6. CASE mouse_event_dequeue
  BY <1>1, <1>6, DequeueKeeps DEF DeviceInv
<1>7. CASE mouse_event_flush
  BY <1>1, <1>7, FlushKeeps DEF DeviceInv
<1>8. CASE keyboard_read \/ keyboard_flush
  BY <1>1, <1>8, CharactersKeep DEF DeviceInv
<1>9. CASE Inject
  BY <1>1, <1>9, InjectKeeps DEF DeviceInv
<1>10. CASE Publish
  BY <1>1, <1>10, PublishKeeps DEF DeviceInv
<1>11. CASE UNCHANGED ivars
  <2>1. UNCHANGED << mouse, kbd, ev, inject, clicked, lost >>
    BY <1>11 DEF ivars
  <2>2. RingsInv' /\ MouseInv' /\ ToldInv'
    BY <2>1 DEF DeviceInv, RingsInv, RingTyped, Filled, Room, Behind, MouseInv, PacketIs, Half,
                ToldInv, mouse
  <2> QED BY <1>1, <2>2 DEF DeviceInv
<1> QED BY <1>1, <1>2, <1>3, <1>4, <1>5, <1>6, <1>7, <1>8, <1>9, <1>10, <1>11 DEF InputNext, DeviceInv

(* keyboard.c: once every byte of the keyboard is read, shift, ctrl and    *)
(* alt are as the hands hold them and the lock changed once with every     *)
(* press, wherever interrupts come.                                        *)
THEOREM KeysFollow == InputSpec => [](ModifiersTrue /\ CapsFollows)
<1>1. InputInit => KeyInv
  BY KeysBegin
<1>2. KeyInv /\ [InputNext]_ivars => KeyInv'
  BY InputAssumption, KeysStep
<1>3. KeyInv => ModifiersTrue /\ CapsFollows
  BY DEF KeyInv, ModifiersTrue, CapsFollows, Final, FinalCaps
<1> QED BY <1>1, <1>2, <1>3, PTL DEF InputSpec

(* keyboard.c, mouse.c: DevicesTold, for every size of the rings and the   *)
(* screen, every keyboard and every button, when no interrupt comes        *)
(* between the two steps of an injection (with one, two events share a     *)
(* place of the ring).                                                     *)
THEOREM DevicesHeard == ASSUME Interrupted = FALSE PROVE InputSpec => []DevicesTold
<1>1. InputInit => DeviceInv
  BY InputAssumption, DevicesBegin
<1>2. DeviceInv /\ [InputNext]_ivars => DeviceInv'
  BY InputAssumption, DevicesStep
<1>3. DeviceInv => DevicesTold
  BY InputAssumption, DeviceInvTold
<1> QED BY <1>1, <1>2, <1>3, PTL DEF InputSpec
==============================================================================

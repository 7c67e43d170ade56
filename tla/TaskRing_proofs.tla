-------------------------- MODULE TaskRing_proofs --------------------------
(***************************************************************************)
(* While no calls race, Inv holds in TaskRing however the timer cuts the   *)
(* calls, for every number of slots and every set of page directories;     *)
(* with it the run list, the task count and the use of page directories    *)
(* are right, and the run list is the queue of RunQueue.                   *)
(***************************************************************************)
EXTENDS TaskRingImplements, FiniteSetTheorems, SequenceTheorems,
        WellFoundedInduction, TLAPS

(* f is one cycle through the elements of L.                               *)
IsCycle(f, L) ==
  /\ \A x \in L : f[x] \in L
  /\ \A x, y \in L : f[x] = f[y] => x = y
  /\ \A S \in SUBSET L : S # {} /\ (\A x \in S : f[x] \in S) => S = L

-----------------------------------------------------------------------------
(* LEMMAS ON CYCLES                                                        *)

(* list_insert: t, which points where c pointed, goes in after c.          *)
LEMMA CycleInsert ==
  ASSUME NEW D, NEW R, NEW f \in [D -> R], NEW L \in SUBSET D,
         NEW c \in L, NEW t \in D \ L,
         IsCycle(f, L), f[t] = f[c]
  PROVE  IsCycle([f EXCEPT ![c] = t], L \cup {t})
<1> DEFINE g == [f EXCEPT ![c] = t]
           M == L \cup {t}
<1>1. /\ g[c] = t
      /\ \A x \in D : x # c => g[x] = f[x]
      /\ c # t
  OBVIOUS
<1>2. \A x \in M : g[x] \in M
  BY <1>1 DEF IsCycle
<1>3. \A x, y \in M : g[x] = g[y] => x = y
  <2> SUFFICES ASSUME NEW x \in M, NEW y \in M, g[x] = g[y]
               PROVE  x = y
    OBVIOUS
  <2>1. \A z \in L : f[z] # t
    BY DEF IsCycle
  <2>2. f[t] # t
    BY <2>1
  <2>3. CASE x = c
    BY <1>1, <2>1, <2>2, <2>3
  <2>4. CASE y = c
    BY <1>1, <2>1, <2>2, <2>4
  <2>5. CASE x # c /\ y # c
    <3>1. f[x] = f[y]
      BY <1>1, <2>5
    <3>2. CASE x = t
      BY <1>1, <2>5, <3>1, <3>2 DEF IsCycle
    <3>3. CASE y = t
      BY <1>1, <2>5, <3>1, <3>3 DEF IsCycle
    <3>4. CASE x # t /\ y # t
      BY <3>1, <3>4 DEF IsCycle
    <3> QED BY <3>2, <3>3, <3>4
  <2> QED BY <2>3, <2>4, <2>5
<1>4. ASSUME NEW S \in SUBSET M, S # {}, \A x \in S : g[x] \in S
      PROVE  S = M
  <2> DEFINE T == S \ {t}
  <2>1. \A x \in T : f[x] \in T
    <3> SUFFICES ASSUME NEW x \in T PROVE f[x] \in T
      OBVIOUS
    <3>0. x \in L /\ f[x] \in L
      BY DEF IsCycle
    <3>1. CASE x = c
      <4>1. t \in S
        BY <1>1, <1>4, <3>1
      <4>2. g[t] \in S
        BY <4>1, <1>4
      <4> QED BY <4>2, <1>1, <3>0, <3>1
    <3>2. CASE x # c
      <4>1. f[x] = g[x] /\ g[x] \in S
        BY <1>1, <1>4, <3>0, <3>2
      <4> QED BY <4>1, <3>0
    <3> QED BY <3>1, <3>2
  <2>2. T # {}
    <3> SUFFICES ASSUME S = {t} PROVE FALSE
      BY <1>4
    <3>1. g[t] = t
      BY <1>4
    <3> QED BY <3>1, <1>1 DEF IsCycle
  <2>3. T = L
    <3>1. T \in SUBSET L
      OBVIOUS
    <3> HIDE DEF T
    <3> QED BY <2>1, <2>2, <3>1 DEF IsCycle
  <2>4. t \in S
    <3>1. c \in S
      BY <2>3
    <3> QED BY <3>1, <1>1, <1>4
  <2> QED BY <2>3, <2>4
<1> QED BY <1>2, <1>3, <1>4 DEF IsCycle

(* In a cycle every element has a predecessor.                             *)
LEMMA CyclePredecessor ==
  ASSUME NEW f, NEW L, IsCycle(f, L), NEW t \in L
  PROVE  \E p \in L : f[p] = t
<1> DEFINE S == {f[x] : x \in L}
<1>1. S \in SUBSET L /\ S # {} /\ \A y \in S : f[y] \in S
  BY DEF IsCycle
<1>2. S = L
  <2> HIDE DEF S
  <2> QED BY <1>1 DEF IsCycle
<1> QED BY <1>2

(* list_remove: p, the predecessor of t, is made to point past it.         *)
LEMMA CycleRemove ==
  ASSUME NEW D, NEW R, NEW f \in [D -> R], NEW L \in SUBSET D,
         NEW t \in L, NEW p \in L, NEW i \in L, i # t,
         IsCycle(f, L), f[p] = t
  PROVE  IsCycle([f EXCEPT ![p] = f[t]], L \ {t})
<1> DEFINE g == [f EXCEPT ![p] = f[t]]
           M == L \ {t}
<1>0. p # t
  <2> SUFFICES ASSUME f[t] = t PROVE FALSE
    OBVIOUS
  <2> DEFINE S == {t}
  <2>1. S \in SUBSET L /\ S # {} /\ \A x \in S : f[x] \in S
    OBVIOUS
  <2>2. S = L
    <3> HIDE DEF S
    <3> QED BY <2>1 DEF IsCycle
  <2> QED BY <2>2
<1>1. /\ g[p] = f[t]
      /\ \A x \in D : x # p => g[x] = f[x]
  OBVIOUS
<1>2. f[t] # t
  BY <1>0 DEF IsCycle
<1>3. \A x \in M : g[x] \in M
  BY <1>1, <1>2 DEF IsCycle
<1>4. \A x, y \in M : g[x] = g[y] => x = y
  <2> SUFFICES ASSUME NEW x \in M, NEW y \in M, g[x] = g[y]
               PROVE  x = y
    OBVIOUS
  <2>1. CASE x = p
    BY <1>1, <2>1 DEF IsCycle
  <2>2. CASE y = p
    BY <1>1, <2>2 DEF IsCycle
  <2>3. CASE x # p /\ y # p
    BY <1>1, <2>3 DEF IsCycle
  <2> QED BY <2>1, <2>2, <2>3
<1>5. ASSUME NEW S \in SUBSET M, S # {}, \A x \in S : g[x] \in S
      PROVE  S = M
  <2>1. CASE p \in S
    <3> DEFINE T == S \cup {t}
    <3>1. \A x \in T : f[x] \in T
      <4> SUFFICES ASSUME NEW x \in T PROVE f[x] \in T
        OBVIOUS
      <4>1. CASE x = t
        BY <1>1, <1>5, <2>1, <4>1
      <4>2. CASE x = p
        BY <4>2
      <4>3. CASE x # t /\ x # p
        BY <1>1, <1>5, <4>3
      <4> QED BY <4>1, <4>2, <4>3
    <3>2. T \in SUBSET L /\ T # {}
      OBVIOUS
    <3>3. T = L
      <4> HIDE DEF T
      <4> QED BY <3>1, <3>2 DEF IsCycle
    <3> QED BY <3>3
  <2>2. CASE p \notin S
    <3>1. \A x \in S : f[x] \in S
      BY <1>1, <1>5, <2>2
    <3>2. S = L
      BY <1>5, <3>1 DEF IsCycle
    <3> QED BY <3>2
  <2> QED BY <2>1, <2>2
<1> QED BY <1>3, <1>4, <1>5 DEF IsCycle

(* What the pointers outside the cycle are does not matter.                *)
LEMMA CycleAgree ==
  ASSUME NEW f, NEW g, NEW L, \A x \in L : f[x] = g[x], IsCycle(f, L)
  PROVE  IsCycle(g, L)
<1>1. \A S \in SUBSET L : (\A x \in S : g[x] \in S) => \A x \in S : f[x] \in S
  OBVIOUS
<1> QED BY <1>1 DEF IsCycle

-----------------------------------------------------------------------------
(* LEMMAS ON THE STATE                                                     *)

LEMMA SlotFacts == Idle \in Slots /\ Slots \in SUBSET Nat /\ IsFiniteSet(Slots)
<1>1. IsFiniteSet(Slots)
  BY TaskRingAssumption, FS_Interval DEF Slots
<1> QED BY <1>1, TaskRingAssumption DEF Slots, Idle

LEMMA OneCycleIs == OneCycle <=> Idle \in Linked /\ IsCycle(next, Linked)
BY DEF OneCycle, IsCycle, Closed

LEMMA OneCycleIsPrimed ==
  OneCycle' <=> Idle \in Linked' /\ IsCycle(next', Linked')
BY DEF OneCycle, IsCycle, Closed

LEMMA LinkedType ==
  /\ Linked \in SUBSET LiveTasks /\ LiveTasks \in SUBSET Slots
  /\ IsFiniteSet(Linked) /\ Cardinality(Linked) \in Nat
<1>1. Linked \in SUBSET LiveTasks /\ LiveTasks \in SUBSET Slots
  BY DEF Linked, LiveTasks
<1>2. IsFiniteSet(Linked)
  BY <1>1, SlotFacts, FS_Subset
<1> QED BY <1>1, <1>2, FS_CardinalityType

(* A walk along next from a linked task visits exactly the linked tasks.   *)
LEMMA OrbitLinked ==
  ASSUME OneCycle, NEW s \in Linked
  PROVE  Orbit(s) = Linked
<1>1. Linked \in SUBSET Slots /\ Closed(Linked)
  BY LinkedType DEF OneCycle, Closed
<1>2. Orbit(s) \subseteq Linked
  BY <1>1 DEF Orbit
<1>3. ASSUME NEW x \in Linked, NEW S \in SUBSET Slots, s \in S, Closed(S)
      PROVE  x \in S
  <2> DEFINE T == S \cap Linked
  <2>1. T \in SUBSET Linked /\ T # {} /\ Closed(T)
    BY <1>1, <1>3 DEF Closed
  <2>2. T = Linked
    <3> HIDE DEF T
    <3> QED BY <2>1 DEF OneCycle
  <2> QED BY <2>2
<1> QED BY <1>1, <1>2, <1>3 DEF Orbit

(* The predecessor list_remove finds is the one on the cycle.              *)
LEMMA PredecessorLinked ==
  ASSUME OneCycle, NEW t \in Linked, NEW p \in Predecessors(t)
  PROVE  p \in Linked /\ next[p] = t
<1>1. next[t] \in Linked
  BY DEF OneCycle
<1> QED BY <1>1, OrbitLinked DEF Predecessors

-----------------------------------------------------------------------------
(* THE STEPS                                                               *)

(* A step of a call that nobody else is inside of.                         *)
Own == caller = current /\ caller' = current /\ raced' \in BOOLEAN

LEMMA InitInv == Init => Inv
<1> SUFFICES ASSUME Init PROVE Inv
  OBVIOUS
<1> USE TaskRingAssumption, SlotFacts
<1>1. LiveTasks = {Idle} /\ Outside = {} /\ Linked = {Idle}
  BY DEF Init, LiveTasks, Alive, Outside, Linked, At, Doing, Idle
<1>2. TypeOK
  <2>1. /\ loc \in [Slots -> Locals]
        /\ pc \in [Slots -> {"user", "stub"} \cup Creating \cup Killing]
        /\ state \in [Slots -> {"FREE", "READY", "RUNNING"}]
    BY DEF Init, Locals, NoLocals
  <2>2. caller \in Slots /\ raced \in BOOLEAN
    BY DEF Init
  <2> QED BY <2>1, <2>2 DEF Init, TypeOK
<1>3. OneCycle
  <2>1. next[Idle] = Idle
    BY DEF Init
  <2>2. \A S \in SUBSET {Idle} : S # {} => S = {Idle}
    OBVIOUS
  <2> QED BY <1>1, <2>1, <2>2 DEF OneCycle
<1>4. CountInv
  <2>1. Cardinality({Idle}) = 1
    BY FS_Singleton
  <2> QED BY <1>1, <2>1 DEF Init, CountInv, At, Doing
<1>5. ControlInv /\ CreateInv
  BY <1>1 DEF Init, ControlInv, Inside, CreateInv, At, Doing, Killing, Alive
<1>6. SpaceInv /\ NewSpaceInv
  BY <1>1 DEF Init, SpaceInv, NewSpaceInv, At, Doing, Doomed, Dying, Creating
<1>7. ReapInv
  BY DEF Init, ReapInv, At, Doing
<1> QED BY <1>2, <1>3, <1>4, <1>5, <1>6, <1>7 DEF Inv

(* A tick takes the processor away anywhere but at the end of a death.     *)
LEMMA TickStep ==
  ASSUME Inv, Tick, NoteTick, ~raced'
  PROVE  Inv'
<1> USE DEF Inv
<1>1. next[current] \in Linked
  BY DEF ControlInv, OneCycle
<1>2. next[current] \in LiveTasks /\ Alive(next[current])
  BY <1>1 DEF Linked, LiveTasks
<1>3. current' = next[current]
  BY <1>2 DEF Tick, NextReady, Stops
<1> USE DEF Tick, tableVars
<1>4. UNCHANGED << state, next, cr3, isThread, pid, nextPid, taskCount, livePds, pc, loc, caller >>
  BY DEF NoteTick
<1>5. raced' \in BOOLEAN /\ (Dying(caller) => current' = current)
  BY DEF NoteTick, ControlInv
<1>6. LiveTasks' = LiveTasks /\ FreeSlots' = FreeSlots /\ Linked' = Linked
  BY <1>4 DEF LiveTasks, Alive, FreeSlots, Linked, Outside, Doing, its
<1>7. TypeOK'
  BY <1>2, <1>3, <1>4, <1>5, LinkedType DEF TypeOK
<1>8. OneCycle' /\ CountInv'
  BY <1>4, <1>6 DEF OneCycle, Closed, CountInv, Doing
<1>9. ControlInv'
  BY <1>1, <1>3, <1>4, <1>5, <1>6 DEF ControlInv, Inside, Dying, Alive
<1>10. CreateInv' /\ ReapInv'
  BY <1>4, <1>6 DEF CreateInv, ReapInv, SameSpaceAs, Doing, its
<1>11. SpaceInv' /\ NewSpaceInv'
  BY <1>4, <1>6 DEF SpaceInv, Doomed, Dying, NewSpaceInv, Doing, its
<1> QED BY <1>7, <1>8, <1>9, <1>10, <1>11

(* A step that only moves the current task to another label, possibly with *)
(* other locals, leaves the list alone when neither label makes a task     *)
(* count as outside it.                                                    *)
InList(label) == label \notin {"link", "insert", "free"}

LEMMA SameList ==
  ASSUME Inv, UNCHANGED << state, next, taskCount >>,
         InList(pc[caller]), InList(pc'[caller'])
  PROVE  /\ LiveTasks' = LiveTasks /\ FreeSlots' = FreeSlots
         /\ Linked' = Linked /\ Linked = LiveTasks
         /\ OneCycle' /\ CountInv'
<1>1. LiveTasks' = LiveTasks /\ FreeSlots' = FreeSlots
  BY DEF LiveTasks, Alive, FreeSlots
<1>2. Linked' = LiveTasks' /\ Linked = LiveTasks
  BY DEF Linked, Outside, InList, Doing
<1>3. OneCycle'
  BY <1>1, <1>2 DEF Inv, OneCycle, Closed
<1>4. CountInv'
  BY <1>1, <1>2 DEF Inv, CountInv, InList, Doing
<1> QED BY <1>1, <1>2, <1>3, <1>4

(* The current task is alive unless it is in the halt loop.                *)
LEMMA CurrentAlive ==
  ASSUME Inv, InList(pc[current]), ~At("stub")
  PROVE  current \in Linked /\ current \in LiveTasks /\ Alive(current)
BY DEF Inv, ControlInv, Inside, At, Doing, Linked, LiveTasks, InList

(* The first step of a call: nobody is inside one.                         *)
Opens == /\ caller' = current /\ raced' \in BOOLEAN
         /\ \A s \in Slots : ~Inside(s)

LEMMA OpensList ==
  ASSUME Inv, Opens
  PROVE  InList(pc[caller]) /\ caller \in Slots
BY DEF Inv, TypeOK, Opens, InList, Inside

LEMMA RunCallStep ==
  ASSUME Inv, Opens, NEW q \in PDs, RunCall(q)
  PROVE  Inv'
<1> USE DEF Inv, Opens, RunCall, tableVars
<1>1. pc[current] = "user" /\ pc' = [pc EXCEPT ![current] = "pick"]
  BY DEF At, Doing, Goto
<1>2. pc'[current] = "pick" /\ \A s \in Slots : s # current => pc'[s] = pc[s]
  BY <1>1, SlotFacts DEF TypeOK
<1>3. /\ LiveTasks' = LiveTasks /\ FreeSlots' = FreeSlots
      /\ Linked' = Linked /\ Linked = LiveTasks
      /\ OneCycle' /\ CountInv'
  BY <1>1, <1>2, SameList, OpensList DEF InList
<1>4. Linked = {Idle}
  <2>1. Orbit(current) = Linked
    BY OrbitLinked DEF OneCycle
  <2>2. \A s \in Linked : cr3[s] = KernelPD
    BY <2>1, LinkedType DEF UserBusy, LiveTasks
  <2> QED BY <1>3, <2>2 DEF SpaceInv, OneCycle
<1>5. me' = [NoLocals EXCEPT !.pd = q]
  BY SlotFacts DEF TypeOK, me, its
<1>6. TypeOK'
  BY <1>2, SlotFacts DEF TypeOK, Goto, Creating, Locals, NoLocals
<1>7. ControlInv'
  BY <1>1, <1>2, <1>3, <1>4, CurrentAlive, SlotFacts DEF ControlInv, Inside, At,
                                                         Doing, Killing, InList,
                                                         Dying, TypeOK
<1>8. CreateInv'
  BY <1>2 DEF CreateInv, At, Doing
<1>9. SpaceInv'
  BY <1>1, <1>2, <1>3, SlotFacts DEF SpaceInv, Doomed, Dying, Inside, TypeOK
<1>10. NewSpaceInv'
  <2>1. \A s \in LiveTasks : cr3[s] # q
    BY <1>3, <1>4, TaskRingAssumption DEF SpaceInv
  <2> QED BY <1>2, <1>3, <1>5, <2>1 DEF NewSpaceInv, At, Doing, NoLocals, me, its
<1>11. ReapInv'
  BY <1>2 DEF ReapInv, At, Doing
<1> QED BY <1>3, <1>6, <1>7, <1>8, <1>9, <1>10, <1>11

(* A creation that gives up goes back to where it came from.               *)
LEMMA GiveUp ==
  ASSUME Inv, Own, UNCHANGED << tableVars, current >>, Return,
         At("pick") \/ At("fill"),
         livePds' \in SUBSET PDs,
         \A s \in LiveTasks \ {Idle} : cr3[s] \in livePds'
  PROVE  Inv'
<1> USE DEF Inv, Own, tableVars
<1>1. InList(pc[current]) /\ ~At("stub") /\ pc[current] \in Creating
  BY DEF InList, At, Doing, Creating
<1>2. pc'[current] = "user" /\ \A s \in Slots : s # current => pc'[s] = pc[s]
  BY SlotFacts DEF TypeOK, Return, Goto
<1>3. /\ LiveTasks' = LiveTasks /\ Linked' = Linked /\ Linked = LiveTasks
      /\ OneCycle' /\ CountInv'
  BY <1>1, <1>2, SameList DEF InList
<1>4. TypeOK'
  BY <1>2, SlotFacts DEF TypeOK, Return, Goto, Creating, Locals, NoLocals
<1>5. ControlInv'
  BY <1>1, <1>2, <1>3, CurrentAlive, LinkedType, SlotFacts DEF ControlInv, Inside, At,
                                                               Doing, Killing, InList,
                                                               Dying, TypeOK
<1>6. CreateInv' /\ ReapInv' /\ NewSpaceInv'
  BY <1>2 DEF CreateInv, ReapInv, NewSpaceInv, At, Doing, Creating
<1>7. SpaceInv'
  BY <1>1, <1>2, <1>3 DEF SpaceInv, Doomed, Dying, Creating
<1> QED BY <1>3, <1>4, <1>5, <1>6, <1>7

LEMMA RunPickStep ==
  ASSUME Inv, Own, RunPick
  PROVE  Inv'
<1> USE DEF Inv, Own, RunPick, tableVars
<1>1. /\ pc[current] = "pick" /\ current = Idle
      /\ Linked = {Idle} /\ Linked = LiveTasks
  BY DEF At, Doing, ControlInv, Inside, Linked, Outside
<1>2. CASE FreeSlots = {}
  BY <1>1, <1>2, GiveUp DEF TypeOK
<1>3. CASE FreeSlots # {}
  <2>1. PICK t \in FirstFree : loc' = [loc EXCEPT ![current].slot = t]
    BY <1>3
  <2>2. t \in FreeSlots /\ t \in Slots
    BY DEF FirstFree, FreeSlots
  <2>3. pc'[current] = "fill" /\ \A s \in Slots : s # current => pc'[s] = pc[s]
    BY <1>3, SlotFacts DEF TypeOK, Goto
  <2>4. me' = [me EXCEPT !.slot = t]
    BY <2>1 DEF TypeOK, me, its
  <2>5. /\ LiveTasks' = LiveTasks /\ FreeSlots' = FreeSlots
        /\ Linked' = Linked /\ OneCycle' /\ CountInv'
    BY <1>1, <2>3, SameList DEF InList
  <2>6. TypeOK'
    <3>1. loc' \in [Slots -> Locals]
      BY <2>1, <2>2 DEF TypeOK, Locals
    <3>2. pc' \in [Slots -> {"user", "stub"} \cup Creating \cup Killing]
      BY <1>3 DEF TypeOK, Goto, Creating
    <3> QED BY <1>3, <3>1, <3>2 DEF TypeOK
  <2>7. ControlInv'
    BY <1>1, <2>3, <2>5, LinkedType, SlotFacts DEF ControlInv, Inside, At, Doing,
                                                   Killing, Dying, TypeOK
  <2>8. CreateInv' /\ ReapInv'
    BY <2>2, <2>3, <2>4, <2>5 DEF CreateInv, ReapInv, At, Doing, TypeOK, Locals, me, its
  <2>9. SpaceInv'
    BY <1>1, <1>3, <2>3, <2>5 DEF SpaceInv, Doomed, Dying
  <2>10. NewSpaceInv'
    <3>1. me.pd \in livePds /\ ~me.thread /\ \A s \in LiveTasks : cr3[s] # me.pd
      BY <1>1 DEF NewSpaceInv, At, Doing, Creating, me, its
    <3>2. me'.pd = me.pd /\ me'.thread = me.thread
      BY <2>4 DEF TypeOK, Locals, me, its
    <3> QED BY <1>1, <1>3, <2>3, <2>5, <3>1, <3>2 DEF NewSpaceInv, At, Doing, me, its
  <2> QED BY <2>5, <2>6, <2>7, <2>8, <2>9, <2>10
<1> QED BY <1>2, <1>3

(* The two calls that enter a creation from a user task.                   *)
LEMMA EnterStep ==
  ASSUME Inv, Opens, ForkCall \/ ThreadCall
  PROVE  Inv'
<1> USE DEF Inv, Opens
<1>1. /\ pc[current] = "user" /\ current # Idle
      /\ UNCHANGED << state, next, cr3, isThread, pid, nextPid, taskCount,
                     current, livePds >>
      /\ Goto("fill")
  BY DEF At, Doing, ForkCall, ThreadCall, UserCall, tableVars
<1>2. PICK t \in FirstFree :
        \/ loc' = [loc EXCEPT ![current] = [NoLocals EXCEPT !.slot = t]]
        \/ loc' = [loc EXCEPT ![current] =
                     [NoLocals EXCEPT !.slot = t, !.pd = cr3[current],
                                      !.thread = TRUE]]
  BY DEF ForkCall, ThreadCall
<1>3. t \in FreeSlots /\ t \in Slots
  BY DEF FirstFree, FreeSlots
<1>4. pc'[current] = "fill" /\ \A s \in Slots : s # current => pc'[s] = pc[s]
  BY <1>1, SlotFacts DEF TypeOK, Goto
<1>5. /\ LiveTasks' = LiveTasks /\ FreeSlots' = FreeSlots
      /\ Linked' = Linked /\ Linked = LiveTasks
      /\ OneCycle' /\ CountInv'
  BY <1>1, <1>4, SameList, OpensList DEF InList
<1>6. current \in LiveTasks /\ cr3[current] \in livePds /\ cr3[current] \in PDs
  <2>1. current \in LiveTasks
    BY <1>1, CurrentAlive DEF At, Doing, InList
  <2> QED BY <1>1, <2>1 DEF SpaceInv, Doomed, Dying, TypeOK
<1>7. \/ me' = [NoLocals EXCEPT !.slot = t]
      \/ me' = [NoLocals EXCEPT !.slot = t, !.pd = cr3[current], !.thread = TRUE]
  BY <1>1, <1>2 DEF TypeOK, me, its
<1>8. me' \in Locals /\ loc' = [loc EXCEPT ![current] = me']
  <2>1. \A r \in Locals : \A l : l = [loc EXCEPT ![current] = r] =>
          l[current] = r /\ l = [loc EXCEPT ![current] = l[current]]
    BY DEF TypeOK
  <2>2. [NoLocals EXCEPT !.slot = t] \in Locals
    BY <1>3, SlotFacts DEF Locals, NoLocals
  <2>3. [NoLocals EXCEPT !.slot = t, !.pd = cr3[current], !.thread = TRUE]
          \in Locals
    BY <1>3, <1>6, SlotFacts DEF Locals, NoLocals
  <2> QED BY <1>1, <1>2, <2>1, <2>2, <2>3 DEF me, its
<1>9. TypeOK'
  <2>1. loc' \in [Slots -> Locals]
    BY <1>8 DEF TypeOK
  <2>2. pc' \in [Slots -> {"user", "stub"} \cup Creating \cup Killing]
    BY <1>1 DEF TypeOK, Goto, Creating
  <2> QED BY <1>1, <2>1, <2>2 DEF TypeOK
<1>10. ControlInv'
  BY <1>1, <1>4, <1>5, <1>6, LinkedType, SlotFacts DEF ControlInv, Inside, At, Doing,
                                                       Killing, Dying, TypeOK
<1>11. CreateInv' /\ ReapInv'
  <2>1. me'.slot = t
    BY <1>3, <1>7 DEF NoLocals
  <2> QED BY <1>1, <1>3, <1>4, <1>5, <2>1 DEF CreateInv, ReapInv, At, Doing,
               SameSpaceAs, SameSpaceThread, me, its
<1>12. SpaceInv'
  BY <1>1, <1>4, <1>5, SlotFacts DEF SpaceInv, Doomed, Dying, Inside, TypeOK
<1>13. NewSpaceInv'
  <2>1. \A s \in LiveTasks : cr3[s] # NoPD
    BY <1>1, TaskRingAssumption DEF SpaceInv, Doomed, Dying, TypeOK, Inside
  <2>2. /\ me'.pd = IF me'.thread THEN cr3[current] ELSE NoPD
    BY <1>7 DEF NoLocals
  <2> QED BY <1>1, <1>4, <1>5, <2>1, <2>2 DEF NewSpaceInv, At, Doing, me, its
<1> QED BY <1>5, <1>9, <1>10, <1>11, <1>12, <1>13

LEMMA FillFailsStep ==
  ASSUME Inv, Own, FillFails
  PROVE  Inv'
<1>1. pc[current] = "fill"
  BY DEF FillFails, At, Doing
<1>2. Linked = LiveTasks /\ (current = Idle => Linked = {Idle})
  BY <1>1 DEF Inv, ControlInv, Linked, Outside, Doing, Own
<1>3. \A s \in LiveTasks \ {Idle} : cr3[s] \in livePds'
  BY <1>1, <1>2 DEF Inv, SpaceInv, Doomed, Dying, FillFails, Own
<1>4. livePds' \in SUBSET PDs
  BY DEF Inv, TypeOK, FillFails
<1> QED BY <1>1, <1>3, <1>4, GiveUp DEF FillFails

LEMMA FillStep ==
  ASSUME Inv, Own, FillMapped \/ \E q \in PDs : FillFork(q)
  PROVE  Inv'
<1> USE DEF Inv, Own
<1>1. /\ pc[current] = "fill" /\ Goto("init")
      /\ UNCHANGED << state, next, cr3, isThread, pid, nextPid, taskCount,
                     current >>
  BY DEF At, Doing, FillMapped, FillFork, tableVars
<1>2. pc'[current] = "init" /\ \A s \in Slots : s # current => pc'[s] = pc[s]
  BY <1>1, SlotFacts DEF TypeOK, Goto
<1>3. /\ LiveTasks' = LiveTasks /\ FreeSlots' = FreeSlots
      /\ Linked' = Linked /\ Linked = LiveTasks
      /\ OneCycle' /\ CountInv'
  BY <1>1, <1>2, SameList DEF InList
<1>4. current \in LiveTasks
  BY <1>1, CurrentAlive DEF At, Doing, InList
<1>5. me \in Locals /\ me.slot \in FreeSlots
  BY <1>1 DEF TypeOK, me, its, CreateInv
<1>6. \/ me' = me /\ livePds' = livePds /\ me.pd # NoPD
      \/ \E q \in PDs : /\ me' = [me EXCEPT !.pd = q]
                        /\ livePds' = livePds \cup {q}
                        /\ q \notin livePds /\ me.pd = NoPD
  BY DEF TypeOK, me, its, FillMapped, FillFork
<1>7. me'.slot = me.slot /\ me'.thread = me.thread /\ livePds \subseteq livePds'
  BY <1>5, <1>6 DEF Locals
<1>8. TypeOK'
  <2>1. loc' \in [Slots -> Locals] /\ livePds' \in SUBSET PDs
    <3>1. CASE FillMapped
      BY <3>1 DEF TypeOK, FillMapped
    <3>2. ASSUME NEW q \in PDs, FillFork(q)
          PROVE  loc' \in [Slots -> Locals] /\ livePds' \in SUBSET PDs
      <4>1. [me EXCEPT !.pd = q] \in Locals
        BY <1>5 DEF Locals
      <4>2. loc' = [loc EXCEPT ![current] = [me EXCEPT !.pd = q]]
        BY <3>2 DEF FillFork, me, its
      <4> QED BY <3>2, <4>1, <4>2 DEF TypeOK, FillFork
    <3> QED BY <3>1, <3>2
  <2>2. pc' \in [Slots -> {"user", "stub"} \cup Creating \cup Killing]
    BY <1>1 DEF TypeOK, Goto, Creating
  <2> QED BY <1>1, <2>1, <2>2 DEF TypeOK
<1>9. ControlInv'
  BY <1>1, <1>2, <1>3, <1>4, LinkedType, SlotFacts DEF ControlInv, Inside, At, Doing,
                                                       Killing, Dying, TypeOK
<1>10. CreateInv' /\ ReapInv'
  BY <1>1, <1>2, <1>3, <1>5, <1>7 DEF CreateInv, ReapInv, At, Doing, SameSpaceAs,
       SameSpaceThread, me, its
<1>11. SpaceInv'
  BY <1>1, <1>2, <1>3, <1>7 DEF SpaceInv, Doomed, Dying
<1>12. NewSpaceInv'
  <2>1. \A s \in LiveTasks \ {Idle} : cr3[s] \in livePds
    BY <1>1 DEF SpaceInv, Doomed, Dying
  <2>2. cr3[Idle] = KernelPD /\ (current # Idle => cr3[current] \in livePds)
    BY <1>3, <1>4, <2>1 DEF SpaceInv, OneCycle
  <2>3. current = Idle => me.pd \in livePds /\ ~me.thread
    BY <1>1 DEF NewSpaceInv, At, Doing, Creating, me, its
  <2>4. current # Idle => me.pd = IF me.thread THEN cr3[current] ELSE NoPD
    BY <1>1 DEF NewSpaceInv, At, Doing, me, its
  <2>5. ~me.thread => \A s \in LiveTasks : cr3[s] # me.pd
    BY <1>1 DEF NewSpaceInv, At, Doing, me, its
  <2>6. CASE me' = me /\ livePds' = livePds /\ me.pd # NoPD
    BY <1>1, <1>2, <1>3, <2>3, <2>4, <2>5, <2>6 DEF NewSpaceInv, At, Doing, me, its
  <2>7. ASSUME NEW q \in PDs, me' = [me EXCEPT !.pd = q],
               livePds' = livePds \cup {q}, q \notin livePds, me.pd = NoPD
        PROVE  NewSpaceInv'
    <3>1. me'.pd = q /\ ~me.thread
      <4>1. NoPD \notin livePds
        BY TaskRingAssumption DEF TypeOK
      <4> QED BY <1>5, <2>2, <2>3, <2>4, <2>7, <4>1 DEF Locals
    <3>2. \A s \in LiveTasks : cr3[s] # q
      BY <2>1, <2>2, <2>7, TaskRingAssumption
    <3> QED BY <1>1, <1>2, <1>3, <1>7, <2>7, <3>1, <3>2 DEF NewSpaceInv, At, Doing, me,
                 its
  <2> QED BY <1>6, <2>6, <2>7
<1> QED BY <1>3, <1>8, <1>9, <1>10, <1>11, <1>12

LEMMA InitSlotStep ==
  ASSUME Inv, Own, InitSlot
  PROVE  Inv'
<1> USE DEF Inv, Own
<1> DEFINE t == me.slot
<1>1. /\ pc[current] = "init"
      /\ UNCHANGED << state, next, pid, nextPid, taskCount, current, livePds >>
  BY DEF InitSlot, At, Doing
<1>2. /\ me \in Locals /\ t \in FreeSlots /\ t \in Slots /\ t # Idle
      /\ t \notin LiveTasks
  BY <1>1 DEF TypeOK, me, its, CreateInv, FreeSlots, LiveTasks, Alive
<1>3. current \in LiveTasks /\ t # current
  BY <1>1, <1>2, CurrentAlive DEF At, Doing, InList
<1>4. /\ cr3' = [cr3 EXCEPT ![t] = me.pd]
      /\ isThread' = [isThread EXCEPT ![t] = @ \/ me.thread]
      /\ pc'  = [pc EXCEPT ![current] = "ready", ![t] = "user"]
      /\ loc' = [loc EXCEPT ![current].ticket = nextPid, ![t] = NoLocals]
  BY DEF InitSlot
<1>5. /\ pc'[current] = "ready" /\ pc'[t] = "user"
      /\ \A s \in Slots \ {t, current} : pc'[s] = pc[s]
  BY <1>2, <1>3, <1>4 DEF TypeOK
<1>6. me' = [me EXCEPT !.ticket = nextPid]
  BY <1>1, <1>2, <1>3, <1>4 DEF TypeOK, me, its
<1>7. me'.slot = t /\ me'.thread = me.thread /\ me'.pd = me.pd
  BY <1>2, <1>6 DEF Locals
<1>8. /\ LiveTasks' = LiveTasks /\ FreeSlots' = FreeSlots
      /\ Linked' = Linked /\ Linked = LiveTasks
      /\ OneCycle' /\ CountInv'
  BY <1>1, <1>5, SameList DEF InList
<1>9. /\ \A s \in LiveTasks : cr3'[s] = cr3[s] /\ isThread'[s] = isThread[s]
      /\ cr3'[t] = me.pd /\ (me.thread => isThread'[t])
  BY <1>2, <1>4, LinkedType DEF TypeOK
<1>10. TypeOK'
  <2>1. [me EXCEPT !.ticket = nextPid] \in Locals /\ NoLocals \in Locals
    BY <1>2, SlotFacts DEF Locals, NoLocals, TypeOK
  <2>2. loc' = [loc EXCEPT ![current] = [me EXCEPT !.ticket = nextPid],
                           ![t] = NoLocals]
    BY <1>3, <1>4 DEF me, its
  <2>3. loc' \in [Slots -> Locals]
    BY <2>1, <2>2 DEF TypeOK
  <2>4. pc' \in [Slots -> {"user", "stub"} \cup Creating \cup Killing]
    BY <1>4 DEF TypeOK, Creating
  <2>5. cr3' \in [Slots -> PDs \cup {KernelPD, NoPD}]
    BY <1>2, <1>4 DEF TypeOK, Locals
  <2>6. isThread' \in [Slots -> BOOLEAN]
    BY <1>2, <1>4 DEF TypeOK, Locals
  <2> QED BY <1>1, <2>3, <2>4, <2>5, <2>6 DEF TypeOK
<1>11. ControlInv'
  BY <1>1, <1>2, <1>3, <1>5, <1>8, LinkedType, SlotFacts DEF ControlInv, Inside, At,
                                                             Doing, Killing, Dying,
                                                             TypeOK
<1>12. CreateInv' /\ ReapInv'
  BY <1>1, <1>2, <1>5, <1>7, <1>8 DEF CreateInv, ReapInv, At, Doing, SameSpaceAs,
       SameSpaceThread, me, its
<1>13. SpaceInv'
  BY <1>1, <1>5, <1>8, <1>9 DEF SpaceInv, Doomed, Dying
<1>14. NewSpaceInv'
  <2>1. /\ (~me.thread => \A s \in LiveTasks : cr3[s] # me.pd)
        /\ me.pd \in IF me.thread THEN {cr3[current]} ELSE livePds
        /\ current = Idle => ~me.thread
    BY <1>1 DEF NewSpaceInv, Creating, At, Doing, me, its
  <2> QED BY <1>1, <1>3, <1>5, <1>7, <1>8, <1>9, <2>1 DEF NewSpaceInv, At, Doing, me,
               its
<1> QED BY <1>8, <1>10, <1>11, <1>12, <1>13, <1>14

LEMMA SetReadyStep ==
  ASSUME Inv, Own, SetReady
  PROVE  Inv'
<1> USE DEF Inv, Own
<1> DEFINE t == me.slot
<1>1. /\ pc[current] = "ready" /\ Goto("link")
      /\ UNCHANGED << next, cr3, isThread, taskCount, current, livePds, loc >>
      /\ state' = [state EXCEPT ![t] = "READY"]
      /\ pid' = [pid EXCEPT ![t] = me.ticket]
      /\ nextPid' = (me.ticket + 1) % PidSpace
  BY DEF SetReady, At, Doing
<1>2. /\ me \in Locals /\ t \in FreeSlots /\ t \in Slots /\ t # Idle
      /\ t \notin LiveTasks /\ pc[t] = "user"
  BY <1>1 DEF TypeOK, me, its, CreateInv, FreeSlots, LiveTasks, Alive, At, Doing
<1>3. current \in LiveTasks /\ t # current
  BY <1>1, <1>2, CurrentAlive DEF At, Doing, InList
<1>4. pc'[current] = "link" /\ \A s \in Slots : s # current => pc'[s] = pc[s]
  BY <1>1, SlotFacts DEF TypeOK, Goto
<1>5. me' = me
  BY <1>1 DEF me, its
<1>6. LiveTasks' = LiveTasks \cup {t}
  BY <1>1, <1>2 DEF LiveTasks, Alive, TypeOK
<1>7. Linked = LiveTasks /\ Linked' = Linked
  BY <1>1, <1>2, <1>4, <1>5, <1>6 DEF Linked, Outside, At, Doing, me, its
<1>8. TypeOK'
  <2>1. nextPid' \in Nat
    BY <1>1, <1>2, TaskRingAssumption DEF Locals
  <2>2. pid' \in [Slots -> Nat]
    BY <1>1, <1>2 DEF TypeOK, Locals
  <2>3. pc' \in [Slots -> {"user", "stub"} \cup Creating \cup Killing]
    BY <1>1 DEF TypeOK, Goto, Creating
  <2>4. state' \in [Slots -> {"FREE", "READY", "RUNNING"}]
    BY <1>1 DEF TypeOK
  <2> QED BY <1>1, <2>1, <2>2, <2>3, <2>4 DEF TypeOK
<1>9. OneCycle'
  BY <1>1, <1>7 DEF OneCycle, Closed
<1>10. CountInv'
  BY <1>1, <1>4, <1>7 DEF CountInv, At, Doing
<1>11. ControlInv'
  BY <1>1, <1>2, <1>3, <1>4, <1>6, <1>7, LinkedType, SlotFacts
     DEF ControlInv, Inside, At, Doing, Killing, Dying, TypeOK
<1>12. CreateInv' /\ ReapInv'
  BY <1>1, <1>2, <1>3, <1>4, <1>5, <1>6 DEF CreateInv, ReapInv, At, Doing, SameSpaceAs,
       SameSpaceThread, me, its
<1>13. /\ cr3[t] = me.pd /\ me.pd \in livePds /\ me.pd # KernelPD
       /\ me.thread => isThread[t]
       /\ ~me.thread => \A s \in LiveTasks : cr3[s] # me.pd
  <2>1. /\ cr3[t] = me.pd /\ (me.thread => isThread[t])
        /\ (~me.thread => \A s \in LiveTasks : cr3[s] # me.pd)
        /\ me.pd \in IF me.thread THEN {cr3[current]} ELSE livePds
        /\ current = Idle => ~me.thread
    BY <1>1 DEF NewSpaceInv, Creating, At, Doing, me, its
  <2>2. current # Idle => cr3[current] \in livePds
    BY <1>1, <1>3 DEF SpaceInv, Doomed, Dying
  <2> QED BY <2>1, <2>2, TaskRingAssumption DEF TypeOK
<1>14. SpaceInv'
  BY <1>1, <1>2, <1>4, <1>6, <1>13 DEF SpaceInv, Doomed, Dying
<1>15. NewSpaceInv'
  BY <1>1, <1>4, <1>5 DEF NewSpaceInv, At, Doing, Creating, me, its
<1> QED BY <1>8, <1>9, <1>10, <1>11, <1>12, <1>14, <1>15

LEMMA LinkNewStep ==
  ASSUME Inv, Own, LinkNew
  PROVE  Inv'
<1> USE DEF Inv, Own
<1> DEFINE t == me.slot
<1>1. /\ pc[current] = "link" /\ Goto("insert")
      /\ UNCHANGED << state, cr3, isThread, pid, nextPid, taskCount, current,
                     livePds, loc >>
      /\ next' = [next EXCEPT ![t] = next[current]]
  BY DEF LinkNew, At, Doing
<1>2. t \in LiveTasks /\ t # Idle /\ t # current /\ t \in Slots
  BY <1>1, LinkedType DEF CreateInv, At, Doing, me, its
<1>3. pc'[current] = "insert" /\ \A s \in Slots : s # current => pc'[s] = pc[s]
  BY <1>1, SlotFacts DEF TypeOK, Goto
<1>4. LiveTasks' = LiveTasks /\ me' = me
  BY <1>1 DEF LiveTasks, Alive, me, its
<1>5. Linked = LiveTasks \ {t} /\ Linked' = Linked
  BY <1>1, <1>3, <1>4 DEF Linked, Outside, At, Doing, me, its
<1>6. current \in Linked
  BY <1>1 DEF ControlInv, Inside
<1>7. \A x \in Linked : next'[x] = next[x]
  BY <1>1, <1>5, LinkedType DEF TypeOK
<1>8. OneCycle'
  BY <1>5, <1>7, OneCycleIs, OneCycleIsPrimed, CycleAgree
<1>9. TypeOK'
  <2>1. pc' \in [Slots -> {"user", "stub"} \cup Creating \cup Killing]
    BY <1>1 DEF TypeOK, Goto, Creating
  <2>2. next' \in [Slots -> Slots \cup {Nil}]
    BY <1>1 DEF TypeOK
  <2> QED BY <1>1, <2>1, <2>2 DEF TypeOK
<1>10. CountInv'
  BY <1>1, <1>3, <1>5 DEF CountInv, At, Doing
<1>11. ControlInv'
  BY <1>1, <1>3, <1>4, <1>5, <1>6, <1>7, LinkedType, SlotFacts
     DEF ControlInv, Inside, At, Doing, Killing, Dying, TypeOK
<1>12. CreateInv' /\ ReapInv'
  BY <1>1, <1>2, <1>3, <1>4, <1>6, <1>7 DEF CreateInv, ReapInv, At, Doing, TypeOK,
       SameSpaceAs, SameSpaceThread, me, its
<1>13. SpaceInv' /\ NewSpaceInv'
  BY <1>1, <1>3, <1>4 DEF SpaceInv, NewSpaceInv, Doomed, Dying, Creating, At, Doing,
       Inside, me, its
<1> QED BY <1>8, <1>9, <1>10, <1>11, <1>12, <1>13

LEMMA InsertNewStep ==
  ASSUME Inv, Own, InsertNew
  PROVE  Inv'
<1> USE DEF Inv, Own
<1> DEFINE t == me.slot
<1>1. /\ pc[current] = "insert" /\ Return /\ taskCount' = taskCount + 1
      /\ UNCHANGED << state, cr3, isThread, pid, nextPid, current, livePds >>
      /\ next' = [next EXCEPT ![current] = t]
  BY DEF InsertNew, At, Doing
<1>2. /\ t \in LiveTasks /\ t # Idle /\ t # current /\ t \in Slots
      /\ next[t] = next[current]
  BY <1>1, LinkedType DEF CreateInv, At, Doing, me, its
<1>3. pc'[current] = "user" /\ \A s \in Slots : s # current => pc'[s] = pc[s]
  BY <1>1, SlotFacts DEF TypeOK, Goto, Return
<1>4. LiveTasks' = LiveTasks
  BY <1>1 DEF LiveTasks, Alive
<1>5. Linked = LiveTasks \ {t} /\ Linked' = LiveTasks
  BY <1>1, <1>3, <1>4 DEF Linked, Outside, At, Doing, me, its
<1>6. Linked' = Linked \cup {t} /\ t \notin Linked /\ current \in Linked
  BY <1>1, <1>2, <1>5 DEF ControlInv, Inside
<1>7. OneCycle'
  <2>1. next \in [Slots -> Slots \cup {Nil}] /\ Linked \in SUBSET Slots
    BY LinkedType DEF TypeOK
  <2>2. IsCycle(next', Linked \cup {t})
    BY <1>1, <1>2, <1>6, <2>1, OneCycleIs, CycleInsert
  <2> QED BY <1>6, <2>2, OneCycleIs, OneCycleIsPrimed
<1>8. TypeOK'
  <2>1. pc' \in [Slots -> {"user", "stub"} \cup Creating \cup Killing]
    BY <1>1 DEF TypeOK, Goto, Return
  <2>2. next' \in [Slots -> Slots \cup {Nil}]
    BY <1>1, <1>2 DEF TypeOK
  <2>3. loc' \in [Slots -> Locals]
    <3>1. NoLocals \in Locals
      BY SlotFacts DEF Locals, NoLocals
    <3> QED BY <1>1, <3>1 DEF TypeOK, Return
  <2> QED BY <1>1, <2>1, <2>2, <2>3 DEF TypeOK
<1>9. CountInv'
  <2>1. Cardinality(Linked') = Cardinality(Linked) + 1
    BY <1>6, LinkedType, FS_AddElement
  <2>2. taskCount = Cardinality(Linked)
    BY <1>1, LinkedType DEF CountInv, At, Doing
  <2> QED BY <1>1, <1>3, <2>1, <2>2 DEF CountInv, At, Doing
<1>10. ControlInv'
  BY <1>1, <1>3, <1>4, <1>6, LinkedType, SlotFacts DEF ControlInv, Inside, At, Doing,
                                                       Killing, Dying, TypeOK
<1>11. CreateInv' /\ ReapInv' /\ NewSpaceInv'
  BY <1>1, <1>3 DEF CreateInv, ReapInv, NewSpaceInv, At, Doing, Creating
<1>12. SpaceInv'
  BY <1>1, <1>3, <1>4 DEF SpaceInv, Doomed, Dying
<1> QED BY <1>7, <1>8, <1>9, <1>10, <1>11, <1>12

LEMMA KillCallStep ==
  ASSUME Inv, Opens, NEW m \in BOOLEAN, KillCall(m)
  PROVE  Inv'
<1> USE DEF Inv, Opens
<1>1. /\ pc[current] = "user" /\ current # Idle
      /\ UNCHANGED << state, next, cr3, isThread, pid, nextPid, taskCount,
                     current, livePds >>
      /\ Goto(IF isThread[current] THEN "clear" ELSE "reap")
      /\ loc' = [loc EXCEPT ![current] =
                   [NoLocals EXCEPT !.masked = m, !.t = next[current]]]
  BY DEF KillCall, UserCall, At, Doing, tableVars
<1>2. /\ pc'[current] = (IF isThread[current] THEN "clear" ELSE "reap")
      /\ \A s \in Slots : s # current => pc'[s] = pc[s]
  BY <1>1, SlotFacts DEF TypeOK, Goto
<1>3. /\ LiveTasks' = LiveTasks
      /\ Linked' = Linked /\ Linked = LiveTasks
      /\ OneCycle' /\ CountInv'
  BY <1>1, <1>2, SameList, OpensList DEF InList
<1>4. current \in Linked
  BY <1>1, CurrentAlive DEF At, Doing, InList
<1>5. next[current] \in Linked
  BY <1>4 DEF OneCycle
<1>6. [NoLocals EXCEPT !.masked = m, !.t = next[current]] \in Locals
  BY <1>5, LinkedType, SlotFacts DEF Locals, NoLocals
<1>7. me'.t = next[current]
  BY <1>1, <1>6 DEF TypeOK, me, its, NoLocals
<1>8. TypeOK'
  <2>1. loc' \in [Slots -> Locals]
    BY <1>1, <1>6 DEF TypeOK
  <2>2. pc' \in [Slots -> {"user", "stub"} \cup Creating \cup Killing]
    BY <1>1 DEF TypeOK, Goto, Killing
  <2> QED BY <1>1, <2>1, <2>2 DEF TypeOK
<1>9. ControlInv'
  BY <1>1, <1>2, <1>3, <1>4, LinkedType, SlotFacts DEF ControlInv, Inside, At, Doing,
                                                       Killing, Dying, TypeOK
<1>10. CreateInv' /\ NewSpaceInv'
  BY <1>1, <1>2 DEF CreateInv, NewSpaceInv, At, Doing, Creating
<1>11. SpaceInv'
  BY <1>1, <1>2, <1>3, SlotFacts DEF SpaceInv, Doomed, Dying, Inside, TypeOK
<1>12. ReapInv'
  <2>1. CASE isThread[current]
    BY <1>1, <1>2, <2>1 DEF ReapInv, At, Doing
  <2>2. CASE ~isThread[current]
    <3> DEFINE V == {current}
    <3>1. V \in SUBSET Linked' /\ current \in V
      BY <1>3, <1>4
    <3>2. \A x \in V : ~SameSpaceThread(x)' /\ next'[x] \in V \cup {me'.t}
      BY <1>1, <1>7, <2>2 DEF SameSpaceThread, SameSpaceAs
    <3>3. me'.t \in Linked' /\ pc'[current'] = "reap"
      BY <1>1, <1>2, <1>3, <1>5, <1>7, <2>2
    <3> HIDE DEF V
    <3> QED BY <1>1, <3>1, <3>2, <3>3 DEF ReapInv, At, Doing, SameSpaceAs,
                 SameSpaceThread, me, its
  <2> QED BY <2>1, <2>2
<1> QED BY <1>3, <1>8, <1>9, <1>10, <1>11, <1>12

(* What ReapInv says inside the loop, with its witness named.              *)
LEMMA Reaping ==
  ASSUME Inv, Own, pc[current] \in {"reap", "reapWalk", "reapCut"}
  PROVE  /\ current # Idle /\ current \in Linked /\ me.t \in Linked
         /\ Linked = LiveTasks
         /\ me \in Locals
         /\ cr3[current] \in livePds /\ ~isThread[current]
         /\ \E V \in SUBSET Linked :
              /\ current \in V
              /\ \A x \in V : ~SameSpaceThread(x)
              /\ \A x \in V : next[x] \in V \cup {me.t}
<1> USE DEF Inv, Own
<1>1. current # Idle /\ current \in Linked /\ Linked = LiveTasks
  BY DEF ControlInv, Inside, Killing, Linked, Outside, At, Doing
<1>2. me \in Locals
  BY DEF TypeOK, me, its
<1>3. cr3[current] \in livePds /\ ~isThread[current]
  BY <1>1 DEF SpaceInv, Doomed, Dying
<1> QED BY <1>1, <1>2, <1>3 DEF ReapInv, SameSpaceAs, SameSpaceThread, At, Doing, me,
             its

(* Inside the loop, everything but ReapInv carries over a step that only   *)
(* moves pc and the locals.                                                *)
LEMMA ReapMoves ==
  ASSUME Inv, Own, NEW l \in {"reap", "reapWalk", "reapCut", "freePd"},
         pc[current] \in {"reap", "reapWalk", "reapCut"}, Goto(l),
         UNCHANGED << tableVars, current, livePds >>,
         loc' \in [Slots -> Locals]
  PROVE  /\ TypeOK' /\ OneCycle' /\ CountInv' /\ ControlInv' /\ CreateInv'
         /\ SpaceInv' /\ NewSpaceInv'
         /\ Linked' = Linked /\ LiveTasks' = LiveTasks
         /\ pc'[current] = l
<1> USE DEF Inv, Own, tableVars
<1>1. pc'[current] = l /\ \A s \in Slots : s # current => pc'[s] = pc[s]
  BY SlotFacts DEF TypeOK, Goto
<1>2. /\ LiveTasks' = LiveTasks
      /\ Linked' = Linked /\ Linked = LiveTasks
      /\ OneCycle' /\ CountInv'
  BY <1>1, SameList DEF InList
<1>3. TypeOK'
  <2>1. pc' \in [Slots -> {"user", "stub"} \cup Creating \cup Killing]
    BY DEF TypeOK, Goto, Killing
  <2> QED BY <2>1 DEF TypeOK
<1>4. ControlInv'
  BY <1>1, <1>2, Reaping, LinkedType, SlotFacts DEF ControlInv, Inside, At, Doing,
                                                    Killing, Dying, TypeOK
<1>5. CreateInv' /\ NewSpaceInv'
  BY <1>1 DEF CreateInv, NewSpaceInv, At, Doing, Creating
<1>6. SpaceInv'
  BY <1>1, <1>2 DEF SpaceInv, Doomed, Dying
<1> QED BY <1>1, <1>2, <1>3, <1>4, <1>5, <1>6

LEMMA ReapSkipStep ==
  ASSUME Inv, Own, ReapSkip
  PROVE  Inv'
<1> USE DEF Inv, Own
<1>1. /\ pc[current] = "reap" /\ Goto("reap")
      /\ UNCHANGED << tableVars, current, livePds >>
      /\ loc' = [loc EXCEPT ![current].t = next[me.t]]
      /\ ~SameSpaceThread(me.t)
  BY DEF ReapSkip, At, Doing, Goto, TypeOK
<1>2. next[me.t] \in Linked /\ next[me.t] \in Slots
  BY <1>1, Reaping, LinkedType DEF OneCycle
<1>3. [me EXCEPT !.t = next[me.t]] \in Locals
  BY <1>1, <1>2, Reaping DEF Locals
<1>4. me'.t = next[me.t] /\ loc' \in [Slots -> Locals]
  <2>1. loc' = [loc EXCEPT ![current] = [me EXCEPT !.t = next[me.t]]]
    BY <1>1 DEF me, its
  <2> QED BY <1>1, <1>3, <2>1, Reaping DEF TypeOK, me, its, Locals
<1>5. /\ TypeOK' /\ OneCycle' /\ CountInv' /\ ControlInv' /\ CreateInv'
      /\ SpaceInv' /\ NewSpaceInv'
      /\ Linked' = Linked /\ LiveTasks' = LiveTasks
      /\ pc'[current] = "reap"
  BY <1>1, <1>4, ReapMoves
<1>6. PICK V \in SUBSET Linked :
        /\ current \in V
        /\ \A x \in V : ~SameSpaceThread(x)
        /\ \A x \in V : next[x] \in V \cup {me.t}
  BY <1>1, Reaping
<1>7. ReapInv'
  <2> DEFINE W == V \cup {me.t}
  <2>1. W \in SUBSET Linked' /\ current \in W
    BY <1>1, <1>5, <1>6, Reaping
  <2>2. \A x \in W : ~SameSpaceThread(x)'
    BY <1>1, <1>6 DEF SameSpaceThread, SameSpaceAs, tableVars
  <2>3. \A x \in W : next'[x] \in W \cup {me'.t}
    BY <1>1, <1>4, <1>6 DEF tableVars
  <2>4. me'.t \in Linked' /\ current' = current
    BY <1>1, <1>2, <1>4, <1>5
  <2> HIDE DEF W
  <2> QED BY <1>5, <2>1, <2>2, <2>3, <2>4 DEF ReapInv, At, Doing, SameSpaceAs,
               SameSpaceThread, me, its
<1> QED BY <1>5, <1>7

LEMMA ReapMatchStep ==
  ASSUME Inv, Own, ReapMatch \/ ReapWalk
  PROVE  Inv'
<1> USE DEF Inv, Own
<1>1. PICK l \in {"reapWalk", "reapCut"} :
        /\ pc[current] = (IF l = "reapWalk" THEN "reap" ELSE "reapWalk")
        /\ Goto(l)
        /\ UNCHANGED << tableVars, current, livePds >>
        /\ IF l = "reapWalk"
           THEN /\ loc' = [loc EXCEPT ![current].nx = next[me.t]]
                /\ SameSpaceThread(me.t) /\ me.t # current
           ELSE \E q \in Predecessors(me.t) :
                  loc' = [loc EXCEPT ![current].p = q]
  BY DEF ReapMatch, ReapWalk, At, Doing
<1>2. next[me.t] \in Linked /\ next[me.t] \in Slots
  BY <1>1, Reaping, LinkedType DEF OneCycle
<1>3. \A q \in Predecessors(me.t) : q \in Linked /\ q \in Slots /\ next[q] = me.t
  BY <1>1, Reaping, PredecessorLinked, LinkedType
<1>4. /\ loc' \in [Slots -> Locals]
      /\ me'.t = me.t
      /\ me'.nx = IF l = "reapWalk" THEN next[me.t] ELSE me.nx
      /\ l = "reapCut" => me'.p \in Linked /\ next[me'.p] = me.t
  <2>1. CASE l = "reapWalk"
    <3>1. [me EXCEPT !.nx = next[me.t]] \in Locals
      BY <1>1, <1>2, Reaping DEF Locals
    <3>2. loc' = [loc EXCEPT ![current] = [me EXCEPT !.nx = next[me.t]]]
      BY <1>1, <2>1 DEF me
    <3> QED BY <1>1, <1>2, <2>1, <3>1, <3>2, Reaping DEF TypeOK, me, Locals
  <2>2. CASE l = "reapCut"
    <3>1. PICK q \in Predecessors(me.t) : loc' = [loc EXCEPT ![current].p = q]
      BY <1>1, <2>2
    <3>2. loc' = [loc EXCEPT ![current] = [me EXCEPT !.p = q]]
      BY <3>1 DEF me, its
    <3>3. [me EXCEPT !.p = q] \in Locals
      BY <1>1, <1>3, Reaping DEF Locals
    <3> QED BY <1>1, <1>3, <2>2, <3>2, <3>3, Reaping DEF TypeOK, me, its, Locals
  <2> QED BY <2>1, <2>2
<1>5. /\ TypeOK' /\ OneCycle' /\ CountInv' /\ ControlInv' /\ CreateInv'
      /\ SpaceInv' /\ NewSpaceInv'
      /\ Linked' = Linked /\ LiveTasks' = LiveTasks
      /\ pc'[current] = l
  BY <1>1, <1>4, ReapMoves
<1>6. PICK V \in SUBSET Linked :
        /\ current \in V
        /\ \A x \in V : ~SameSpaceThread(x)
        /\ \A x \in V : next[x] \in V \cup {me.t}
  BY <1>1, Reaping
<1>7. UNCHANGED << current, next, cr3, isThread >>
  BY <1>1 DEF tableVars
<1>8. /\ V \in SUBSET Linked' /\ me'.t \in Linked'
      /\ \A x \in V : ~SameSpaceThread(x)' /\ next'[x] \in V \cup {me'.t}
  BY <1>1, <1>4, <1>5, <1>6, <1>7, Reaping DEF SameSpaceThread, SameSpaceAs
<1>9. SameSpaceThread(me.t) /\ me.t # current /\ me'.nx = next[me.t]
  BY <1>1, <1>4 DEF ReapInv, SameSpaceAs, SameSpaceThread, At, Doing, me, its
<1>10. SameSpaceThread(me.t)' /\ me'.t # current' /\ me'.nx = next'[me'.t]
  BY <1>4, <1>7, <1>9 DEF SameSpaceThread, SameSpaceAs
<1>11. ReapInv'
  BY <1>1, <1>4, <1>5, <1>6, <1>7, <1>8, <1>10 DEF ReapInv, At, Doing, SameSpaceAs,
       SameSpaceThread, me, its
<1> QED BY <1>5, <1>11

LEMMA ReapCutStep ==
  ASSUME Inv, Own, ReapCut
  PROVE  Inv'
<1> USE DEF Inv, Own
<1> DEFINE t == me.t
           p == me.p
<1>1. /\ pc[current] = "reapCut" /\ Goto("reap")
      /\ UNCHANGED << cr3, isThread, pid, nextPid, current, livePds >>
      /\ next'  = [next EXCEPT ![p] = next[t]]
      /\ state' = [state EXCEPT ![t] = "FREE"]
      /\ taskCount' = taskCount - 1
      /\ loc' = [loc EXCEPT ![current].t = me.nx]
  BY DEF ReapCut, At, Doing
<1>2. /\ t \in Linked /\ t \in Slots /\ SameSpaceThread(t) /\ t # current
      /\ me.nx = next[t] /\ p \in Linked /\ p \in Slots /\ next[p] = t
  BY <1>1, LinkedType DEF ReapInv, At, Doing, SameSpaceAs, SameSpaceThread, me, its
<1>3. /\ current # Idle /\ current \in Linked /\ Linked = LiveTasks
      /\ me \in Locals /\ Idle \in Linked
  BY <1>1, Reaping DEF OneCycle
<1>4. t # Idle
  BY <1>2, <1>3, <1>1, Reaping DEF SpaceInv, SameSpaceThread, SameSpaceAs
<1>5. next[t] \in Linked /\ next[t] # t /\ p # t
  <2>1. next[t] # t
    <3> SUFFICES ASSUME next[t] = t PROVE FALSE
      OBVIOUS
    <3> DEFINE S == {t}
    <3>1. S \in SUBSET Linked /\ S # {} /\ Closed(S)
      BY <1>2 DEF Closed
    <3>2. S = Linked
      <4> HIDE DEF S
      <4> QED BY <3>1 DEF OneCycle
    <3> QED BY <3>2, <1>3, <1>4
  <2> QED BY <1>2, <2>1 DEF OneCycle
<1>6. pc'[current] = "reap" /\ \A s \in Slots : s # current => pc'[s] = pc[s]
  BY <1>1, SlotFacts DEF TypeOK, Goto
<1>7. LiveTasks' = LiveTasks \ {t}
  BY <1>1, <1>2 DEF LiveTasks, Alive, TypeOK
<1>8. Linked' = Linked \ {t} /\ Linked' = LiveTasks'
  BY <1>1, <1>3, <1>6, <1>7 DEF Linked, Outside, At, Doing
<1>9. OneCycle'
  <2>1. next \in [Slots -> Slots \cup {Nil}] /\ Linked \in SUBSET Slots
    BY LinkedType DEF TypeOK
  <2>2. IsCycle(next', Linked \ {t})
    BY <1>1, <1>2, <1>3, <1>4, <2>1, OneCycleIs, CycleRemove
  <2> QED BY <1>3, <1>4, <1>8, <2>2, OneCycleIs, OneCycleIsPrimed
<1>10. loc' \in [Slots -> Locals] /\ me'.t = next[t]
  <2>1. [me EXCEPT !.t = next[t]] \in Locals
    BY <1>3, <1>5, LinkedType DEF Locals
  <2>2. loc' = [loc EXCEPT ![current] = [me EXCEPT !.t = next[t]]]
    BY <1>1, <1>2 DEF me, its
  <2>3. [me EXCEPT !.t = next[t]].t = next[t]
    BY <1>3 DEF Locals
  <2>4. me' = [me EXCEPT !.t = next[t]]
    BY <1>1, <2>2 DEF TypeOK, me, its
  <2>5. loc' \in [Slots -> Locals]
    BY <2>1, <2>2 DEF TypeOK
  <2> QED BY <2>3, <2>4, <2>5
<1>11. Cardinality(Linked) = Cardinality(Linked') + 1
  <2>1. Cardinality(Linked \ {t}) = Cardinality(Linked) - 1
    BY <1>2, LinkedType, FS_RemoveElement
  <2> QED BY <1>8, <2>1, LinkedType
<1>12. CountInv' /\ taskCount' \in Nat
  <2>1. taskCount = Cardinality(Linked)
    BY <1>1, LinkedType DEF CountInv, At, Doing
  <2>2. Cardinality(Linked') \in Nat
    BY <1>8, LinkedType, FS_RemoveElement, FS_CardinalityType
  <2>3. taskCount' = Cardinality(Linked')
    BY <1>1, <1>11, <2>1, <2>2
  <2> QED BY <1>1, <1>6, <2>2, <2>3 DEF CountInv, At, Doing
<1>13. TypeOK'
  <2>1. pc' \in [Slots -> {"user", "stub"} \cup Creating \cup Killing]
    BY <1>1 DEF TypeOK, Goto, Killing
  <2>2. next' \in [Slots -> Slots \cup {Nil}]
    BY <1>1, <1>5, LinkedType DEF TypeOK
  <2>3. state' \in [Slots -> {"FREE", "READY", "RUNNING"}]
    BY <1>1 DEF TypeOK
  <2> QED BY <1>1, <1>10, <1>12, <2>1, <2>2, <2>3 DEF TypeOK
<1>14. ControlInv'
  BY <1>1, <1>2, <1>3, <1>6, <1>7, <1>8, LinkedType, SlotFacts
     DEF ControlInv, Inside, At, Doing, Killing, Dying, TypeOK
<1>15. CreateInv' /\ NewSpaceInv'
  BY <1>1, <1>6 DEF CreateInv, NewSpaceInv, At, Doing, Creating
<1>16. SpaceInv'
  BY <1>1, <1>6, <1>7 DEF SpaceInv, Doomed, Dying
<1>17. ReapInv'
  <2>1. PICK V \in SUBSET Linked :
          /\ current \in V
          /\ \A x \in V : ~SameSpaceThread(x)
          /\ \A x \in V : next[x] \in V \cup {t}
    BY <1>1, Reaping
  <2>2. t \notin V /\ V \in SUBSET Linked'
    BY <1>2, <1>8, <2>1
  <2>3. \A x \in V : ~SameSpaceThread(x)'
    BY <1>1, <2>1 DEF SameSpaceThread, SameSpaceAs
  <2>4. ASSUME NEW x \in V PROVE next'[x] \in V \cup {me'.t}
    <3>1. CASE x = p
      BY <1>1, <1>2, <1>10, <3>1, LinkedType DEF TypeOK
    <3>2. CASE x # p
      <4>1. next[x] # t
        BY <1>2, <3>2, <2>1 DEF OneCycle
      <4>2. next'[x] = next[x]
        BY <1>1, <2>1, <3>2, LinkedType DEF TypeOK
      <4> QED BY <2>1, <4>1, <4>2
    <3> QED BY <3>1, <3>2
  <2>5. me'.t \in Linked' /\ pc'[current'] = "reap" /\ current' = current
    BY <1>1, <1>5, <1>6, <1>8, <1>10
  <2> QED BY <2>1, <2>2, <2>3, <2>4, <2>5 DEF ReapInv, At, Doing, SameSpaceAs,
               SameSpaceThread, me, its
<1> QED BY <1>9, <1>12, <1>13, <1>14, <1>15, <1>16, <1>17

(* The loop has come round: it has passed every linked task.               *)
LEMMA ReapDoneStep ==
  ASSUME Inv, Own, ReapDone
  PROVE  Inv'
<1> USE DEF Inv, Own
<1>1. /\ pc[current] = "reap" /\ me.t = current /\ Goto("freePd")
      /\ UNCHANGED << tableVars, current, livePds, loc >>
  BY DEF ReapDone, At, Doing
<1>2. /\ TypeOK' /\ OneCycle' /\ CountInv' /\ ControlInv' /\ CreateInv'
      /\ SpaceInv' /\ NewSpaceInv'
      /\ LiveTasks' = LiveTasks /\ pc'[current] = "freePd"
  <2>1. loc' \in [Slots -> Locals]
    BY <1>1 DEF TypeOK
  <2> QED BY <1>1, <2>1, ReapMoves
<1>3. PICK V \in SUBSET Linked :
        /\ current \in V
        /\ \A x \in V : ~SameSpaceThread(x)
        /\ \A x \in V : next[x] \in V \cup {me.t}
  BY <1>1, Reaping
<1>4. V = Linked
  <2>1. V # {} /\ Closed(V)
    BY <1>1, <1>3 DEF Closed
  <2> QED BY <2>1 DEF OneCycle
<1>5. \A s \in LiveTasks \ {current} : cr3[s] # cr3[current]
  <2> SUFFICES ASSUME NEW s \in LiveTasks \ {current}, cr3[s] = cr3[current]
               PROVE  FALSE
    OBVIOUS
  <2>1. /\ ~isThread[s] /\ ~isThread[current]
        /\ s \in LiveTasks /\ current \in LiveTasks /\ current # Idle
    BY <1>1, <1>3, <1>4, Reaping DEF SameSpaceThread, SameSpaceAs
  <2>2. s # Idle
    BY <2>1 DEF SpaceInv
  <2> QED BY <1>1, <2>1, <2>2 DEF SpaceInv, Doomed, Dying
<1>6. ReapInv'
  BY <1>1, <1>2, <1>5 DEF ReapInv, At, Doing, tableVars
<1> QED BY <1>2, <1>6

(* The rest of a death up to the unlinking only moves pc, livePds, cr3 of  *)
(* the dying task and its local p.                                         *)
LEMMA DyingMoves ==
  ASSUME Inv, Own, NEW l \in {"clear", "walk", "cut"}, Goto(l),
         pc[current] \in {"freePd", "clear", "walk"},
         UNCHANGED << state, next, isThread, pid, nextPid, taskCount, current >>,
         loc' \in [Slots -> Locals],
         cr3' = cr3 \/ (cr3' = [cr3 EXCEPT ![current] = NoPD]),
         livePds' \in SUBSET livePds,
         \A s \in LiveTasks \ {current} :
           cr3[s] \in livePds => cr3[s] \in livePds'
  PROVE  /\ TypeOK' /\ OneCycle' /\ CountInv' /\ ControlInv' /\ CreateInv'
         /\ SpaceInv' /\ NewSpaceInv'
         /\ Linked' = Linked /\ current \in Linked /\ pc'[current] = l
<1> USE DEF Inv, Own
<1>1. pc'[current] = l /\ \A s \in Slots : s # current => pc'[s] = pc[s]
  BY SlotFacts DEF TypeOK, Goto
<1>2. /\ LiveTasks' = LiveTasks
      /\ Linked' = Linked /\ Linked = LiveTasks
      /\ OneCycle' /\ CountInv'
  BY <1>1, SameList DEF InList
<1>3. current \in Linked /\ current # Idle
  BY DEF ControlInv, Inside, Killing
<1>4. TypeOK'
  <2>1. pc' \in [Slots -> {"user", "stub"} \cup Creating \cup Killing]
    BY DEF TypeOK, Goto, Killing
  <2>2. cr3' \in [Slots -> PDs \cup {KernelPD, NoPD}] /\ livePds' \in SUBSET PDs
    BY DEF TypeOK
  <2> QED BY <2>1, <2>2 DEF TypeOK
<1>5. ControlInv'
  BY <1>1, <1>2, <1>3, LinkedType, SlotFacts DEF ControlInv, Inside, At, Doing,
                                                 Killing, Dying, TypeOK
<1>6. CreateInv' /\ NewSpaceInv'
  BY <1>1 DEF CreateInv, NewSpaceInv, At, Doing, Creating
<1>7. SpaceInv'
  <2>1. \A s \in LiveTasks \ {current} : cr3'[s] = cr3[s]
    BY LinkedType DEF TypeOK
  <2>2. cr3'[current] # KernelPD
    BY <1>2, <1>3, TaskRingAssumption DEF SpaceInv, TypeOK
  <2>3. Doomed' = {current} /\ Doomed \in SUBSET {current}
    BY <1>1 DEF Doomed, Dying
  <2>4. pc'[current'] \notin {"reap", "reapWalk", "reapCut", "freePd"}
    BY <1>1
  <2> QED BY <1>2, <1>3, <2>1, <2>2, <2>3, <2>4 DEF SpaceInv
<1> QED BY <1>1, <1>2, <1>3, <1>4, <1>5, <1>6, <1>7

LEMMA FreePdStep ==
  ASSUME Inv, Own, FreePd
  PROVE  Inv'
<1> USE DEF Inv, Own
<1>1. /\ pc[current] = "freePd" /\ Goto("clear")
      /\ UNCHANGED << tableVars, current, loc >>
      /\ livePds' = livePds \ {cr3[current]}
  BY DEF FreePd, At, Doing
<1>2. \A s \in LiveTasks \ {current} : cr3[s] # cr3[current]
  BY <1>1 DEF ReapInv, At, Doing
<1>3. /\ TypeOK' /\ OneCycle' /\ CountInv' /\ ControlInv' /\ CreateInv'
      /\ SpaceInv' /\ NewSpaceInv' /\ pc'[current] = "clear"
  BY <1>1, <1>2, DyingMoves DEF TypeOK, tableVars
<1> QED BY <1>1, <1>3 DEF ReapInv, At, Doing

LEMMA ClearCr3Step ==
  ASSUME Inv, Own, ClearCr3
  PROVE  Inv'
<1> USE DEF Inv, Own
<1>1. /\ pc[current] = "clear" /\ Goto("walk")
      /\ UNCHANGED << state, next, isThread, pid, nextPid, taskCount, current,
                     livePds, loc >>
      /\ cr3' = [cr3 EXCEPT ![current] = NoPD]
  BY DEF ClearCr3, At, Doing
<1>2. /\ TypeOK' /\ OneCycle' /\ CountInv' /\ ControlInv' /\ CreateInv'
      /\ SpaceInv' /\ NewSpaceInv' /\ pc'[current] = "walk"
  BY <1>1, DyingMoves DEF TypeOK
<1> QED BY <1>1, <1>2 DEF ReapInv, At, Doing

LEMMA RemoveWalkStep ==
  ASSUME Inv, Own, RemoveWalk
  PROVE  Inv'
<1> USE DEF Inv, Own
<1>1. /\ pc[current] = "walk" /\ Goto("cut")
      /\ UNCHANGED << state, next, cr3, isThread, pid, nextPid, taskCount,
                     current, livePds >>
  BY DEF RemoveWalk, At, Doing, tableVars
<1>2. PICK q \in Predecessors(current) : loc' = [loc EXCEPT ![current].p = q]
  BY DEF RemoveWalk
<1>3. current \in Linked
  BY <1>1 DEF ControlInv, Inside
<1>4. q \in Linked /\ q \in Slots /\ next[q] = current
  BY <1>2, <1>3, PredecessorLinked, LinkedType
<1>5. loc' \in [Slots -> Locals] /\ me'.p = q
  <2>1. me \in Locals /\ [me EXCEPT !.p = q] \in Locals
    BY <1>4 DEF TypeOK, me, its, Locals
  <2>2. loc' = [loc EXCEPT ![current] = [me EXCEPT !.p = q]]
    BY <1>2 DEF me, its
  <2> QED BY <1>1, <2>1, <2>2 DEF TypeOK, me, its, Locals
<1>6. /\ TypeOK' /\ OneCycle' /\ CountInv' /\ ControlInv' /\ CreateInv'
      /\ SpaceInv' /\ NewSpaceInv' /\ pc'[current] = "cut"
      /\ Linked' = Linked
  BY <1>1, <1>5, DyingMoves
<1> QED BY <1>1, <1>4, <1>5, <1>6 DEF ReapInv, At, Doing, SameSpaceAs, SameSpaceThread,
             me, its

LEMMA RemoveCutStep ==
  ASSUME Inv, Own, RemoveCut
  PROVE  Inv'
<1> USE DEF Inv, Own
<1> DEFINE p == me.p
<1>1. /\ pc[current] = "cut" /\ Goto("free")
      /\ UNCHANGED << state, cr3, isThread, pid, nextPid, taskCount, current,
                     livePds, loc >>
      /\ next' = [next EXCEPT ![p] = next[current]]
  BY DEF RemoveCut, At, Doing
<1>2. /\ current \in Linked /\ current # Idle /\ Linked = LiveTasks
      /\ p \in Linked /\ next[p] = current /\ Idle \in Linked
  BY <1>1 DEF ControlInv, Inside, Killing, ReapInv, At, Doing, Linked, Outside,
       OneCycle, Dying, SameSpaceAs, SameSpaceThread, me, its
<1>3. p # current
  <2> SUFFICES ASSUME next[current] = current PROVE FALSE
    BY <1>2
  <2> DEFINE S == {current}
  <2>1. S \in SUBSET Linked /\ S # {} /\ Closed(S)
    BY <1>2 DEF Closed
  <2>2. S = Linked
    <3> HIDE DEF S
    <3> QED BY <2>1 DEF OneCycle
  <2> QED BY <1>2, <2>2
<1>4. pc'[current] = "free" /\ \A s \in Slots : s # current => pc'[s] = pc[s]
  BY <1>1, SlotFacts DEF TypeOK, Goto
<1>5. LiveTasks' = LiveTasks
  BY <1>1 DEF LiveTasks, Alive
<1>6. Linked' = Linked \ {current}
  BY <1>1, <1>2, <1>4, <1>5 DEF Linked, Outside, At, Doing
<1>7. next[current] \in Linked' /\ next'[current] = next[current]
  <2>1. next[current] \in Linked /\ next[current] # current
    BY <1>2, <1>3 DEF OneCycle
  <2> QED BY <1>1, <1>3, <1>6, <2>1 DEF TypeOK
<1>8. OneCycle'
  <2>1. next \in [Slots -> Slots \cup {Nil}] /\ Linked \in SUBSET Slots
    BY LinkedType DEF TypeOK
  <2>2. IsCycle(next', Linked \ {current})
    BY <1>1, <1>2, <2>1, OneCycleIs, CycleRemove
  <2> QED BY <1>2, <1>6, <2>2, OneCycleIs, OneCycleIsPrimed
<1>9. CountInv'
  <2>1. Cardinality(Linked \ {current}) = Cardinality(Linked) - 1
    <3>1. current \in Linked /\ IsFiniteSet(Linked)
      BY <1>2, LinkedType
    <3> QED BY <3>1, FS_RemoveElement
  <2>2. taskCount = Cardinality(Linked)
    BY <1>1, LinkedType DEF CountInv, At, Doing
  <2> QED BY <1>1, <1>4, <1>6, <2>1, <2>2, LinkedType DEF CountInv, At, Doing
<1>10. TypeOK'
  <2>1. pc' \in [Slots -> {"user", "stub"} \cup Creating \cup Killing]
    BY <1>1 DEF TypeOK, Goto, Killing
  <2>2. next' \in [Slots -> Slots \cup {Nil}]
    BY <1>1, <1>6, <1>7, LinkedType DEF TypeOK
  <2> QED BY <1>1, <2>1, <2>2 DEF TypeOK
<1>11. ControlInv'
  BY <1>1, <1>2, <1>4, <1>5, <1>6, <1>7, LinkedType
     DEF ControlInv, Inside, At, Doing, Killing, LiveTasks, Alive
<1>12. CreateInv' /\ NewSpaceInv'
  BY <1>1, <1>4 DEF CreateInv, NewSpaceInv, At, Doing, Creating
<1>13. SpaceInv'
  BY <1>1, <1>4, <1>5 DEF SpaceInv, Doomed, Dying
<1>14. ReapInv'
  BY <1>1, <1>4 DEF ReapInv, At, Doing
<1> QED BY <1>8, <1>9, <1>10, <1>11, <1>12, <1>13, <1>14

LEMMA FreeSelfStep ==
  ASSUME Inv, Own, FreeSelf
  PROVE  Inv'
<1> USE DEF Inv, Own
<1>1. /\ pc[current] = "free" /\ Goto("stub")
      /\ UNCHANGED << next, cr3, isThread, pid, nextPid, current, livePds >>
      /\ state' = [state EXCEPT ![current] = "FREE"]
      /\ taskCount' = taskCount - 1
      /\ loc' = [loc EXCEPT ![current] = NoLocals]
  BY DEF FreeSelf, At, Doing
<1>2. current # Idle /\ next[current] \in Linked
  BY <1>1 DEF ControlInv, Inside, Killing, Linked, Outside, At, Doing
<1>3. pc'[current] = "stub" /\ \A s \in Slots : s # current => pc'[s] = pc[s]
  BY <1>1, SlotFacts DEF TypeOK, Goto
<1>4. LiveTasks' = LiveTasks \ {current}
  BY <1>1 DEF LiveTasks, Alive, TypeOK
<1>5. Linked' = Linked /\ Linked = LiveTasks \ {current}
  BY <1>1, <1>3, <1>4 DEF Linked, Outside, At, Doing
<1>6. OneCycle'
  BY <1>1, <1>5 DEF OneCycle, Closed
<1>7. CountInv' /\ taskCount' \in Nat
  BY <1>1, <1>3, <1>5, LinkedType DEF CountInv, At, Doing
<1>8. TypeOK'
  <2>1. pc' \in [Slots -> {"user", "stub"} \cup Creating \cup Killing]
    BY <1>1 DEF TypeOK, Goto
  <2>2. NoLocals \in Locals
    BY SlotFacts DEF Locals, NoLocals
  <2>3. loc' \in [Slots -> Locals] /\ state' \in [Slots -> {"FREE", "READY", "RUNNING"}]
    BY <1>1, <2>2 DEF TypeOK
  <2> QED BY <1>1, <1>7, <2>1, <2>3 DEF TypeOK
<1>9. ControlInv'
  BY <1>1, <1>2, <1>3, <1>4, <1>5, LinkedType, SlotFacts DEF ControlInv, Inside, At,
                                                             Doing, Killing,
                                                             LiveTasks, Alive, TypeOK,
                                                             Dying
<1>10. CreateInv' /\ NewSpaceInv' /\ ReapInv'
  BY <1>1, <1>3 DEF CreateInv, NewSpaceInv, ReapInv, At, Doing, Creating
<1>11. SpaceInv'
  BY <1>1, <1>3, <1>4 DEF SpaceInv, Doomed, Dying
<1> QED BY <1>6, <1>7, <1>8, <1>9, <1>10, <1>11

LEMMA StutterStep ==
  ASSUME Inv, UNCHANGED << tableVars, current, livePds, pc, loc, caller >>,
         raced' \in BOOLEAN
  PROVE  Inv'
<1> USE DEF Inv, tableVars
<1>1. LiveTasks' = LiveTasks /\ FreeSlots' = FreeSlots /\ Linked' = Linked
  BY DEF LiveTasks, Alive, FreeSlots, Linked, Outside, Doing, its
<1>2. TypeOK'
  BY DEF TypeOK
<1>3. OneCycle' /\ CountInv'
  BY <1>1 DEF OneCycle, Closed, CountInv, Doing
<1>4. ControlInv'
  BY <1>1 DEF ControlInv, Inside, Dying
<1>5. CreateInv' /\ ReapInv'
  BY <1>1 DEF CreateInv, ReapInv, SameSpaceAs, Doing, its
<1>6. SpaceInv' /\ NewSpaceInv'
  BY <1>1 DEF SpaceInv, Doomed, Dying, NewSpaceInv, Doing, its
<1> QED BY <1>2, <1>3, <1>4, <1>5, <1>6

(* A step inside a call is the caller's.                                   *)
LEMMA ContinueIsOwn ==
  ASSUME Inv, Create \/ Kill, NoteCall, ~raced'
  PROVE  Own
<1>1. Inside(current)
  BY DEF Create, Kill, RunPick, FillFork, FillMapped, FillFails, InitSlot,
         SetReady, LinkNew, InsertNew, ReapSkip, ReapMatch, ReapWalk, ReapCut,
         ReapDone, FreePd, ClearCr3, RemoveWalk, RemoveCut, FreeSelf, At, Inside
<1> QED BY <1>1 DEF Inv, TypeOK, ControlInv, NoteCall, Own

LEMMA BeginOpens ==
  ASSUME Inv, Call, NoteCall, ~raced'
  PROVE  Opens
<1>1. ~Inside(current)
  BY DEF Call, RunCall, ForkCall, ThreadCall, KillCall, UserCall, At, Inside
<1> QED BY <1>1 DEF NoteCall, Opens

LEMMA NextInv ==
  ASSUME Inv, [Next]_vars, ~raced'
  PROVE  Inv'
<1>1. CASE Interrupt
  BY <1>1, TickStep DEF Interrupt
<1>2. CASE TickReturns /\ NoteTick
  BY <1>2, StutterStep DEF TickReturns, NoteTick
<1>3. CASE Begin
  BY <1>3, BeginOpens, RunCallStep, EnterStep, KillCallStep DEF Begin, Call
<1>4. CASE Create /\ NoteCall
  BY <1>4, ContinueIsOwn, RunPickStep, FillStep, FillFailsStep, InitSlotStep,
     SetReadyStep, LinkNewStep, InsertNewStep DEF Create
<1>5. CASE Kill /\ NoteCall
  BY <1>5, ContinueIsOwn, ReapSkipStep, ReapMatchStep, ReapCutStep, ReapDoneStep,
     FreePdStep, ClearCr3Step, RemoveWalkStep, RemoveCutStep, FreeSelfStep DEF Kill
<1>6. CASE UNCHANGED vars
  BY <1>6, StutterStep DEF vars, tableVars, Inv, TypeOK
<1> QED BY <1>1, <1>2, <1>3, <1>4, <1>5, <1>6 DEF Next, Continue

(* What has raced stays so.                                                *)
LEMMA RacedStays ==
  ASSUME [Next]_vars, raced
  PROVE  raced'
BY DEF Next, Begin, Continue, Interrupt, NoteCall, NoteTick, vars

-----------------------------------------------------------------------------
(* THE THEOREMS                                                            *)

(* IInv holds in every reachable state, with interrupts enabled in system  *)
(* calls as syscall.c:187 has them, for any number of slots and any page   *)
(* directories: until calls race, Inv does.                                *)
THEOREM Invariance == Spec => []IInv
<1>1. Init => IInv
  BY InitInv DEF IInv
<1>2. IInv /\ [Next]_vars => IInv'
  BY NextInv, RacedStays DEF IInv
<1> QED BY <1>1, <1>2, PTL DEF Spec

(* The types of TaskRing's variables (task.h:40-58), until calls race.     *)
THEOREM TypeCorrect == Spec => [](~raced => TypeOK)
<1>1. IInv => (~raced => TypeOK)
  BY DEF IInv, Inv
<1> QED BY <1>1, Invariance, PTL

LEMMA QuietIsLinked ==
  ASSUME Inv, Quiet
  PROVE  Linked = LiveTasks /\ ~Doing("free")
BY DEF Inv, ControlInv, Quiet, Linked, Outside, Doing, Inside, LiveTasks, TypeOK

(* Between the calls the run list holds the live tasks and nothing else,   *)
(* wherever ticks cut the calls there were, as long as the calls did not   *)
(* race with one another.                                                  *)
THEOREM RingCorrect == Spec => []RingIsLiveUnraced
<1>1. IInv => RingIsLiveUnraced
  BY QuietIsLinked, OrbitLinked DEF IInv, Inv, OneCycle, RingIsLive, RingIsLiveUnraced
<1> QED BY <1>1, Invariance, PTL

(* task_count is the number of live tasks, until calls race.               *)
THEOREM CountCorrect == Spec => []CountExact
<1>1. IInv => CountExact
  <2> SUFFICES ASSUME Inv, Quiet PROVE taskCount = Cardinality(LiveTasks)
    BY DEF IInv, CountExact
  <2> QED BY QuietIsLinked, LinkedType DEF Inv, CountInv
<1> QED BY <1>1, Invariance, PTL

(* A switch loads the kernel's page directory or one that is allocated.    *)
THEOREM SwitchCorrect == Spec => SwitchLoadsLivePd
<1>1. ASSUME IInv, [Next]_vars, ~raced', current' # current
      PROVE  cr3[current'] \in livePds \cup {KernelPD}
  <2>1. Tick /\ NoteTick
    BY <1>1 DEF Next, Begin, Continue, Interrupt, vars, TickReturns, Call, RunCall,
         ForkCall, ThreadCall, KillCall, Create, RunPick, FillFork, FillMapped,
         FillFails, InitSlot, SetReady, LinkNew, InsertNew, Kill, ReapSkip,
         ReapMatch, ReapWalk, ReapCut, ReapDone, FreePd, ClearCr3, RemoveWalk,
         RemoveCut, FreeSelf
  <2>2. Inv
    BY <1>1, RacedStays DEF IInv
  <2>3. next[current] \in Linked
    BY <2>2 DEF Inv, ControlInv, OneCycle
  <2>4. current' = next[current] /\ next[current] \in LiveTasks
    BY <2>1, <2>3 DEF Tick, NextReady, Stops, Linked, LiveTasks
  <2>5. current' \notin Doomed
    BY <1>1, <2>1, <2>2 DEF Inv, ControlInv, NoteTick, Doomed
  <2> QED BY <2>2, <2>4, <2>5 DEF Inv, SpaceInv
<1>2. IInv /\ [Next]_vars =>
        (~raced' /\ current' # current => cr3[current'] \in livePds \cup {KernelPD})
  BY <1>1
<1> QED BY <1>2, Invariance, PTL DEF SwitchLoadsLivePd, Spec

(* The page directory a death gives back is in use by nobody else.         *)
THEOREM FreedPdCorrect == Spec => FreedPdUnused
<1>1. ASSUME IInv, [Next]_vars, ~raced', NEW p \in livePds \ livePds',
             NEW s \in LiveTasks, s # current
      PROVE  cr3[s] # p
  <2>1. (FreePd \/ RunPick \/ FillFails) /\ NoteCall
    BY <1>1 DEF Next, Begin, Continue, Interrupt, vars, Tick, TickReturns, Call,
         RunCall, ForkCall, ThreadCall, KillCall, Create, FillFork, FillMapped,
         InitSlot, SetReady, LinkNew, InsertNew, Kill, ReapSkip, ReapMatch,
         ReapWalk, ReapCut, ReapDone, ClearCr3, RemoveWalk, RemoveCut, FreeSelf
  <2>2. Inv
    BY <1>1, RacedStays DEF IInv
  <2>3. caller = current
    BY <1>1, <2>1, <2>2, ContinueIsOwn DEF Create, Kill, Own
  <2>4. CASE FreePd
    BY <1>1, <2>2, <2>3, <2>4 DEF FreePd, Inv, ReapInv, At, Doing
  <2>5. CASE RunPick \/ FillFails
    <3>1. p = its.pd /\ ~its.thread /\ pc[caller] \in {"pick", "fill"}
      BY <1>1, <2>2, <2>3, <2>5 DEF RunPick, FillFails, At, me, its, Inv,
           NewSpaceInv, Creating, ControlInv
    <3> QED BY <1>1, <2>2, <3>1 DEF Inv, NewSpaceInv
  <2> QED BY <2>1, <2>4, <2>5
<1>2. IInv /\ [Next]_vars =>
        (~raced' => \A p \in livePds \ livePds' :
                      \A s \in LiveTasks : s # current => cr3[s] # p)
  BY <1>1
<1> QED BY <1>2, Invariance, PTL DEF FreedPdUnused, Spec

-----------------------------------------------------------------------------
(* THE LIST AS A QUEUE                                                     *)

(* s is the cycle of f through L, laid out from a on.                      *)
IsLine(s, f, L, a) ==
  /\ s \in Seq(L) /\ Len(s) = Cardinality(L) /\ Len(s) # 0
  /\ s[1] = a /\ f[s[Len(s)]] = a
  /\ \A i \in 1 .. Len(s) - 1 : s[i + 1] = f[s[i]]
  /\ \A x \in L : \E i \in 1 .. Len(s) : s[i] = x
  /\ \A i, j \in 1 .. Len(s) : s[i] = s[j] => i = j

LEMMA LineLength ==
  ASSUME NEW s, NEW f, NEW L, NEW a, IsLine(s, f, L, a)
  PROVE  /\ Len(s) \in Nat \ {0} /\ s \in [1 .. Len(s) -> L] /\ s # << >>
         /\ \A i \in 1 .. Len(s) : s[i] \in L
         /\ a \in L
<1>1. Len(s) \in Nat /\ s \in [1 .. Len(s) -> L]
  BY LenProperties DEF IsLine
<1>2. Len(s) # 0
  BY DEF IsLine
<1>3. s # << >>
  BY <1>2, EmptySeq
<1> QED BY <1>1, <1>2, <1>3 DEF IsLine

(* Among numbers there is a least one.                                     *)
LEMMA LeastExists ==
  ASSUME NEW S, S \subseteq Nat, S # {}
  PROVE  \E i \in S : \A j \in S : i <= j
<1>1. PICK a \in S : \A b \in S : ~(<< b, a >> \in OpToRel(<, Nat))
  BY NatLessThanWellFounded, WFMin
<1>2. \A b \in S : ~(b < a)
  BY <1>1 DEF OpToRel
<1> QED BY <1>2

(* There is one such layout: the first place where two of them differ is   *)
(* not the first place, and follows one where they agree.                  *)
LEMMA LineIsOne ==
  ASSUME NEW s, NEW f, NEW L, NEW a, IsLine(s, f, L, a),
         NEW r \in [1 .. Cardinality(L) -> L], r[1] = a,
         \A i \in 1 .. Cardinality(L) - 1 : r[i + 1] = f[r[i]]
  PROVE  r = s
<1> DEFINE n == Cardinality(L)
           Bad == {i \in 1 .. n : r[i] # s[i]}
<1>1. n \in Nat \ {0} /\ n = Len(s) /\ s \in [1 .. n -> L]
  BY LineLength DEF IsLine
<1>2. s[1] = a /\ \A i \in 1 .. n - 1 : s[i + 1] = f[s[i]]
  BY <1>1 DEF IsLine
<1>3. Bad = {}
  <2> SUFFICES ASSUME Bad # {} PROVE FALSE
    OBVIOUS
  <2>1. PICK i \in Bad : \A j \in Bad : i <= j
    <3>1. Bad \subseteq Nat
      BY <1>1
    <3> QED BY <3>1, LeastExists
  <2>2. i \in 1 .. n /\ r[i] # s[i] /\ i # 1
    BY <1>2
  <2>3. PICK k \in 1 .. n - 1 : k + 1 = i
    <3>1. i - 1 \in 1 .. n - 1 /\ (i - 1) + 1 = i
      BY <1>1, <2>2
    <3> QED BY <3>1
  <2>4. k \in 1 .. n /\ k < i
    BY <1>1, <2>3
  <2>5. r[k] = s[k]
    BY <2>1, <2>4
  <2>6. r[k + 1] = f[r[k]] /\ s[k + 1] = f[s[k]]
    BY <1>2
  <2> QED BY <2>2, <2>3, <2>5, <2>6
<1>4. \A i \in 1 .. n : r[i] = s[i]
  BY <1>3
<1> HIDE DEF n
<1>5. r \in [1 .. n -> L]
  BY DEF n
<1>6. r = [i \in 1 .. n |-> r[i]] /\ s = [i \in 1 .. n |-> s[i]]
  BY <1>1, <1>5
<1>7. [i \in 1 .. n |-> r[i]] = [i \in 1 .. n |-> s[i]]
  BY <1>4
<1> QED BY <1>6, <1>7

LEMMA InTurnIs ==
  ASSUME NEW s, NEW f, NEW L, NEW a, IsLine(s, f, L, a)
  PROVE  InTurn(L, f, a) = s
<1> DEFINE P(r) == /\ r[1] = a
                   /\ \A i \in 1 .. Cardinality(L) - 1 : r[i + 1] = f[r[i]]
<1>1. s \in [1 .. Cardinality(L) -> L] /\ P(s)
  <2>1. Len(s) = Cardinality(L) /\ s \in [1 .. Len(s) -> L]
    BY LineLength DEF IsLine
  <2> QED BY <2>1 DEF IsLine
<1>2. \A r \in [1 .. Cardinality(L) -> L] : P(r) => r = s
  BY LineIsOne
<1>3. InTurn(L, f, a) = CHOOSE r \in [1 .. Cardinality(L) -> L] : P(r)
  BY DEF InTurn
<1> HIDE DEF P
<1>4. /\ InTurn(L, f, a) \in [1 .. Cardinality(L) -> L]
      /\ P(InTurn(L, f, a))
  BY <1>1, <1>3
<1> QED BY <1>2, <1>4

(* The pointers outside the cycle do not matter.                           *)
LEMMA LineAgrees ==
  ASSUME NEW s, NEW f, NEW g, NEW L, NEW a, IsLine(s, f, L, a),
         \A x \in L : g[x] = f[x]
  PROVE  IsLine(s, g, L, a)
<1>1. Len(s) \in Nat \ {0} /\ \A i \in 1 .. Len(s) : s[i] \in L
  BY LineLength
<1>2. \A i \in 1 .. Len(s) - 1 : s[i + 1] = g[s[i]]
  <2> TAKE i \in 1 .. Len(s) - 1
  <2>1. i \in 1 .. Len(s)
    BY <1>1
  <2>2. s[i + 1] = f[s[i]]
    BY DEF IsLine
  <2> QED BY <1>1, <2>1, <2>2
<1>3. g[s[Len(s)]] = a
  <2>1. Len(s) \in 1 .. Len(s)
    BY <1>1
  <2> QED BY <1>1, <2>1 DEF IsLine
<1> QED BY <1>2, <1>3 DEF IsLine

(* A turn: the first of the line becomes the last.                         *)
LEMMA LineTurns ==
  ASSUME NEW s, NEW f, NEW L, NEW a, IsLine(s, f, L, a)
  PROVE  /\ IsLine(Append(Tail(s), Head(s)), f, L, f[a])
         /\ Head(s) = a
<1> DEFINE n == Len(s)
           t == Append(Tail(s), Head(s))
<1>1. n \in Nat \ {0} /\ s # << >> /\ s \in Seq(L) /\ \A i \in 1 .. n : s[i] \in L
  BY LineLength DEF IsLine
<1>2. Head(s) = a /\ a \in L
  BY <1>1, LineLength DEF IsLine
<1>3. /\ Tail(s) \in Seq(L) /\ Len(Tail(s)) = n - 1
      /\ \A i \in 1 .. n - 1 : Tail(s)[i] = s[i + 1]
  BY <1>1, HeadTailProperties
<1>4. /\ t \in Seq(L) /\ Len(t) = n /\ t[n] = a
      /\ \A i \in 1 .. n - 1 : t[i] = s[i + 1]
  <2>1. /\ t \in Seq(L) /\ Len(t) = (n - 1) + 1 /\ t[(n - 1) + 1] = a
        /\ \A i \in 1 .. n - 1 : t[i] = Tail(s)[i]
    BY <1>2, <1>3, AppendProperties
  <2>2. (n - 1) + 1 = n
    BY <1>1
  <2> QED BY <1>3, <2>1, <2>2
<1> HIDE DEF t
<1>5. t[1] = f[a]
  <2>1. CASE n = 1
    BY <1>4, <2>1 DEF IsLine
  <2>2. CASE n # 1
    <3>1. 1 \in 1 .. n - 1
      <4> HIDE DEF n
      <4> QED BY <1>1, <2>2
    <3>2. s[1 + 1] = f[s[1]]
      BY <3>1 DEF IsLine
    <3> QED BY <1>4, <3>1, <3>2 DEF IsLine
  <2> QED BY <2>1, <2>2
<1>6. f[t[n]] = f[a]
  BY <1>4
<1>7. \A i \in 1 .. n - 1 : t[i + 1] = f[t[i]]
  <2> SUFFICES ASSUME NEW i \in 1 .. n - 1 PROVE t[i + 1] = f[t[i]]
    OBVIOUS
  <2>1. t[i] = s[i + 1] /\ i + 1 \in 1 .. n
    BY <1>1, <1>4
  <2>2. CASE i = n - 1
    <3>1. i + 1 = n
      BY <1>1, <2>2
    <3> QED BY <1>4, <2>1, <3>1 DEF IsLine
  <2>3. CASE i # n - 1
    <3>1. i + 1 \in 1 .. n - 1
      BY <1>1, <2>3
    <3>2. t[i + 1] = s[(i + 1) + 1] /\ s[(i + 1) + 1] = f[s[i + 1]]
      BY <1>4, <3>1 DEF IsLine
    <3> QED BY <2>1, <3>2
  <2> QED BY <2>2, <2>3
<1>8. \A x \in L : \E i \in 1 .. n : t[i] = x
  <2> SUFFICES ASSUME NEW x \in L PROVE \E i \in 1 .. n : t[i] = x
    OBVIOUS
  <2>1. PICK i \in 1 .. n : s[i] = x
    BY DEF IsLine
  <2>2. CASE i = 1
    BY <1>1, <1>4, <2>1, <2>2 DEF IsLine
  <2>3. CASE i # 1
    <3>1. i - 1 \in 1 .. n - 1 /\ i - 1 \in 1 .. n /\ (i - 1) + 1 = i
      BY <1>1, <2>3
    <3>2. t[i - 1] = x
      BY <1>4, <2>1, <3>1
    <3> QED BY <3>1, <3>2
  <2> QED BY <2>2, <2>3
<1>9. \A i, j \in 1 .. n : t[i] = t[j] => i = j
  <2>1. \A i, j \in 1 .. n : s[i] = s[j] => i = j
    BY DEF IsLine
  <2>2. \A i \in 1 .. n : t[i] = IF i = n THEN s[1] ELSE s[i + 1]
    BY <1>1, <1>4 DEF IsLine
  <2> QED BY <1>1, <2>1, <2>2
<1> QED BY <1>1, <1>2, <1>4, <1>5, <1>6, <1>7, <1>8, <1>9 DEF IsLine, t

(* An insertion: t, which points where c did, goes to the front.           *)
LEMMA LineGrows ==
  ASSUME NEW D, NEW R, NEW f \in [D -> R], NEW L \in SUBSET D, IsFiniteSet(L),
         NEW a, NEW s, IsLine(s, f, L, a),
         NEW c \in L, NEW t \in D \ L, f[c] = a, f[t] = a
  PROVE  IsLine(<< t >> \o s, [f EXCEPT ![c] = t], L \cup {t}, t)
<1> DEFINE n == Len(s)
           M == L \cup {t}
           g == [f EXCEPT ![c] = t]
           r == << t >> \o s
<1>1. n \in Nat \ {0} /\ \A i \in 1 .. n : s[i] \in L
  BY LineLength
<1>2. /\ g[c] = t /\ c # t /\ g[t] = a
      /\ \A x \in L : x # c => g[x] = f[x]
  OBVIOUS
<1>3. /\ r \in Seq(M) /\ Len(r) = n + 1 /\ r[1] = t
      /\ \A i \in 1 .. n : r[i + 1] = s[i]
  <2>1. s \in Seq(M)
    <3>1. s \in Seq(L)
      BY DEF IsLine
    <3> QED BY <3>1, SeqMonotonic
  <2>2. << t >> \in Seq(M) /\ Len(<< t >>) = 1 /\ << t >>[1] = t
    OBVIOUS
  <2>3. /\ r \in Seq(M) /\ Len(r) = 1 + n
        /\ \A i \in 1 .. 1 + n : r[i] = IF i <= 1 THEN << t >>[i] ELSE s[i - 1]
    BY <2>1, <2>2, ConcatProperties
  <2> HIDE DEF n, r
  <2>4. r[1] = t
    BY <1>1, <2>2, <2>3
  <2>5. ASSUME NEW i \in 1 .. n PROVE r[i + 1] = s[i]
    <3>1. i + 1 \in 1 .. 1 + n /\ ~(i + 1 <= 1) /\ (i + 1) - 1 = i
      BY <1>1
    <3>2. r[i + 1] = s[(i + 1) - 1]
      BY <2>3, <3>1
    <3> QED BY <3>1, <3>2
  <2> QED BY <1>1, <2>3, <2>4, <2>5
<1>4. /\ s[1] = a /\ f[s[n]] = a
      /\ \A i \in 1 .. n - 1 : s[i + 1] = f[s[i]]
      /\ \A x \in L : \E i \in 1 .. n : s[i] = x
      /\ \A i, j \in 1 .. n : s[i] = s[j] => i = j
  BY DEF IsLine
<1>5. n + 1 = Cardinality(M)
  <2>1. Cardinality(M) = Cardinality(L) + 1
    BY FS_AddElement
  <2> QED BY <2>1 DEF IsLine
<1> HIDE DEF n, r, M, g
<1>6. s[n] = c
  <2>1. PICK i \in 1 .. n : s[i] = c
    BY <1>4
  <2>2. CASE i \in 1 .. n - 1
    <3>1. s[i + 1] = s[1] /\ i + 1 \in 1 .. n /\ 1 \in 1 .. n
      BY <1>1, <1>4, <2>1, <2>2
    <3>2. i + 1 = 1
      BY <1>4, <3>1
    <3> QED BY <3>2, <2>2
  <2> QED BY <1>1, <2>1, <2>2
<1>7. g[r[n + 1]] = t
  BY <1>1, <1>2, <1>3, <1>6
<1>8. \A i \in 1 .. n : r[i + 1] = g[r[i]]
  <2> SUFFICES ASSUME NEW i \in 1 .. n PROVE r[i + 1] = g[r[i]]
    OBVIOUS
  <2>1. CASE i = 1
    BY <1>2, <1>3, <1>4, <2>1
  <2>2. CASE i # 1
    <3>1. PICK k \in 1 .. n - 1 : k + 1 = i
      <4>1. i - 1 \in 1 .. n - 1 /\ (i - 1) + 1 = i
        BY <1>1, <2>2
      <4> QED BY <4>1
    <3>2. k \in 1 .. n /\ k # n /\ n \in 1 .. n
      BY <1>1
    <3>3. s[k] # c
      BY <1>4, <1>6, <3>2
    <3>4. r[i] = s[k] /\ r[i + 1] = s[k + 1]
      BY <1>3, <3>1, <3>2
    <3>5. s[k + 1] = f[s[k]]
      BY <1>4
    <3> QED BY <1>1, <1>2, <3>2, <3>3, <3>4, <3>5
  <2> QED BY <2>1, <2>2
<1>9. \A x \in M : \E i \in 1 .. n + 1 : r[i] = x
  <2> SUFFICES ASSUME NEW x \in M PROVE \E i \in 1 .. n + 1 : r[i] = x
    OBVIOUS
  <2>1. CASE x = t
    <3>1. 1 \in 1 .. n + 1
      BY <1>1
    <3> QED BY <1>3, <2>1, <3>1
  <2>2. CASE x # t
    <3>1. PICK i \in 1 .. n : s[i] = x
      BY <1>4, <2>2 DEF M
    <3>2. i + 1 \in 1 .. n + 1 /\ r[i + 1] = x
      BY <1>1, <1>3, <3>1
    <3> QED BY <3>2
  <2> QED BY <2>1, <2>2
<1>10. \A i, j \in 1 .. n + 1 : r[i] = r[j] => i = j
  <2>1. ASSUME NEW i \in 1 .. n + 1, i # 1
        PROVE  \E k \in 1 .. n : i = k + 1 /\ r[i] = s[k]
    <3>1. i - 1 \in 1 .. n /\ (i - 1) + 1 = i
      BY <1>1, <2>1
    <3> QED BY <1>3, <3>1
  <2>2. \A k \in 1 .. n : s[k] # t
    BY <1>1
  <2> QED BY <1>3, <1>4, <2>1, <2>2
<1>11. n + 1 # 0 /\ (n + 1) - 1 = n
  BY <1>1
<1> QED BY <1>3, <1>5, <1>7, <1>8, <1>9, <1>10, <1>11 DEF IsLine, r, M, g

(* A removal: t goes from its place, its predecessor points past it; if it *)
(* was the first, the one after it is.                                     *)
LEMMA LineShrinks ==
  ASSUME NEW D, NEW R, NEW f \in [D -> R], NEW L \in SUBSET D, IsFiniteSet(L),
         IsCycle(f, L), NEW a, NEW s, IsLine(s, f, L, a),
         NEW p \in L, NEW t \in L, f[p] = t, p # t,
         NEW b, b = IF t = a THEN f[a] ELSE a,
         NEW i \in 1 .. Len(s), s[i] = t
  PROVE  IsLine(SubSeq(s, 1, i - 1) \o SubSeq(s, i + 1, Len(s)),
                [f EXCEPT ![p] = f[t]], L \ {t}, b)
<1> DEFINE n == Len(s)
           M == L \ {t}
           g == [f EXCEPT ![p] = f[t]]
           u == SubSeq(s, 1, i - 1)
           v == SubSeq(s, i + 1, n)
           r == u \o v
<1>1. n \in Nat \ {0} /\ (\A j \in 1 .. n : s[j] \in L) /\ i \in 1 .. n
  BY LineLength
<1>2. /\ g[p] = f[t] /\ \A x \in L : x # p => g[x] = f[x]
  OBVIOUS
<1>3. /\ s[1] = a /\ f[s[n]] = a
      /\ \A j \in 1 .. n - 1 : s[j + 1] = f[s[j]]
      /\ \A x \in L : \E j \in 1 .. n : s[j] = x
      /\ \A j, k \in 1 .. n : s[j] = s[k] => j = k
  BY DEF IsLine
<1>4. n - 1 = Cardinality(M)
  <2>1. Cardinality(M) = Cardinality(L) - 1
    BY FS_RemoveElement
  <2> QED BY <2>1 DEF IsLine
<1>5. /\ u \in Seq(M) /\ Len(u) = i - 1 /\ \A j \in 1 .. i - 1 : u[j] = s[j]
  <2>1. ASSUME NEW j \in 1 .. i - 1 PROVE s[j] \in M
    <3> HIDE DEF n
    <3>1. j \in 1 .. n /\ j # i
      BY <1>1
    <3>2. s[j] \in L /\ s[j] # s[i]
      BY <1>1, <1>3, <3>1
    <3> QED BY <3>2
  <2> HIDE DEF M, n
  <2>2. 1 \in Int /\ i - 1 \in Int
    BY <1>1
  <2>3. /\ u \in Seq(M) /\ Len(u) = (IF 1 <= i - 1 THEN (i - 1) - 1 + 1 ELSE 0)
        /\ \A j \in 1 .. (i - 1) - 1 + 1 : u[j] = s[1 + j - 1]
    BY <2>1, <2>2, SubSeqProperties
  <2> HIDE DEF u
  <2>4. Len(u) = i - 1
    BY <1>1, <2>3
  <2>5. ASSUME NEW j \in 1 .. i - 1 PROVE u[j] = s[j]
    <3>1. j \in 1 .. (i - 1) - 1 + 1 /\ 1 + j - 1 = j
      BY <1>1
    <3> QED BY <2>3, <3>1
  <2> QED BY <2>3, <2>4, <2>5
<1>6. /\ v \in Seq(M) /\ Len(v) = n - i /\ \A j \in 1 .. n - i : v[j] = s[i + j]
  <2>1. ASSUME NEW j \in i + 1 .. n PROVE s[j] \in M
    <3> HIDE DEF n
    <3>1. j \in 1 .. n /\ j # i
      BY <1>1
    <3>2. s[j] \in L /\ s[j] # s[i]
      BY <1>1, <1>3, <3>1
    <3> QED BY <3>2
  <2> HIDE DEF M, n
  <2>2. i + 1 \in Int /\ n \in Int
    BY <1>1
  <2>3. /\ v \in Seq(M) /\ Len(v) = (IF i + 1 <= n THEN n - (i + 1) + 1 ELSE 0)
        /\ \A j \in 1 .. n - (i + 1) + 1 : v[j] = s[(i + 1) + j - 1]
    BY <2>1, <2>2, SubSeqProperties
  <2> HIDE DEF v
  <2>4. Len(v) = n - i
    BY <1>1, <2>3
  <2>5. ASSUME NEW j \in 1 .. n - i PROVE v[j] = s[i + j]
    <3>1. j \in 1 .. n - (i + 1) + 1 /\ (i + 1) + j - 1 = i + j
      BY <1>1
    <3> QED BY <2>3, <3>1
  <2> QED BY <2>3, <2>4, <2>5
<1> HIDE DEF n, M, g, u, v
<1>7. /\ r \in Seq(M) /\ Len(r) = n - 1
      /\ \A j \in 1 .. n - 1 : r[j] = IF j < i THEN s[j] ELSE s[j + 1]
  <2>1. /\ r \in Seq(M) /\ Len(r) = Len(u) + Len(v)
        /\ \A j \in 1 .. Len(u) + Len(v) : r[j] = IF j <= Len(u) THEN u[j] ELSE v[j - Len(u)]
    BY <1>5, <1>6, ConcatProperties
  <2> HIDE DEF r
  <2>2. Len(r) = n - 1
    BY <1>1, <1>5, <1>6, <2>1
  <2>3. ASSUME NEW j \in 1 .. n - 1 PROVE r[j] = IF j < i THEN s[j] ELSE s[j + 1]
    <3>1. CASE j < i
      <4>1. j \in 1 .. i - 1 /\ j \in 1 .. Len(u) + Len(v) /\ j <= Len(u)
        BY <1>1, <1>5, <1>6, <3>1
      <4> QED BY <1>5, <2>1, <3>1, <4>1
    <3>2. CASE ~(j < i)
      <4>1. /\ j - (i - 1) \in 1 .. n - i /\ j \in 1 .. Len(u) + Len(v) /\ ~(j <= Len(u))
            /\ i + (j - (i - 1)) = j + 1
        BY <1>1, <1>5, <1>6, <3>2
      <4>2. r[j] = v[j - (i - 1)]
        BY <1>5, <2>1, <4>1
      <4>3. v[j - (i - 1)] = s[i + (j - (i - 1))]
        BY <1>6, <4>1
      <4> QED BY <3>2, <4>1, <4>2, <4>3
    <3> QED BY <3>1, <3>2
  <2> QED BY <2>1, <2>2, <2>3
<1> HIDE DEF r
(* The places around i.                                                    *)
<1>8. n # 1
  <2>1. PICK j \in 1 .. n : s[j] = p
    BY <1>3
  <2>2. j # i
    BY <2>1
  <2> QED BY <1>1, <2>1, <2>2
<1>9. \A j \in 1 .. n - 1 : j + 1 # i => s[j] # p
  <2> SUFFICES ASSUME NEW j \in 1 .. n - 1, s[j] = p PROVE j + 1 = i
    OBVIOUS
  <2>1. j + 1 \in 1 .. n /\ s[j + 1] = t
    BY <1>1, <1>3
  <2> QED BY <1>1, <1>3, <2>1
<1>10. \A j \in 1 .. n - 1 : j + 1 = i => s[j] = p
  <2> SUFFICES ASSUME NEW j \in 1 .. n - 1, j + 1 = i PROVE s[j] = p
    OBVIOUS
  <2>1. f[s[j]] = t /\ s[j] \in L
    BY <1>1, <1>3
  <2> QED BY <2>1 DEF IsCycle
<1>11. r[1] = b
  <2>1. 1 \in 1 .. n - 1 /\ 1 \in 1 .. n
    BY <1>1, <1>8
  <2>2. CASE i = 1
    <3>1. r[1] = s[1 + 1] /\ s[1 + 1] = f[s[1]]
      BY <1>3, <1>7, <2>1, <2>2
    <3> QED BY <1>3, <2>2, <3>1
  <2>3. CASE i # 1
    <3>1. r[1] = s[1] /\ t # a
      BY <1>1, <1>3, <1>7, <2>1, <2>3
    <3> QED BY <1>3, <3>1
  <2> QED BY <2>2, <2>3
<1>12. g[r[n - 1]] = b
  <2>1. n - 1 \in 1 .. n - 1 /\ n \in 1 .. n /\ 1 \in 1 .. n
    BY <1>1, <1>8
  <2>2. CASE i = n
    <3>1. r[n - 1] = s[n - 1] /\ (n - 1) + 1 = i
      BY <1>1, <1>7, <2>1, <2>2
    <3>2. r[n - 1] = p
      BY <1>10, <2>1, <3>1
    <3>3. t # a
      BY <1>3, <1>8, <2>1, <2>2
    <3> QED BY <1>2, <1>3, <2>2, <3>2, <3>3
  <2>3. CASE i # n
    <3>1. r[n - 1] = s[n]
      <4>1. (n - 1) + 1 = n /\ ~(n - 1 < i)
        BY <1>1, <2>3
      <4> QED BY <1>7, <2>1, <4>1
    <3>2. CASE s[n] = p
      BY <1>2, <1>3, <3>1, <3>2
    <3>3. CASE s[n] # p
      <4>1. s[n] \in L
        BY <1>1, <2>1
      <4>2. t # a
        BY <1>3, <3>3, <4>1 DEF IsCycle
      <4> QED BY <1>2, <1>3, <3>1, <3>3, <4>1, <4>2
    <3> QED BY <3>2, <3>3
  <2> QED BY <2>2, <2>3
<1>13. \A j \in 1 .. (n - 1) - 1 : r[j + 1] = g[r[j]]
  <2> SUFFICES ASSUME NEW j \in 1 .. (n - 1) - 1 PROVE r[j + 1] = g[r[j]]
    OBVIOUS
  <2>1. /\ j \in 1 .. n - 1 /\ j + 1 \in 1 .. n - 1 /\ j \in 1 .. n
        /\ j + 1 \in 1 .. n /\ (j + 1) + 1 \in 1 .. n
    BY <1>1
  <2>2. s[j + 1] = f[s[j]] /\ s[(j + 1) + 1] = f[s[j + 1]]
    BY <1>3, <2>1
  <2>3. CASE j + 1 < i
    <3>1. r[j] = s[j] /\ r[j + 1] = s[j + 1]
      BY <1>1, <1>7, <2>1, <2>3
    <3>2. s[j] # p /\ s[j] \in L
      BY <1>1, <1>9, <2>1, <2>3
    <3> QED BY <1>2, <2>2, <3>1, <3>2
  <2>4. CASE j + 1 = i
    <3>1. r[j] = s[j] /\ r[j + 1] = s[(j + 1) + 1]
      BY <1>1, <1>7, <2>1, <2>4
    <3>2. s[j] = p
      BY <1>10, <2>1, <2>4
    <3> QED BY <1>2, <2>2, <2>4, <3>1, <3>2
  <2>5. CASE j + 1 > i
    <3>1. r[j] = s[j + 1] /\ r[j + 1] = s[(j + 1) + 1]
      BY <1>1, <1>7, <2>1, <2>5
    <3>2. s[j + 1] # p /\ s[j + 1] \in L
      BY <1>1, <1>9, <2>1, <2>5
    <3> QED BY <1>2, <2>2, <3>1, <3>2
  <2> QED BY <1>1, <2>3, <2>4, <2>5
<1>14. \A x \in M : \E j \in 1 .. n - 1 : r[j] = x
  <2> SUFFICES ASSUME NEW x \in M PROVE \E j \in 1 .. n - 1 : r[j] = x
    OBVIOUS
  <2>1. x \in L /\ x # t
    BY DEF M
  <2>2. PICK k \in 1 .. n : s[k] = x
    BY <1>3, <2>1
  <2>3. CASE k < i
    <3>1. k \in 1 .. n - 1
      BY <1>1, <2>3
    <3> QED BY <1>7, <2>2, <2>3, <3>1
  <2>4. CASE k > i
    <3>1. k - 1 \in 1 .. n - 1 /\ ~(k - 1 < i) /\ (k - 1) + 1 = k
      BY <1>1, <2>4
    <3> QED BY <1>7, <2>2, <3>1
  <2>5. k # i
    BY <2>1, <2>2
  <2> QED BY <1>1, <2>3, <2>4, <2>5
<1>15. \A j, k \in 1 .. n - 1 : r[j] = r[k] => j = k
  <2> SUFFICES ASSUME NEW j \in 1 .. n - 1, NEW k \in 1 .. n - 1, r[j] = r[k]
               PROVE  j = k
    OBVIOUS
  <2> DEFINE P(m) == IF m < i THEN m ELSE m + 1
  <2>1. \A m \in 1 .. n - 1 : P(m) \in 1 .. n /\ r[m] = s[P(m)]
    BY <1>1, <1>7
  <2>2. P(j) = P(k)
    <3>1. P(j) \in 1 .. n /\ P(k) \in 1 .. n /\ s[P(j)] = s[P(k)]
      BY <2>1
    <3> HIDE DEF P
    <3> QED BY <1>3, <3>1
  <2> QED BY <1>1, <2>2
<1>16. n - 1 # 0
  BY <1>1, <1>8
<1> QED BY <1>4, <1>7, <1>11, <1>12, <1>13, <1>14, <1>15, <1>16
        DEF IsLine, r, M, g, u, v, n

(* The line of the current task is laid out from the next one on.          *)
LineThere == \E s : IsLine(s, next, Linked, next[current])

LEMMA CycleOrbit ==
  ASSUME NEW f, NEW L \in SUBSET Slots, IsCycle(f, L), NEW s \in L
  PROVE  {x \in Slots : \A S \in SUBSET Slots :
                          s \in S /\ (\A y \in S : f[y] \in S) => x \in S} = L
<1>1. \A y \in L : f[y] \in L
  BY DEF IsCycle
<1>2. ASSUME NEW x \in L, NEW S \in SUBSET Slots, s \in S, \A y \in S : f[y] \in S
      PROVE  x \in S
  <2> DEFINE T == S \cap L
  <2>1. T \in SUBSET L /\ T # {} /\ \A y \in T : f[y] \in T
    BY <1>1, <1>2
  <2>2. T = L
    <3> HIDE DEF T
    <3> QED BY <2>1 DEF IsCycle
  <2> QED BY <2>2
<1> QED BY <1>1, <1>2

LEMMA NextLinked == ASSUME Inv PROVE next[current] \in Linked
BY DEF Inv, ControlInv, Inside, OneCycle

LEMMA LineIs ==
  ASSUME Inv, NEW s, IsLine(s, next, Linked, next[current])
  PROVE  Line = s
<1>1. Orbit(next[current]) = Linked
  BY NextLinked, OrbitLinked DEF Inv
<1> QED BY <1>1, InTurnIs DEF Line

LEMMA LineIsPrimed ==
  ASSUME Inv', NEW s, IsLine(s, next', Linked', next'[current'])
  PROVE  Line' = s
<1>1. next'[current'] \in Linked' /\ IsCycle(next', Linked')
  BY OneCycleIsPrimed DEF Inv, ControlInv, Inside, OneCycle
<1>2. Linked' \in SUBSET Slots
  BY DEF Linked, LiveTasks
<1>3. Orbit(next[current])' = Linked'
  <2>1. Orbit(next[current])' =
          {x \in Slots : \A S \in SUBSET Slots :
             next'[current'] \in S /\ (\A y \in S : next'[y] \in S) => x \in S}
    BY DEF Orbit, Closed
  <2> QED BY <1>1, <1>2, <2>1, CycleOrbit
<1>4. Line' = InTurn(Linked', next', next'[current'])
  BY <1>3 DEF Line
<1> QED BY <1>4, InTurnIs

LEMMA InitLine ==
  ASSUME Init
  PROVE  LineThere /\ Queue!Init
<1>1. Linked = {Idle} /\ next[current] = Idle /\ current = Idle
  BY SlotFacts DEF Init, LiveTasks, Alive, Outside, Linked, At, Doing
<1>2. Cardinality({Idle}) = 1
  BY FS_Singleton
<1> DEFINE s == << Idle >>
<1>3. s \in Seq({Idle}) /\ Len(s) = 1 /\ s[1] = Idle
  OBVIOUS
<1> HIDE DEF s
<1>4. next[Idle] = Idle
  BY <1>1
<1>5. IsLine(s, next, Linked, next[current])
  <2>1. \A i \in 1 .. Len(s) : i = 1
    BY <1>3
  <2>2. 1 \in 1 .. Len(s) /\ 1 .. Len(s) - 1 = {}
    BY <1>3
  <2>3. \A i \in 1 .. Len(s) - 1 : s[i + 1] = next[s[i]]
    BY <2>2
  <2> QED BY <1>1, <1>2, <1>3, <1>4, <2>1, <2>2, <2>3 DEF IsLine
<1>6. Line = s
  BY <1>5, InitInv, LineIs
<1> QED BY <1>1, <1>5, <1>6 DEF LineThere, Queue!Init, s

(* A step that leaves the list as it is.                                   *)
LEMMA LineKept ==
  ASSUME Inv, Inv', LineThere, UNCHANGED current, Linked' = Linked,
         \A x \in Linked \cup {current} : next'[x] = next[x]
  PROVE  LineThere' /\ Line' = Line
<1>1. PICK s : IsLine(s, next, Linked, next[current])
  BY DEF LineThere
<1>2. IsLine(s, next', Linked', next'[current'])
  BY <1>1, LineAgrees
<1> QED BY <1>1, <1>2, LineIs, LineIsPrimed DEF LineThere

LEMMA TickLine ==
  ASSUME Inv, Inv', LineThere, Tick, NoteTick
  PROVE  LineThere' /\ Queue!Turn
<1>1. next[current] \in Linked /\ Alive(next[current])
  BY NextLinked DEF Linked, LiveTasks
<1>2. /\ current' = next[current]
      /\ UNCHANGED << next, state, pc, loc, caller >>
  BY <1>1 DEF Tick, NextReady, Stops, tableVars, NoteTick
<1>3. Linked' = Linked
  BY <1>2 DEF Linked, LiveTasks, Alive, Outside, Doing, its
<1>4. PICK s : IsLine(s, next, Linked, next[current])
  BY DEF LineThere
<1>5. IsLine(Append(Tail(s), Head(s)), next', Linked', next'[current'])
  BY <1>2, <1>3, <1>4, LineTurns
<1>6. Head(s) = current'
  BY <1>2, <1>4, LineTurns
<1>7. Line = s /\ Line' = Append(Tail(s), Head(s))
  BY <1>4, <1>5, LineIs, LineIsPrimed
<1> QED BY <1>5, <1>6, <1>7 DEF LineThere, Queue!Turn

LEMMA InsertLine ==
  ASSUME Inv, Inv', Own, LineThere, InsertNew
  PROVE  LineThere' /\ \E t \in Slots : Queue!Spawn(t)
<1> DEFINE t == me.slot
<1> USE DEF Own
<1>1. /\ pc[current] = "insert" /\ Return
      /\ UNCHANGED << state, current >>
      /\ next' = [next EXCEPT ![current] = t]
  BY DEF InsertNew, At, Doing
<1>2. /\ t \in LiveTasks /\ t # current /\ t \in Slots
      /\ next[t] = next[current]
  BY <1>1, LinkedType DEF Inv, CreateInv, At, Doing, me, its
<1>3. pc'[current] = "user" /\ current \in Slots
  BY <1>1 DEF Inv, TypeOK, Goto, Return
<1>4. Linked = LiveTasks \ {t} /\ Linked' = LiveTasks
  BY <1>1, <1>3 DEF Linked, Outside, At, Doing, LiveTasks, Alive, me, its
<1>5. Linked' = Linked \cup {t} /\ t \notin Linked /\ current \in Linked
  BY <1>1, <1>2, <1>4 DEF Inv, ControlInv, Inside
<1>6. next \in [Slots -> Slots \cup {Nil}] /\ Linked \in SUBSET Slots /\ IsFiniteSet(Linked)
  BY LinkedType DEF Inv, TypeOK
<1>7. PICK s : IsLine(s, next, Linked, next[current])
  BY DEF LineThere
<1> HIDE DEF t
<1>8. IsLine(<< t >> \o s, next', Linked', next'[current'])
  <2>1. next'[current'] = t
    BY <1>1, <1>3, <1>6
  <2>2. t \in Slots \ Linked
    BY <1>2, <1>5
  <2>3. IsLine(<< t >> \o s, [next EXCEPT ![current] = t], Linked \cup {t}, t)
    BY <1>2, <1>5, <1>6, <1>7, <2>2, LineGrows
  <2> QED BY <1>1, <1>5, <2>1, <2>3
<1>9. Line = s /\ Line' = << t >> \o s
  BY <1>7, <1>8, LineIs, LineIsPrimed
<1>10. Queue!Spawn(t)
  <2>1. Queue!Queued(current) /\ ~Queue!Queued(t)
    <3>1. /\ \E i \in 1 .. Len(s) : s[i] = current
          /\ \A i \in 1 .. Len(s) : s[i] \in Linked
      BY <1>5, <1>7, LineLength DEF IsLine
    <3> QED BY <1>5, <1>9, <3>1 DEF Queue!Queued
  <2> QED BY <1>1, <1>9, <2>1 DEF Queue!Spawn
<1> QED BY <1>2, <1>8, <1>10 DEF LineThere

(* list_remove, of a thread or of the dying task itself.                   *)
LEMMA RemoveLine ==
  ASSUME Inv, Inv', LineThere, UNCHANGED current, current \in Linked,
         NEW t \in Linked, t # Idle, NEW p \in Linked, next[p] = t,
         next' = [next EXCEPT ![p] = next[t]], Linked' = Linked \ {t}
  PROVE  LineThere' /\ Queue!Drop(t)
<1>1. /\ next \in [Slots -> Slots \cup {Nil}] /\ Linked \in SUBSET Slots
      /\ IsFiniteSet(Linked) /\ IsCycle(next, Linked) /\ Idle \in Linked
  BY LinkedType, OneCycleIs DEF Inv, TypeOK
<1>2. p # t
  <2> SUFFICES ASSUME next[t] = t PROVE FALSE
    OBVIOUS
  <2> DEFINE S == {t}
  <2>1. S \in SUBSET Linked /\ S # {} /\ \A x \in S : next[x] \in S
    OBVIOUS
  <2>2. S = Linked
    <3> HIDE DEF S
    <3> QED BY <1>1, <2>1 DEF IsCycle
  <2> QED BY <1>1, <2>2
<1>3. PICK s : IsLine(s, next, Linked, next[current])
  BY DEF LineThere
<1>4. PICK i \in 1 .. Len(s) : s[i] = t
  BY <1>3 DEF IsLine
<1> DEFINE r == SubSeq(s, 1, i - 1) \o SubSeq(s, i + 1, Len(s))
<1>5. next'[current'] = IF t = next[current] THEN next[next[current]] ELSE next[current]
  <2>1. CASE p = current
    BY <1>1, <2>1
  <2>2. CASE p # current
    <3>1. t # next[current]
      BY <1>1, <2>2 DEF IsCycle
    <3>2. next'[current'] = next[current]
      BY <1>1, <2>2
    <3> QED BY <3>1, <3>2
  <2> QED BY <2>1, <2>2
<1>6. IsLine(r, next', Linked', next'[current'])
  <2> HIDE DEF r
  <2>1. IsLine(r, [next EXCEPT ![p] = next[t]], Linked \ {t}, next'[current'])
    BY <1>1, <1>2, <1>3, <1>4, <1>5, LineShrinks DEF r
  <2> QED BY <2>1
<1>7. Line = s /\ Line' = r
  <2> HIDE DEF r
  <2> QED BY <1>3, <1>6, LineIs, LineIsPrimed
<1>8. Queue!Queued(current)
  BY <1>3, <1>7 DEF IsLine, Queue!Queued
<1> QED BY <1>4, <1>6, <1>7, <1>8 DEF LineThere, Queue!Drop

LEMMA ReapCutLine ==
  ASSUME Inv, Inv', Own, LineThere, ReapCut
  PROVE  LineThere' /\ \E t \in Slots : Queue!Drop(t)
<1> DEFINE t == me.t
           p == me.p
<1> USE DEF Own
<1>1. /\ pc[current] = "reapCut" /\ Goto("reap") /\ UNCHANGED current
      /\ next'  = [next EXCEPT ![p] = next[t]]
      /\ state' = [state EXCEPT ![t] = "FREE"]
  BY DEF ReapCut, At, Doing
<1>2. /\ t \in Linked /\ t \in Slots /\ SameSpaceThread(t)
      /\ p \in Linked /\ next[p] = t
  BY <1>1, LinkedType DEF Inv, ReapInv, At, Doing, me, its, SameSpaceAs,
                          SameSpaceThread
<1>3. /\ current # Idle /\ current \in Linked /\ Linked = LiveTasks /\ Idle \in Linked
  BY <1>1, Reaping DEF Inv, OneCycle
<1>4. t # Idle
  BY <1>1, <1>2, <1>3 DEF Inv, SpaceInv, SameSpaceThread, SameSpaceAs
<1>5. pc'[current] = "reap"
  BY <1>1 DEF Inv, TypeOK, Goto
<1>6. Linked' = Linked \ {t}
  <2>1. LiveTasks' = LiveTasks \ {t}
    BY <1>1, <1>2 DEF LiveTasks, Alive, Inv, TypeOK
  <2> QED BY <1>1, <1>3, <1>5, <2>1 DEF Linked, Outside, At, Doing
<1> HIDE DEF t, p
<1> QED BY <1>1, <1>2, <1>3, <1>4, <1>6, RemoveLine

LEMMA RemoveCutLine ==
  ASSUME Inv, Inv', Own, LineThere, RemoveCut
  PROVE  LineThere' /\ \E t \in Slots : Queue!Drop(t)
<1> DEFINE p == me.p
<1> USE DEF Own
<1>1. /\ pc[current] = "cut" /\ Goto("free") /\ UNCHANGED << state, current >>
      /\ next' = [next EXCEPT ![p] = next[current]]
  BY DEF RemoveCut, At, Doing
<1>2. /\ current \in Linked /\ current # Idle /\ Linked = LiveTasks /\ current \in Slots
      /\ p \in Linked /\ next[p] = current
  BY <1>1 DEF Inv, TypeOK, ControlInv, Inside, Killing, ReapInv, At, Doing, Linked,
              Outside, me, its, me, its, SameSpaceAs, SameSpaceThread
<1>3. pc'[current] = "free"
  BY <1>1 DEF Inv, TypeOK, Goto
<1>4. Linked' = Linked \ {current}
  BY <1>1, <1>2, <1>3 DEF Linked, Outside, At, Doing, LiveTasks, Alive
<1> HIDE DEF p
<1> QED BY <1>1, <1>2, <1>4, RemoveLine

(* What does not write the pointers of the list.                           *)
LEMMA CallLine ==
  ASSUME Inv, Inv', Opens, LineThere, Call
  PROVE  LineThere' /\ UNCHANGED << Line, current >>
<1>1. UNCHANGED << state, next, taskCount, current >>
  BY DEF Call, RunCall, ForkCall, ThreadCall, KillCall, tableVars
<1>2. InList(pc'[caller'])
  BY DEF Inv, TypeOK, Opens, Call, RunCall, ForkCall, ThreadCall, KillCall, Goto, InList
<1>3. Linked' = Linked
  BY <1>1, <1>2, OpensList, SameList
<1> QED BY <1>1, <1>3, LineKept

LEMMA OtherLine ==
  ASSUME Inv, Inv', Own, LineThere,
         \/ RunPick \/ \E q \in PDs : FillFork(q)
         \/ FillMapped \/ FillFails \/ InitSlot
         \/ ReapSkip \/ ReapMatch \/ ReapWalk \/ ReapDone
         \/ FreePd \/ ClearCr3 \/ RemoveWalk
  PROVE  LineThere' /\ UNCHANGED << Line, current >>
<1>1. UNCHANGED << state, next, taskCount, current >>
  BY DEF RunPick, FillFork, FillMapped,
         FillFails, InitSlot, ReapSkip, ReapMatch, ReapWalk, ReapDone, FreePd, ClearCr3,
         RemoveWalk, tableVars
<1>2. InList(pc[current])
  BY DEF RunPick, FillFork,
         FillMapped, FillFails, InitSlot, ReapSkip, ReapMatch, ReapWalk, ReapDone, FreePd,
         ClearCr3, RemoveWalk, At, InList
<1>3. InList(pc'[current])
  <2>1. pc \in [Slots -> {"user", "stub"} \cup Creating \cup Killing] /\ current \in Slots
    BY DEF Inv, TypeOK
  <2>2. CASE InitSlot
    <3>1. me.slot # current
      <4>1. me.slot \in FreeSlots /\ pc[current] = "init"
        BY <2>2 DEF InitSlot, Inv, CreateInv, At, me, its, Own
      <4> QED BY <4>1, CurrentAlive DEF FreeSlots, Alive, InList, At
    <3> QED BY <2>1, <2>2, <3>1 DEF InitSlot, InList
  <2>3. CASE ReapSkip
    BY <1>2, <2>3 DEF ReapSkip
  <2>5. CASE RunPick \/ (\E q \in PDs : FillFork(q)) \/ FillMapped \/ FillFails
    BY <2>1, <2>5 DEF RunPick, FillFork, FillMapped, FillFails, Goto, Return, InList
  <2>6. CASE ReapMatch \/ ReapWalk \/ ReapDone \/ FreePd \/ ClearCr3 \/ RemoveWalk
    BY <2>1, <2>6 DEF ReapMatch, ReapWalk, ReapDone, FreePd, ClearCr3, RemoveWalk, Goto, InList
  <2> QED BY <2>2, <2>3, <2>5, <2>6
<1>4. Linked' = Linked
  BY <1>1, <1>2, <1>3, SameList DEF Own
<1> QED BY <1>1, <1>4, LineKept

(* Nor do these, whose task is outside the list.                           *)
LEMMA OutsideLine ==
  ASSUME Inv, Inv', Own, LineThere, SetReady \/ LinkNew \/ FreeSelf
  PROVE  LineThere' /\ UNCHANGED << Line, current >>
<1> USE DEF Own
<1>1. UNCHANGED current /\ current \in Slots
      /\ pc \in [Slots -> {"user", "stub"} \cup Creating \cup Killing]
      /\ state \in [Slots -> {"FREE", "READY", "RUNNING"}]
      /\ next \in [Slots -> Slots \cup {Nil}]
  BY DEF SetReady, LinkNew, FreeSelf, Inv, TypeOK
<1>2. Linked' = Linked /\ \A x \in Linked \cup {current} : next'[x] = next[x]
  <2>1. CASE SetReady
    <3>1. pc[current] = "ready" /\ pc'[current] = "link" /\ me' = me /\ next' = next
      BY <1>1, <2>1 DEF SetReady, At, Doing, Goto, me, its
    <3>2. me.slot \in FreeSlots
      BY <3>1 DEF Inv, CreateInv, At, Doing, me, its
    <3>3. LiveTasks' = LiveTasks \cup {me.slot} /\ me.slot \notin LiveTasks
      BY <1>1, <2>1, <3>2 DEF SetReady, FreeSlots, LiveTasks, Alive
    <3> QED BY <1>1, <3>1, <3>3 DEF Linked, Outside, At, Doing, me, its
  <2>2. CASE LinkNew
    <3>1. /\ pc[current] = "link" /\ pc'[current] = "insert" /\ me' = me
          /\ LiveTasks' = LiveTasks
          /\ next' = [next EXCEPT ![me.slot] = next[current]]
      BY <1>1, <2>2 DEF LinkNew, At, Doing, Goto, me, its, LiveTasks, Alive
    <3>2. me.slot # current
      BY <3>1 DEF Inv, CreateInv, At, Doing, me, its
    <3>3. Linked' = Linked /\ me.slot \notin Linked
      BY <1>1, <3>1 DEF Linked, Outside, At, Doing, me, its
    <3> QED BY <1>1, <3>1, <3>2, <3>3, LinkedType
  <2>3. CASE FreeSelf
    <3>1. pc[current] = "free" /\ pc'[current] = "stub" /\ next' = next
      BY <1>1, <2>3 DEF FreeSelf, At, Doing, Goto
    <3>2. LiveTasks' = LiveTasks \ {current}
      BY <1>1, <2>3 DEF FreeSelf, LiveTasks, Alive
    <3> QED BY <1>1, <3>1, <3>2 DEF Linked, Outside, At, Doing
  <2> QED BY <2>1, <2>2, <2>3
<1> QED BY <1>1, <1>2, LineKept

LEMMA StepLine ==
  ASSUME Inv, Inv', ~raced', LineThere, [Next]_vars
  PROVE  LineThere' /\ [Queue!Next]_<< Line, current >>
<1>1. CASE Interrupt
  BY <1>1, TickLine DEF Interrupt, Queue!Next
<1>2. CASE (TickReturns /\ NoteTick) \/ UNCHANGED vars
  <2>1. UNCHANGED << next, current >> /\ Linked' = Linked
    BY <1>2 DEF TickReturns, tableVars, NoteTick, vars, Linked, LiveTasks, Alive, Outside, Doing, its
  <2> QED BY <2>1, LineKept
<1>3. CASE Begin
  BY <1>3, BeginOpens, CallLine DEF Begin
<1>4. CASE Create /\ NoteCall
  <2>1. Own
    BY <1>4, ContinueIsOwn
  <2> QED BY <1>4, <2>1, OtherLine, OutsideLine, InsertLine DEF Create, Queue!Next
<1>5. CASE Kill /\ NoteCall
  <2>1. Own
    BY <1>5, ContinueIsOwn
  <2> QED BY <1>5, <2>1, OtherLine, OutsideLine, ReapCutLine, RemoveCutLine DEF Kill, Queue!Next
<1> QED BY <1>1, <1>2, <1>3, <1>4, <1>5 DEF Next, Continue

(* The scheduler is the queue: for every number of slots, with interrupts  *)
(* enabled in system calls, until calls race each tick gives the turn to   *)
(* the first in line, list_insert puts a task at the front, list_remove    *)
(* takes one out, and whatever else task.c does leaves the order alone.    *)
THEOREM RefinesQueue == Spec => Implements
<1> DEFINE LInv == ~raced => LineThere
<1>1. Init => LInv /\ Queue!Init
  BY InitLine
<1>2. IInv /\ IInv' /\ LInv /\ [Next]_vars
        => LInv' /\ (~raced' => [Queue!Next]_<< Line, current >>)
  BY StepLine, RacedStays DEF IInv
<1> QED BY <1>1, <1>2, Invariance, PTL DEF Spec, Implements
=============================================================================

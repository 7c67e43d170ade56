---------------------------- MODULE WinMgr_proofs ----------------------------
(***************************************************************************)
(* Core is an invariant of WinMgr, for any programs, windows, clicks and   *)
(* sizes: whatever closes, hides, is dragged or dies, in any order, the    *)
(* focus has a window, at most one window is dragged, and the queues       *)
(* belong to programs that run.                                            *)
(***************************************************************************)
EXTENDS WinMgr, FiniteSetTheorems, TLAPS

(* What holds of the table while calls do not overlap, and what a program  *)
(* whose call is alone finds.                                              *)
Core == DesktopOK /\ DragOK /\ QueuesOK
Alone(p) == Sees(p) /\ \A q \in Procs \ {p} : to[q] = None

-----------------------------------------------------------------------------
(* THE LEAST AND THE HIGHEST                                               *)

LEMMA Sizes ==
  /\ MaxWins \in Nat /\ MaxClients \in Nat /\ EvMax \in Nat /\ EvMax > 0 /\ MaxIds \in Nat
  /\ None \notin Procs /\ Slots \subseteq Nat /\ 0 \notin Slots /\ IsFiniteSet(Slots)
BY WinMgrAssumption, FS_Interval DEF Slots

(* What "the first slot that" finds.                                       *)
LEMMA LeastExists ==
  ASSUME NEW S, S \subseteq Nat, S # {}
  PROVE  \E i \in S : \A j \in S : i <= j
<1>1. PICK a \in S : \A b \in S : ~(<< b, a >> \in OpToRel(<, Nat))
  BY NatLessThanWellFounded, WFMin
<1>2. \A b \in S : ~(b < a)
  BY <1>1 DEF OpToRel
<1> QED BY <1>2

(* A numbering of a finite set has a highest number, and a first of them:  *)
(* one that no other beats, for who beats it beats fewer.                  *)
LEMMA FirstOfTheHighest ==
  ASSUME NEW S, IsFiniteSet(S), S \subseteq Nat, S # {}, NEW r \in [S -> Nat]
  PROVE  \E s \in S : \A o \in S : r[s] > r[o] \/ (r[s] = r[o] /\ s <= o)
<1> DEFINE Beats(o, s) == r[o] > r[s] \/ (r[o] = r[s] /\ o < s)
           By(s) == {o \in S : Beats(o, s)}
           All == {By(s) : s \in S}
<1>1. All # {}
  <2>1. PICK s \in S : TRUE
    OBVIOUS
  <2> HIDE DEF By
  <2>2. By(s) \in All
    OBVIOUS
  <2> QED BY <2>2
<1>2. All \subseteq FiniteSubsetsOf(S)
  <2>1. ASSUME NEW s \in S PROVE By(s) \in SUBSET S /\ IsFiniteSet(By(s))
    BY FS_Subset
  <2> QED BY <2>1 DEF FiniteSubsetsOf
<1>3. PICK B \in All : \A C \in All : ~ (<< C, B >> \in StrictSubsetOrdering(S))
  <2> HIDE DEF All
  <2> QED BY <1>1, <1>2, FS_StrictSubsetOrderingWellFounded, WFMin
<1>4. PICK s \in S : B = By(s)
  OBVIOUS
<1>5. ASSUME NEW o \in S, Beats(o, s) PROVE FALSE
  <2>1. By(o) \subseteq By(s)
    <3>1. ASSUME NEW q \in S, Beats(q, o) PROVE Beats(q, s)
      <4>1. r[q] \in Nat /\ r[o] \in Nat /\ r[s] \in Nat /\ q \in Nat /\ o \in Nat /\ s \in Nat
        OBVIOUS
      <4> QED BY <1>5, <3>1, <4>1
    <3> QED BY <3>1
  <2>2. o \in By(s) /\ o \notin By(o)
    <3>1. r[o] \in Nat /\ o \in Nat
      OBVIOUS
    <3> QED BY <1>5, <3>1
  <2>3. By(o) \in All /\ By(o) \in SUBSET S /\ By(s) \in SUBSET S
    OBVIOUS
  <2> HIDE DEF By, All
  <2>4. << By(o), By(s) >> \in StrictSubsetOrdering(S)
    BY <2>1, <2>2, <2>3 DEF StrictSubsetOrdering
  <2> QED BY <1>3, <1>4, <2>3, <2>4
<1>6. \A o \in S : r[s] > r[o] \/ (r[s] = r[o] /\ s <= o)
  <2> SUFFICES ASSUME NEW o \in S PROVE r[s] > r[o] \/ (r[s] = r[o] /\ s <= o)
    OBVIOUS
  <2>1. r[o] \in Nat /\ r[s] \in Nat /\ o \in Nat /\ s \in Nat
    OBVIOUS
  <2> QED BY <1>5, <2>1
<1> QED BY <1>6

(* wm_hit, wm_topmost_app: the highest of some windows is one of them, and *)
(* none of them is higher.                                                 *)
LEMMA HighestBeats ==
  ASSUME NEW ws \in [Slots -> Windows], NEW S, S \subseteq Slots, S # {}
  PROVE  /\ Highest(ws, S) \in S
         /\ \A o \in S : Rank(ws, o) \in Nat /\ Rank(ws, o) <= Rank(ws, Highest(ws, S))
<1> DEFINE r == [s \in S |-> Rank(ws, s)]
<1>1. r \in [S -> Nat]
  <2>1. ASSUME NEW s \in S PROVE Rank(ws, s) \in Nat
    <3>1. ws[s].z \in Nat
      BY DEF Windows
    <3> QED BY <3>1 DEF Rank
  <2> QED BY <2>1
<1>2. IsFiniteSet(S) /\ S \subseteq Nat
  BY Sizes, FS_Subset
<1>3. \E s \in S : \A o \in S : r[s] > r[o] \/ (r[s] = r[o] /\ s <= o)
  <2> HIDE DEF r
  <2> QED BY <1>1, <1>2, FirstOfTheHighest
<1>4. \E s \in S : \A o \in S : Rank(ws, s) > Rank(ws, o) \/ (Rank(ws, s) = Rank(ws, o) /\ s <= o)
  BY <1>3
<1> DEFINE h == Highest(ws, S)
<1>5. h \in S /\ \A o \in S : Rank(ws, h) > Rank(ws, o) \/ (Rank(ws, h) = Rank(ws, o) /\ h <= o)
  BY <1>4 DEF Highest
<1>6. \A o \in S : Rank(ws, o) \in Nat
  BY <1>1
<1> HIDE DEF h
<1>7. \A o \in S : Rank(ws, o) <= Rank(ws, h)
  BY <1>5, <1>6
<1> QED BY <1>5, <1>6, <1>7 DEF h

LEMMA HighestIs ==
  ASSUME NEW ws \in [Slots -> Windows], NEW S, S \subseteq Slots
  PROVE  /\ S # {} => Highest(ws, S) \in S
         /\ S = {} <=> Highest(ws, S) = 0
<1>1. CASE S = {}
  BY <1>1 DEF Highest
<1>2. CASE S # {}
  <2>1. Highest(ws, S) \in S
    BY <1>2, HighestBeats
  <2> QED BY <1>2, <2>1, Sizes
<1> QED BY <1>1, <1>2

(* The level wm_raise finds: that of one of the windows, and no window of  *)
(* them has a higher one.                                                  *)
TopOf(ws, F) == CHOOSE z \in {ws[o].z : o \in F} : \A o \in F : ws[o].z <= z

LEMMA TopIs ==
  ASSUME NEW ws \in [Slots -> Windows], NEW F, F \subseteq Slots, F # {}
  PROVE  TopOf(ws, F) \in Nat /\ \A o \in F : ws[o].z \in Nat /\ ws[o].z <= TopOf(ws, F)
<1> DEFINE r == [o \in F |-> ws[o].z]
<1>1. \A o \in F : ws[o].z \in Nat /\ r[o] = ws[o].z
  BY DEF Windows
<1>2. r \in [F -> Nat]
  BY <1>1
<1>3. IsFiniteSet(F) /\ F \subseteq Nat
  BY Sizes, FS_Subset
<1>4. \E q \in F : \A o \in F : r[q] > r[o] \/ (r[q] = r[o] /\ q <= o)
  <2> HIDE DEF r
  <2> QED BY <1>2, <1>3, FirstOfTheHighest
<1>5. PICK q \in F : \A o \in F : ws[o].z <= ws[q].z
  <2>1. PICK q \in F : \A o \in F : r[q] > r[o] \/ (r[q] = r[o] /\ q <= o)
    BY <1>4
  <2> HIDE DEF r
  <2>2. \A o \in F : ws[o].z <= ws[q].z
    BY <1>1, <2>1
  <2> QED BY <2>2
<1>6. \E z \in {ws[o].z : o \in F} : \A o \in F : ws[o].z <= z
  BY <1>5
<1>7. TopOf(ws, F) \in {ws[o].z : o \in F} /\ \A o \in F : ws[o].z <= TopOf(ws, F)
  BY <1>6 DEF TopOf
<1> QED BY <1>1, <1>7

(* wm_raise changes levels and nothing else.                               *)
Alike(ws, us) ==
  \A s \in Slots : /\ us[s].id = ws[s].id /\ us[s].pd = ws[s].pd /\ us[s].kind = ws[s].kind
                   /\ us[s].visible = ws[s].visible

LEMMA RaisedIs ==
  ASSUME NEW ws \in [Slots -> Windows], NEW s \in Slots, ws[s].visible
  PROVE  /\ Raised(ws, s, Top(ws)) \in [Slots -> Windows] /\ Alike(ws, Raised(ws, s, Top(ws)))
         /\ \A o \in Slots : Raised(ws, s, Top(ws))[o].drag = ws[o].drag
<1> DEFINE F == {o \in Slots : ws[o].visible /\ ws[o].kind # "fixed"}
           top == CHOOSE z \in {ws[o].z : o \in F} : \A o \in F : ws[o].z <= z
           us == [o \in Slots |->
              IF o = s THEN [ws[o] EXCEPT !.z = top + 1]
              ELSE IF o \in F /\ ws[o].z > ws[s].z THEN [ws[o] EXCEPT !.z = @ - 1]
              ELSE ws[o]]
<1>1. CASE ws[s].kind # "app"
  BY <1>1 DEF Raised, Alike
<1>2. CASE ws[s].kind = "app"
  <2>1. Raised(ws, s, Top(ws)) = us
    <3>1. top = Top(ws)
      BY DEF Top, Fixed
    <3> HIDE DEF top
    <3> QED BY <1>2, <3>1 DEF Raised, Fixed
  <2>2. top \in Nat
    <3>1. F \subseteq Slots /\ s \in F
      BY <1>2
    <3>2. top = TopOf(ws, F)
      BY DEF TopOf
    <3> HIDE DEF F, top
    <3> QED BY <3>1, <3>2, TopIs
  <2> HIDE DEF top
  <2>3. ASSUME NEW o \in Slots
        PROVE  /\ us[o] \in Windows /\ us[o].id = ws[o].id /\ us[o].pd = ws[o].pd
               /\ us[o].kind = ws[o].kind /\ us[o].visible = ws[o].visible /\ us[o].drag = ws[o].drag
    <3>1. ws[o] \in Windows /\ ws[o].z \in Nat /\ ws[s].z \in Nat
      BY DEF Windows
    <3>2. top + 1 \in Nat /\ (ws[o].z > ws[s].z => ws[o].z - 1 \in Nat)
      BY <2>2, <3>1
    <3>3. CASE o = s
      <4>1. us[o] = [ws[o] EXCEPT !.z = top + 1]
        BY <3>3
      <4> HIDE DEF us
      <4> QED BY <3>1, <3>2, <4>1 DEF Windows
    <3>4. CASE o # s /\ o \in F /\ ws[o].z > ws[s].z
      <4>1. us[o] = [ws[o] EXCEPT !.z = ws[o].z - 1]
        BY <3>4
      <4> HIDE DEF us
      <4> QED BY <3>1, <3>2, <3>4, <4>1 DEF Windows
    <3>5. CASE o # s /\ ~ (o \in F /\ ws[o].z > ws[s].z)
      <4>1. us[o] = ws[o]
        BY <3>5
      <4> QED BY <3>1, <4>1
    <3> QED BY <3>3, <3>4, <3>5
  <2>4. us \in [Slots -> Windows] /\ Alike(ws, us) /\ \A o \in Slots : us[o].drag = ws[o].drag
    <3>1. us = [o \in Slots |-> us[o]]
      OBVIOUS
    <3> HIDE DEF us
    <3> QED BY <2>3, <3>1 DEF Alike
  <2> QED BY <2>1, <2>4
<1> QED BY <1>1, <1>2

(* The window goes over all others but the taskbar, and no other goes up.  *)
LEMMA RaisedOver ==
  ASSUME NEW ws \in [Slots -> Windows], NEW s \in Slots, ws[s].visible, ws[s].kind = "app"
  PROVE  /\ Raised(ws, s, Top(ws))[s].z > ws[s].z
         /\ \A o \in Slots \ {s} : Raised(ws, s, Top(ws))[o].z <= ws[o].z
         /\ \A o \in Slots \ {s} : ws[o].visible /\ ws[o].kind # "fixed" =>
              Raised(ws, s, Top(ws))[o].z < Raised(ws, s, Top(ws))[s].z
<1> DEFINE F == {o \in Slots : ws[o].visible /\ ws[o].kind # "fixed"}
           top == TopOf(ws, F)
           us == Raised(ws, s, Top(ws))
<1>1. us = [o \in Slots |->
              IF o = s THEN [ws[o] EXCEPT !.z = top + 1]
              ELSE IF o \in F /\ ws[o].z > ws[s].z THEN [ws[o] EXCEPT !.z = @ - 1]
              ELSE ws[o]]
  <2>1. top = Top(ws)
    BY DEF Top, TopOf, Fixed
  <2> HIDE DEF top
  <2> QED BY <2>1 DEF Raised, Fixed
<1>2. F \subseteq Slots /\ s \in F /\ \A o \in Slots \ F : ~ (ws[o].visible /\ ws[o].kind # "fixed")
  OBVIOUS
<1> HIDE DEF F
<1>3. top \in Nat /\ \A o \in F : ws[o].z <= top
  BY <1>2, TopIs
<1>4. \A o \in Slots : ws[o] \in Windows /\ ws[o].z \in Nat
  BY DEF Windows
<1> HIDE DEF top, us
<1>5. us[s].z = top + 1
  BY <1>1, <1>4 DEF Windows
<1>6. ASSUME NEW o \in Slots \ {s}
      PROVE  us[o].z = ws[o].z \/ (us[o].z = ws[o].z - 1)
  <2>1. CASE o \in F /\ ws[o].z > ws[s].z
    BY <1>1, <1>4, <2>1 DEF Windows
  <2>2. CASE ~ (o \in F /\ ws[o].z > ws[s].z)
    BY <1>1, <2>2
  <2> QED BY <2>1, <2>2
<1>7. us[s].z > ws[s].z
  BY <1>2, <1>3, <1>4, <1>5
<1>8. \A o \in Slots \ {s} : us[o].z <= ws[o].z
  BY <1>4, <1>6
<1>9. ASSUME NEW o \in Slots \ {s}, ws[o].visible, ws[o].kind # "fixed"
      PROVE  us[o].z < us[s].z
  <2>1. o \in F
    BY <1>2, <1>9
  <2>2. ws[o].z <= top /\ ws[o].z \in Nat
    BY <1>3, <1>4, <2>1
  <2> QED BY <1>3, <1>5, <1>6, <2>2
<1> QED BY <1>7, <1>8, <1>9 DEF us

-----------------------------------------------------------------------------
(* WHAT A STEP MUST LEAVE                                                  *)

LEMMA AtMostOne ==
  ASSUME NEW S, IsFiniteSet(S)
  PROVE  Cardinality(S) <= 1 <=> \A a, b \in S : a = b
<1>1. Cardinality(S) \in Nat
  BY FS_CardinalityType
<1>2. CASE Cardinality(S) <= 1
  <2>1. Cardinality(S) = 0 \/ Cardinality(S) = 1
    BY <1>1, <1>2
  <2>2. S = {} \/ \E x : S = {x}
    BY <2>1, FS_EmptySet, FS_Singleton
  <2> QED BY <1>2, <2>2
<1>3. ASSUME \A a, b \in S : a = b
      PROVE  Cardinality(S) <= 1
  <2>1. S = {} \/ \E x : S = {x}
    BY <1>3
  <2>2. Cardinality(S) = 0 \/ Cardinality(S) = 1
    BY <2>1, FS_EmptySet, FS_Singleton
  <2> QED BY <2>2
<1> QED BY <1>2, <1>3

LEMMA DraggedFinite == IsFiniteSet(Dragged(wins)) /\ IsFiniteSet(Dragged(wins'))
<1>1. Dragged(wins) \subseteq Slots /\ Dragged(wins') \subseteq Slots
  BY DEF Dragged, Visible
<1> QED BY <1>1, Sizes, FS_Subset

LEMMA OneDragIs ==
  /\ DragOK <=> (~hidden => (\A a, b \in Dragged(wins) : a = b) /\ (Dragged(wins) # {} => held))
  /\ DragOK' <=> (~hidden' => (\A a, b \in Dragged(wins') : a = b) /\ (Dragged(wins') # {} => held'))
<1>1. Cardinality(Dragged(wins)) <= 1 <=> \A a, b \in Dragged(wins) : a = b
  BY DraggedFinite, AtMostOne
<1>2. Cardinality(Dragged(wins))' <= 1 <=> \A a, b \in Dragged(wins') : a = b
  BY DraggedFinite, AtMostOne
<1> QED BY <1>1, <1>2 DEF DragOK

(* The same windows are on the screen, and the focus and the queues go to  *)
(* programs that have one.                                                 *)
LEMMA SameWindows ==
  ASSUME Core, TypeOK', UNCHANGED << bg, active, live, hidden >>, Alike(wins, wins'),
         focus' = focus \/ \E s \in Visible : focus' = wins[s].pd,
         \A c \in 1 .. MaxClients :
           clients'[c].pd \in {clients[c].pd, None} \/ \E q \in Procs : clients'[c].pd = to[q],
         \A q \in Procs :
           to'[q] \in {to[q], focus, None} \/ \E s \in Visible : to'[q] = wins[s].pd,
         ~hidden => (\A a, b \in Dragged(wins') : a = b) /\ (Dragged(wins') # {} => held')
  PROVE  Core'
<1>1. \A s \in Slots : /\ wins'[s].visible = wins[s].visible /\ wins'[s].pd = wins[s].pd
                       /\ wins'[s].id = wins[s].id /\ wins'[s].kind = wins[s].kind
  BY DEF Alike
<1>2. Visible' = Visible /\ NotBg(wins') = NotBg(wins) /\ NotBg(wins)' = NotBg(wins)
  BY <1>1 DEF Visible, NotBg
<1>3. OwnersKnown'
  BY <1>1 DEF Core, DesktopOK, OwnersKnown
<1>4. FocusHasWindow'
  <2>1. \A s \in Visible : wins[s].pd # None
    BY DEF Core, DesktopOK, OwnersKnown, Visible
  <2>2. \A s \in Visible : wins'[s].pd = wins[s].pd
    BY <1>1 DEF Visible
  <2>3. focus' # None => \E s \in Visible : wins'[s].pd = focus'
    BY <2>2 DEF Core, DesktopOK, FocusHasWindow
  <2>4. NotBg(wins) # {} => focus' # None
    BY <2>1 DEF Core, DesktopOK, FocusHasWindow
  <2> QED BY <1>2, <2>3, <2>4 DEF FocusHasWindow
<1>5. BackgroundFreed'
  BY <1>2 DEF Core, DesktopOK, BackgroundFreed
<1>6. QueuesOK'
  <2>1. ~hidden => \A s \in Visible : wins[s].pd \in live
    BY DEF Core, DesktopOK, OwnersKnown, Visible
  <2>2. ~hidden => focus \in live \cup {None}
    BY <2>1 DEF Core, DesktopOK, FocusHasWindow
  <2> QED BY <2>1, <2>2 DEF Core, QueuesOK
<1>7. DragOK'
  BY OneDragIs
<1> QED BY <1>3, <1>4, <1>5, <1>6, <1>7 DEF Core, DesktopOK

(* wm_recompute, whatever the table has become.                            *)
LEMMA Recomputed ==
  ASSUME TypeOK', OwnersKnown', NEW f,
         active' = AnyVisible(wins'), bg' = (bg /\ AnyVisible(wins')), focus' = NextFocus(wins', f)
  PROVE  FocusHasWindow' /\ BackgroundFreed'
<1> DEFINE t == Highest(wins', NotBg(wins'))
<1>1. /\ NotBg(wins') # {} => t \in NotBg(wins')
      /\ NotBg(wins') = {} <=> t = 0
  <2>1. wins' \in [Slots -> Windows] /\ NotBg(wins') \subseteq Slots
    BY DEF TypeOK, NotBg
  <2> QED BY <2>1, HighestIs
<1>2. NotBg(wins)' = NotBg(wins') /\ NotBg(wins') \subseteq Visible'
  BY DEF NotBg, Visible
<1>3. \A s \in Visible' : wins'[s].pd # None
  BY DEF OwnersKnown, Visible
<1>4. FocusHasWindow'
  <2>1. CASE \E s \in Slots : wins'[s].visible /\ wins'[s].pd = f
    <3>1. focus' = f
      BY <2>1 DEF NextFocus
    <3>2. \E s \in Visible' : wins'[s].pd = f
      BY <2>1 DEF Visible
    <3> QED BY <1>3, <3>1, <3>2 DEF FocusHasWindow
  <2>2. CASE ~ (\E s \in Slots : wins'[s].visible /\ wins'[s].pd = f) /\ t = 0
    <3>1. focus' = None
      BY <2>2 DEF NextFocus
    <3> QED BY <1>1, <1>2, <2>2, <3>1 DEF FocusHasWindow
  <2>3. CASE ~ (\E s \in Slots : wins'[s].visible /\ wins'[s].pd = f) /\ t # 0
    <3>1. focus' = wins'[t].pd
      BY <2>3 DEF NextFocus
    <3>2. t \in Visible'
      BY <1>1, <1>2, <2>3
    <3> HIDE DEF t
    <3> QED BY <1>3, <3>1, <3>2 DEF FocusHasWindow
  <2> QED BY <2>1, <2>2, <2>3
<1>5. BackgroundFreed'
  <2>1. AnyVisible(wins') <=> Visible' # {}
    BY DEF AnyVisible, Visible
  <2> QED BY <2>1 DEF BackgroundFreed
<1> QED BY <1>4, <1>5

(* Windows leave the screen, and perhaps their program.                    *)
LEMMA FewerWindows ==
  ASSUME Core, TypeOK', OwnersKnown', NEW f,
         active' = AnyVisible(wins'), bg' = (bg /\ AnyVisible(wins')), focus' = NextFocus(wins', f),
         ~hidden' => /\ ~hidden /\ Dragged(wins') \subseteq Dragged(wins) /\ (held => held')
                     /\ \A c \in 1 .. MaxClients : clients'[c].pd \in live' \cup {None}
                     /\ \A q \in Procs : to'[q] \in live' \cup {None}
  PROVE  Core'
<1>1. FocusHasWindow' /\ BackgroundFreed'
  BY Recomputed
<1>2. DragOK'
  BY OneDragIs DEF Core
<1>3. QueuesOK'
  BY DEF QueuesOK
<1> QED BY <1>1, <1>2, <1>3 DEF Core, DesktopOK

-----------------------------------------------------------------------------
(* TYPES OF WHAT CHANGES                                                   *)

LEMMA Typing ==
  ASSUME TypeOK
  PROVE  /\ wins \in [Slots -> Windows] /\ hand \in [Procs -> Events]
         /\ clients \in [1 .. MaxClients -> [pd : Procs \cup {None}, q : Queues]]
         /\ to \in [Procs -> Procs \cup {None}]
         /\ Idle \in Events /\ Loop \in Events /\ << >> \in Queues
         /\ \A p \in Procs : hand[p].at \in Int \X Int
<1>1. /\ "idle" \in {"idle", "loop", "down", "up", "move", "key", "close"}
      /\ "loop" \in {"idle", "loop", "down", "up", "move", "key", "close"}
      /\ << 0, 0 >> \in Clicks \cup Hovers \cup {<< 0, 0 >>} /\ 0 \in 0 .. MaxIds
  BY Sizes
<1>2. Idle \in Events /\ Loop \in Events
  BY <1>1 DEF Idle, Loop, Event, Events
<1>3. << >> \in Queues
  BY Sizes DEF Queues
<1>4. \A e \in Events : e.at \in Int \X Int
  BY WinMgrAssumption DEF Events
<1> QED BY <1>2, <1>3, <1>4 DEF TypeOK

(* One slot of the table changes.                                          *)
LEMMA OneSlot ==
  ASSUME TypeOK, NEW s \in Slots, NEW w \in Windows, wins' = [wins EXCEPT ![s] = w]
  PROVE  /\ wins' \in [Slots -> Windows] /\ wins'[s] = w
         /\ \A o \in Slots : o # s => wins'[o] = wins[o]
BY DEF TypeOK

(* An event that wm_route names a program for.                             *)
LEMMA GiveIs ==
  ASSUME TypeOK, NEW p \in Procs, NEW pd \in Procs, NEW ev \in Events, Give(p, pd, ev)
  PROVE  /\ hand' \in [Procs -> Events] /\ to' \in [Procs -> Procs \cup {None}]
         /\ \A q \in Procs : to'[q] \in {to[q], pd}
BY Typing DEF Give

LEMMA TakeIs ==
  ASSUME TypeOK, NEW p \in Procs, Consume(p) \/ Raw(p)
  PROVE  /\ hand' \in [Procs -> Events] /\ UNCHANGED to
         /\ to' \in [Procs -> Procs \cup {None}]
BY Typing DEF Consume, Raw

(* What is not a window's is the focus's.                                  *)
LEMMA ToFocusIs ==
  ASSUME TypeOK, NEW p \in Procs, ToFocus(p)
  PROVE  /\ hand' \in [Procs -> Events]
         /\ to' \in [Procs -> Procs \cup {None}]
         /\ \A q \in Procs : to'[q] \in {to[q], focus}
<1>1. CASE focus = None
  BY <1>1, TakeIs DEF ToFocus
<1>2. CASE focus # None
  <2>1. focus \in Procs /\ hand[p] \in Events
    BY <1>2 DEF TypeOK
  <2> QED BY <1>2, <2>1, GiveIs DEF ToFocus
<1> QED BY <1>1, <1>2

-----------------------------------------------------------------------------
(* THE STEPS                                                               *)

LEMMA EmptyIs == Empty \in Windows
<1>1. NoRect \in Rects /\ None \in Procs \cup {None} /\ 0 \in 0 .. MaxIds
  BY Sizes DEF NoRect, Rects
<1> QED BY <1>1 DEF Empty, Windows, Kinds

LEMMA InitOK == Init => Core
<1> SUFFICES ASSUME Init PROVE Core
  OBVIOUS
<1>1. Empty \in Windows
  BY EmptyIs
<1>2. TypeOK
  <2>1. << >> \in Queues
    BY Sizes DEF Queues
  <2>2. Idle \in Events
    BY Sizes DEF Idle, Event, Events
  <2>3. NoClient \in [pd : Procs \cup {None}, q : Queues]
    BY <2>1 DEF NoClient
  <2>4. nextId \in 1 .. MaxIds + 1
    BY Sizes DEF Init
  <2> QED BY <1>1, <2>1, <2>2, <2>3, <2>4 DEF Init, TypeOK
<1>3. Visible = {} /\ NotBg(wins) = {} /\ Dragged(wins) = {}
  BY DEF Init, Visible, NotBg, Dragged, Empty
<1>4. DragOK
  BY <1>3, OneDragIs
<1>5. QueuesOK
  BY DEF Init, QueuesOK, NoClient
<1>6. OwnersKnown
  BY DEF Init, OwnersKnown, Empty
<1> QED BY <1>2, <1>3, <1>4, <1>5, <1>6
        DEF Init, Core, DesktopOK, FocusHasWindow, BackgroundFreed

(* A window that a click or a key finds is on the screen, with its program. *)
LEMMA SeenIs ==
  ASSUME Core, NEW s \in Visible
  PROVE  s \in Slots /\ wins[s].visible /\ wins[s] \in Windows /\ wins[s].pd \in Procs
<1>1. s \in Slots /\ wins[s].visible /\ wins[s] \in Windows
  BY DEF Visible, Core, DesktopOK, TypeOK
<1>2. wins[s].pd # None
  BY <1>1 DEF Core, DesktopOK, OwnersKnown
<1> QED BY <1>1, <1>2 DEF Windows

LEMMA HitIs ==
  ASSUME Core, NEW p \in Procs, Sees(p), Under(p) # 0
  PROVE  Under(p) \in Visible
<1> DEFINE S == {s \in NotBg(wins) : In(hand[p].at, wins[s].r)}
<1>1. S \subseteq Slots /\ S \subseteq Visible /\ wins \in [Slots -> Windows]
  BY DEF NotBg, Visible, Core, DesktopOK, TypeOK
<1>2. Under(p) = Highest(wins, S)
  BY DEF Under, Hit, Sees
<1> HIDE DEF S
<1> QED BY <1>1, <1>2, HighestIs

(* No window changes.                                                      *)
LEMMA SameTable ==
  ASSUME Core, TypeOK', UNCHANGED << wins, bg, active, live, hidden >>,
         focus' = focus \/ \E s \in Visible : focus' = wins[s].pd,
         \A c \in 1 .. MaxClients :
           clients'[c].pd \in {clients[c].pd, None} \/ \E q \in Procs : clients'[c].pd = to[q],
         \A q \in Procs :
           to'[q] \in {to[q], focus, None} \/ \E s \in Visible : to'[q] = wins[s].pd,
         Dragged(wins) # {} => held' \/ held' = held
  PROVE  Core'
<1>1. Dragged(wins') = Dragged(wins)
  BY DEF Dragged, Visible
<1>2. ~hidden => (\A a, b \in Dragged(wins') : a = b) /\ (Dragged(wins') # {} => held')
  BY <1>1, OneDragIs DEF Core
<1>3. Alike(wins, wins')
  BY DEF Alike
<1> QED BY <1>2, <1>3, SameWindows

(* The mouse and the keyboard.                                             *)
LEMMA PushStep ==
  ASSUME Core, NEW type \in {"down", "up", "move", "key"},
         NEW at \in Clicks \cup Hovers \cup {<< 0, 0 >>}, Push(type, at)
  PROVE  Core'
<1> USE DEF table
<1>1. TypeOK
  BY DEF Core, DesktopOK
<1>2. Event(type, at, 0) \in Events
  BY Sizes DEF Event, Events
<1>3. evq' \in Queues
  <2>1. evq \in Seq(Events) /\ Len(evq) \in Nat /\ Len(evq) < EvMax
    BY <1>1 DEF TypeOK, Queues
  <2>2. /\ Append(evq, Event(type, at, 0)) \in Seq(Events)
        /\ Len(Append(evq, Event(type, at, 0))) = Len(evq) + 1
    BY <1>2, <2>1
  <2>3. CASE Len(evq) < EvMax - 1
    <3>1. evq' = Append(evq, Event(type, at, 0))
      BY <2>3 DEF Push
    <3> QED BY <2>1, <2>2, <2>3, <3>1, Sizes DEF Queues
  <2>4. CASE ~ (Len(evq) < EvMax - 1)
    <3>1. evq' = evq
      BY <2>4 DEF Push
    <3> QED BY <1>1, <3>1 DEF TypeOK
  <2> QED BY <2>3, <2>4
<1>4. TypeOK'
  BY <1>1, <1>3 DEF Push, TypeOK
<1> QED BY <1>4, SameTable DEF Push

LEMMA FetchStep ==
  ASSUME Core, NEW p \in Procs, Fetch(p)
  PROVE  Core'
<1> USE DEF table
<1>1. TypeOK
  BY DEF Core, DesktopOK
<1>2. Head(evq) \in Events /\ Tail(evq) \in Queues
  <2>1. evq \in Seq(Events) /\ Len(evq) \in Nat /\ Len(evq) < EvMax /\ evq # << >>
    BY <1>1 DEF TypeOK, Queues, Fetch
  <2>2. Head(evq) \in Events /\ Tail(evq) \in Seq(Events) /\ Len(Tail(evq)) = Len(evq) - 1
    BY <2>1
  <2> QED BY <2>1, <2>2, Sizes DEF Queues
<1>3. TypeOK'
  BY <1>1, <1>2 DEF Fetch, TypeOK
<1> QED BY <1>3, SameTable DEF Fetch

LEMMA ClaimStep ==
  ASSUME Core, NEW p \in Procs, Claim(p)
  PROVE  Core'
<1> USE DEF table
<1>1. TypeOK
  BY DEF Core, DesktopOK
<1>2. ASSUME NEW c \in 1 .. MaxClients
      PROVE  clients'[c] \in [pd : Procs \cup {None}, q : Queues] /\ clients'[c].pd = clients[c].pd
  <2>1. clients[c] \in [pd : Procs \cup {None}, q : Queues]
    BY <1>1, Typing
  <2>2. CASE clients[c].pd = p /\ clients[c].q # << >>
    <3>1. clients'[c] = [clients[c] EXCEPT !.q = Tail(clients[c].q)]
      BY <2>2 DEF Claim
    <3>2. clients[c].q \in Seq(Events) /\ Len(clients[c].q) \in Nat /\ Len(clients[c].q) < EvMax
      BY <2>1 DEF Queues
    <3>3. /\ Tail(clients[c].q) \in Seq(Events)
          /\ Len(Tail(clients[c].q)) = Len(clients[c].q) - 1
      BY <2>2, <3>2
    <3>4. Tail(clients[c].q) \in Queues
      BY <3>2, <3>3, Sizes DEF Queues
    <3> QED BY <2>1, <3>1, <3>4
  <2>3. CASE ~ (clients[c].pd = p /\ clients[c].q # << >>)
    <3>1. clients'[c] = clients[c]
      BY <2>3 DEF Claim
    <3> QED BY <2>1, <3>1
  <2> QED BY <2>2, <2>3
<1>3. clients' \in [1 .. MaxClients -> [pd : Procs \cup {None}, q : Queues]]
  BY <1>2 DEF Claim
<1>4. TypeOK'
  BY <1>1, <1>3, Typing DEF Claim, TypeOK
<1> QED BY <1>2, <1>4, SameTable DEF Claim

(* wm_event_deliver: an event in the queue of a program, or dropped.       *)
LEMMA ClientIs ==
  ASSUME NEW cs, NEW pd
  PROVE  ClientOf(cs, pd) = 0 \/ (/\ ClientOf(cs, pd) \in 1 .. MaxClients
                                  /\ cs[ClientOf(cs, pd)].pd \in {pd, None})
<1> DEFINE own  == {i \in 1 .. MaxClients : cs[i].pd = pd}
           free == {i \in 1 .. MaxClients : cs[i].pd = None}
           S    == IF own # {} THEN own ELSE free
<1>1. S \subseteq 1 .. MaxClients /\ S \subseteq Nat /\ \A i \in S : cs[i].pd \in {pd, None}
  BY Sizes
<1>2. ClientOf(cs, pd) = IF S = {} THEN 0 ELSE CHOOSE i \in S : \A j \in S : i <= j
  BY DEF ClientOf
<1> HIDE DEF S
<1>3. S # {} => \E i \in S : \A j \in S : i <= j
  BY <1>1, LeastExists
<1> QED BY <1>1, <1>2, <1>3

LEMMA DeliverStep ==
  ASSUME Core, NEW p \in Procs, Sees(p), Deliver(p)
  PROVE  Core'
<1> DEFINE pd == to[p]
           c  == ClientOf(clients, pd)
           q  == IF clients[c].pd = None THEN << >> ELSE clients[c].q
           ev == hand[p]
           cl == [pd |-> pd, q |-> IF Len(q) < EvMax - 1 THEN Append(q, ev) ELSE q]
<1> USE DEF table
<1>1. TypeOK /\ ev \in Events /\ pd \in Procs
  BY DEF Core, DesktopOK, TypeOK, Deliver
<1>2. /\ hand' = [hand EXCEPT ![p] = Loop] /\ to' = [to EXCEPT ![p] = None]
      /\ clients' = IF c = 0 THEN clients ELSE [clients EXCEPT ![c] = cl]
      /\ UNCHANGED << wins, nextId, bg, active, focus, evq, live, pushed, calls, held, hidden >>
  BY DEF Deliver, Sees
<1>3. /\ clients' \in [1 .. MaxClients -> [pd : Procs \cup {None}, q : Queues]]
      /\ \A i \in 1 .. MaxClients : clients'[i].pd \in {clients[i].pd, pd}
  <2>a. CASE c = 0
    <3> HIDE DEF c
    <3> QED BY <1>1, <1>2, <2>a, Typing
  <2>b. CASE c # 0
    <3>1. clients' = [clients EXCEPT ![c] = cl]
      BY <1>2, <2>b
    <3>2. c \in 1 .. MaxClients
      BY <2>b, ClientIs
    <3> HIDE DEF c
    <3>3. q \in Queues
      BY <1>1, <3>2, Typing
    <3>4. (IF Len(q) < EvMax - 1 THEN Append(q, ev) ELSE q) \in Queues
      <4> HIDE DEF q, ev
      <4>1. q \in Seq(Events) /\ Len(q) \in Nat /\ Len(q) < EvMax
        BY <3>3 DEF Queues
      <4>2. Append(q, ev) \in Seq(Events) /\ Len(Append(q, ev)) = Len(q) + 1
        BY <1>1, <4>1
      <4> QED BY <4>1, <4>2, Sizes DEF Queues
    <3>5. cl \in [pd : Procs \cup {None}, q : Queues] /\ cl.pd = pd
      BY <1>1, <3>4
    <3> HIDE DEF cl
    <3> QED BY <1>1, <3>1, <3>2, <3>5, Typing
  <2> QED BY <2>a, <2>b
<1> HIDE DEF cl, c
<1>4. TypeOK'
  <2>1. hand' \in [Procs -> Events] /\ to' \in [Procs -> Procs \cup {None}]
    BY <1>1, <1>2, Typing
  <2> QED BY <1>1, <1>2, <1>3, <2>1 DEF TypeOK
<1>5. \A i \in Procs : to'[i] \in {to[i], None}
  BY <1>1, <1>2, Typing
<1> QED BY <1>2, <1>3, <1>4, <1>5, SameTable

(* What the routed events have in common: the types, when the table is as  *)
(* it was or is typed, and the same of the focus.                          *)
LEMMA RouteTypes ==
  ASSUME TypeOK, Same, UNCHANGED << bg, active >>, held' \in BOOLEAN,
         wins' \in [Slots -> Windows], focus' \in Procs \cup {None},
         hand' \in [Procs -> Events],
         to' \in [Procs -> Procs \cup {None}]
  PROVE  TypeOK'
BY DEF TypeOK, Same

LEMMA RouteNoneStep ==
  ASSUME Core, NEW p \in Procs, Sees(p), RouteNone(p)
  PROVE  Core'
<1>1. TypeOK
  BY DEF Core, DesktopOK
<1>2. UNCHANGED to /\ hand' \in [Procs -> Events]
      /\ to' \in [Procs -> Procs \cup {None}]
  BY <1>1, TakeIs DEF RouteNone
<1>3. held' \in BOOLEAN
  BY <1>1 DEF RouteNone, TypeOK
<1>4. TypeOK'
  BY <1>1, <1>2, <1>3, RouteTypes DEF RouteNone, TypeOK
<1>5. Dragged(wins) = {}
  BY DEF RouteNone, Sees, Core, DesktopOK, BackgroundFreed, Dragged, Visible
<1> QED BY <1>2, <1>4, <1>5, SameTable DEF RouteNone, Same

LEMMA PressOutsideStep ==
  ASSUME Core, NEW p \in Procs, Sees(p), PressOutside(p)
  PROVE  Core'
<1>1. TypeOK
  BY DEF Core, DesktopOK
<1>2. /\ hand' \in [Procs -> Events]
      /\ to' \in [Procs -> Procs \cup {None}]
      /\ \A q \in Procs : to'[q] \in {to[q], focus}
  BY <1>1, ToFocusIs DEF PressOutside
<1>3. TypeOK'
  BY <1>1, <1>2, RouteTypes DEF PressOutside, TypeOK
<1> QED BY <1>2, <1>3, SameTable DEF PressOutside, Same

LEMMA HoverStep ==
  ASSUME Core, NEW p \in Procs, Sees(p), Hover(p)
  PROVE  Core'
<1> DEFINE s == Under(p)
<1>1. TypeOK /\ hand[p] \in Events
  BY DEF Core, DesktopOK, TypeOK
<1>2. /\ hand' \in [Procs -> Events]
      /\ to' \in [Procs -> Procs \cup {None}]
      /\ \A q \in Procs : to'[q] \in {to[q], focus} \/ \E o \in Visible : to'[q] = wins[o].pd
  <2>1. CASE s # 0
    <3>1. s \in Visible
      BY <2>1, HitIs
    <3>2. Give(p, wins[s].pd, hand[p])
      BY <2>1 DEF Hover
    <3> HIDE DEF s
    <3>3. wins[s].pd \in Procs
      BY <3>1, SeenIs
    <3> QED BY <1>1, <3>1, <3>2, <3>3, GiveIs
  <2>2. CASE s = 0
    <3>1. ToFocus(p)
      BY <2>2 DEF Hover
    <3> QED BY <1>1, <3>1, ToFocusIs
  <2> QED BY <2>1, <2>2
<1>3. held' \in BOOLEAN
  BY <1>1 DEF Hover, TypeOK
<1>4. TypeOK'
  BY <1>1, <1>2, <1>3, RouteTypes DEF Hover, TypeOK
<1>5. Dragged(wins) = {}
  BY DEF Hover, Finds, Sees
<1> QED BY <1>2, <1>4, <1>5, SameTable DEF Hover, Same

LEMMA KeyStep ==
  ASSUME Core, NEW p \in Procs, Sees(p), Key(p)
  PROVE  Core'
<1> DEFINE s == IF TopmostApp(wins) # 0 THEN TopmostApp(wins) ELSE Highest(wins, NotBg(wins))
<1>1. TypeOK /\ hand[p] \in Events
  BY DEF Core, DesktopOK, TypeOK
<1>2. s # 0 => s \in Visible
  <2> DEFINE S == {o \in Visible : wins[o].kind = "app"}
  <2>1. /\ S \subseteq Slots /\ S \subseteq Visible /\ wins \in [Slots -> Windows]
        /\ NotBg(wins) \subseteq Slots /\ NotBg(wins) \subseteq Visible
    BY <1>1 DEF NotBg, Visible, TypeOK
  <2>2. TopmostApp(wins) = Highest(wins, S)
    <3>1. S = {o \in Slots : wins[o].visible /\ wins[o].kind = "app"}
      BY DEF Visible
    <3> HIDE DEF S
    <3> QED BY <3>1 DEF TopmostApp
  <2> HIDE DEF S
  <2> QED BY <2>1, <2>2, HighestIs
<1>3. /\ hand' \in [Procs -> Events]
      /\ to' \in [Procs -> Procs \cup {None}]
      /\ focus' = focus \/ \E o \in Visible : focus' = wins[o].pd
      /\ \A q \in Procs : to'[q] = to[q] \/ \E o \in Visible : to'[q] = wins[o].pd
  <2>1. CASE s # 0
    <3>1. Give(p, wins[s].pd, hand[p]) /\ focus' = wins[s].pd
      BY <2>1 DEF Key, Sees
    <3> HIDE DEF s
    <3>2. wins[s].pd \in Procs
      BY <1>2, <2>1, SeenIs
    <3> QED BY <1>1, <1>2, <2>1, <3>1, <3>2, GiveIs
  <2>2. CASE s = 0
    <3>1. Raw(p) /\ focus' = focus
      BY <2>2 DEF Key, Sees
    <3> QED BY <1>1, <3>1, TakeIs
  <2> QED BY <2>1, <2>2
<1> HIDE DEF s
<1>4. focus' \in Procs \cup {None}
  BY <1>1, <1>3, SeenIs DEF TypeOK
<1>5. TypeOK'
  BY <1>1, <1>3, <1>4, RouteTypes DEF Key, TypeOK
<1> QED BY <1>3, <1>5, SameTable DEF Key, Same

(* A press that finds a window: the window is on the screen, nothing is    *)
(* dragged, and the queue that gets an event is that of its program.       *)
LEMMA PressIs ==
  ASSUME Core, NEW p \in Procs, Sees(p), NEW s, s = Under(p), PressOn(p, s)
  PROVE  /\ TypeOK /\ hand[p] \in Events /\ s \in Visible /\ s \in Slots
         /\ wins[s] \in Windows /\ wins[s].visible /\ wins[s].pd \in Procs
         /\ Dragged(wins) = {} /\ held' = TRUE /\ Same
<1>1. s \in Visible /\ Dragged(wins) = {} /\ held' = TRUE /\ Same
  BY HitIs DEF PressOn, Finds, Sees
<1> QED BY <1>1, SeenIs DEF Core, DesktopOK, TypeOK

LEMMA PressGives ==
  ASSUME Core, NEW p \in Procs, Sees(p), NEW s, s = Under(p), PressOn(p, s),
         NEW ev \in Events, Give(p, wins[s].pd, ev), focus' = wins[s].pd,
         UNCHANGED << bg, active >>, wins' \in [Slots -> Windows], Alike(wins, wins'),
         \A o \in Slots : wins'[o].drag = wins[o].drag
  PROVE  Core'
<1>1. /\ TypeOK /\ hand[p] \in Events /\ s \in Visible /\ wins[s].pd \in Procs
      /\ Dragged(wins) = {} /\ held' = TRUE /\ Same
  BY PressIs
<1>2. /\ hand' \in [Procs -> Events]
      /\ to' \in [Procs -> Procs \cup {None}]
      /\ \A q \in Procs : to'[q] \in {to[q], wins[s].pd}
  BY <1>1, GiveIs
<1>3. TypeOK'
  BY <1>1, <1>2, RouteTypes
<1>4. Dragged(wins') = {}
  BY <1>1 DEF Dragged, Visible, Alike
<1>5. live' = live /\ hidden' = hidden /\ clients' = clients
  BY <1>1 DEF Same
<1> QED BY <1>1, <1>2, <1>3, <1>4, <1>5, SameWindows

LEMMA PressClientStep ==
  ASSUME Core, NEW p \in Procs, Sees(p), PressClient(p)
  PROVE  Core'
<1> DEFINE s == Under(p)
<1>1. /\ PressOn(p, s) /\ focus' = wins[s].pd /\ Give(p, wins[s].pd, hand[p])
      /\ UNCHANGED << bg, active >> /\ (wins' = Raised(wins, s, Top(wins)) \/ wins' = wins)
  BY DEF PressClient, Sees
<1>2. s = Under(p)
  OBVIOUS
<1> HIDE DEF s
<1>3. TypeOK /\ hand[p] \in Events /\ s \in Slots /\ wins[s].visible
  BY <1>1, <1>2, PressIs
<1>4. wins \in [Slots -> Windows]
  BY <1>3, Typing
<1>5. /\ wins' \in [Slots -> Windows] /\ Alike(wins, wins')
      /\ \A o \in Slots : wins'[o].drag = wins[o].drag
  BY <1>1, <1>3, <1>4, RaisedIs DEF Alike
<1> QED BY <1>1, <1>2, <1>3, <1>5, PressGives

LEMMA PressMenuStep ==
  ASSUME Core, NEW p \in Procs, Sees(p), PressMenu(p)
  PROVE  Core'
<1> DEFINE s == Under(p)
<1>1. /\ PressOn(p, s) /\ focus' = wins[s].pd /\ Give(p, wins[s].pd, hand[p])
      /\ UNCHANGED << wins, bg, active >>
  BY DEF PressMenu
<1>2. s = Under(p)
  OBVIOUS
<1> HIDE DEF s
<1>3. TypeOK /\ hand[p] \in Events
  BY <1>1, <1>2, PressIs
<1>4. wins' \in [Slots -> Windows] /\ Alike(wins, wins') /\ \A o \in Slots : wins'[o].drag = wins[o].drag
  BY <1>1, <1>3, Typing DEF Alike
<1> QED BY <1>1, <1>2, <1>3, <1>4, PressGives

LEMMA PressCloseStep ==
  ASSUME Core, NEW p \in Procs, Sees(p), PressClose(p)
  PROVE  Core'
<1> DEFINE s == Under(p)
           ev == Event("close", hand[p].at, wins[s].id)
<1>1. /\ PressOn(p, s) /\ focus' = wins[s].pd /\ Give(p, wins[s].pd, ev)
      /\ UNCHANGED << wins, bg, active >>
  BY DEF PressClose, PressTitle
<1>2. s = Under(p) /\ ev = Event("close", hand[p].at, wins[s].id)
  OBVIOUS
<1> HIDE DEF s, ev
<1>3. TypeOK /\ hand[p] \in Events /\ wins[s] \in Windows
  BY <1>1, <1>2, PressIs
<1>4. wins' \in [Slots -> Windows] /\ Alike(wins, wins') /\ \A o \in Slots : wins'[o].drag = wins[o].drag
  BY <1>1, <1>3, Typing DEF Alike
<1>5. ev \in Events
  BY <1>2, <1>3 DEF Event, Events, Windows
<1> QED BY <1>1, <1>2, <1>4, <1>5, PressGives

(* Presses that are consumed: one window changes, and stays where it is in *)
(* the table and on the screen.                                            *)
LEMMA PressChanges ==
  ASSUME Core, NEW p \in Procs, Sees(p), NEW s, s = Under(p), PressOn(p, s), Consume(p),
         focus' = wins[s].pd, UNCHANGED << bg, active >>,
         NEW w \in Windows, wins' = [wins EXCEPT ![s] = w],
         w.id = wins[s].id, w.pd = wins[s].pd, w.kind = wins[s].kind, w.visible
  PROVE  Core'
<1>1. /\ TypeOK /\ s \in Visible /\ s \in Slots /\ wins[s].pd \in Procs
      /\ wins[s].visible /\ wins[s] \in Windows /\ Dragged(wins) = {} /\ held' = TRUE /\ Same
  BY PressIs
<1>2. wins' \in [Slots -> Windows] /\ wins'[s] = w /\ \A o \in Slots : o # s => wins'[o] = wins[o]
  BY <1>1, OneSlot
<1>3. /\ hand' \in [Procs -> Events] /\ to' = to
      /\ to' \in [Procs -> Procs \cup {None}]
  BY <1>1, TakeIs
<1>4. TypeOK'
  BY <1>1, <1>2, <1>3, RouteTypes
<1>5. Alike(wins, wins')
  <2>1. w.visible = wins[s].visible
    BY <1>1 DEF Windows
  <2> QED BY <1>2, <2>1 DEF Alike
<1>6. \A a, b \in Dragged(wins') : a = b
  <2>1. ASSUME NEW a \in Dragged(wins') PROVE a = s
    <3>1. a \in Slots /\ wins'[a].visible /\ wins'[a].drag
      BY DEF Dragged, Visible
    <3>2. a # s => a \in Dragged(wins)
      BY <1>2, <3>1 DEF Dragged, Visible
    <3> QED BY <1>1, <3>2
  <2> QED BY <2>1
<1>7. live' = live /\ hidden' = hidden /\ clients' = clients
  BY <1>1 DEF Same
<1> QED BY <1>1, <1>3, <1>4, <1>5, <1>6, <1>7, SameWindows

LEMMA PressMaxStep ==
  ASSUME Core, NEW p \in Procs, Sees(p), PressMax(p)
  PROVE  Core'
<1> DEFINE s == Under(p)
<1>1. /\ PressOn(p, s) /\ focus' = wins[s].pd /\ Consume(p) /\ UNCHANGED << bg, active >>
      /\ wins' = [wins EXCEPT ![s] = Maximized(wins[s])]
  BY DEF PressMax, PressTitle
<1>2. s = Under(p)
  OBVIOUS
<1> HIDE DEF s
<1>3. wins[s] \in Windows /\ wins[s].visible
  BY <1>1, <1>2, PressIs
<1>4. /\ Maximized(wins[s]) \in Windows /\ Maximized(wins[s]).id = wins[s].id
      /\ Maximized(wins[s]).pd = wins[s].pd /\ Maximized(wins[s]).kind = wins[s].kind
      /\ Maximized(wins[s]).visible = wins[s].visible
  <2>1. [x |-> 0, y |-> 0, w |-> ScreenW, h |-> ScreenH] \in Rects
    BY WinMgrAssumption DEF Rects
  <2>2. wins[s].r \in Rects /\ wins[s].saved \in Rects
    BY <1>3 DEF Windows
  <2>3. CASE wins[s].max
    BY <1>3, <2>2, <2>3 DEF Maximized, Windows
  <2>4. CASE ~wins[s].max
    BY <1>3, <2>1, <2>2, <2>4 DEF Maximized, Windows
  <2> QED BY <2>3, <2>4
<1> QED BY <1>1, <1>2, <1>3, <1>4, PressChanges

LEMMA PressDragStep ==
  ASSUME Core, NEW p \in Procs, Sees(p), PressDrag(p)
  PROVE  Core'
<1> DEFINE s == Under(p)
           off == << hand[p].at[1] - wins[s].r.x, hand[p].at[2] - wins[s].r.y >>
           w == [wins[s] EXCEPT !.drag = TRUE, !.off = off]
<1>1. /\ PressOn(p, s) /\ focus' = wins[s].pd /\ Consume(p) /\ UNCHANGED << bg, active >>
      /\ wins' = [wins EXCEPT ![s].drag = TRUE, ![s].off = off]
  BY DEF PressDrag, PressTitle
<1>2. s = Under(p) /\ off = << hand[p].at[1] - wins[s].r.x, hand[p].at[2] - wins[s].r.y >>
  OBVIOUS
<1> HIDE DEF s
<1>3. TypeOK /\ s \in Slots /\ wins[s] \in Windows /\ wins[s].visible
  BY <1>1, <1>2, PressIs
<1>4. off \in Int \X Int
  <2>1. hand[p].at \in Int \X Int
    BY <1>3, Typing
  <2>2. wins[s].r.x \in Int /\ wins[s].r.y \in Int
    BY <1>3 DEF Windows, Rects
  <2> QED BY <1>2, <2>1, <2>2
<1> HIDE DEF off
<1>5. wins' = [wins EXCEPT ![s] = w]
  BY <1>1, <1>3, Typing
<1>6. /\ w \in Windows /\ w.id = wins[s].id /\ w.pd = wins[s].pd /\ w.kind = wins[s].kind
      /\ w.visible
  BY <1>3, <1>4 DEF Windows
<1>7. PressOn(p, s) /\ focus' = wins[s].pd /\ Consume(p) /\ UNCHANGED << bg, active >>
  BY <1>1
<1> HIDE DEF w
<1> QED BY <1>2, <1>5, <1>6, <1>7, PressChanges

(* A window moves, gets its menu, or is dropped: the others are as they    *)
(* were.                                                                   *)
LEMMA OneChanges ==
  ASSUME Core, TypeOK', UNCHANGED << bg, active, focus, clients, to, live, hidden >>,
         NEW s \in Slots, NEW w \in Windows, wins' = [wins EXCEPT ![s] = w],
         w.id = wins[s].id, w.pd = wins[s].pd, w.kind = wins[s].kind,
         w.visible = wins[s].visible, w.drag => wins[s].drag,
         held' = held \/ (s \in Dragged(wins) /\ ~w.drag)
  PROVE  Core'
<1>1. TypeOK
  BY DEF Core, DesktopOK
<1>2. wins'[s] = w /\ \A o \in Slots : o # s => wins'[o] = wins[o]
  BY <1>1, OneSlot
<1>3. Alike(wins, wins')
  BY <1>2 DEF Alike
<1>4. ASSUME NEW a \in Dragged(wins') PROVE a \in Dragged(wins) /\ (a = s => w.drag)
  <2>1. a \in Slots /\ wins'[a].visible /\ wins'[a].drag
    BY DEF Dragged, Visible
  <2> QED BY <1>2, <2>1 DEF Dragged, Visible
<1>5. ~hidden => (\A a, b \in Dragged(wins') : a = b) /\ (Dragged(wins') # {} => held')
  <2> SUFFICES ASSUME ~hidden PROVE (\A a, b \in Dragged(wins') : a = b) /\ (Dragged(wins') # {} => held')
    OBVIOUS
  <2>1. (\A a, b \in Dragged(wins) : a = b) /\ (Dragged(wins) # {} => held)
    BY OneDragIs DEF Core
  <2>2. \A a \in Dragged(wins') : a \in Dragged(wins) /\ (a = s => w.drag)
    BY <1>4
  <2>3. CASE held' = held
    BY <2>1, <2>2, <2>3
  <2>4. CASE s \in Dragged(wins) /\ ~w.drag
    <3>1. Dragged(wins') = {}
      BY <2>1, <2>2, <2>4
    <3> QED BY <3>1
  <2> QED BY <2>3, <2>4
<1> QED BY <1>3, <1>5, SameWindows

LEMMA DropStep ==
  ASSUME Core, NEW p \in Procs, Sees(p), PressDrops(p) \/ Release(p)
  PROVE  Core'
<1>1. /\ Consume(p) /\ held' \in BOOLEAN /\ UNCHANGED << bg, active, focus >> /\ Same
      /\ \E s \in Dragged(wins) : wins' = [wins EXCEPT ![s].drag = FALSE]
  BY DEF PressDrops, Release, Drops, Sees
<1>2. PICK s \in Dragged(wins) : wins' = [wins EXCEPT ![s].drag = FALSE]
  BY <1>1
<1> DEFINE w == [wins[s] EXCEPT !.drag = FALSE]
<1>3. s \in Slots /\ TypeOK /\ wins \in [Slots -> Windows]
  BY DEF Dragged, Visible, Core, DesktopOK, TypeOK
<1>4. wins' = [wins EXCEPT ![s] = w] /\ wins[s] \in Windows
  BY <1>2, <1>3
<1>5. /\ w \in Windows /\ w.id = wins[s].id /\ w.pd = wins[s].pd /\ w.kind = wins[s].kind
      /\ w.visible = wins[s].visible /\ ~w.drag
  BY <1>4 DEF Windows
<1> HIDE DEF w
<1>6. wins' \in [Slots -> Windows]
  BY <1>3, <1>4, <1>5, OneSlot
<1>7. /\ hand' \in [Procs -> Events] /\ to' = to
      /\ to' \in [Procs -> Procs \cup {None}]
  BY <1>1, <1>3, TakeIs
<1>8. TypeOK'
  BY <1>1, <1>3, <1>6, <1>7, RouteTypes DEF TypeOK
<1>9. UNCHANGED << bg, active, focus, clients, to, live, hidden >>
  BY <1>1, <1>7 DEF Same
<1> QED BY <1>3, <1>4, <1>5, <1>8, <1>9, OneChanges

LEMMA DragMovesStep ==
  ASSUME Core, NEW p \in Procs, Sees(p), DragMoves(p)
  PROVE  Core'
<1>1. /\ Consume(p) /\ held' = held /\ UNCHANGED << bg, active, focus >> /\ Same
      /\ \E s \in Dragged(wins) :
           wins' = [wins EXCEPT ![s].r.x = hand[p].at[1] - wins[s].off[1],
                                ![s].r.y = hand[p].at[2] - wins[s].off[2]]
  BY DEF DragMoves, Sees
<1>2. PICK s \in Dragged(wins) :
           wins' = [wins EXCEPT ![s].r.x = hand[p].at[1] - wins[s].off[1],
                                ![s].r.y = hand[p].at[2] - wins[s].off[2]]
  BY <1>1
<1> DEFINE x == hand[p].at[1] - wins[s].off[1]
           y == hand[p].at[2] - wins[s].off[2]
           r == [wins[s].r EXCEPT !.x = x, !.y = y]
           w == [wins[s] EXCEPT !.r = r]
<1>3. s \in Slots /\ TypeOK /\ wins \in [Slots -> Windows] /\ wins[s] \in Windows
  BY DEF Dragged, Visible, Core, DesktopOK, TypeOK
<1>4. x \in Int /\ y \in Int
  <2>1. hand[p].at \in Int \X Int /\ wins[s].off \in Int \X Int
    BY <1>3, Typing DEF Windows
  <2> QED BY <2>1
<1>5. wins' = [wins EXCEPT ![s].r.x = x, ![s].r.y = y]
  BY <1>2
<1> HIDE DEF x, y
<1>6. r \in Rects
  <2>1. wins[s].r \in Rects
    BY <1>3 DEF Windows
  <2> QED BY <1>4, <2>1 DEF Rects
<1>7. wins' = [wins EXCEPT ![s] = w]
  BY <1>3, <1>5 DEF Windows, Rects
<1> HIDE DEF r
<1>8. /\ w \in Windows /\ w.id = wins[s].id /\ w.pd = wins[s].pd /\ w.kind = wins[s].kind
      /\ w.visible = wins[s].visible /\ w.drag = wins[s].drag
  BY <1>3, <1>6 DEF Windows
<1> HIDE DEF w
<1>9. wins' \in [Slots -> Windows]
  BY <1>3, <1>7, <1>8, OneSlot
<1>10. /\ hand' \in [Procs -> Events] /\ to' = to
       /\ to' \in [Procs -> Procs \cup {None}]
  BY <1>1, <1>3, TakeIs
<1>11. TypeOK'
  BY <1>1, <1>3, <1>9, <1>10, RouteTypes DEF TypeOK
<1>12. UNCHANGED << bg, active, focus, clients, to, live, hidden >>
  BY <1>1, <1>10 DEF Same
<1> QED BY <1>1, <1>3, <1>7, <1>8, <1>11, <1>12, OneChanges

(* The calls that move a window or give it a menu.                         *)
LEMMA CallTypes ==
  ASSUME TypeOK, calls' = calls + 1, wins' \in [Slots -> Windows],
         UNCHANGED << nextId, bg, active, focus, queue, live, pushed, held, hidden >>
  PROVE  TypeOK'
BY DEF TypeOK, queue

LEMMA MoveStep ==
  ASSUME Core, NEW p \in Procs, Sees(p), NEW s \in Slots, NEW d \in Steps, Move(p, s, d[1], d[2])
  PROVE  Core'
<1> DEFINE x == wins[s].r.x + d[1]
           y == wins[s].r.y + d[2]
           r == [wins[s].r EXCEPT !.x = x, !.y = y]
           w == [wins[s] EXCEPT !.r = r]
<1>1. TypeOK /\ wins \in [Slots -> Windows] /\ wins[s] \in Windows /\ wins[s].r \in Rects
  BY DEF Core, DesktopOK, TypeOK, Windows
<1>2. x \in Int /\ y \in Int
  <2>1. d[1] \in Int /\ d[2] \in Int /\ wins[s].r.x \in Int /\ wins[s].r.y \in Int
    BY <1>1, WinMgrAssumption DEF Rects
  <2> QED BY <2>1
<1>3. wins' = [wins EXCEPT ![s].r.x = x, ![s].r.y = y]
  BY <1>1 DEF Move
<1> HIDE DEF x, y
<1>4. wins' = [wins EXCEPT ![s] = w] /\ r \in Rects
  BY <1>1, <1>2, <1>3 DEF Windows, Rects
<1> HIDE DEF r
<1>5. /\ w \in Windows /\ w.id = wins[s].id /\ w.pd = wins[s].pd /\ w.kind = wins[s].kind
      /\ w.visible = wins[s].visible /\ w.drag = wins[s].drag
  BY <1>1, <1>4 DEF Windows
<1> HIDE DEF w
<1>6. wins' \in [Slots -> Windows]
  BY <1>1, <1>4, <1>5, OneSlot
<1>7. TypeOK'
  BY <1>1, <1>6, CallTypes DEF Move, Call
<1>8. UNCHANGED << bg, active, focus, clients, to, live, hidden >> /\ held' = held
  BY DEF Move, queue
<1> QED BY <1>4, <1>5, <1>7, <1>8, OneChanges

LEMMA SetMenuStep ==
  ASSUME Core, NEW p \in Procs, Sees(p), NEW s \in Slots, NEW on \in BOOLEAN, SetMenu(p, s, on)
  PROVE  Core'
<1> DEFINE w == [wins[s] EXCEPT !.menu = on]
<1>1. TypeOK /\ wins \in [Slots -> Windows] /\ wins[s] \in Windows
  BY DEF Core, DesktopOK, TypeOK
<1>2. wins' = [wins EXCEPT ![s] = w]
  BY <1>1 DEF SetMenu
<1>3. /\ w \in Windows /\ w.id = wins[s].id /\ w.pd = wins[s].pd /\ w.kind = wins[s].kind
      /\ w.visible = wins[s].visible /\ w.drag = wins[s].drag
  BY <1>1 DEF Windows
<1> HIDE DEF w
<1>4. wins' \in [Slots -> Windows]
  BY <1>1, <1>2, <1>3, OneSlot
<1>5. TypeOK'
  BY <1>1, <1>4, CallTypes DEF SetMenu, Call
<1>6. UNCHANGED << bg, active, focus, clients, to, live, hidden >> /\ held' = held
  BY DEF SetMenu, queue
<1> QED BY <1>2, <1>3, <1>5, <1>6, OneChanges

(* A window leaves the screen, or comes back to it.                        *)
LEMMA RecomputeTypes ==
  ASSUME TypeOK, wins' \in [Slots -> Windows], nextId' = nextId,
         NEW f \in Procs \cup {None},
         active' = AnyVisible(wins'), bg' = (bg /\ AnyVisible(wins')), focus' = NextFocus(wins', f),
         clients' \in [1 .. MaxClients -> [pd : Procs \cup {None}, q : Queues]],
         to' \in [Procs -> Procs \cup {None}],
         evq' = evq, hand' \in [Procs -> Events], live' \subseteq Procs,
         pushed' = pushed, calls' \in Nat, held' \in BOOLEAN, hidden' \in BOOLEAN
  PROVE  TypeOK'
<1> DEFINE t == Highest(wins', NotBg(wins'))
<1>1. t # 0 => t \in Slots
  <2>1. NotBg(wins') \subseteq Slots
    BY DEF NotBg
  <2> QED BY <2>1, HighestIs
<1>2. NextFocus(wins', f) \in Procs \cup {None}
  <2>1. NextFocus(wins', f) \in {f, None} \/ (t # 0 /\ NextFocus(wins', f) = wins'[t].pd)
    BY DEF NextFocus
  <2> HIDE DEF t
  <2> QED BY <1>1, <2>1 DEF Windows
<1>3. AnyVisible(wins') \in BOOLEAN
  BY DEF AnyVisible
<1> QED BY <1>2, <1>3 DEF TypeOK

LEMMA CloseStep ==
  ASSUME Core, NEW p \in Procs, Sees(p), NEW s \in Slots, Close(p, s)
  PROVE  Core'
<1> DEFINE w == [wins[s] EXCEPT !.visible = FALSE, !.drag = FALSE]
<1>1. TypeOK /\ wins \in [Slots -> Windows] /\ wins[s] \in Windows
  BY DEF Core, DesktopOK, TypeOK
<1>2. wins' = [wins EXCEPT ![s] = w]
  BY <1>1 DEF Close, Removed
<1>3. w \in Windows /\ w.id = wins[s].id /\ w.pd = wins[s].pd /\ ~w.visible /\ ~w.drag
  BY <1>1 DEF Windows
<1> HIDE DEF w
<1>4. wins' \in [Slots -> Windows] /\ wins'[s] = w /\ \A o \in Slots : o # s => wins'[o] = wins[o]
  BY <1>1, <1>2, <1>3, OneSlot
<1>5. /\ active' = AnyVisible(wins') /\ bg' = (bg /\ AnyVisible(wins'))
      /\ focus' = NextFocus(wins', focus) /\ calls' = calls + 1
      /\ UNCHANGED << nextId, clients, evq, hand, to, live, pushed, held, hidden >>
  BY DEF Close, Call, Recompute, queue, Removed, Sees
<1>11. clients' = clients /\ to' = to /\ live' = live /\ hidden' = hidden /\ held' = held
  BY <1>5
<1>6. TypeOK'
  BY <1>1, <1>4, <1>5, RecomputeTypes DEF TypeOK
<1>7. OwnersKnown'
  BY <1>3, <1>4, <1>5 DEF Core, DesktopOK, OwnersKnown
<1>8. Dragged(wins') \subseteq Dragged(wins)
  BY <1>3, <1>4 DEF Dragged, Visible
<1>9. ~hidden => /\ \A c \in 1 .. MaxClients : clients[c].pd \in live \cup {None}
                 /\ \A q \in Procs : to[q] \in live \cup {None}
  BY DEF Core, QueuesOK
<1>10. ~hidden' => /\ ~hidden /\ Dragged(wins') \subseteq Dragged(wins) /\ (held => held')
                   /\ \A c \in 1 .. MaxClients : clients'[c].pd \in live' \cup {None}
                   /\ \A q \in Procs : to'[q] \in live' \cup {None}
  <2> SUFFICES ASSUME ~hidden'
               PROVE  /\ ~hidden /\ Dragged(wins') \subseteq Dragged(wins) /\ (held => held')
                      /\ \A c \in 1 .. MaxClients : clients'[c].pd \in live' \cup {None}
                      /\ \A q \in Procs : to'[q] \in live' \cup {None}
    OBVIOUS
  <2>1. ~hidden
    BY <1>11
  <2>2. Dragged(wins') \subseteq Dragged(wins) /\ (held => held')
    BY <1>8, <1>11
  <2>3. /\ \A c \in 1 .. MaxClients : clients[c].pd \in live \cup {None}
        /\ \A q \in Procs : to[q] \in live \cup {None}
    BY <2>1, <1>9
  <2>4. \A c \in 1 .. MaxClients : clients'[c].pd \in live' \cup {None}
    BY <2>3, <1>11
  <2>5. \A q \in Procs : to'[q] \in live' \cup {None}
    BY <2>3, <1>11
  <2> QED BY <2>1, <2>2, <2>4, <2>5
<1> QED BY <1>5, <1>6, <1>7, <1>10, FewerWindows

LEMMA PressMinStep ==
  ASSUME Core, NEW p \in Procs, Sees(p), PressMin(p)
  PROVE  Core'
<1> DEFINE s == Under(p)
           f == wins[s].pd
           w == [wins[s] EXCEPT !.visible = FALSE]
<1>1. /\ PressOn(p, s) /\ Consume(p) /\ wins' = [wins EXCEPT ![s].visible = FALSE]
      /\ active' = AnyVisible(wins') /\ bg' = (bg /\ AnyVisible(wins'))
      /\ focus' = NextFocus(wins', f)
  BY DEF PressMin, PressTitle, Sees
<1>2. s = Under(p) /\ f = wins[s].pd
  OBVIOUS
<1> HIDE DEF s, f
<1>3. PressOn(p, s)
  BY <1>1
<1>4. TypeOK /\ s \in Slots /\ wins[s] \in Windows /\ f \in Procs /\ held' = TRUE /\ Same
  BY <1>2, <1>3, PressIs
<1>5. wins' = [wins EXCEPT ![s] = w]
  BY <1>1, <1>4, Typing
<1>6. w \in Windows /\ w.id = wins[s].id /\ w.pd = wins[s].pd /\ ~w.visible
  BY <1>4 DEF Windows
<1> HIDE DEF w
<1>7. wins' \in [Slots -> Windows] /\ wins'[s] = w /\ \A o \in Slots : o # s => wins'[o] = wins[o]
  BY <1>4, <1>5, <1>6, OneSlot
<1>8. /\ hand' \in [Procs -> Events] /\ to' = to
      /\ to' \in [Procs -> Procs \cup {None}]
  BY <1>1, <1>4, TakeIs
<1>9. TypeOK'
  <2>1. UNCHANGED << nextId, evq, live, pushed, calls, hidden >>
    BY <1>4 DEF Same
  <2>2. /\ live \subseteq Procs /\ calls \in Nat /\ hidden \in BOOLEAN
        /\ clients' \in [1 .. MaxClients -> [pd : Procs \cup {None}, q : Queues]]
    BY <1>4 DEF TypeOK, Same
  <2> QED BY <1>1, <1>4, <1>7, <1>8, <2>1, <2>2, RecomputeTypes
<1>10. live' = live /\ hidden' = hidden /\ clients' = clients
  BY <1>4 DEF Same
<1>11. OwnersKnown'
  BY <1>6, <1>7, <1>10 DEF Core, DesktopOK, OwnersKnown
<1>12. Dragged(wins') \subseteq Dragged(wins)
  BY <1>6, <1>7 DEF Dragged, Visible
<1>13. ~hidden => /\ \A c \in 1 .. MaxClients : clients[c].pd \in live \cup {None}
                  /\ \A q \in Procs : to[q] \in live \cup {None}
  BY DEF Core, QueuesOK
<1>14. /\ active' = AnyVisible(wins') /\ bg' = (bg /\ AnyVisible(wins'))
       /\ focus' = NextFocus(wins', f)
  BY <1>1
<1>15. ~hidden' => /\ ~hidden /\ Dragged(wins') \subseteq Dragged(wins) /\ (held => held')
                   /\ \A c \in 1 .. MaxClients : clients'[c].pd \in live' \cup {None}
                   /\ \A q \in Procs : to'[q] \in live' \cup {None}
  <2> SUFFICES ASSUME ~hidden'
               PROVE  /\ ~hidden /\ Dragged(wins') \subseteq Dragged(wins) /\ (held => held')
                      /\ \A c \in 1 .. MaxClients : clients'[c].pd \in live' \cup {None}
                      /\ \A q \in Procs : to'[q] \in live' \cup {None}
    OBVIOUS
  <2>1. ~hidden
    BY <1>10
  <2>2. Dragged(wins') \subseteq Dragged(wins) /\ (held => held')
    BY <1>12, <1>4
  <2>3. /\ \A c \in 1 .. MaxClients : clients[c].pd \in live \cup {None}
        /\ \A q \in Procs : to[q] \in live \cup {None}
    BY <2>1, <1>13
  <2>4. \A c \in 1 .. MaxClients : clients'[c].pd \in live' \cup {None}
    BY <2>3, <1>8, <1>10
  <2>5. \A q \in Procs : to'[q] \in live' \cup {None}
    BY <2>3, <1>8, <1>10
  <2> QED BY <2>1, <2>2, <2>4, <2>5
<1> QED BY <1>9, <1>11, <1>14, <1>15, FewerWindows

LEMMA VisStep ==
  ASSUME Core, NEW p \in Procs, Sees(p), NEW s \in Slots, NEW on \in BOOLEAN, Vis(p, s, on)
  PROVE  Core'
<1> DEFINE w == [wins[s] EXCEPT !.visible = on]
<1>1. TypeOK /\ wins \in [Slots -> Windows] /\ wins[s] \in Windows
  BY DEF Core, DesktopOK, TypeOK
<1>2. wins' = [wins EXCEPT ![s] = w] /\ wins[s].id # 0
  BY <1>1 DEF Vis, Sees
<1>3. w \in Windows /\ w.id = wins[s].id /\ w.pd = wins[s].pd
  BY <1>1 DEF Windows
<1> HIDE DEF w
<1>4. wins' \in [Slots -> Windows] /\ wins'[s] = w /\ \A o \in Slots : o # s => wins'[o] = wins[o]
  BY <1>1, <1>2, <1>3, OneSlot
<1>5. /\ active' = AnyVisible(wins') /\ bg' = (bg /\ AnyVisible(wins'))
      /\ focus' = NextFocus(wins', focus) /\ calls' = calls + 1 /\ hidden' = TRUE
      /\ UNCHANGED << nextId, clients, evq, hand, to, live, pushed, held >>
  BY DEF Vis, Call, Recompute, queue, Sees
<1>6. TypeOK'
  BY <1>1, <1>4, <1>5, RecomputeTypes DEF TypeOK
<1>7. OwnersKnown'
  BY <1>2, <1>3, <1>4, <1>5 DEF Core, DesktopOK, OwnersKnown
<1> QED BY <1>5, <1>6, <1>7, FewerWindows

(* A program ends: its windows on the screen, its queue and its event go.  *)
LEMMA ExitStep ==
  ASSUME Core, NEW p \in Procs, Alone(p), Exit(p)
  PROVE  Core'
<1>1. TypeOK /\ wins \in [Slots -> Windows]
  BY DEF Core, DesktopOK, TypeOK
<1>a. wins' = Cleaned(wins, p)
  BY DEF Exit
<1>2. ASSUME NEW s \in Slots
      PROVE  /\ wins'[s] \in Windows /\ wins'[s].id = wins[s].id /\ wins'[s].pd = wins[s].pd
             /\ wins'[s].visible => wins[s].visible /\ wins[s].pd # p
             /\ wins'[s].visible /\ wins'[s].drag => wins[s].drag
  <2>1. wins[s] \in Windows
    BY <1>1
  <2>2. CASE wins[s].visible /\ wins[s].pd = p
    <3>1. wins'[s] = [wins[s] EXCEPT !.visible = FALSE, !.drag = FALSE]
      BY <1>a, <2>2 DEF Cleaned
    <3> QED BY <2>1, <3>1 DEF Windows
  <2>3. CASE ~ (wins[s].visible /\ wins[s].pd = p)
    <3>1. wins'[s] = wins[s]
      BY <1>a, <2>3 DEF Cleaned
    <3> QED BY <2>1, <2>3, <3>1
  <2> QED BY <2>2, <2>3
<1>3. wins' \in [Slots -> Windows]
  BY <1>a, <1>2 DEF Cleaned
<1>4. ASSUME NEW c \in 1 .. MaxClients
      PROVE  /\ clients'[c] \in [pd : Procs \cup {None}, q : Queues]
             /\ clients'[c].pd = None \/ (clients'[c].pd = clients[c].pd /\ clients[c].pd # p)
  <2>1. clients[c] \in [pd : Procs \cup {None}, q : Queues] /\ << >> \in Queues
    BY <1>1, Typing
  <2>2. CASE clients[c].pd = p
    <3>1. clients'[c] = NoClient
      BY <2>2 DEF Exit, QueuesWithout
    <3> QED BY <2>1, <3>1 DEF NoClient
  <2>3. CASE clients[c].pd # p
    <3>1. clients'[c] = clients[c]
      BY <2>3 DEF Exit, QueuesWithout
    <3> QED BY <2>1, <2>3, <3>1
  <2> QED BY <2>2, <2>3
<1>5. clients' \in [1 .. MaxClients -> [pd : Procs \cup {None}, q : Queues]]
  BY <1>4 DEF Exit, QueuesWithout
<1>b. to' = [to EXCEPT ![p] = None] /\ to' \in [Procs -> Procs \cup {None}]
  BY <1>1, Typing DEF Exit
<1>6. /\ active' = AnyVisible(wins') /\ bg' = (bg /\ AnyVisible(wins'))
      /\ focus' = NextFocus(wins', focus) /\ live' = live \ {p}
      /\ hand' = [hand EXCEPT ![p] = Idle]
      /\ UNCHANGED << nextId, evq, pushed, calls, held, hidden >>
  BY DEF Exit, Recompute, Alone, Sees
<1>7. hand' \in [Procs -> Events]
  BY <1>1, <1>6, Typing
<1>8. TypeOK'
  BY <1>1, <1>3, <1>5, <1>b, <1>6, <1>7, RecomputeTypes DEF TypeOK
<1>9. OwnersKnown'
  <2>1. \A s \in Slots : /\ wins[s].visible => wins[s].id # 0
                         /\ wins[s].id # 0 => wins[s].pd # None
                         /\ wins[s].visible /\ ~hidden => wins[s].pd \in live
    BY DEF Core, DesktopOK, OwnersKnown
  <2> QED BY <1>2, <1>6, <2>1 DEF OwnersKnown
<1>10. Dragged(wins') \subseteq Dragged(wins)
  BY <1>2 DEF Dragged, Visible
<1>11. ~hidden => /\ \A c \in 1 .. MaxClients : clients'[c].pd \in live' \cup {None}
                  /\ \A q \in Procs : to'[q] \in live' \cup {None}
  <2>1. \A q \in Procs : to'[q] = None
    BY <1>1, <1>b, Typing DEF Alone
  <2> QED BY <1>4, <1>6, <2>1 DEF Core, QueuesOK
<1> QED BY <1>6, <1>8, <1>9, <1>10, <1>11, FewerWindows

(* wm_create's search: a slot that is not on the screen, or none.          *)
LEMMA FreeSlotIs ==
  ASSUME NEW ws
  PROVE  FreeSlot(ws) = 0 \/ (FreeSlot(ws) \in Slots /\ ~ws[FreeSlot(ws)].visible)
<1> DEFINE free == {s \in Slots : ~ws[s].visible}
<1>1. free \subseteq Nat /\ free \subseteq Slots /\ \A i \in free : ~ws[i].visible
  BY Sizes
<1>2. FreeSlot(ws) = IF free = {} THEN 0 ELSE CHOOSE i \in free : \A j \in free : i <= j
  BY DEF FreeSlot
<1> HIDE DEF free
<1>3. free # {} => \E i \in free : \A j \in free : i <= j
  BY <1>1, LeastExists
<1> QED BY <1>1, <1>2, <1>3

(* A window comes into the first slot that is not on the screen, over the  *)
(* others, and its program has the focus.                                  *)
LEMMA CreateStep ==
  ASSUME Core, NEW p \in Procs, Sees(p), NEW sh \in Shapes, Create(p, sh)
  PROVE  Core'
<1> DEFINE s    == FreeSlot(wins)
           new  == [Empty EXCEPT !.id = nextId, !.pd = p, !.r = sh.r, !.kind = sh.kind,
                                 !.framed = sh.framed, !.visible = TRUE]
           ws   == [wins EXCEPT ![s] = new]
<1>1. /\ Runs(p) /\ s # 0 /\ nextId <= MaxIds /\ wins' = Raised(ws, s, Top(ws))
      /\ nextId' = nextId + 1 /\ bg' \in {TRUE, bg} /\ active' = TRUE /\ focus' = p /\ evq' = << >>
      /\ UNCHANGED << clients, hand, to, live, pushed, calls, held, hidden >>
  BY DEF Create, Sees
<1>2. TypeOK /\ wins \in [Slots -> Windows] /\ nextId \in 1 .. MaxIds + 1 /\ p \in live /\ p # None
  BY <1>1, Sizes DEF Core, DesktopOK, TypeOK, Runs
<1>3. s \in Slots
  BY <1>1, FreeSlotIs
<1>4. nextId \in 0 .. MaxIds /\ nextId # 0 /\ nextId' \in 1 .. MaxIds + 1
  BY <1>1, <1>2, Sizes
<1>5. /\ new \in Windows /\ new.id = nextId /\ new.pd = p /\ new.visible /\ ~new.drag
  <2>1. sh.r \in Rects /\ sh.kind \in Kinds /\ sh.framed \in BOOLEAN
    BY WinMgrAssumption
  <2>2. Empty.drag = FALSE
    BY DEF Empty
  <2> QED BY <1>2, <1>4, <2>1, <2>2, EmptyIs DEF Windows
<1> HIDE DEF s, new
<1>6. ws \in [Slots -> Windows] /\ ws[s] = new /\ \A o \in Slots : o # s => ws[o] = wins[o]
  BY <1>2, <1>3, <1>5
<1> HIDE DEF ws
<1>7. /\ wins' \in [Slots -> Windows] /\ Alike(ws, wins')
      /\ \A o \in Slots : wins'[o].drag = ws[o].drag
  BY <1>1, <1>3, <1>5, <1>6, RaisedIs
<1>8. TypeOK'
  <2>1. << >> \in Queues
    BY <1>2, Typing
  <2> QED BY <1>1, <1>2, <1>4, <1>7, <2>1 DEF TypeOK
<1>9. s \in Visible' /\ wins'[s].pd = p
  BY <1>3, <1>5, <1>6, <1>7 DEF Visible, Alike
<1>10. FocusHasWindow' /\ BackgroundFreed'
  BY <1>1, <1>2, <1>9 DEF FocusHasWindow, BackgroundFreed
<1>11. DragOK'
  <2>1. Dragged(wins') \subseteq Dragged(wins)
    BY <1>5, <1>6, <1>7 DEF Dragged, Visible, Alike
  <2> QED BY <1>1, <2>1, OneDragIs DEF Core
<1>12. QueuesOK'
  BY <1>1 DEF Core, QueuesOK
<1>13. OwnersKnown'
  BY <1>1, <1>2, <1>4, <1>5, <1>6, <1>7 DEF Core, DesktopOK, OwnersKnown, Alike
<1> QED BY <1>8, <1>10, <1>11, <1>12, <1>13 DEF Core, DesktopOK

LEMMA RouteStep ==
  ASSUME Core, NEW p \in Procs, Sees(p), Route(p)
  PROVE  Core'
BY RouteNoneStep, DropStep, PressOutsideStep, PressClientStep, PressMenuStep, PressCloseStep,
   PressMaxStep, PressMinStep, PressDragStep, DragMovesStep, HoverStep, KeyStep DEF Route

LEMMA CallsStep ==
  ASSUME Core, NEW p \in Procs, Alone(p), Calls(p)
  PROVE  Core'
BY CreateStep, CloseStep, VisStep, SetMenuStep, MoveStep, ExitStep DEF Calls, Alone

LEMMA StutterStep == Core /\ UNCHANGED << table, queue, live, pushed, calls, held, hidden >> => Core'
<1> SUFFICES ASSUME Core, UNCHANGED << table, queue, live, pushed, calls, held, hidden >>
             PROVE  Core'
  OBVIOUS
<1> USE DEF table, queue
<1>1. TypeOK'
  BY DEF Core, DesktopOK, TypeOK
<1> QED BY <1>1, SameTable

(* A program that takes a step while no other is inside a call is alone.   *)
LEMMA StepAlone ==
  ASSUME Inv, NEW p \in Procs, Step(p), ~overlapped'
  PROVE  /\ \A q \in Procs \ {p} : ~Inside(q)
         /\ saw[p].on => Alone(p)
<1>1. \A q \in Procs \ {p} : ~Inside(q)
  BY DEF Step
<1>2. \A q \in Procs \ {p} : to[q] = None
  BY <1>1 DEF Inside
<1>3. saw[p].on => Sees(p)
  BY DEF Inv, CallsApart
<1> QED BY <1>1, <1>2, <1>3 DEF Alone

(* What a step leaves of the views: its own is taken or given back.        *)
LEMMA ApartStep ==
  ASSUME Inv, NEW p \in Procs, Step(p), ~overlapped'
  PROVE  CallsApart'
<1>1. DOMAIN saw = Procs /\ \A q \in Procs \ {p} : ~saw[q].on /\ to[q] = None
  BY StepAlone DEF Inside, Inv, CallsApart
<1>2. \/ saw' = [saw EXCEPT ![p] = View] /\ Look(p)
      \/ saw' = [saw EXCEPT ![p] = NoView]
      \/ saw' = saw /\ ~saw[p].on
  BY DEF Step, Look, Writes, Fetch, Claim
<1>3. DOMAIN saw' = Procs /\ \A q \in Procs \ {p} : saw'[q] = saw[q]
  BY <1>1, <1>2
<1>4. saw'[p].on => Look(p) /\ saw'[p] = View
  <2>1. ~NoView.on
    BY DEF NoView
  <2> QED BY <1>1, <1>2, <2>1
<1>5. saw'[p].on => Sees(p)'
  BY <1>4 DEF Look, View, Sees, table, queue
<1>6. \A q \in Procs \ {p} : to'[q] = None
  <2>1. TypeOK
    BY DEF Inv, DesktopOK
  <2>2. \A q \in Procs \ {p} : to'[q] = to[q]
    <3>1. CASE Look(p) \/ Fetch(p) \/ Claim(p)
      BY <3>1 DEF Look, Fetch, Claim, queue
    <3>2. CASE Deliver(p) \/ Exit(p)
      BY <2>1, <3>2 DEF Deliver, Exit, TypeOK
    <3>3. CASE Route(p)
      BY <2>1, <3>3 DEF Route, RouteNone, PressDrops, PressOutside, PressClient, PressMenu, PressClose,
         PressMax, PressMin, PressDrag, Release, DragMoves, Hover, Key, ToFocus, Give, Consume, Raw,
         TypeOK
    <3>4. CASE \E sh \in Shapes : Create(p, sh)
      BY <3>4 DEF Create
    <3>5. ASSUME NEW s \in Slots,
                 \/ Close(p, s) \/ \E on \in BOOLEAN : Vis(p, s, on) \/ SetMenu(p, s, on)
                 \/ \E d \in Steps : Move(p, s, d[1], d[2])
          PROVE  to' = to
      BY <3>5 DEF Close, Vis, SetMenu, Move, queue
    <3> QED BY <3>1, <3>2, <3>3, <3>4, <3>5 DEF Step, Writes, Calls
  <2> QED BY <1>1, <2>2
<1>7. \A q \in Procs \ {p} : ~Inside(q)' /\ ~saw'[q].on
  BY <1>1, <1>3, <1>6 DEF Inside
<1> QED BY <1>3, <1>5, <1>7 DEF CallsApart

LEMMA CoreStep ==
  ASSUME Inv, NEW p \in Procs, Step(p), ~overlapped'
  PROVE  Core'
<1>1. Core
  BY DEF Inv, Core
<1>2. CASE Look(p)
  BY <1>1, <1>2, StutterStep DEF Look
<1>3. CASE saw[p].on /\ (Route(p) \/ Deliver(p) \/ Calls(p))
  BY <1>1, <1>3, StepAlone, RouteStep, DeliverStep, CallsStep DEF Alone
<1>4. CASE Fetch(p) \/ Claim(p)
  BY <1>1, <1>4, FetchStep, ClaimStep
<1> QED BY <1>2, <1>3, <1>4 DEF Step, Writes

LEMMA NextOK == IInv /\ [Next]_vars => IInv'
<1> SUFFICES ASSUME IInv, [Next]_vars, ~overlapped' PROVE Inv'
  BY DEF IInv
<1>1. CASE Irq /\ UNCHANGED << saw, overlapped >>
  <2>1. "down" \in {"down", "up", "move", "key"} /\ "key" \in {"down", "up", "move", "key"}
    OBVIOUS
  <2>2. Inv /\ Core
    BY <1>1 DEF IInv, Inv, Core
  <2>3. Core'
    BY <1>1, <2>1, <2>2, PushStep DEF Irq
  <2>4. CallsApart'
    <3>1. UNCHANGED << wins, active, clients, saw, to >>
      BY <1>1 DEF Irq, Push, table
    <3> QED BY <2>2, <3>1 DEF Inv, CallsApart, Inside, Sees
  <2> QED BY <2>3, <2>4 DEF Inv, Core
<1>2. ASSUME NEW p \in Procs, Step(p)
      PROVE  Inv'
  <2>1. Inv
    BY <1>2 DEF Step, IInv
  <2> QED BY <1>2, <2>1, CoreStep, ApartStep DEF Inv, Core
<1>3. CASE UNCHANGED vars
  <2>1. Inv /\ Core
    BY <1>3 DEF IInv, Inv, Core, vars
  <2>2. Core'
    BY <1>3, <2>1, StutterStep DEF vars
  <2>3. CallsApart'
    BY <1>3, <2>1 DEF Inv, CallsApart, Inside, Sees, vars, table, queue
  <2> QED BY <2>2, <2>3 DEF Inv, Core
<1> QED BY <1>1, <1>2, <1>3 DEF Next

LEMMA InitInv == Init => IInv
<1> SUFFICES ASSUME Init PROVE Inv
  BY DEF IInv
<1>1. Core
  BY InitOK
<1>2. CallsApart
  BY DEF Init, CallsApart, Inside, NoView
<1> QED BY <1>1, <1>2 DEF Inv, Core

-----------------------------------------------------------------------------
(* THE WINDOW IN FRONT                                                     *)

FrontInv ==
  /\ front \in {0} \cup Slots /\ FrontOnTop
  /\ \A s \in Slots : wins[s].id < nextId       \* wm_next_id is not used yet

(* A step that opens nothing and raises nothing.                           *)
LEMMA NothingRaised ==
  ASSUME FrontInv, TypeOK, Fronted, hidden' = hidden, nextId' = nextId,
         \A s \in Slots : /\ wins'[s].kind = wins[s].kind /\ wins'[s].id = wins[s].id
                          /\ wins'[s].z = wins[s].z /\ (wins'[s].visible => wins[s].visible)
  PROVE  FrontInv'
<1>1. \A s \in Slots : wins[s].z \in Nat
  BY DEF TypeOK, Windows
<1>2. front' = front
  BY <1>1 DEF Fronted
<1>3. Visible' \subseteq Visible /\ Visible \subseteq Slots
  BY DEF Visible
<1>4. FrontOnTop'
  BY <1>2, <1>3 DEF FrontInv, FrontOnTop
<1> QED BY <1>2, <1>4 DEF FrontInv

(* A window of a program that is raised is the one in front.               *)
LEMMA OneRaised ==
  ASSUME NEW ws \in [Slots -> Windows], NEW s \in Slots, ws[s].visible, ws[s].kind = "app",
         ws[s].id # 0, wins' = Raised(ws, s, Top(ws)), Fronted,
         \A o \in Slots \ {s} : ws[o] = wins[o],
         wins[s].id # ws[s].id \/ ws[s] = wins[s],
         \A o \in Slots : ws[o].id < nextId'
  PROVE  FrontInv'
<1>1. /\ wins'[s].z > ws[s].z
      /\ \A o \in Slots \ {s} : wins'[o].z <= ws[o].z
      /\ \A o \in Slots \ {s} : ws[o].visible /\ ws[o].kind # "fixed" => wins'[o].z < wins'[s].z
  BY RaisedOver
<1>2. \A o \in Slots : /\ wins'[o].id = ws[o].id /\ wins'[o].kind = ws[o].kind
                       /\ wins'[o].visible = ws[o].visible /\ ws[o].z \in Nat /\ wins'[o].z \in Nat
  BY RaisedIs DEF Alike, Windows
<1>3. \A o \in Slots \ {s} : ~ (wins'[o].id # wins[o].id \/ wins'[o].z > wins[o].z)
  BY <1>1, <1>2
<1>4. wins'[s].kind = "app" /\ (wins'[s].id # wins[s].id \/ wins'[s].z > wins[s].z)
  BY <1>1, <1>2
<1> DEFINE R == {o \in Slots : /\ wins'[o].kind = "app"
                               /\ wins'[o].id # wins[o].id \/ wins'[o].z > wins[o].z}
<1>5. R = {s}
  BY <1>3, <1>4
<1>6. front' = IF R = {} THEN front ELSE CHOOSE o \in R : TRUE
  BY DEF Fronted
<1> HIDE DEF R
<1>7. front' = s
  BY <1>5, <1>6
<1>8. FrontOnTop'
  <2>1. \A o \in Visible' \ {s} : wins'[o].kind # "fixed" => wins'[o].z < wins'[s].z
    BY <1>1, <1>2 DEF Visible
  <2> QED BY <1>2, <1>7, <2>1 DEF FrontOnTop
<1> QED BY <1>2, <1>7, <1>8 DEF FrontInv

LEMMA CreateFront ==
  ASSUME Core, FrontInv, NEW p \in Procs, Sees(p), NEW sh \in Shapes, Create(p, sh), Fronted
  PROVE  FrontInv'
<1> DEFINE s    == FreeSlot(wins)
           new  == [Empty EXCEPT !.id = nextId, !.pd = p, !.r = sh.r, !.kind = sh.kind,
                                 !.framed = sh.framed, !.visible = TRUE]
           ws   == [wins EXCEPT ![s] = new]
<1>1. /\ s # 0 /\ nextId <= MaxIds /\ wins' = Raised(ws, s, Top(ws)) /\ hidden' = hidden
      /\ nextId' = nextId + 1 /\ p \in live
      /\ sh.kind # "app" => \A o \in Slots : wins[o].id = 0 \/ wins[o].kind # "app"
  BY DEF Create, Runs, Sees
<1>2. TypeOK /\ wins \in [Slots -> Windows] /\ nextId \in 1 .. MaxIds + 1
  BY DEF Core, DesktopOK, TypeOK
<1>3. s \in Slots /\ ~wins[s].visible
  BY <1>1, FreeSlotIs
<1>4. nextId \in 0 .. MaxIds /\ nextId # 0
  BY <1>1, <1>2, Sizes
<1>5. new \in Windows /\ new.id = nextId /\ new.visible /\ new.kind = sh.kind /\ new.z = 0
  <2>1. sh.r \in Rects /\ sh.kind \in Kinds /\ sh.framed \in BOOLEAN
    BY WinMgrAssumption
  <2>2. Empty.z = 0
    BY DEF Empty
  <2> QED BY <1>2, <1>4, <2>1, <2>2, EmptyIs DEF Windows
<1> HIDE DEF s, new
<1>6. ws \in [Slots -> Windows] /\ ws[s] = new /\ \A o \in Slots : o # s => ws[o] = wins[o]
  BY <1>2, <1>3, <1>5
<1> HIDE DEF ws
<1>a. wins[s].id # ws[s].id /\ \A o \in Slots : ws[o].id < nextId'
  <2>1. \A o \in Slots : wins[o].id \in Nat /\ wins[o].id < nextId
    BY <1>2, Sizes DEF FrontInv, Windows
  <2> QED BY <1>1, <1>2, <1>3, <1>5, <1>6, <2>1
<1>7. CASE sh.kind = "app"
  BY <1>1, <1>3, <1>4, <1>5, <1>6, <1>7, <1>a, OneRaised
<1>8. CASE sh.kind # "app"
  <2>1. wins' = ws
    BY <1>1, <1>5, <1>6, <1>8 DEF Raised
  <2>2. hidden \/ front = 0
    BY <1>1, <1>8 DEF FrontInv, FrontOnTop
  <2>3. front' = front
    <3>1. \A o \in Slots : wins[o].z \in Nat
      BY <1>2 DEF Windows
    <3> QED BY <1>5, <1>6, <1>8, <2>1, <3>1 DEF Fronted
  <2>4. front' \in {0} \cup Slots /\ \A o \in Slots : wins'[o].id < nextId'
    BY <1>a, <2>1, <2>3 DEF FrontInv
  <2> QED BY <1>1, <2>2, <2>3, <2>4 DEF FrontInv, FrontOnTop
<1> QED BY <1>7, <1>8

LEMMA PressClientFront ==
  ASSUME Core, FrontInv, NEW p \in Procs, Sees(p), PressClient(p), Fronted
  PROVE  FrontInv'
<1> DEFINE s == Under(p)
<1>1. /\ PressOn(p, s)
      /\ wins' = wins \/ (wins[s].kind # "fixed" /\ wins' = Raised(wins, s, Top(wins)))
  BY DEF PressClient, Sees
<1>2. s = Under(p)
  OBVIOUS
<1> HIDE DEF s
<1>3. /\ TypeOK /\ wins \in [Slots -> Windows] /\ s \in Slots /\ wins[s].visible
      /\ hidden' = hidden /\ nextId' = nextId
  BY <1>1, <1>2, PressIs, Typing DEF Same
<1>4. CASE wins' = wins
  BY <1>3, <1>4, NothingRaised
<1>5. CASE wins' = Raised(wins, s, Top(wins)) /\ wins[s].kind # "app"
  <2>1. wins' = wins
    BY <1>5 DEF Raised
  <2> QED BY <1>4, <2>1
<1>6. CASE wins' = Raised(wins, s, Top(wins)) /\ wins[s].kind = "app"
  <2>1. wins[s].id # 0
    BY <1>3 DEF Core, DesktopOK, OwnersKnown
  <2>2. \A o \in Slots : wins[o].id < nextId'
    BY <1>3 DEF FrontInv
  <2> QED BY <1>3, <1>6, <2>1, <2>2, OneRaised
<1> QED BY <1>1, <1>4, <1>5, <1>6

LEMMA VisFront ==
  ASSUME Core, FrontInv, NEW p \in Procs, Sees(p), NEW s \in Slots, NEW on \in BOOLEAN, Vis(p, s, on),
         Fronted
  PROVE  FrontInv'
<1>1. TypeOK /\ wins \in [Slots -> Windows]
  BY DEF Core, DesktopOK, TypeOK
<1>2. wins' = [wins EXCEPT ![s].visible = on] /\ hidden' = TRUE /\ nextId' = nextId
  BY DEF Vis
<1>3. \A o \in Slots : wins'[o].id = wins[o].id /\ wins'[o].z = wins[o].z /\ wins[o].z \in Nat
  BY <1>1, <1>2 DEF Windows
<1>4. front' = front
  BY <1>3 DEF Fronted
<1> QED BY <1>2, <1>3, <1>4 DEF FrontInv, FrontOnTop

(* The steps that write a part of a window that is neither its level nor   *)
(* its number, or nothing.                                                 *)
LevelsKept ==
  \A s \in Slots : /\ wins'[s].kind = wins[s].kind /\ wins'[s].id = wins[s].id
                   /\ wins'[s].z = wins[s].z /\ (wins'[s].visible => wins[s].visible)

LEMMA PressLevels ==
  ASSUME Core, NEW p \in Procs, Sees(p),
         PressMenu(p) \/ PressClose(p) \/ PressMax(p) \/ PressMin(p) \/ PressDrag(p)
  PROVE  LevelsKept /\ Same
<1> DEFINE s == Under(p)
<1>1. PressOn(p, s)
  BY DEF PressMenu, PressClose, PressMax, PressMin, PressDrag, PressTitle
<1>2. s = Under(p)
  OBVIOUS
<1>3. \/ wins' = wins
      \/ wins' = [wins EXCEPT ![s] = Maximized(@)]
      \/ wins' = [wins EXCEPT ![s].visible = FALSE]
      \/ \E off : wins' = [wins EXCEPT ![s].drag = TRUE, ![s].off = off]
  BY DEF PressMenu, PressClose, PressMax, PressMin, PressDrag
<1> HIDE DEF s
<1>4. Same /\ s \in Slots /\ wins \in [Slots -> Windows]
  BY <1>1, <1>2, PressIs, Typing
<1>5. \A o \in Slots : wins[o] \in Windows
  BY <1>4
<1>6. CASE wins' = wins
  BY <1>4, <1>6 DEF LevelsKept
<1>7. CASE wins' = [wins EXCEPT ![s] = Maximized(@)]
  <2>1. /\ Maximized(wins[s]).kind = wins[s].kind /\ Maximized(wins[s]).id = wins[s].id
        /\ Maximized(wins[s]).z = wins[s].z /\ Maximized(wins[s]).visible = wins[s].visible
    BY <1>4, <1>5 DEF Maximized, Windows
  <2> QED BY <1>4, <1>7, <2>1 DEF LevelsKept
<1>8. CASE wins' = [wins EXCEPT ![s].visible = FALSE]
  BY <1>4, <1>5, <1>8 DEF LevelsKept, Windows
<1>9. ASSUME NEW off, wins' = [wins EXCEPT ![s].drag = TRUE, ![s].off = off]
      PROVE  LevelsKept
  BY <1>4, <1>5, <1>9 DEF LevelsKept, Windows
<1> QED BY <1>3, <1>4, <1>6, <1>7, <1>8, <1>9

LEMMA RouteLevels ==
  ASSUME Core, NEW p \in Procs, Sees(p), Route(p), ~PressClient(p)
  PROVE  LevelsKept /\ Same
<1>1. wins \in [Slots -> Windows] /\ Dragged(wins) \subseteq Slots
  BY DEF Core, DesktopOK, TypeOK, Dragged, Visible
<1>2. CASE PressDrops(p) \/ Release(p) \/ DragMoves(p)
  <2>1. Same
    BY <1>2 DEF PressDrops, Release, Drops, DragMoves, Sees
  <2>2. \E s \in Dragged(wins) : \/ wins' = [wins EXCEPT ![s].drag = FALSE]
                          \/ \E x, y : wins' = [wins EXCEPT ![s].r.x = x, ![s].r.y = y]
    <3>1. CASE PressDrops(p) \/ Release(p)
      BY <3>1 DEF PressDrops, Release, Drops, Sees
    <3>2. CASE DragMoves(p)
      <4>1. PICK s \in Dragged(wins) :
              wins' = [wins EXCEPT ![s].r.x = hand[p].at[1] - wins[s].off[1],
                                   ![s].r.y = hand[p].at[2] - wins[s].off[2]]
        BY <3>2 DEF DragMoves, Sees
      <4> DEFINE x == hand[p].at[1] - wins[s].off[1]
                 y == hand[p].at[2] - wins[s].off[2]
      <4>2. wins' = [wins EXCEPT ![s].r.x = x, ![s].r.y = y]
        BY <4>1
      <4> HIDE DEF x, y
      <4> QED BY <4>2
    <3> QED BY <1>2, <3>1, <3>2
  <2>3. PICK s \in Dragged(wins) : \/ wins' = [wins EXCEPT ![s].drag = FALSE]
                           \/ \E x, y : wins' = [wins EXCEPT ![s].r.x = x, ![s].r.y = y]
    BY <2>2
  <2>4. ASSUME wins' = [wins EXCEPT ![s].drag = FALSE]
        PROVE  LevelsKept
    BY <1>1, <2>4 DEF LevelsKept, Windows
  <2>5. ASSUME NEW x, NEW y, wins' = [wins EXCEPT ![s].r.x = x, ![s].r.y = y]
        PROVE  LevelsKept
    BY <1>1, <2>5 DEF LevelsKept, Windows
  <2> QED BY <2>1, <2>3, <2>4, <2>5
<1>3. CASE RouteNone(p) \/ PressOutside(p) \/ Hover(p) \/ Key(p)
  BY <1>3 DEF RouteNone, PressOutside, Hover, Key, LevelsKept, Same
<1>4. CASE PressMenu(p) \/ PressClose(p) \/ PressMax(p) \/ PressMin(p) \/ PressDrag(p)
  BY <1>4, PressLevels
<1> QED BY <1>2, <1>3, <1>4 DEF Route

LEMMA CallsLevels ==
  ASSUME Core, NEW p \in Procs, Sees(p), NEW s \in Slots,
         \/ Close(p, s) \/ Exit(p)
         \/ \E on \in BOOLEAN : SetMenu(p, s, on)
         \/ \E d \in Steps : Move(p, s, d[1], d[2])
  PROVE  LevelsKept /\ hidden' = hidden /\ nextId' = nextId
<1>1. wins \in [Slots -> Windows]
  BY DEF Core, DesktopOK, TypeOK
<1>2. hidden' = hidden /\ nextId' = nextId
  BY DEF Close, Exit, SetMenu, Move
<1>3. CASE Close(p, s)
  BY <1>1, <1>3 DEF Close, Removed, LevelsKept, Windows
<1>4. CASE Exit(p)
  <2>1. ASSUME NEW o \in Slots
        PROVE  /\ wins'[o].kind = wins[o].kind /\ wins'[o].id = wins[o].id
               /\ wins'[o].z = wins[o].z /\ (wins'[o].visible => wins[o].visible)
    <3>1. wins'[o] = IF wins[o].visible /\ wins[o].pd = p
                     THEN [wins[o] EXCEPT !.visible = FALSE, !.drag = FALSE] ELSE wins[o]
      BY <1>4 DEF Exit, Cleaned
    <3>2. wins[o] \in Windows
      BY <1>1
    <3> QED BY <3>1, <3>2 DEF Windows
  <2> QED BY <1>2, <2>1 DEF LevelsKept
<1>5. ASSUME NEW on \in BOOLEAN, SetMenu(p, s, on) PROVE LevelsKept
  BY <1>1, <1>5 DEF SetMenu, LevelsKept, Windows
<1>6. ASSUME NEW d \in Steps, Move(p, s, d[1], d[2]) PROVE LevelsKept
  <2>1. \E x, y : wins' = [wins EXCEPT ![s].r.x = x, ![s].r.y = y]
    BY <1>6 DEF Move
  <2>2. PICK x, y : wins' = [wins EXCEPT ![s].r.x = x, ![s].r.y = y]
    BY <2>1
  <2> QED BY <1>1, <2>2 DEF LevelsKept, Windows
<1> QED BY <1>2, <1>3, <1>4, <1>5, <1>6

LEMMA NextFront == IInv /\ (~overlapped => FrontInv) /\ [Next]_vars => (~overlapped => FrontInv)'
<1> SUFFICES ASSUME IInv, ~overlapped => FrontInv, [Next]_vars, ~overlapped' PROVE FrontInv'
  OBVIOUS
<1>1. ~overlapped /\ Inv /\ FrontInv
  <2>1. overlapped' = overlapped \/ \E p \in Procs : Step(p)
    BY DEF Next, vars
  <2>2. ~overlapped
    BY <2>1 DEF Step
  <2> QED BY <2>2 DEF IInv
<1>a. TypeOK /\ Core
  BY <1>1 DEF Inv, Core, DesktopOK
<1>2. ASSUME Fronted, LevelsKept, hidden' = hidden, nextId' = nextId PROVE FrontInv'
  BY <1>1, <1>a, <1>2, NothingRaised DEF LevelsKept
<1>3. CASE Irq /\ Fronted
  <2>1. wins' = wins /\ hidden' = hidden /\ nextId' = nextId
    BY <1>3 DEF Irq, Push, table
  <2> QED BY <1>2, <1>3, <2>1 DEF LevelsKept
<1>4. ASSUME NEW p \in Procs, Look(p) \/ Fetch(p) \/ Claim(p) \/ Deliver(p), Fronted PROVE FrontInv'
  <2>1. wins' = wins /\ hidden' = hidden /\ nextId' = nextId
    BY <1>4 DEF Look, Fetch, Claim, Deliver, table
  <2> QED BY <1>2, <1>4, <2>1 DEF LevelsKept
<1>5. ASSUME NEW p \in Procs, Sees(p), Route(p), Fronted PROVE FrontInv'
  BY <1>1, <1>2, <1>5, <1>a, PressClientFront, RouteLevels DEF Same
<1>6. ASSUME NEW p \in Procs, Sees(p), Calls(p), Fronted PROVE FrontInv'
  <2>1. CASE \E sh \in Shapes : Create(p, sh)
    BY <1>1, <1>6, <1>a, <2>1, CreateFront
  <2>2. CASE \E s \in Slots : \E on \in BOOLEAN : Vis(p, s, on)
    BY <1>1, <1>6, <1>a, <2>2, VisFront
  <2>3. CASE Exit(p) /\ Slots = {}
    <3>1. hidden' = hidden /\ nextId' = nextId
      BY <2>3 DEF Exit
    <3> QED BY <1>2, <1>6, <2>3, <3>1 DEF LevelsKept
  <2>4. ASSUME NEW s \in Slots,
               \/ Close(p, s) \/ Exit(p)
               \/ \E on \in BOOLEAN : SetMenu(p, s, on)
               \/ \E d \in Steps : Move(p, s, d[1], d[2])
        PROVE  FrontInv'
    BY <1>2, <1>6, <1>a, <2>4, CallsLevels
  <2> QED BY <1>6, <2>1, <2>2, <2>3, <2>4 DEF Calls
<1>7. CASE UNCHANGED vars
  <2>1. front' = front /\ wins' = wins /\ hidden' = hidden /\ nextId' = nextId
    BY <1>7 DEF vars, table
  <2> QED BY <1>1, <2>1 DEF FrontInv, FrontOnTop, Visible
<1>8. ASSUME NEW p \in Procs, Step(p), Fronted PROVE FrontInv'
  <2>1. saw[p].on => Sees(p)
    BY <1>1, <1>8, StepAlone DEF Alone
  <2> QED BY <1>4, <1>5, <1>6, <1>8, <2>1 DEF Step, Writes
<1> QED BY <1>3, <1>7, <1>8 DEF Next

LEMMA InitFront == Init => FrontInv
BY DEF Init, FrontInv, FrontOnTop, Empty

(* What is over all others gets the keys and the clicks, and is painted    *)
(* last: the three loops over the table agree.                             *)
LEMMA OnTopIsSeen == IInv /\ (~overlapped => FrontInv) => FrontIsSeen
<1> SUFFICES ASSUME Core, FrontInv, ~hidden, front # 0, front \in Visible
             PROVE  SeenInFront(front)
  BY DEF FrontIsSeen, IInv, Inv, Core
<1>1. wins \in [Slots -> Windows]
  BY DEF Core, DesktopOK, TypeOK
<1>2. /\ front \in Slots /\ wins[front].kind = "app" /\ wins[front].visible
      /\ \A o \in Visible \ {front} : wins[o].kind # "fixed" => wins[o].z < wins[front].z
  BY DEF FrontInv, FrontOnTop, Visible
<1>3. \A o \in Slots : wins[o].z \in Nat /\ wins[o].r \in Rects
  BY <1>1 DEF Windows
<1>4. /\ Rank(wins, front) = wins[front].z
      /\ \A o \in Slots : wins[o].kind # "fixed" => Rank(wins, o) = wins[o].z
      /\ \A o \in Slots : wins[o].kind = "fixed" => Rank(wins, o) = wins[o].z + 4096
  BY <1>2, <1>3 DEF Rank
<1>5. TopmostApp(wins) = front
  <2> DEFINE S == {s \in Visible : wins[s].kind = "app"}
  <2>1. S \subseteq Slots /\ front \in S /\ TopmostApp(wins) = Highest(wins, S)
    BY <1>2 DEF Visible, TopmostApp
  <2>2. \A o \in S \ {front} : wins[o].z < wins[front].z /\ wins[o].kind # "fixed"
    BY <1>2
  <2> HIDE DEF S
  <2>3. /\ TopmostApp(wins) \in S /\ Rank(wins, front) <= Rank(wins, TopmostApp(wins))
    BY <1>1, <2>1, HighestBeats
  <2> QED BY <1>2, <1>3, <1>4, <2>1, <2>2, <2>3
<1>6. ASSUME NEW p \in Clicks, In(p, wins[front].r), wins[Hit(wins, p)].kind # "fixed"
      PROVE  Hit(wins, p) = front /\ (wins[front].z < MaxWins => Painted(wins[front].r, p) = front)
  <2> DEFINE S == {s \in NotBg(wins) : In(p, wins[s].r)}
  <2>1. S \subseteq Slots /\ S \subseteq Visible /\ front \in S /\ Hit(wins, p) = Highest(wins, S)
    BY <1>2, <1>6 DEF NotBg, Visible, Hit
  <2>2. \A o \in Visible : wins[o].kind = "fixed" /\ In(p, wins[o].r) => o \in S
    BY DEF NotBg, Visible
  <2> HIDE DEF S
  <2>3. /\ Hit(wins, p) \in S
        /\ \A o \in S : Rank(wins, o) \in Nat /\ Rank(wins, o) <= Rank(wins, Hit(wins, p))
    BY <1>1, <2>1, HighestBeats
  <2>4. Hit(wins, p) = front
    BY <1>2, <1>3, <1>4, <1>6, <2>1, <2>3
  <2>5. ASSUME wins[front].z < MaxWins PROVE Painted(wins[front].r, p) = front
    <3> DEFINE r == wins[front].r
               T == Painters(r, p)
    <3>1. front \in T
      <4>1. r.x \in Int /\ r.y \in Int /\ r.w \in Nat /\ r.h \in Nat
        BY <1>2, <1>3 DEF Rects
      <4>2. p[1] \in Int /\ p[2] \in Int
        BY WinMgrAssumption
      <4>3. Meets(r, r)
        BY <1>6, <4>1, <4>2 DEF In, Meets
      <4>4. Draws(wins[front], r, p)
        BY <1>6 DEF Draws, Blits
      <4>5. front \in Visible
        OBVIOUS
      <4> HIDE DEF r
      <4> QED BY <2>5, <4>3, <4>4, <4>5 DEF Painters, r
    <3>2. ASSUME NEW o \in T, o # front PROVE Rank(wins, o) < Rank(wins, front)
      <4>1. o \in Visible /\ o \in Slots /\ In(p, wins[o].r)
        BY DEF Painters, Draws, Visible
      <4>2. wins[o].kind # "fixed"
        BY <1>2, <1>3, <1>4, <2>2, <2>3, <2>4, <2>5, <4>1, WinMgrAssumption
      <4> QED BY <1>2, <1>4, <3>2, <4>1, <4>2
    <3>3. Rank(wins, front) \in Nat /\ \A o \in T : Rank(wins, o) \in Nat
      BY <1>2, <1>3, <1>4 DEF Painters, Visible
    <3> DEFINE c == CHOOSE s \in T : \A o \in T : Rank(wins, s) > Rank(wins, o)
                                              \/ (Rank(wins, s) = Rank(wins, o) /\ s >= o)
    <3>4. front >= front
      BY <1>2, Sizes
    <3>5. Painted(r, p) = c
      BY <3>1 DEF Painted
    <3> HIDE DEF T
    <3>6. \E s \in T : \A o \in T : Rank(wins, s) > Rank(wins, o)
                                  \/ (Rank(wins, s) = Rank(wins, o) /\ s >= o)
      BY <3>1, <3>2, <3>4
    <3>7. c \in T /\ (Rank(wins, c) > Rank(wins, front) \/ Rank(wins, c) = Rank(wins, front))
      BY <3>1, <3>6
    <3> HIDE DEF c
    <3>8. c = front
      BY <3>2, <3>3, <3>7
    <3> QED BY <3>5, <3>8
  <2> QED BY <2>4, <2>5
<1> QED BY <1>5, <1>6 DEF SeenInFront

-----------------------------------------------------------------------------
(* THE THEOREMS                                                            *)

(* Windows, focus, drags and queues of winmgr.c stay as IInv says, for any *)
(* number of programs, slots and queues and any windows and clicks, while  *)
(* no step of a program comes in the middle of another program's call.     *)
THEOREM Invariance == Spec => []IInv
BY InitInv, NextOK, PTL DEF Spec

(* Whatever wm_close, wm_vis, wm_cleanup_pd, the buttons and the mouse do, *)
(* in any order of calls that do not overlap: the focus has a window on    *)
(* the screen, a window other than the wallpaper leaves nobody without it, *)
(* and the background lives as long as there are windows.                  *)
THEOREM FocusKept == Spec => []DesktopKept
<1>1. IInv => DesktopKept
  BY DEF IInv, Inv, DesktopKept
<1> QED BY <1>1, Invariance, PTL

(* As long as no program calls SYS_WINVIS and no calls overlap, wm_route   *)
(* drags at most one window, and only after a press.                       *)
THEOREM DragsOne == Spec => []OneDrag
<1>1. IInv => OneDrag
  BY DEF IInv, Inv, OneDrag
<1> QED BY <1>1, Invariance, PTL

(* As long as no program calls SYS_WINVIS and no calls overlap, no queue   *)
(* of wm_clients[] is left with a program that ended, and no event is on   *)
(* its way to one, whatever was still in flight when it ended.             *)
THEOREM QueuesFreed == Spec => []QueuesOfTheLiving
<1>1. IInv => QueuesOfTheLiving
  BY DEF IInv, Inv, QueuesOfTheLiving
<1> QED BY <1>1, Invariance, PTL

(* As long as no program calls SYS_WINVIS and no calls overlap, the window *)
(* that wm_create opened or a click raised last gets the keys and the      *)
(* clicks and is what a redraw shows, until it goes or another takes its   *)
(* place.                                                                  *)
THEOREM FrontKept == Spec => []FrontIsSeen
<1>1. Init => (~overlapped => FrontInv)
  BY InitFront
<1>2. IInv /\ (~overlapped => FrontInv) /\ [Next]_vars => (~overlapped => FrontInv)'
  BY NextFront
<1>3. IInv /\ (~overlapped => FrontInv) => FrontIsSeen
  BY OnTopIsSeen
<1> QED BY <1>1, <1>2, <1>3, Invariance, PTL DEF Spec

=============================================================================

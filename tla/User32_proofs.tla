---------------------------- MODULE User32_proofs ----------------------------
(***************************************************************************)
(* The windows of a program, for every size of the tables and the queue,   *)
(* every number of rows, every screen and every number of windows and      *)
(* calls, in programs that release what they draw with before they destroy *)
(* a window.                                                               *)
(***************************************************************************)
EXTENDS User32, WellFoundedInduction, TLAPS

(* Messages, and what comes with them: the number of a window, a key, or   *)
(* the row of a list that was opened.                                      *)
Opened  == [list : Children, born : Nat, row : Nat]
Payload == Nat \cup {"letter", "up", "down", "enter"} \cup Opened
Kinds   == {"none", "quit", "user", "buttondown", "close", "keydown", "char", "command"}
Msgs    == [hwnd : Nat, m : Kinds, x : Payload]
(* A window of the kernel.                                                 *)
Windows == [id : Nat \ {0}, area : Areas]

TypesOK ==
  /\ made \in Nat /\ next \in Nat \ {0} /\ calls \in Nat
  /\ wnd_proc \in [Handles -> {"none", "app", "builtin"}] /\ wnd_buf \in [Handles -> Nat]
  /\ child \in [Children -> [parent : {0} \cup Handles, class : {"edit", "list"}, born : Nat]]
  /\ lv_sel \in [Children -> 0 .. Rows - 1] /\ dc \in [Handles -> Nat]
  /\ kern \in Seq(Windows)
  /\ focus_edit \in {0} \cup Children /\ focus_child \in {0} \cup Children /\ wm_focus_win \in Nat
  /\ msgq \in Seq(Msgs) /\ Len(msgq) < QMax /\ msg \in Msgs
  /\ loop \in {"run", "handle", "ended"}

(* A window's buffer is the one that was allocated with it.                *)
OwnBuffers == \A h \in Handles : wnd_buf[h] # 0 => wnd_buf[h] = h /\ h \in heap /\ h < next
(* The kernel's windows have different numbers, all given.                 *)
Numbered ==
  /\ \A i \in 1 .. Len(kern) : kern[i].id < next
  /\ \A i, j \in 1 .. Len(kern) : kern[i].id = kern[j].id => i = j

(* A number the kernel has not given is a child's, if it is anyone's.      *)
Unnumbered ==
  \A h \in Handles : h >= next =>
    /\ wnd_proc[h] # "app"
    /\ h \in Children /\ child[h].parent # 0 => wnd_proc[h] = "builtin"
(* Until a window has the number of a child: the handles of children, and  *)
(* those of other windows;                                                 *)
ChildrenApart ==
  /\ \A h \in Children : /\ wnd_buf[h] = 0 /\ wnd_proc[h] # "app"
                         /\ wnd_proc[h] = "builtin" <=> child[h].parent # 0
                         /\ dc[h] # 0 => child[h].parent # 0
                         /\ child[h].parent < next
  /\ \A h \in Handles \ Children : /\ wnd_proc[h] # "builtin"
                                   /\ wnd_proc[h] # "none" \/ dc[h] # 0 => h < next
(* each window of the kernel has a procedure, and is what a press on its   *)
(* close button goes to.                                                   *)
KernelShown == \A i \in 1 .. Len(kern) : kern[i].id \in Handles /\ wnd_proc[kern[i].id] # "none"
ToWindow(w) == w.m = "close" => w.hwnd \in Handles \ Children
ClosesWindows == ToWindow(msg) /\ \A i \in 1 .. Len(msgq) : ToWindow(msgq[i])
Drawn == \A h \in Handles : dc[h] # 0 /\ Has(h) => dc[h] = BufOf(h)
Apart == next <= ChildBase => ChildrenApart /\ KernelShown /\ ClosesWindows /\ Drawn

(* A key is the first of the queue or being handled, and no row was opened *)
(* since.                                                                  *)
NoneOpened == \A i \in 1 .. Len(msgq) : msgq[i].m # "command"
OneKey ==
  /\ \A i \in 1 .. Len(msgq) : msgq[i].m = "keydown" => i = 1 /\ msg.m # "keydown" /\ NoneOpened
  /\ msg.m = "keydown" => loop # "run" /\ NoneOpened
(* A row that was opened is one of a list made before; a list that took    *)
(* its slot is another.                                                    *)
Dated ==
  /\ \A h \in Children : child[h].parent # 0 => child[h].born < made
  /\ \A i \in 1 .. Len(msgq) :
       msgq[i].m = "command" => msgq[i].x \in Opened /\ msgq[i].x.born < made

IInv == /\ TypesOK /\ OwnBuffers /\ Numbered /\ Unnumbered /\ Apart /\ OneKey /\ Dated
        /\ ~lost /\ OpensTheSelected

-----------------------------------------------------------------------------
(* NUMBERS, SETS AND SEQUENCES                                             *)

LEMMA Tables ==
  /\ Handles \subseteq Nat /\ Children \subseteq Handles /\ 1 \in Handles /\ 0 \notin Handles
  /\ \A h \in Children : h >= ChildBase
  /\ \A h \in Nat \ {0} : h < ChildBase => h \in Handles \ Children
  /\ \A h \in Handles \ Children : h < ChildBase
  /\ ChildBase \in Nat /\ QMax \in Nat /\ QMax >= 3 /\ Rows \in Nat \ {0}
BY User32Assumption DEF Handles, Children

LEMMA LeastExists ==
  ASSUME NEW S, S \subseteq Nat, S # {}
  PROVE  \E i \in S : \A j \in S : i <= j
<1>1. PICK a \in S : \A b \in S : ~(<< b, a >> \in OpToRel(<, Nat))
  BY NatLessThanWellFounded, WFMin
<1>2. \A b \in S : ~(b < a)
  BY <1>1 DEF OpToRel
<1> QED BY <1>2

LEMMA LargestIs ==
  ASSUME NEW b \in Nat, NEW S, S \subseteq 0 .. b, S # {}
  PROVE  Largest(S) \in S
<1> DEFINE D == {b - s : s \in S}
<1>1. \A s \in S : s \in Nat /\ s <= b
  OBVIOUS
<1>2. PICK i \in D : \A j \in D : i <= j
  <2>1. \A s \in S : b - s \in Nat
    BY <1>1
  <2>2. PICK s \in S : TRUE
    OBVIOUS
  <2>3. D \subseteq Nat /\ b - s \in D
    BY <2>1
  <2> HIDE DEF D
  <2> QED BY <2>3, LeastExists
<1>3. PICK m \in S : i = b - m
  BY <1>2
<1>4. \A g \in S : b - m <= b - g
  BY <1>2, <1>3
<1>5. \A g \in S : g <= m
  BY <1>1, <1>4
<1> QED BY <1>5 DEF Largest

(* A message that is made is one.                                          *)
LEMMA MessageIs ==
  ASSUME NEW h \in Nat, NEW k \in Kinds, NEW x \in Payload
  PROVE  /\ Message(h, k, x) \in Msgs
         /\ Message(h, k, x).hwnd = h /\ Message(h, k, x).m = k /\ Message(h, k, x).x = x
BY DEF Message, Msgs

LEMMA NoMsgIs == NoMsg \in Msgs /\ NoMsg.m = "none"
<1>1. 0 \in Nat /\ "none" \in Kinds /\ 0 \in Payload
  BY DEF Kinds, Payload
<1> QED BY <1>1, MessageIs DEF NoMsg

(* What msgq_push leaves: the queue as it was, and some of what was pushed.*)
LEMMA PushedIs ==
  ASSUME NEW q \in Seq(Msgs), NEW ms \in Seq(Msgs), Len(q) < QMax
  PROVE  /\ Pushed(q, ms) \in Seq(Msgs) /\ Len(Pushed(q, ms)) < QMax
         /\ \A i \in 1 .. Len(Pushed(q, ms)) :
              \/ i \in 1 .. Len(q) /\ Pushed(q, ms)[i] = q[i]
              \/ \E j \in 1 .. Len(ms) : i = Len(q) + j /\ Pushed(q, ms)[i] = ms[j]
         /\ Len(q) + Len(ms) < QMax => Len(Pushed(q, ms)) = Len(q) + Len(ms)
<1> DEFINE room == QMax - 1 - Len(q)
           fit == IF Len(ms) <= room THEN ms ELSE SubSeq(ms, 1, room)
<1>1. /\ Len(q) \in Nat /\ Len(ms) \in Nat /\ QMax \in Nat /\ room \in Nat
      /\ Pushed(q, ms) = q \o fit
  BY Tables DEF Pushed
<1>2. fit \in Seq(Msgs) /\ Len(fit) <= room /\ Len(fit) <= Len(ms) /\ Len(fit) \in Nat
      /\ (\A j \in 1 .. Len(fit) : fit[j] = ms[j]) /\ (Len(ms) <= room => Len(fit) = Len(ms))
  <2>1. CASE Len(ms) <= room
    BY <1>1, <2>1
  <2>2. CASE ~(Len(ms) <= room)
    <3>1. SubSeq(ms, 1, room) \in Seq(Msgs) /\ Len(SubSeq(ms, 1, room)) = room
          /\ \A j \in 1 .. room : SubSeq(ms, 1, room)[j] = ms[j]
      <4> HIDE DEF room
      <4> QED BY <1>1, <2>2
    <3> QED BY <1>1, <2>2, <3>1
  <2> QED BY <2>1, <2>2
<1> HIDE DEF fit, room
<1>3. q \o fit \in Seq(Msgs) /\ Len(q \o fit) = Len(q) + Len(fit)
  BY <1>2
<1>4. ASSUME NEW i \in 1 .. Len(q \o fit)
      PROVE  \/ i \in 1 .. Len(q) /\ (q \o fit)[i] = q[i]
             \/ \E j \in 1 .. Len(ms) : i = Len(q) + j /\ (q \o fit)[i] = ms[j]
  <2>1. CASE i <= Len(q)
    BY <1>1, <1>2, <1>3, <2>1
  <2>2. CASE i > Len(q)
    <3>1. i - Len(q) \in 1 .. Len(fit) /\ (q \o fit)[i] = fit[i - Len(q)]
      BY <1>1, <1>2, <1>3, <2>2
    <3>2. i - Len(q) \in 1 .. Len(ms) /\ fit[i - Len(q)] = ms[i - Len(q)] /\ i = Len(q) + (i - Len(q))
      BY <1>1, <1>2, <3>1
    <3> QED BY <3>1, <3>2
  <2> QED BY <1>1, <2>1, <2>2
<1>5. Len(q \o fit) < QMax
  BY <1>1, <1>2, <1>3 DEF room
<1>6. Len(q) + Len(ms) < QMax => Len(q \o fit) = Len(q) + Len(ms)
  <2>1. Len(q) + Len(ms) < QMax => Len(ms) <= room
    BY <1>1 DEF room
  <2> QED BY <1>2, <1>3, <2>1
<1> QED BY <1>1, <1>3, <1>4, <1>5, <1>6

(* kern without one of its windows: the others, each where it was or one   *)
(* place further down.                                                     *)
Still(i, k) == IF k < i THEN k ELSE k + 1

LEMMA RemovedIs ==
  ASSUME kern \in Seq(Windows), NEW i \in 1 .. Len(kern)
  PROVE  /\ Removed(i) \in Seq(Windows) /\ Len(Removed(i)) = Len(kern) - 1
         /\ \A k \in 1 .. Len(kern) - 1 :
              /\ Still(i, k) \in 1 .. Len(kern) /\ Still(i, k) # i
              /\ Removed(i)[k] = kern[Still(i, k)]
         /\ \A k, l \in 1 .. Len(kern) - 1 : Still(i, k) = Still(i, l) => k = l
<1>1. Len(kern) \in Nat /\ i \in Nat /\ Len(kern) - 1 \in Nat
  OBVIOUS
<1>2. ASSUME NEW k \in 1 .. Len(kern) - 1
      PROVE  Still(i, k) \in 1 .. Len(kern) /\ Still(i, k) # i
  BY <1>1 DEF Still
<1>3. \A k \in 1 .. Len(kern) - 1 : Removed(i)[k] = kern[Still(i, k)]
  BY DEF Removed, Still
<1>4. \A k, l \in 1 .. Len(kern) - 1 : Still(i, k) = Still(i, l) => k = l
  BY <1>1 DEF Still
<1>5. Removed(i) = [k \in 1 .. Len(kern) - 1 |-> kern[Still(i, k)]]
  BY DEF Removed, Still
<1>6. Removed(i) \in [1 .. Len(kern) - 1 -> Windows]
  BY <1>2, <1>5
<1>7. Removed(i) \in Seq(Windows) /\ Len(Removed(i)) = Len(kern) - 1
  BY <1>1, <1>6
<1> QED BY <1>2, <1>3, <1>4, <1>7

-----------------------------------------------------------------------------
(* THE QUEUE                                                               *)

(* A queue that grew by messages no conjunct of the invariant is about.    *)
Quiet(w) == w.m \notin {"command", "keydown", "close"}
Kept(q, r) == \A i \in 1 .. Len(r) : (i \in 1 .. Len(q) /\ r[i] = q[i]) \/ Quiet(r[i])

LEMMA KeptItself == ASSUME NEW q PROVE Kept(q, q)
BY DEF Kept

LEMMA PushedQuiet ==
  ASSUME TypesOK, NEW w \in Msgs, Quiet(w)
  PROVE  /\ Pushed(msgq, << w >>) \in Seq(Msgs) /\ Len(Pushed(msgq, << w >>)) < QMax
         /\ Kept(msgq, Pushed(msgq, << w >>))
<1>1. << w >> \in Seq(Msgs) /\ Len(<< w >>) = 1 /\ << w >>[1] = w
  OBVIOUS
<1>2. msgq \in Seq(Msgs) /\ Len(msgq) < QMax
  BY DEF TypesOK
<1> DEFINE ms == << w >>
<1>3. \A j \in 1 .. Len(ms) : ms[j] = w
  BY <1>1
<1> HIDE DEF ms
<1>4. /\ Pushed(msgq, ms) \in Seq(Msgs) /\ Len(Pushed(msgq, ms)) < QMax
      /\ \A i \in 1 .. Len(Pushed(msgq, ms)) :
           \/ i \in 1 .. Len(msgq) /\ Pushed(msgq, ms)[i] = msgq[i]
           \/ \E j \in 1 .. Len(ms) : i = Len(msgq) + j /\ Pushed(msgq, ms)[i] = ms[j]
  BY <1>1, <1>2, PushedIs DEF ms
<1>5. Kept(msgq, Pushed(msgq, ms))
  BY <1>3, <1>4 DEF Kept
<1> QED BY <1>4, <1>5 DEF ms

(* What the invariant says of the queue holds on, when nothing else is     *)
(* pushed and the message that is handled stays, or is done with.          *)
LEMMA KeysKept ==
  ASSUME OneKey, Kept(msgq, msgq'), (msg' = msg /\ loop' = loop) \/ msg'.m = "none"
  PROVE  OneKey'
<1>1. ASSUME NoneOpened PROVE NoneOpened'
  BY <1>1 DEF NoneOpened, Kept, Quiet
<1>2. ASSUME NEW i \in 1 .. Len(msgq'), msgq'[i].m = "keydown"
      PROVE  i = 1 /\ msg'.m # "keydown" /\ NoneOpened'
  <2>1. i \in 1 .. Len(msgq) /\ msgq[i].m = "keydown"
    BY <1>2 DEF Kept, Quiet
  <2>2. i = 1 /\ msg.m # "keydown" /\ NoneOpened
    BY <2>1 DEF OneKey
  <2> QED BY <1>1, <2>2
<1>3. msg'.m = "keydown" => loop' # "run" /\ NoneOpened'
  BY <1>1 DEF OneKey
<1> QED BY <1>2, <1>3 DEF OneKey

LEMMA ClosesKept ==
  ASSUME ClosesWindows, Kept(msgq, msgq'), msg' = msg \/ msg'.m = "none"
  PROVE  ClosesWindows'
<1>1. ToWindow(msg)'
  BY DEF ClosesWindows, ToWindow
<1>2. ASSUME NEW i \in 1 .. Len(msgq') PROVE ToWindow(msgq'[i])
  <2>1. CASE i \in 1 .. Len(msgq) /\ msgq'[i] = msgq[i]
    BY <2>1 DEF ClosesWindows
  <2>2. CASE Quiet(msgq'[i])
    BY <2>2 DEF Quiet, ToWindow
  <2> QED BY <2>1, <2>2 DEF Kept
<1> QED BY <1>1, <1>2 DEF ClosesWindows, ToWindow

LEMMA DatesKept ==
  ASSUME TypesOK, Dated, Kept(msgq, msgq'), made' \in Nat, made' >= made,
         \A h \in Children : child'[h].parent # 0 => child'[h].born < made'
  PROVE  Dated'
<1>1. ASSUME NEW i \in 1 .. Len(msgq'), msgq'[i].m = "command"
      PROVE  msgq'[i].x \in Opened /\ msgq'[i].x.born < made'
  <2>1. i \in 1 .. Len(msgq) /\ msgq'[i] = msgq[i]
    BY <1>1 DEF Kept, Quiet
  <2>2. msgq[i].x \in Opened /\ msgq[i].x.born < made
    BY <1>1, <2>1 DEF Dated
  <2>3. msgq[i].x.born \in Nat /\ made \in Nat
    BY <2>2 DEF Opened, TypesOK
  <2> QED BY <2>1, <2>2, <2>3
<1> QED BY <1>1 DEF Dated

LEMMA OpensKept ==
  ASSUME TypesOK, Dated, OpensTheSelected, Kept(msgq, msgq'),
         \A h \in Children :
           \/ ~IsList(h)' \/ child'[h].born = made
           \/ IsList(h) /\ child'[h].born = child[h].born /\ lv_sel'[h] = lv_sel[h]
  PROVE  OpensTheSelected'
<1>1. ASSUME NEW i \in 1 .. Len(msgq'), msgq'[i].m = "command", NEW x, msgq'[i].x = x,
             child'[x.list].born = x.born, IsList(x.list)'
      PROVE  lv_sel'[x.list] = x.row
  <2>1. i \in 1 .. Len(msgq) /\ msgq'[i] = msgq[i] /\ msgq[i].m = "command" /\ msgq[i].x = x
    BY <1>1 DEF Kept, Quiet
  <2>2. x \in Opened /\ x.born < made
    BY <2>1 DEF Dated
  <2>3. x.list \in Children /\ x.born \in Nat /\ made \in Nat
    BY <2>2 DEF Opened, TypesOK
  <2>4. child'[x.list].born # made
    BY <1>1, <2>2, <2>3
  <2>5. IsList(x.list) /\ child'[x.list].born = child[x.list].born /\ lv_sel'[x.list] = lv_sel[x.list]
    BY <1>1, <2>3, <2>4
  <2>6. lv_sel[x.list] = x.row
    BY <1>1, <2>1, <2>5 DEF OpensTheSelected
  <2> QED BY <2>5, <2>6
<1> QED BY <1>1 DEF OpensTheSelected, IsList, IsChild, Has

-----------------------------------------------------------------------------
(* THE KERNEL'S WINDOWS                                                    *)

LEMMA WithoutIs ==
  ASSUME TypesOK, Numbered, NEW h
  PROVE  /\ Without(h) \in Seq(Windows)
         /\ \A k \in 1 .. Len(Without(h)) :
              \E j \in 1 .. Len(kern) : Without(h)[k] = kern[j] /\ kern[j].id # h
         /\ \A k, l \in 1 .. Len(Without(h)) : Without(h)[k].id = Without(h)[l].id => k = l
<1>1. kern \in Seq(Windows) /\ Len(kern) \in Nat
      /\ \A i, j \in 1 .. Len(kern) : kern[i].id = kern[j].id => i = j
  BY DEF TypesOK, Numbered
<1>2. CASE Places(h) = {}
  <2>1. \A j \in 1 .. Len(kern) : kern[j].id # h
    BY <1>2 DEF Places
  <2> QED BY <1>1, <1>2, <2>1 DEF Without
<1>3. CASE Places(h) # {}
  <2> DEFINE i == CHOOSE x \in Places(h) : TRUE
  <2>1. i \in Places(h)
    BY <1>3
  <2>2. Without(h) = Removed(i)
    BY <1>3 DEF Without
  <2> HIDE DEF i
  <2>3. i \in 1 .. Len(kern) /\ kern[i].id = h
    BY <2>1 DEF Places
  <2>4. /\ Removed(i) \in Seq(Windows) /\ Len(Removed(i)) = Len(kern) - 1
        /\ \A k \in 1 .. Len(kern) - 1 :
             /\ Still(i, k) \in 1 .. Len(kern) /\ Still(i, k) # i
             /\ Removed(i)[k] = kern[Still(i, k)]
        /\ \A k, l \in 1 .. Len(kern) - 1 : Still(i, k) = Still(i, l) => k = l
    BY <1>1, <2>3, RemovedIs
  <2>5. ASSUME NEW k \in 1 .. Len(kern) - 1
        PROVE  \E j \in 1 .. Len(kern) : Removed(i)[k] = kern[j] /\ kern[j].id # h
    BY <1>1, <2>3, <2>4
  <2>6. ASSUME NEW k \in 1 .. Len(kern) - 1, NEW l \in 1 .. Len(kern) - 1, Removed(i)[k].id = Removed(i)[l].id
        PROVE  k = l
    <3>1. /\ Still(i, k) \in 1 .. Len(kern) /\ Removed(i)[k] = kern[Still(i, k)]
          /\ Still(i, l) \in 1 .. Len(kern) /\ Removed(i)[l] = kern[Still(i, l)]
      BY <2>4
    <3>2. Still(i, k) = Still(i, l)
      BY <1>1, <2>6, <3>1
    <3> QED BY <2>4, <3>2
  <2> QED BY <2>2, <2>4, <2>5, <2>6
<1> QED BY <1>2, <1>3

LEMMA RaisedIs ==
  ASSUME TypesOK, Numbered, NEW i \in 1 .. Len(kern)
  PROVE  /\ Raised(i) \in Seq(Windows)
         /\ \A k \in 1 .. Len(Raised(i)) : \E j \in 1 .. Len(kern) : Raised(i)[k] = kern[j]
         /\ \A k, l \in 1 .. Len(Raised(i)) : Raised(i)[k].id = Raised(i)[l].id => k = l
<1>1. kern \in Seq(Windows) /\ Len(kern) \in Nat
      /\ \A k, j \in 1 .. Len(kern) : kern[k].id = kern[j].id => k = j
  <2>1. kern \in Seq(Windows)
    BY DEF TypesOK
  <2>2. \A k, j \in 1 .. Len(kern) : kern[k].id = kern[j].id => k = j
    BY DEF Numbered
  <2> QED BY <2>1, <2>2
<1> DEFINE n == Len(kern)
           At(k) == IF k = n THEN i ELSE Still(i, k)
<1>2. /\ Removed(i) \in Seq(Windows) /\ Len(Removed(i)) = n - 1
      /\ \A k \in 1 .. n - 1 :
           /\ Still(i, k) \in 1 .. n /\ Still(i, k) # i
           /\ Removed(i)[k] = kern[Still(i, k)]
      /\ \A k, l \in 1 .. n - 1 : Still(i, k) = Still(i, l) => k = l
  <2>1. i \in 1 .. Len(kern)
    OBVIOUS
  <2> QED BY <1>1, <2>1, RemovedIs
<1>3. kern[i] \in Windows /\ n \in Nat /\ n >= 1
  BY <1>1
<1>4. Raised(i) \in Seq(Windows) /\ Len(Raised(i)) = n
      /\ Raised(i)[n] = kern[i] /\ \A k \in 1 .. n - 1 : Raised(i)[k] = Removed(i)[k]
  <2> HIDE DEF n
  <2> DEFINE s == Removed(i)  w == kern[i]
  <2>1. s \in Seq(Windows) /\ w \in Windows /\ Len(s) = n - 1 /\ n \in Nat
    BY <1>2, <1>3
  <2> HIDE DEF s, w
  <2>2. Append(s, w) \in Seq(Windows) /\ Len(Append(s, w)) = n
        /\ Append(s, w)[n] = w /\ \A k \in 1 .. n - 1 : Append(s, w)[k] = s[k]
    BY <2>1
  <2> QED BY <2>2 DEF Raised, s, w
<1> HIDE DEF n
<1>5. ASSUME NEW k \in 1 .. n
      PROVE  At(k) \in 1 .. n /\ Raised(i)[k] = kern[At(k)]
  <2>1. CASE k = n
    BY <1>4, <2>1 DEF n
  <2>2. CASE k # n
    <3>1. k \in 1 .. n - 1
      BY <1>3, <2>2
    <3> QED BY <1>2, <1>4, <2>2, <3>1
  <2> QED BY <2>1, <2>2
<1>6. ASSUME NEW k \in 1 .. n, NEW l \in 1 .. n, At(k) = At(l)
      PROVE  k = l
  <2>1. \A m \in 1 .. n : m # n => m \in 1 .. n - 1
    BY <1>3
  <2> QED BY <1>2, <1>6, <2>1
<1> HIDE DEF At
<1>7. ASSUME NEW k \in 1 .. n, NEW l \in 1 .. n, Raised(i)[k].id = Raised(i)[l].id
      PROVE  k = l
  <2>1. At(k) = At(l)
    BY <1>1, <1>5, <1>7 DEF n
  <2> QED BY <1>6, <2>1
<1> QED BY <1>4, <1>5, <1>7 DEF n

(* Windows that are some of those there were keep their numbers.           *)
Fewer(r) == /\ r \in Seq(Windows)
            /\ \A k \in 1 .. Len(r) : \E j \in 1 .. Len(kern) : r[k] = kern[j]
            /\ \A k, l \in 1 .. Len(r) : r[k].id = r[l].id => k = l

LEMMA NumbersKept ==
  ASSUME TypesOK, Numbered, Fewer(kern'), next' \in Nat, next' >= next
  PROVE  Numbered'
<1>1. next \in Nat /\ \A j \in 1 .. Len(kern) : kern[j].id \in Nat /\ kern[j].id < next
  <2>1. \A j \in 1 .. Len(kern) : kern[j] \in Windows
    BY DEF TypesOK
  <2> QED BY <2>1 DEF TypesOK, Numbered, Windows
<1>2. \A k \in 1 .. Len(kern') : kern'[k].id < next'
  BY <1>1 DEF Fewer
<1> QED BY <1>2 DEF Numbered, Fewer

LEMMA KernFewer == ASSUME TypesOK, Numbered PROVE Fewer(kern)
BY DEF TypesOK, Numbered, Fewer

-----------------------------------------------------------------------------
(* CALLS                                                                   *)

(* A step that pushes nothing the invariant is about.                      *)
LEMMA QueueHolds ==
  ASSUME IInv, Kept(msgq, msgq'), (msg' = msg /\ loop' = loop) \/ msg'.m = "none",
         lost' = lost \/ ~lost', made' \in Nat, made' >= made,
         \A h \in Children : child'[h].parent # 0 => child'[h].born < made',
         \A h \in Children :
           \/ ~IsList(h)' \/ child'[h].born = made
           \/ IsList(h) /\ child'[h].born = child[h].born /\ lv_sel'[h] = lv_sel[h]
  PROVE  /\ OneKey' /\ Dated' /\ ~lost' /\ OpensTheSelected'
         /\ next <= ChildBase => ClosesWindows'
<1>1. OneKey'
  BY KeysKept DEF IInv
<1>2. Dated'
  BY DatesKept DEF IInv
<1>3. OpensTheSelected'
  BY OpensKept DEF IInv
<1>4. next <= ChildBase => ClosesWindows'
  BY ClosesKept DEF IInv, Apart
<1> QED BY <1>1, <1>2, <1>3, <1>4 DEF IInv

(* Where a window's pixels are.                                            *)
LEMMA BufferIs ==
  ASSUME TypesOK, NEW h \in Handles
  PROVE  BufOf(h) \in Nat
<1>1. CASE IsChild(h)
  <2>1. child[h].parent \in Handles
    BY <1>1 DEF IsChild, TypesOK
  <2> QED BY <1>1, <2>1 DEF BufOf, TypesOK
<1>2. CASE ~IsChild(h)
  BY <1>2 DEF BufOf, TypesOK
<1> QED BY <1>1, <1>2

(* The contexts in use still draw where their windows do.                  *)
LEMMA DrawnKept ==
  ASSUME Drawn,
         \A g \in Handles : dc'[g] # 0 /\ Has(g)' => dc'[g] = dc[g] /\ Has(g) /\ BufOf(g)' = BufOf(g)
  PROVE  Drawn'
BY DEF Drawn

LEMMA SlotIs ==
  ASSUME TypesOK, NEW h \in Children
  PROVE  /\ child[h].parent \in {0} \cup Handles /\ child[h].parent \in Nat
         /\ child[h].class \in {"edit", "list"} /\ child[h].born \in Nat
<1>1. child[h] \in [parent : {0} \cup Handles, class : {"edit", "list"}, born : Nat]
  BY DEF TypesOK
<1>2. /\ child[h].parent \in {0} \cup Handles
      /\ child[h].class \in {"edit", "list"} /\ child[h].born \in Nat
  BY <1>1
<1>3. \A g \in {0} \cup Handles : g \in Nat
  BY Tables
<1> QED BY <1>2, <1>3

LEMMA CreateTopHolds ==
  ASSUME IInv, NEW area \in Areas, CreateTop(area), UNCHANGED << loop, msg, lost >>, calls' \in Nat
  PROVE  IInv'
<1>1. /\ TypesOK /\ made' = made + 1 /\ next' = next + 1 /\ made \in Nat /\ next \in Nat \ {0}
      /\ kern' = Append(kern, [id |-> next, area |-> area])
      /\ next \notin Handles => wnd_proc' = wnd_proc /\ wnd_buf' = wnd_buf /\ heap' = heap
      /\ next \in Handles => /\ wnd_proc' = [wnd_proc EXCEPT ![next] = "app"]
                             /\ wnd_buf' = [wnd_buf EXCEPT ![next] = next]
                             /\ heap' = heap \cup {next}
      /\ child' = child /\ lv_sel' = lv_sel /\ dc' = dc /\ msgq' = msgq
      /\ focus_edit' = focus_edit /\ focus_child' = focus_child /\ wm_focus_win' = wm_focus_win
  BY DEF CreateTop, focus, queue, IInv, TypesOK
<1>2. \A h \in Handles : h # next => wnd_proc'[h] = wnd_proc[h] /\ wnd_buf'[h] = wnd_buf[h]
  BY <1>1 DEF TypesOK
<1>3. next \in Handles => wnd_proc'[next] = "app" /\ wnd_buf'[next] = next /\ next \in heap'
  BY <1>1 DEF TypesOK
<1>4. [id |-> next, area |-> area] \in Windows
  BY <1>1 DEF Windows
<1>5. TypesOK'
  <2>1. kern' \in Seq(Windows)
    BY <1>1, <1>4 DEF TypesOK
  <2>2. wnd_proc \in [Handles -> {"none", "app", "builtin"}] /\ wnd_buf \in [Handles -> Nat]
    BY <1>1 DEF TypesOK
  <2>3. wnd_proc' \in [Handles -> {"none", "app", "builtin"}] /\ wnd_buf' \in [Handles -> Nat]
    <3>1. CASE next \in Handles
      BY <1>1, <2>2, <3>1
    <3>2. CASE next \notin Handles
      BY <1>1, <2>2, <3>2
    <3> QED BY <3>1, <3>2
  <2> QED BY <1>1, <2>1, <2>3 DEF TypesOK
<1>6. OwnBuffers'
  BY <1>1, <1>2, <1>3, Tables DEF IInv, OwnBuffers
<1>7. /\ Len(kern') = Len(kern) + 1 /\ Len(kern) \in Nat /\ kern'[Len(kern) + 1].id = next
      /\ \A i \in 1 .. Len(kern) : kern'[i] = kern[i] /\ kern[i].id < next /\ kern[i].id \in Nat
  <2>1. kern \in Seq(Windows)
    BY <1>1 DEF TypesOK
  <2>2. \A i \in 1 .. Len(kern) : kern[i] \in Windows
    BY <2>1
  <2>3. \A i \in 1 .. Len(kern) : kern[i].id < next /\ kern[i].id \in Nat
    BY <2>2 DEF IInv, Numbered, Windows
  <2> DEFINE w == [id |-> next, area |-> area]
  <2>4. w \in Windows /\ w.id = next
    BY <1>4
  <2> HIDE DEF w
  <2>5. /\ Len(Append(kern, w)) = Len(kern) + 1 /\ Append(kern, w)[Len(kern) + 1] = w
        /\ \A i \in 1 .. Len(kern) : Append(kern, w)[i] = kern[i]
    BY <2>1, <2>4
  <2> QED BY <1>1, <2>1, <2>3, <2>4, <2>5 DEF w
<1>8. \A i \in 1 .. Len(kern') : i \in 1 .. Len(kern) \/ i = Len(kern) + 1
  BY <1>7
<1>9. Numbered'
  <2>1. \A i \in 1 .. Len(kern') : kern'[i].id < next'
    BY <1>1, <1>7, <1>8
  <2>2. ASSUME NEW i \in 1 .. Len(kern'), NEW j \in 1 .. Len(kern'), kern'[i].id = kern'[j].id
        PROVE  i = j
    BY <1>1, <1>7, <1>8, <2>2 DEF IInv, Numbered
  <2> QED BY <2>1, <2>2 DEF Numbered
<1>10. Unnumbered'
  <2>1. ASSUME NEW h \in Handles, h >= next'
        PROVE  h >= next /\ wnd_proc'[h] = wnd_proc[h]
    BY <1>1, <1>2, <2>1, Tables
  <2> QED BY <1>1, <2>1 DEF IInv, Unnumbered
<1>11. /\ OneKey' /\ Dated' /\ ~lost' /\ OpensTheSelected'
       /\ next <= ChildBase => ClosesWindows'
  <2>1. ASSUME NEW h \in Children, IsList(h)'
        PROVE  IsList(h)
    <3>1. h \in Handles /\ child[h].parent # 0 /\ child[h].class = "list" /\ wnd_proc'[h] # "none"
      BY <1>1, <2>1 DEF IsList, IsChild, Has
    <3>2. h = next => wnd_proc[h] # "none"
      BY <1>1, <3>1, <2>1 DEF IInv, Unnumbered
    <3> QED BY <1>2, <2>1, <3>1, <3>2 DEF IsList, IsChild, Has
  <2>2. \A h \in Children : child'[h].parent # 0 => child'[h].born < made'
    BY <1>1 DEF IInv, Dated, TypesOK
  <2>3. Kept(msgq, msgq')
    BY <1>1, KeptItself
  <2> QED BY <1>1, <2>1, <2>2, <2>3, QueueHolds
<1>12. ASSUME next' <= ChildBase
       PROVE  ChildrenApart' /\ KernelShown' /\ Drawn'
  <2>1. /\ next <= ChildBase /\ next < ChildBase /\ next \in Handles /\ next \notin Children
    BY <1>1, <1>12, Tables
  <2>2. ChildrenApart /\ KernelShown /\ Drawn
    BY <2>1 DEF IInv, Apart
  <2>3. \A h \in Children : child[h].parent \in Nat
    BY <1>1, SlotIs
  <2>4. ChildrenApart'
    <3>1. ASSUME NEW h \in Children
          PROVE  /\ wnd_buf'[h] = 0 /\ wnd_proc'[h] # "app"
                 /\ wnd_proc'[h] = "builtin" <=> child'[h].parent # 0
                 /\ dc'[h] # 0 => child'[h].parent # 0
                 /\ child'[h].parent < next'
      <4>1. h # next /\ h \in Handles
        BY <2>1, Tables
      <4>2. child[h].parent < next + 1
        BY <1>1, <2>2, <2>3 DEF ChildrenApart
      <4> QED BY <1>1, <1>2, <2>2, <4>1, <4>2 DEF ChildrenApart
    <3>2. ASSUME NEW h \in Handles \ Children
          PROVE  /\ wnd_proc'[h] # "builtin"
                 /\ wnd_proc'[h] # "none" \/ dc'[h] # 0 => h < next'
      <4>1. CASE h = next
        BY <1>1, <1>3, <2>1, <4>1
      <4>2. CASE h # next
        <5>1. h \in Nat
          BY Tables
        <5>2. wnd_proc[h] # "builtin" /\ (wnd_proc[h] # "none" \/ dc[h] # 0 => h < next)
          BY <2>2 DEF ChildrenApart
        <5> QED BY <1>1, <1>2, <4>2, <5>1, <5>2
      <4> QED BY <4>1, <4>2
    <3> QED BY <3>1, <3>2 DEF ChildrenApart
  <2>5. KernelShown'
    BY <1>2, <1>3, <1>7, <1>8, <2>1, <2>2 DEF KernelShown
  <2>6. ASSUME NEW g \in Handles, dc'[g] # 0, Has(g)'
        PROVE  dc'[g] = dc[g] /\ Has(g) /\ BufOf(g)' = BufOf(g)
    <3>1. g # next
      BY <1>1, <2>1, <2>2, <2>6 DEF ChildrenApart
    <3>2. Has(g)
      BY <1>2, <2>6, <3>1 DEF Has
    <3>3. IsChild(g)' <=> IsChild(g)
      BY <1>1 DEF IsChild
    <3>4. IsChild(g) => /\ child[g].parent \in Handles
                        /\ wnd_buf'[child[g].parent] = wnd_buf[child[g].parent]
      <4>1. IsChild(g) => child[g].parent \in Handles /\ child[g].parent # next
        BY <1>1, <2>2, Tables DEF IsChild, ChildrenApart, TypesOK
      <4> QED BY <1>2, <4>1
    <3>5. BufOf(g)' = BufOf(g)
      BY <1>1, <1>2, <3>1, <3>3, <3>4 DEF BufOf
    <3> QED BY <1>1, <3>2, <3>5
  <2>7. Drawn'
    BY <2>2, <2>6, DrawnKept
  <2> QED BY <2>4, <2>5, <2>7
<1>13. Apart'
  <2>1. next' <= ChildBase => next <= ChildBase
    BY <1>1, Tables
  <2> QED BY <1>11, <1>12, <2>1 DEF Apart
<1> QED BY <1>5, <1>6, <1>9, <1>10, <1>11, <1>13 DEF IInv

LEMMA CreateChildHolds ==
  ASSUME IInv, NEW p \in Handles, NEW class \in {"edit", "list"}, Has(p), ~IsChild(p),
         CreateChild(p, class), UNCHANGED << loop, msg, lost >>, calls' \in Nat
  PROVE  IInv'
<1> DEFINE h == CHOOSE s \in FreeSlots : \A t \in FreeSlots : s <= t
<1>1. h \in Children /\ child[h].parent = 0
  <2>1. FreeSlots \subseteq Nat /\ FreeSlots # {}
    BY Tables DEF CreateChild, FreeSlots
  <2>2. h \in FreeSlots
    BY <2>1, LeastExists
  <2> QED BY <2>2 DEF FreeSlots
<1>2. /\ TypesOK /\ made' = made + 1 /\ made \in Nat /\ next' = next /\ kern' = kern /\ heap' = heap
      /\ child' = [child EXCEPT ![h] = [parent |-> p, class |-> class, born |-> made]]
      /\ wnd_proc' = [wnd_proc EXCEPT ![h] = "builtin"]
      /\ wnd_buf' = [wnd_buf EXCEPT ![h] = 0]
      /\ lv_sel' = [lv_sel EXCEPT ![h] = IF class = "list" THEN 0 ELSE @]
      /\ focus_edit' \in {h, focus_edit} /\ focus_child' \in {h, focus_child}
      /\ wm_focus_win' = wm_focus_win /\ msgq' = msgq /\ dc' = dc
  BY DEF CreateChild, queue, IInv, TypesOK
<1> HIDE DEF h
<1>3. /\ h \in Handles
      /\ child'[h] = [parent |-> p, class |-> class, born |-> made]
      /\ wnd_proc'[h] = "builtin" /\ wnd_buf'[h] = 0
      /\ \A g \in Children : g # h => child'[g] = child[g] /\ lv_sel'[g] = lv_sel[g]
      /\ \A g \in Handles : g # h => wnd_proc'[g] = wnd_proc[g] /\ wnd_buf'[g] = wnd_buf[g]
  BY <1>1, <1>2, Tables DEF TypesOK
<1>4. child'[h].parent = p /\ child'[h].class = class /\ child'[h].born = made /\ p # 0
  BY <1>3, Tables
<1>5. TypesOK'
  <2>1. child' \in [Children -> [parent : {0} \cup Handles, class : {"edit", "list"}, born : Nat]]
    <3>1. [parent |-> p, class |-> class, born |-> made] \in [parent : {0} \cup Handles, class : {"edit", "list"}, born : Nat]
      BY <1>2
    <3> QED BY <1>1, <1>2, <3>1 DEF TypesOK
  <2>2. wnd_proc' \in [Handles -> {"none", "app", "builtin"}] /\ wnd_buf' \in [Handles -> Nat]
    BY <1>2, <1>3 DEF TypesOK
  <2>3. lv_sel' \in [Children -> 0 .. Rows - 1]
    BY <1>1, <1>2, Tables DEF TypesOK
  <2>4. /\ focus_edit' \in {0} \cup Children /\ focus_child' \in {0} \cup Children
        /\ made' \in Nat
    BY <1>1, <1>2 DEF TypesOK
  <2> QED BY <1>2, <2>1, <2>2, <2>3, <2>4 DEF TypesOK
<1>6. OwnBuffers'
  BY <1>2, <1>3 DEF IInv, OwnBuffers
<1>7. Numbered'
  BY <1>2 DEF IInv, Numbered
<1>8. Unnumbered'
  BY <1>2, <1>3 DEF IInv, Unnumbered
<1>9. /\ OneKey' /\ Dated' /\ ~lost' /\ OpensTheSelected'
      /\ next <= ChildBase => ClosesWindows'
  <2>1. ASSUME NEW g \in Children, g # h
        PROVE  ~IsList(g)' \/ (IsList(g) /\ child'[g].born = child[g].born /\ lv_sel'[g] = lv_sel[g])
    BY <1>3, <2>1 DEF IsList, IsChild, Has
  <2>2. \A g \in Children : child'[g].parent # 0 => child'[g].born < made'
    <3>1. ASSUME NEW g \in Children, child'[g].parent # 0
          PROVE  child'[g].born < made'
      <4>1. CASE g = h
        BY <1>2, <1>4, <4>1
      <4>2. CASE g # h
        <5>1. child[g].born < made /\ child[g].born \in Nat
          BY <1>2, <1>3, <3>1, <4>2, SlotIs DEF IInv, Dated
        <5> QED BY <1>2, <1>3, <4>2, <5>1
      <4> QED BY <4>1, <4>2
    <3> QED BY <3>1
  <2>3. Kept(msgq, msgq')
    BY <1>2, KeptItself
  <2> QED BY <1>2, <1>4, <2>1, <2>2, <2>3, QueueHolds
<1>10. ASSUME next <= ChildBase
       PROVE  ChildrenApart' /\ KernelShown' /\ Drawn'
  <2>1. ChildrenApart /\ KernelShown /\ Drawn
    BY <1>10 DEF IInv, Apart
  <2>2. p < next
    <3>1. ASSUME p \in Children PROVE FALSE
      <4>1. wnd_proc[p] # "none" /\ wnd_proc[p] # "app" /\ wnd_proc[p] # "builtin"
        BY <2>1, <3>1 DEF ChildrenApart, Has, IsChild
      <4>2. wnd_proc[p] \in {"none", "app", "builtin"}
        BY <1>2 DEF TypesOK
      <4> QED BY <4>1, <4>2
    <3> QED BY <2>1, <3>1 DEF ChildrenApart, Has
  <2>3. ChildrenApart'
    <3>1. ASSUME NEW g \in Children
          PROVE  /\ wnd_buf'[g] = 0 /\ wnd_proc'[g] # "app"
                 /\ wnd_proc'[g] = "builtin" <=> child'[g].parent # 0
                 /\ dc'[g] # 0 => child'[g].parent # 0
                 /\ child'[g].parent < next'
      <4>1. CASE g = h
        BY <1>2, <1>3, <1>4, <2>2, <4>1
      <4>2. CASE g # h
        BY <1>2, <1>3, <2>1, <4>2, Tables DEF ChildrenApart
      <4> QED BY <4>1, <4>2
    <3>2. ASSUME NEW g \in Handles \ Children
          PROVE  /\ wnd_proc'[g] # "builtin"
                 /\ wnd_proc'[g] # "none" \/ dc'[g] # 0 => g < next'
      <4>1. g # h
        BY <1>1
      <4> QED BY <1>2, <1>3, <2>1, <4>1 DEF ChildrenApart
    <3> QED BY <3>1, <3>2 DEF ChildrenApart
  <2>4. KernelShown'
    BY <1>2, <1>3, <2>1 DEF KernelShown
  <2>5. ASSUME NEW g \in Handles, dc'[g] # 0, Has(g)'
        PROVE  dc'[g] = dc[g] /\ Has(g) /\ BufOf(g)' = BufOf(g)
    <3>1. g # h
      BY <1>1, <1>2, <2>1, <2>5 DEF ChildrenApart
    <3>2. Has(g)
      BY <1>3, <2>5, <3>1 DEF Has
    <3>3. \A x \in Handles : wnd_buf'[x] = wnd_buf[x]
      BY <1>1, <1>3, <2>1 DEF ChildrenApart
    <3>4. (IsChild(g)' <=> IsChild(g)) /\ (IsChild(g) => child'[g].parent = child[g].parent)
      BY <1>3, <3>1 DEF IsChild
    <3>5. BufOf(g)' = BufOf(g)
      BY <3>3, <3>4 DEF BufOf
    <3> QED BY <1>2, <3>2, <3>5
  <2>6. Drawn'
    BY <2>1, <2>5, DrawnKept
  <2> QED BY <2>3, <2>4, <2>6
<1>11. Apart'
  BY <1>2, <1>9, <1>10 DEF Apart
<1> QED BY <1>5, <1>6, <1>7, <1>8, <1>9, <1>11 DEF IInv

LEMMA DestroyChildHolds ==
  ASSUME Releases, IInv, NEW h \in Children, IsChild(h), ~Held(h), Destroy(h),
         UNCHANGED << next, made, lv_sel, focus, queue, dc, loop, msg, lost >>, calls' \in Nat
  PROVE  IInv'
<1>1. /\ TypesOK /\ h \in Handles /\ dc[h] = 0
      /\ child' = [child EXCEPT ![h].parent = 0] /\ wnd_proc' = [wnd_proc EXCEPT ![h] = "none"]
      /\ wnd_buf' = wnd_buf /\ heap' = heap /\ kern' = kern
      /\ next' = next /\ made' = made /\ made \in Nat /\ lv_sel' = lv_sel /\ msgq' = msgq /\ dc' = dc
      /\ focus_edit' = focus_edit /\ focus_child' = focus_child /\ wm_focus_win' = wm_focus_win
  BY Tables DEF Destroy, Held, focus, queue, IInv, TypesOK
<1>2. /\ child'[h].parent = 0 /\ wnd_proc'[h] = "none"
      /\ \A g \in Children : g # h => child'[g] = child[g]
      /\ \A g \in Handles : g # h => wnd_proc'[g] = wnd_proc[g]
      /\ \A g \in Children : child'[g].born = child[g].born /\ child'[g].parent \in {0, child[g].parent}
  BY <1>1 DEF TypesOK
<1>3. TypesOK'
  <2>1. child' \in [Children -> [parent : {0} \cup Handles, class : {"edit", "list"}, born : Nat]]
    BY <1>1 DEF TypesOK
  <2>2. wnd_proc' \in [Handles -> {"none", "app", "builtin"}]
    BY <1>1 DEF TypesOK
  <2> QED BY <1>1, <2>1, <2>2 DEF TypesOK
<1>4. OwnBuffers' /\ Numbered' /\ Unnumbered'
  BY <1>1, <1>2 DEF IInv, OwnBuffers, Numbered, Unnumbered
<1>5. /\ OneKey' /\ Dated' /\ ~lost' /\ OpensTheSelected'
      /\ next <= ChildBase => ClosesWindows'
  <2>1. \A g \in Children : \/ ~IsList(g)'
                            \/ IsList(g) /\ child'[g].born = child[g].born /\ lv_sel'[g] = lv_sel[g]
    BY <1>1, <1>2 DEF IsList, IsChild, Has
  <2>2. \A g \in Children : child'[g].parent # 0 => child'[g].born < made'
    BY <1>1, <1>2 DEF IInv, Dated
  <2>3. Kept(msgq, msgq')
    BY <1>1, KeptItself
  <2> QED BY <1>1, <2>1, <2>2, <2>3, QueueHolds
<1>6. ASSUME next <= ChildBase
      PROVE  ChildrenApart' /\ KernelShown' /\ Drawn'
  <2>1. ChildrenApart /\ KernelShown /\ Drawn
    BY <1>6 DEF IInv, Apart
  <2>2. ChildrenApart'
    BY <1>1, <1>2, <2>1 DEF ChildrenApart, TypesOK
  <2>3. KernelShown'
    <3>1. ASSUME NEW i \in 1 .. Len(kern) PROVE kern[i].id # h
      <4>1. kern[i] \in Windows /\ kern[i].id < next /\ next \in Nat
        BY <1>1 DEF IInv, Numbered, TypesOK
      <4>2. kern[i].id \in Nat /\ h \in Nat /\ h >= ChildBase /\ ChildBase \in Nat
        BY <4>1, Tables DEF Windows
      <4> QED BY <1>6, <4>1, <4>2
    <3> QED BY <1>1, <1>2, <2>1, <3>1 DEF KernelShown
  <2>4. ASSUME NEW g \in Handles, dc'[g] # 0, Has(g)'
        PROVE  dc'[g] = dc[g] /\ Has(g) /\ BufOf(g)' = BufOf(g)
    <3>1. g # h
      BY <1>1, <2>4
    <3>2. Has(g)
      BY <1>2, <2>4, <3>1 DEF Has
    <3>3. (IsChild(g)' <=> IsChild(g)) /\ (IsChild(g) => child'[g].parent = child[g].parent)
      BY <1>2, <3>1 DEF IsChild
    <3>4. BufOf(g)' = BufOf(g)
      BY <1>1, <3>3 DEF BufOf
    <3> QED BY <1>1, <3>2, <3>4
  <2>5. Drawn'
    BY <2>1, <2>4, DrawnKept
  <2> QED BY <2>2, <2>3, <2>5
<1>7. Apart'
  BY <1>1, <1>5, <1>6 DEF Apart
<1> QED BY <1>3, <1>4, <1>5, <1>7 DEF IInv

(* A context that is taken or released.                                    *)
LEMMA ContextHolds ==
  ASSUME IInv, NEW h \in Handles, GetDC(h) \/ ReleaseDC(h),
         UNCHANGED << windows, lv_sel, focus, queue, loop, msg, lost >>, calls' \in Nat
  PROVE  IInv'
<1>1. /\ TypesOK /\ child' = child /\ wnd_proc' = wnd_proc /\ wnd_buf' = wnd_buf /\ heap' = heap
      /\ kern' = kern /\ next' = next /\ made' = made /\ lv_sel' = lv_sel /\ msgq' = msgq
      /\ focus_edit' = focus_edit /\ focus_child' = focus_child /\ wm_focus_win' = wm_focus_win
      /\ dc \in [Handles -> Nat] /\ made \in Nat
  BY DEF windows, focus, queue, IInv, TypesOK
<1>2. /\ \A g \in Handles : g # h => dc'[g] = dc[g]
      /\ \/ dc'[h] \in {0, dc[h]}
         \/ dc'[h] = BufOf(h) /\ BufOf(h) # 0
      /\ dc' \in [Handles -> Nat]
  <2>1. CASE GetDC(h)
    <3>1. dc' = [dc EXCEPT ![h] = IF dc[h] = 0 THEN BufOf(h) ELSE dc[h]] /\ BufOf(h) # 0 /\ BufOf(h) \in Nat
      BY <1>1, <2>1, BufferIs DEF GetDC
    <3> QED BY <1>1, <3>1
  <2>2. CASE ReleaseDC(h)
    BY <1>1, <2>2 DEF ReleaseDC
  <2> QED BY <2>1, <2>2
<1>3. TypesOK'
  BY <1>1, <1>2 DEF TypesOK
<1>4. OwnBuffers' /\ Numbered' /\ Unnumbered'
  BY <1>1 DEF IInv, OwnBuffers, Numbered, Unnumbered
<1>5. /\ OneKey' /\ Dated' /\ ~lost' /\ OpensTheSelected'
      /\ next <= ChildBase => ClosesWindows'
  <2>1. \A g \in Children : \/ ~IsList(g)'
                            \/ IsList(g) /\ child'[g].born = child[g].born /\ lv_sel'[g] = lv_sel[g]
    BY <1>1 DEF IsList, IsChild, Has
  <2>2. \A g \in Children : child'[g].parent # 0 => child'[g].born < made'
    BY <1>1 DEF IInv, Dated
  <2>3. Kept(msgq, msgq')
    BY <1>1, KeptItself
  <2> QED BY <1>1, <2>1, <2>2, <2>3, QueueHolds
<1>6. ASSUME next <= ChildBase
      PROVE  ChildrenApart' /\ KernelShown' /\ Drawn'
  <2>1. ChildrenApart /\ KernelShown /\ Drawn
    BY <1>6 DEF IInv, Apart
  <2>2. BufOf(h) # 0 => IF h \in Children THEN child[h].parent # 0 ELSE h < next
    <3>1. CASE h \in Children
      BY <2>1, <3>1 DEF ChildrenApart, BufOf, IsChild
    <3>2. CASE h \notin Children
      BY <3>2 DEF IInv, OwnBuffers, BufOf, IsChild
    <3> QED BY <3>1, <3>2
  <2>3. dc'[h] # 0 => IF h \in Children THEN child[h].parent # 0 ELSE h < next
    BY <1>2, <2>1, <2>2 DEF ChildrenApart
  <2>4. ChildrenApart'
    <3>1. \A g \in Handles : dc'[g] # 0 => dc[g] # 0 \/ g = h
      BY <1>2
    <3> QED BY <1>1, <2>1, <2>3, <3>1, Tables DEF ChildrenApart
  <2>5. KernelShown'
    BY <1>1, <2>1 DEF KernelShown
  <2>6. \A g \in Handles : BufOf(g)' = BufOf(g) /\ (Has(g)' <=> Has(g))
    BY <1>1 DEF BufOf, IsChild, Has
  <2>7. Drawn'
    <3>1. ASSUME NEW g \in Handles, dc'[g] # 0, Has(g)'
          PROVE  dc'[g] = BufOf(g)'
      BY <1>2, <2>1, <2>6, <3>1 DEF Drawn
    <3> QED BY <3>1 DEF Drawn
  <2> QED BY <2>4, <2>5, <2>7
<1>7. Apart'
  BY <1>1, <1>5, <1>6 DEF Apart
<1> QED BY <1>3, <1>4, <1>5, <1>7 DEF IInv

(* The windows and contexts stay as they are.                              *)
LEMMA StillHolds ==
  ASSUME IInv, UNCHANGED << wnd_proc, wnd_buf, heap, kern, next, child, made, dc >>
  PROVE  /\ OwnBuffers' /\ Numbered' /\ Unnumbered'
         /\ next <= ChildBase => ChildrenApart' /\ KernelShown' /\ Drawn'
<1>1. \A g \in Handles : BufOf(g)' = BufOf(g) /\ (Has(g)' <=> Has(g))
  BY DEF BufOf, IsChild, Has
<1>2. ASSUME next <= ChildBase
      PROVE  ChildrenApart' /\ KernelShown' /\ Drawn'
  <2>1. ChildrenApart /\ KernelShown /\ Drawn
    BY <1>2 DEF IInv, Apart
  <2>2. ChildrenApart' /\ KernelShown'
    BY <2>1 DEF ChildrenApart, KernelShown
  <2>3. Drawn'
    BY <1>1, <2>1 DEF Drawn
  <2> QED BY <2>2, <2>3
<1> QED BY <1>2 DEF IInv, OwnBuffers, Numbered, Unnumbered

(* ... and the lists, in a step that pushes nothing of note.               *)
LEMMA ListsStill ==
  ASSUME IInv, Kept(msgq, msgq'), (msg' = msg /\ loop' = loop) \/ msg'.m = "none", lost' = lost,
         UNCHANGED << windows, lv_sel, dc >>
  PROVE  /\ OwnBuffers' /\ Numbered' /\ Unnumbered' /\ Apart'
         /\ OneKey' /\ Dated' /\ ~lost' /\ OpensTheSelected'
<1>1. /\ UNCHANGED << wnd_proc, wnd_buf, heap, kern, next, child, made, dc >>
      /\ lv_sel' = lv_sel /\ made \in Nat /\ TypesOK
  BY DEF windows, IInv, TypesOK
<1>2. \A g \in Children : \/ ~IsList(g)'
                          \/ IsList(g) /\ child'[g].born = child[g].born /\ lv_sel'[g] = lv_sel[g]
  BY <1>1 DEF IsList, IsChild, Has
<1>3. \A g \in Children : child'[g].parent # 0 => child'[g].born < made'
  BY <1>1 DEF IInv, Dated
<1>4. /\ OneKey' /\ Dated' /\ ~lost' /\ OpensTheSelected'
      /\ next <= ChildBase => ClosesWindows'
  BY <1>1, <1>2, <1>3, QueueHolds
<1>5. /\ OwnBuffers' /\ Numbered' /\ Unnumbered'
      /\ next <= ChildBase => ChildrenApart' /\ KernelShown' /\ Drawn'
  BY <1>1, StillHolds
<1> QED BY <1>1, <1>4, <1>5 DEF Apart

LEMMA SetFocusHolds ==
  ASSUME IInv, NEW h \in Handles, SetFocus(h),
         UNCHANGED << windows, lv_sel, focus_child, wm_focus_win, queue, dc, loop, msg, lost >>,
         calls' \in Nat
  PROVE  IInv'
<1>1. focus_edit' \in {0} \cup Children
  BY DEF SetFocus, IsChild, IInv, TypesOK
<1>2. TypesOK'
  BY <1>1 DEF windows, queue, IInv, TypesOK
<1>3. Kept(msgq, msgq')
  BY KeptItself DEF queue
<1> QED BY <1>2, <1>3, ListsStill DEF IInv

LEMMA PostHolds ==
  ASSUME IInv, NEW h \in Handles, msgq' = Pushed(msgq, << Message(h, "user", 0) >>),
         UNCHANGED << windows, lv_sel, focus, dc, loop, msg, lost >>, calls' \in Nat
  PROVE  IInv'
<1>1. Message(h, "user", 0) \in Msgs /\ Message(h, "user", 0).m = "user"
  <2>1. h \in Nat /\ "user" \in Kinds /\ 0 \in Payload
    BY Tables DEF Kinds, Payload
  <2> QED BY <2>1, MessageIs
<1>2. msgq' \in Seq(Msgs) /\ Len(msgq') < QMax /\ Kept(msgq, msgq')
  BY <1>1, PushedQuiet DEF Quiet, IInv
<1>3. TypesOK'
  BY <1>2 DEF windows, focus, IInv, TypesOK
<1> QED BY <1>2, <1>3, ListsStill DEF IInv

LEMMA CallHolds == Releases /\ IInv /\ Call => IInv'
<1> SUFFICES ASSUME Releases, IInv, Call PROVE IInv'
  OBVIOUS
<1>1. UNCHANGED << loop, msg, lost >> /\ calls' \in Nat
  BY DEF Call, IInv, TypesOK
<1>2. ASSUME NEW area \in Areas, CreateTop(area) PROVE IInv'
  BY <1>1, <1>2, CreateTopHolds
<1>3. ASSUME NEW p \in Handles, NEW class \in {"edit", "list"}, Has(p), ~IsChild(p), CreateChild(p, class)
      PROVE  IInv'
  BY <1>1, <1>3, CreateChildHolds
<1>4. ASSUME NEW h \in Children, IsChild(h), Releases => ~Held(h), Destroy(h),
             UNCHANGED << next, made, lv_sel, focus, queue, dc >>
      PROVE  IInv'
  BY <1>1, <1>4, DestroyChildHolds
<1>5. ASSUME NEW h \in Handles, GetDC(h) \/ (dc[h] # 0 /\ ReleaseDC(h)),
             UNCHANGED << windows, lv_sel, focus, queue >>
      PROVE  IInv'
  BY <1>1, <1>5, ContextHolds
<1>6. ASSUME NEW h \in Handles, SetFocus(h),
             UNCHANGED << windows, lv_sel, focus_child, wm_focus_win, queue, dc >>
      PROVE  IInv'
  BY <1>1, <1>6, SetFocusHolds
<1>7. ASSUME NEW h \in Handles, msgq' = Pushed(msgq, << Message(h, "user", 0) >>),
             UNCHANGED << windows, lv_sel, focus, quit_pending, dc >>
      PROVE  IInv'
  BY <1>1, <1>7, PostHolds
<1> QED BY <1>2, <1>3, <1>4, <1>5, <1>6, <1>7 DEF Call

-----------------------------------------------------------------------------
(* EVENTS                                                                  *)

(* Where an event goes.                                                    *)
Shown(p) == {h \in Handles : Has(h) /\ ~IsChild(h) /\ Covers(h, p)}

LEMMA UnderIs ==
  ASSUME NEW p
  PROVE  Under(p) \in Nat /\ (Shown(p) # {} => Under(p) \in Shown(p))
<1>1. Shown(p) \subseteq 0 .. MaxWnd - 1 /\ MaxWnd - 1 \in Nat
  BY User32Assumption DEF Handles, Shown
<1>2. Under(p) = Largest(Shown(p))
  BY DEF Under, Shown
<1>3. CASE Shown(p) # {}
  <2>1. Largest(Shown(p)) \in Shown(p)
    BY <1>1, <1>3, LargestIs
  <2>2. Largest(Shown(p)) \in 0 .. MaxWnd - 1
    BY <1>1, <2>1
  <2>3. \A x \in 0 .. MaxWnd - 1 : x \in Nat
    BY <1>1
  <2> QED BY <1>2, <2>1, <2>2, <2>3
<1>4. CASE Shown(p) = {}
  <2>1. Largest(Shown(p)) = 0
    BY <1>4 DEF Largest
  <2> QED BY <1>2, <1>4, <2>1
<1> QED BY <1>3, <1>4

LEMMA FirstIs == First \in Nat
<1> DEFINE S == {h \in Handles : Has(h)}
<1>1. S \subseteq Nat
  BY Tables
<1>2. First = IF S = {} THEN 1 ELSE CHOOSE h \in S : \A g \in S : h <= g
  BY DEF First
<1> HIDE DEF S
<1>3. CASE S # {}
  <2>1. \E h \in S : \A g \in S : h <= g
    BY <1>1, <1>3, LeastExists
  <2>2. (CHOOSE h \in S : \A g \in S : h <= g) \in S
    BY <2>1
  <2>3. First \in S
    BY <1>2, <1>3, <2>2
  <2> QED BY <1>1, <2>3
<1>4. CASE S = {}
  <2>1. First = 1
    BY <1>2, <1>4
  <2> QED BY <2>1
<1> QED BY <1>3, <1>4

LEMMA TargetIs ==
  ASSUME TypesOK, NEW p, NEW kept \in BOOLEAN
  PROVE  Target(p, kept) \in Nat /\ Under(p) \in Nat
<1>1. Under(p) \in Nat
  BY UnderIs
<1>2. First \in Nat /\ wm_focus_win \in Nat
  BY FirstIs DEF TypesOK
<1>3. Target(p, kept) \in {Under(p), wm_focus_win, First}
  BY DEF Target
<1> QED BY <1>1, <1>2, <1>3

LEMMA KeyTargetIs ==
  ASSUME TypesOK
  PROVE  KeyTarget \in Nat
<1>1. Target(Origin, TRUE) \in Nat
  BY TargetIs
<1>2. focus_edit \in Nat /\ focus_child \in Nat
  <2>1. focus_edit \in {0} \cup Children /\ focus_child \in {0} \cup Children
    BY DEF TypesOK
  <2>2. \A h \in {0} \cup Children : h \in Nat
    BY Tables
  <2> QED BY <2>1, <2>2
<1> QED BY <1>1, <1>2 DEF KeyTarget

(* A press on a close button goes to a window, not to a child.             *)
LEMMA CloseTarget ==
  ASSUME IInv, next <= ChildBase, NEW p, NEW i \in 1 .. Len(kern), p \in kern[i].area
  PROVE  Target(p, TRUE) \in Handles \ Children
<1>1. KernelShown
  BY DEF IInv, Apart
<1>2. ASSUME NEW j \in 1 .. Len(kern)
      PROVE  kern[j].id \in Handles /\ kern[j].id \notin Children /\ wnd_proc[kern[j].id] # "none"
  <2>1. kern[j].id \in Handles /\ kern[j].id < next /\ wnd_proc[kern[j].id] # "none" /\ next \in Nat
    BY <1>1 DEF KernelShown, IInv, Numbered, TypesOK
  <2>2. kern[j].id \in Nat /\ ChildBase \in Nat /\ (kern[j].id \in Children => kern[j].id >= ChildBase)
    BY <2>1, Tables
  <2>3. ~(kern[j].id >= ChildBase)
    BY <2>1, <2>2
  <2> QED BY <2>1, <2>2, <2>3
<1>3. kern[i].id \in Shown(p)
  <2>1. Has(kern[i].id) /\ ~IsChild(kern[i].id) /\ Covers(kern[i].id, p)
    BY <1>2 DEF Has, IsChild, Covers
  <2> QED BY <1>2, <2>1 DEF Shown
<1>4. Under(p) \in Shown(p)
  BY <1>3, UnderIs
<1>5. PICK j \in 1 .. Len(kern) : kern[j].id = Under(p)
  BY <1>4 DEF Shown, Covers
<1>6. Under(p) \in Handles \ Children /\ Under(p) # 0
  BY <1>2, <1>5, Tables
<1> QED BY <1>6 DEF Target

LEMMA TopIs ==
  ASSUME TypesOK, NEW p, TopAt(p) # 0
  PROVE  TopAt(p) \in 1 .. Len(kern) /\ p \in kern[TopAt(p)].area /\ kern[TopAt(p)].id \in Nat
<1> DEFINE S == {i \in 1 .. Len(kern) : p \in kern[i].area}
<1>1. kern \in Seq(Windows) /\ Len(kern) \in Nat /\ S \subseteq 0 .. Len(kern)
  BY DEF TypesOK
<1>2. TopAt(p) = Largest(S)
  BY DEF TopAt
<1> HIDE DEF S
<1>3. S # {}
  BY <1>2 DEF Largest
<1>4. TopAt(p) \in S
  <2>1. Largest(S) \in S
    BY <1>1, <1>3, LargestIs
  <2> QED BY <1>2, <2>1
<1>5. TopAt(p) \in 1 .. Len(kern) /\ p \in kern[TopAt(p)].area
  BY <1>4 DEF S
<1>6. kern[TopAt(p)] \in Windows
  BY <1>1, <1>5
<1> QED BY <1>5, <1>6 DEF Windows

(* What an event becomes fits in the queue, which was empty.               *)
LEMMA TranslateIs ==
  ASSUME TypesOK, ~lost, msgq = << >>, NEW ms \in Seq(Msgs), Len(ms) <= 2, Translate(ms)
  PROVE  /\ msgq' \in Seq(Msgs) /\ Len(msgq') < QMax /\ Len(msgq') = Len(ms) /\ ~lost'
         /\ \A i \in 1 .. Len(msgq') : msgq'[i] = ms[i]
<1>1. /\ msgq' = Pushed(msgq, ms) /\ lost' = (lost \/ Len(msgq') < Len(msgq) + Len(ms))
      /\ msgq \in Seq(Msgs) /\ Len(msgq) = 0 /\ Len(ms) \in Nat /\ QMax \in Nat /\ QMax >= 3
  BY Tables DEF Translate, TypesOK
<1>2. Len(msgq) < QMax /\ Len(msgq) + Len(ms) < QMax
  BY <1>1
<1>3. /\ msgq' \in Seq(Msgs) /\ Len(msgq') < QMax
      /\ \A i \in 1 .. Len(msgq') :
           \/ i \in 1 .. Len(msgq) /\ msgq'[i] = msgq[i]
           \/ \E j \in 1 .. Len(ms) : i = Len(msgq) + j /\ msgq'[i] = ms[j]
      /\ Len(msgq') = Len(msgq) + Len(ms)
  <2> DEFINE q == msgq
  <2>1. q \in Seq(Msgs) /\ Len(q) < QMax /\ Len(q) + Len(ms) < QMax /\ msgq' = Pushed(q, ms)
    BY <1>1, <1>2
  <2> HIDE DEF q
  <2>2. /\ msgq' \in Seq(Msgs) /\ Len(msgq') < QMax
        /\ \A i \in 1 .. Len(msgq') :
             \/ i \in 1 .. Len(q) /\ msgq'[i] = q[i]
             \/ \E j \in 1 .. Len(ms) : i = Len(q) + j /\ msgq'[i] = ms[j]
        /\ Len(msgq') = Len(q) + Len(ms)
    BY <2>1, PushedIs
  <2> QED BY <2>2 DEF q
<1>4. Len(msgq') = Len(ms) /\ ~lost'
  <2>1. Len(msgq') = Len(ms)
    BY <1>1, <1>3
  <2>2. ~(Len(msgq') < Len(msgq) + Len(ms))
    BY <1>1, <2>1
  <2> QED BY <1>1, <2>1, <2>2
<1>5. ASSUME NEW i \in 1 .. Len(msgq') PROVE msgq'[i] = ms[i]
  <2>1. i \notin 1 .. Len(msgq)
    BY <1>1
  <2>2. PICK j \in 1 .. Len(ms) : i = Len(msgq) + j /\ msgq'[i] = ms[j]
    BY <1>3, <2>1
  <2>3. i = j
    BY <1>1, <2>2
  <2> QED BY <2>2, <2>3
<1> QED BY <1>3, <1>4, <1>5

LEMMA OneMessage ==
  ASSUME NEW w \in Msgs
  PROVE  << w >> \in Seq(Msgs) /\ Len(<< w >>) = 1 /\ << w >>[1] = w
OBVIOUS

(* A press raises a window and becomes a message.                          *)
LEMMA ButtonHolds ==
  ASSUME IInv, loop = "run", msgq = << >>, NEW p, Button(p),
         UNCHANGED << lv_sel, focus_edit, focus_child, quit_pending, dc, loop, msg, peeks, calls >>
  PROVE  IInv'
<1> DEFINE i == TopAt(p)
           w == Message(Target(p, FALSE), "buttondown", kern[i].id)
<1>1. /\ TypesOK /\ Numbered /\ i # 0 /\ kern' = Raised(i)
      /\ wm_focus_win' \in {Under(p), wm_focus_win} /\ Translate(<< w >>)
      /\ UNCHANGED << wnd_proc, wnd_buf, heap, next, child, made >>
  BY DEF Button, IInv
<1>2. i \in 1 .. Len(kern) /\ kern[i].id \in Nat
  BY <1>1, TopIs
<1>3. w \in Msgs /\ w.m = "buttondown"
  <2>1. Target(p, FALSE) \in Nat /\ "buttondown" \in Kinds /\ kern[i].id \in Payload
    BY <1>1, <1>2, TargetIs DEF Kinds, Payload
  <2> HIDE DEF i
  <2> DEFINE t == Target(p, FALSE)  x == kern[i].id
  <2>2. t \in Nat /\ "buttondown" \in Kinds /\ x \in Payload /\ w = Message(t, "buttondown", x)
    BY <2>1
  <2> HIDE DEF t, x, w
  <2> QED BY <2>2, MessageIs
<1> HIDE DEF i, w
<1>4. /\ msgq' \in Seq(Msgs) /\ Len(msgq') < QMax /\ ~lost'
      /\ \A k \in 1 .. Len(msgq') : msgq'[k] = w
  <2> DEFINE ms == << w >>
  <2>1. ms \in Seq(Msgs) /\ Len(ms) = 1 /\ ms[1] = w /\ Translate(ms)
    BY <1>1, <1>3, OneMessage
  <2> HIDE DEF ms
  <2>2. /\ msgq' \in Seq(Msgs) /\ Len(msgq') < QMax /\ Len(msgq') = Len(ms) /\ ~lost'
        /\ \A k \in 1 .. Len(msgq') : msgq'[k] = ms[k]
    <3>1. TypesOK /\ ~lost /\ Len(ms) <= 2
      BY <2>1 DEF IInv
    <3> QED BY <2>1, <3>1, TranslateIs
  <2> QED BY <2>1, <2>2
<1>5. Kept(msgq, msgq')
  BY <1>3, <1>4 DEF Kept, Quiet
<1>6. Fewer(kern')
  BY <1>1, <1>2, RaisedIs DEF Fewer
<1>7. TypesOK'
  <2>1. wm_focus_win' \in Nat
    BY <1>1, TargetIs DEF TypesOK
  <2> QED BY <1>1, <1>4, <1>6, <2>1 DEF TypesOK, Fewer
<1>8. OwnBuffers' /\ Unnumbered'
  BY <1>1 DEF IInv, OwnBuffers, Unnumbered
<1>9. Numbered'
  BY <1>1, <1>6, NumbersKept DEF TypesOK
<1>10. /\ OneKey' /\ Dated' /\ ~lost' /\ OpensTheSelected'
       /\ next <= ChildBase => ClosesWindows'
  <2>1. \A g \in Children : \/ ~IsList(g)'
                            \/ IsList(g) /\ child'[g].born = child[g].born /\ lv_sel'[g] = lv_sel[g]
    BY <1>1 DEF IsList, IsChild, Has
  <2>2. \A g \in Children : child'[g].parent # 0 => child'[g].born < made'
    BY <1>1 DEF IInv, Dated
  <2>3. made' \in Nat /\ made' >= made
    BY <1>1 DEF TypesOK
  <2> QED BY <1>4, <1>5, <2>1, <2>2, <2>3, QueueHolds
<1>11. ASSUME next <= ChildBase
       PROVE  ChildrenApart' /\ KernelShown' /\ Drawn'
  <2>1. ChildrenApart /\ KernelShown /\ Drawn
    BY <1>11 DEF IInv, Apart
  <2>2. ChildrenApart'
    BY <1>1, <2>1 DEF ChildrenApart
  <2>3. KernelShown'
    BY <1>1, <1>6, <2>1 DEF KernelShown, Fewer
  <2>4. \A g \in Handles : BufOf(g)' = BufOf(g) /\ (Has(g)' <=> Has(g))
    BY <1>1 DEF BufOf, IsChild, Has
  <2>5. Drawn'
    BY <2>1, <2>4 DEF Drawn
  <2> QED BY <2>2, <2>3, <2>5
<1>12. Apart'
  BY <1>1, <1>10, <1>11 DEF Apart
<1> QED BY <1>7, <1>8, <1>9, <1>10, <1>12 DEF IInv

(* An event that leaves the windows becomes messages that are not about a  *)
(* row.                                                                    *)
LEMMA EventHolds ==
  ASSUME IInv, loop = "run", msgq = << >>,
         NEW ms \in Seq(Msgs), Len(ms) <= 2, Translate(ms),
         UNCHANGED << windows, wm_focus_win >>,
         UNCHANGED << lv_sel, focus_edit, focus_child, quit_pending, dc, loop, msg, peeks, calls >>,
         \A k \in 1 .. Len(ms) : ms[k].m # "command" /\ (ms[k].m = "keydown" => k = 1),
         next <= ChildBase => \A k \in 1 .. Len(ms) : ToWindow(ms[k])
  PROVE  IInv'
<1>1. /\ TypesOK /\ UNCHANGED << wnd_proc, wnd_buf, heap, kern, next, child, made, dc >>
      /\ lv_sel' = lv_sel /\ loop' = loop /\ msg' = msg
      /\ focus_edit' = focus_edit /\ focus_child' = focus_child /\ wm_focus_win' = wm_focus_win
      /\ calls' = calls
  BY DEF windows, IInv
<1>2. /\ msgq' \in Seq(Msgs) /\ Len(msgq') < QMax /\ Len(msgq') = Len(ms) /\ ~lost'
      /\ \A k \in 1 .. Len(msgq') : msgq'[k] = ms[k]
  BY <1>1, TranslateIs DEF IInv
<1>3. TypesOK'
  BY <1>1, <1>2 DEF TypesOK
<1>4. msg.m # "keydown"
  BY DEF IInv, OneKey
<1>5. NoneOpened'
  BY <1>2 DEF NoneOpened
<1>6. OneKey'
  BY <1>1, <1>2, <1>4, <1>5 DEF OneKey
<1>7. Dated' /\ OpensTheSelected'
  <2>1. \A k \in 1 .. Len(msgq') : msgq'[k].m # "command"
    BY <1>2
  <2>2. Dated'
    BY <1>1, <2>1 DEF IInv, Dated
  <2> QED BY <2>1, <2>2 DEF OpensTheSelected
<1>8. next <= ChildBase => ClosesWindows'
  BY <1>1, <1>2 DEF IInv, Apart, ClosesWindows, ToWindow
<1>9. /\ OwnBuffers' /\ Numbered' /\ Unnumbered'
      /\ next <= ChildBase => ChildrenApart' /\ KernelShown' /\ Drawn'
  BY <1>1, StillHolds
<1>10. Apart'
  BY <1>1, <1>8, <1>9 DEF Apart
<1> QED BY <1>2, <1>3, <1>6, <1>7, <1>9, <1>10 DEF IInv

LEMMA FetchHolds == IInv /\ Fetch => IInv'
<1> SUFFICES ASSUME IInv, Fetch PROVE IInv'
  OBVIOUS
<1>1. /\ loop = "run" /\ msgq = << >> /\ TypesOK
      /\ UNCHANGED << lv_sel, focus_edit, focus_child, quit_pending, dc, loop, msg, peeks, calls >>
  BY DEF Fetch, IInv
<1>2. ASSUME NEW p \in Points, Button(p) PROVE IInv'
  BY <1>1, <1>2, ButtonHolds
<1>3. ASSUME NEW p \in Points, CloseBox(p) PROVE IInv'
  <2> DEFINE w == Message(Target(p, TRUE), "close", kern[TopAt(p)].id)
  <2>1. TopAt(p) # 0 /\ Translate(<< w >>) /\ UNCHANGED << windows, wm_focus_win >>
    BY <1>3 DEF CloseBox
  <2>2. TopAt(p) \in 1 .. Len(kern) /\ p \in kern[TopAt(p)].area /\ kern[TopAt(p)].id \in Nat
    BY <1>1, <2>1, TopIs
  <2>3. w \in Msgs /\ w.m = "close" /\ w.hwnd = Target(p, TRUE)
    <3>1. Target(p, TRUE) \in Nat /\ "close" \in Kinds /\ kern[TopAt(p)].id \in Payload
      BY <1>1, <2>2, TargetIs DEF Kinds, Payload
    <3> DEFINE t == Target(p, TRUE)  x == kern[TopAt(p)].id
    <3>2. t \in Nat /\ "close" \in Kinds /\ x \in Payload /\ w = Message(t, "close", x)
      BY <3>1
    <3> HIDE DEF t, x, w
    <3>3. w \in Msgs /\ w.m = "close" /\ w.hwnd = t
      BY <3>2, MessageIs
    <3> QED BY <3>3 DEF t
  <2>4. next <= ChildBase => ToWindow(w)
    BY <2>2, <2>3, CloseTarget DEF ToWindow
  <2> HIDE DEF w
  <2>5. /\ << w >> \in Seq(Msgs) /\ Len(<< w >>) <= 2 /\ \A k \in 1 .. Len(<< w >>) : << w >>[k] = w
    BY <2>3
  <2> DEFINE ms == << w >>
  <2>6. /\ ms \in Seq(Msgs) /\ Len(ms) <= 2 /\ Translate(ms)
        /\ \A k \in 1 .. Len(ms) : ms[k].m # "command" /\ (ms[k].m = "keydown" => k = 1)
        /\ next <= ChildBase => \A k \in 1 .. Len(ms) : ToWindow(ms[k])
    BY <2>1, <2>3, <2>4, <2>5
  <2> HIDE DEF ms
  <2> QED BY <1>1, <2>1, <2>6, EventHolds
<1>4. ASSUME NEW k \in {"letter", "up", "down", "enter"}, Key(k) PROVE IInv'
  <2> DEFINE d == Message(KeyTarget, "keydown", k)  c == Message(KeyTarget, "char", k)
  <2>1. UNCHANGED << windows, wm_focus_win >> /\ (Translate(<< d, c >>) \/ Translate(<< d >>))
    BY <1>4 DEF Key
  <2>2. d \in Msgs /\ d.m = "keydown" /\ c \in Msgs /\ c.m = "char"
    <3>1. KeyTarget \in Nat /\ "keydown" \in Kinds /\ "char" \in Kinds /\ k \in Payload
      BY <1>1, KeyTargetIs DEF Kinds, Payload
    <3> QED BY <3>1, MessageIs
  <2> HIDE DEF d, c
  <2>3. PICK ms \in {<< d, c >>, << d >>} : Translate(ms)
    BY <2>1
  <2>4. ms \in Seq(Msgs) /\ Len(ms) \in 1 .. 2 /\ ms[1] = d /\ (Len(ms) = 2 => ms[2] = c)
    <3>1. CASE ms = << d, c >>
      BY <2>2, <3>1
    <3>2. CASE ms = << d >>
      BY <2>2, <3>2
    <3> QED BY <2>3, <3>1, <3>2
  <2>5. \A j \in 1 .. Len(ms) : (j = 1 /\ ms[j].m = "keydown") \/ ms[j].m = "char"
    BY <2>2, <2>4
  <2>6. /\ Len(ms) <= 2
        /\ \A j \in 1 .. Len(ms) : ms[j].m # "command" /\ (ms[j].m = "keydown" => j = 1)
        /\ next <= ChildBase => \A j \in 1 .. Len(ms) : ToWindow(ms[j])
    BY <2>4, <2>5 DEF ToWindow
  <2> QED BY <1>1, <2>1, <2>3, <2>4, <2>6, EventHolds
<1> QED BY <1>2, <1>3, <1>4 DEF Fetch, Event

-----------------------------------------------------------------------------
(* TAKING A MESSAGE                                                        *)

LEMMA TakeHolds == IInv /\ Take => IInv'
<1> SUFFICES ASSUME IInv, Take PROVE IInv'
  OBVIOUS
<1>1. /\ TypesOK /\ loop = "run" /\ ~lost' /\ calls' = calls
      /\ UNCHANGED << windows, lv_sel, focus_edit, focus_child, wm_focus_win, dc >>
      /\ UNCHANGED << wnd_proc, wnd_buf, heap, kern, next, child, made, dc >>
  BY DEF Take, windows, focus, IInv
<1>2. /\ OwnBuffers' /\ Numbered' /\ Unnumbered'
      /\ next <= ChildBase => ChildrenApart' /\ KernelShown' /\ Drawn'
  BY <1>1, StillHolds
<1>3. ASSUME loop' = "ended", UNCHANGED << msgq, msg >> PROVE IInv'
  <2>1. TypesOK'
    BY <1>1, <1>3 DEF TypesOK
  <2>2. OneKey'
    BY <1>3 DEF IInv, OneKey, NoneOpened
  <2>3. Dated' /\ OpensTheSelected'
    BY <1>1, <1>3 DEF IInv, Dated, OpensTheSelected, IsList, IsChild, Has
  <2>4. next <= ChildBase => ClosesWindows'
    BY <1>1, <1>3 DEF IInv, Apart, ClosesWindows, ToWindow
  <2>5. Apart'
    BY <1>1, <1>2, <2>4 DEF Apart
  <2> QED BY <1>1, <1>2, <2>1, <2>2, <2>3, <2>5 DEF IInv
<1>4. ASSUME msgq # << >>, msgq' = Tail(msgq), msg' = Head(msgq),
             loop' = IF Head(msgq).m = "quit" THEN "ended" ELSE "handle"
      PROVE  IInv'
  <2>1. /\ msgq' \in Seq(Msgs) /\ Len(msgq') = Len(msgq) - 1 /\ Len(msgq) \in Nat /\ Len(msgq) >= 1
        /\ msg' = msgq[1] /\ msg' \in Msgs
        /\ \A i \in 1 .. Len(msgq') : i + 1 \in 1 .. Len(msgq) /\ msgq'[i] = msgq[i + 1]
    <3>1. msgq \in Seq(Msgs)
      BY <1>1 DEF TypesOK
    <3>2. Len(msgq) \in Nat /\ Len(msgq) >= 1
      BY <1>4, <3>1
    <3>3. Tail(msgq) \in Seq(Msgs) /\ Len(Tail(msgq)) = Len(msgq) - 1 /\ Head(msgq) = msgq[1]
          /\ \A i \in 1 .. Len(msgq) - 1 : Tail(msgq)[i] = msgq[i + 1]
      BY <1>4, <3>1
    <3>4. \A i \in 1 .. Len(msgq) - 1 : i + 1 \in 1 .. Len(msgq)
      BY <3>2
    <3>5. msgq[1] \in Msgs
      BY <3>1, <3>2
    <3> QED BY <1>4, <3>2, <3>3, <3>4, <3>5
  <2>2. loop' \in {"handle", "ended"}
    BY <1>4
  <2>3. TypesOK'
    <3>1. Len(msgq') < QMax
      BY <1>1, <2>1, Tables DEF TypesOK
    <3> QED BY <1>1, <2>1, <2>2, <3>1 DEF TypesOK
  <2>4. NoneOpened => NoneOpened'
    BY <2>1 DEF NoneOpened
  <2>5. OneKey'
    <3>1. \A i \in 1 .. Len(msgq') : msgq'[i].m # "keydown"
      <4>1. ASSUME NEW i \in 1 .. Len(msgq'), msgq'[i].m = "keydown" PROVE FALSE
        <5>1. i + 1 \in 1 .. Len(msgq) /\ msgq[i + 1].m = "keydown"
          BY <2>1, <4>1
        <5>2. i + 1 = 1
          BY <5>1 DEF IInv, OneKey
        <5>3. i \in Nat /\ i >= 1
          OBVIOUS
        <5> QED BY <5>2, <5>3
      <4> QED BY <4>1
    <3>2. msg'.m = "keydown" => loop' # "run" /\ NoneOpened'
      <4>1. 1 \in 1 .. Len(msgq)
        BY <2>1
      <4> QED BY <2>1, <2>2, <2>4, <4>1 DEF IInv, OneKey
    <3> QED BY <3>1, <3>2 DEF OneKey
  <2>6. Dated'
    BY <1>1, <2>1 DEF IInv, Dated
  <2>7. OpensTheSelected'
    <3>1. ASSUME NEW i \in 1 .. Len(msgq'), msgq'[i].m = "command", NEW x, msgq'[i].x = x,
                 child'[x.list].born = x.born, IsList(x.list)'
          PROVE  lv_sel'[x.list] = x.row
      <4>1. i + 1 \in 1 .. Len(msgq) /\ msgq[i + 1].m = "command" /\ msgq[i + 1].x = x
        BY <2>1, <3>1
      <4>2. child[x.list].born = x.born /\ IsList(x.list)
        BY <1>1, <3>1 DEF IsList, IsChild, Has
      <4> QED BY <1>1, <4>1, <4>2 DEF IInv, OpensTheSelected
    <3> QED BY <3>1 DEF OpensTheSelected, IsList, IsChild, Has
  <2>8. next <= ChildBase => ClosesWindows'
    <3>1. ASSUME next <= ChildBase PROVE ClosesWindows'
      <4>1. ClosesWindows /\ 1 \in 1 .. Len(msgq)
        BY <2>1, <3>1 DEF IInv, Apart
      <4>2. ToWindow(msg')
        BY <2>1, <4>1 DEF ClosesWindows
      <4>3. \A i \in 1 .. Len(msgq') : ToWindow(msgq'[i])
        BY <2>1, <4>1 DEF ClosesWindows
      <4> QED BY <4>2, <4>3 DEF ClosesWindows, ToWindow
    <3> QED BY <3>1
  <2>9. Apart'
    BY <1>1, <1>2, <2>8 DEF Apart
  <2> QED BY <1>1, <1>2, <2>3, <2>5, <2>6, <2>7, <2>9 DEF IInv
<1> QED BY <1>3, <1>4 DEF Take

-----------------------------------------------------------------------------
(* HANDLING A MESSAGE                                                      *)

(* The WM_QUIT and the end of a message are of no note.                    *)
LEMMA QuitIs ==
  ASSUME IInv, Quit(msgq), Done
  PROVE  /\ msgq' \in Seq(Msgs) /\ Len(msgq') < QMax /\ Kept(msgq, msgq')
         /\ msg' \in Msgs /\ msg'.m = "none" /\ loop' = "run" /\ lost' = lost /\ calls' = calls
<1>1. Message(0, "quit", 0) \in Msgs /\ Message(0, "quit", 0).m = "quit"
  <2>1. 0 \in Nat /\ "quit" \in Kinds /\ 0 \in Payload
    BY DEF Kinds, Payload
  <2> QED BY <2>1, MessageIs
<1>2. msgq' \in Seq(Msgs) /\ Len(msgq') < QMax /\ Kept(msgq, msgq')
  BY <1>1, PushedQuiet DEF Quit, Quiet, IInv
<1> QED BY <1>2, NoMsgIs DEF Done

LEMMA HandleOtherHolds ==
  ASSUME IInv, HandleOther, Done
  PROVE  IInv'
<1>1. UNCHANGED << windows, lv_sel, focus, queue, dc >> /\ msg' = NoMsg /\ loop' = "run"
      /\ lost' = lost /\ calls' = calls
  BY DEF HandleOther, Done
<1>2. TypesOK'
  BY <1>1, NoMsgIs DEF windows, focus, queue, IInv, TypesOK
<1>3. Kept(msgq, msgq') /\ msg'.m = "none"
  BY <1>1, KeptItself, NoMsgIs DEF queue
<1> QED BY <1>1, <1>2, <1>3, ListsStill DEF IInv


(* A window that its program or DefWindowProcA took away.                  *)
LEMMA GoneHolds ==
  ASSUME IInv, NEW h \in Handles, msg.m = "close", msg.hwnd = h, h >= next => ~IsChild(h),
         wnd_proc' = [wnd_proc EXCEPT ![h] = "none"], kern' = Without(h),
         wnd_buf' \in [Handles -> Nat], OwnBuffers',
         next <= ChildBase =>
           \A g \in Handles : g # h /\ dc[g] # 0 /\ Has(g) => BufOf(g)' = BufOf(g),
         UNCHANGED << next, child, made, lv_sel, focus, dc >>, Quit(msgq), Done
  PROVE  IInv'
<1>1. /\ TypesOK /\ Numbered /\ next' = next /\ child' = child /\ made' = made /\ lv_sel' = lv_sel
      /\ dc' = dc /\ focus_edit' = focus_edit /\ focus_child' = focus_child
      /\ wm_focus_win' = wm_focus_win /\ made \in Nat /\ next \in Nat
  BY DEF focus, IInv, TypesOK
<1>2. /\ msgq' \in Seq(Msgs) /\ Len(msgq') < QMax /\ Kept(msgq, msgq')
      /\ msg' \in Msgs /\ msg'.m = "none" /\ loop' = "run" /\ lost' = lost /\ calls' = calls
  BY QuitIs
<1>3. wnd_proc'[h] = "none" /\ \A g \in Handles : g # h => wnd_proc'[g] = wnd_proc[g]
  BY <1>1 DEF TypesOK
<1>4. /\ kern' \in Seq(Windows)
      /\ \A k \in 1 .. Len(kern') : \E j \in 1 .. Len(kern) : kern'[k] = kern[j] /\ kern[j].id # h
      /\ \A k, l \in 1 .. Len(kern') : kern'[k].id = kern'[l].id => k = l
  <2>1. /\ Without(h) \in Seq(Windows)
        /\ \A k \in 1 .. Len(Without(h)) :
             \E j \in 1 .. Len(kern) : Without(h)[k] = kern[j] /\ kern[j].id # h
        /\ \A k, l \in 1 .. Len(Without(h)) : Without(h)[k].id = Without(h)[l].id => k = l
    BY <1>1, WithoutIs
  <2> QED BY <2>1
<1>5. TypesOK'
  <2>1. wnd_proc' \in [Handles -> {"none", "app", "builtin"}]
    BY <1>1 DEF TypesOK
  <2> QED BY <1>1, <1>2, <1>4, <2>1 DEF TypesOK
<1>6. Numbered'
  <2>1. Fewer(kern')
    BY <1>4 DEF Fewer
  <2> QED BY <1>1, <2>1, NumbersKept
<1>7. Unnumbered'
  BY <1>1, <1>3 DEF IInv, Unnumbered, IsChild
<1>8. /\ OneKey' /\ Dated' /\ ~lost' /\ OpensTheSelected'
      /\ next <= ChildBase => ClosesWindows'
  <2>1. \A g \in Children : \/ ~IsList(g)'
                            \/ IsList(g) /\ child'[g].born = child[g].born /\ lv_sel'[g] = lv_sel[g]
    BY <1>1, <1>3 DEF IsList, IsChild, Has
  <2>2. \A g \in Children : child'[g].parent # 0 => child'[g].born < made'
    BY <1>1 DEF IInv, Dated
  <2> QED BY <1>1, <1>2, <2>1, <2>2, QueueHolds
<1>9. ASSUME next <= ChildBase
      PROVE  ChildrenApart' /\ KernelShown' /\ Drawn'
  <2>1. ChildrenApart /\ KernelShown /\ Drawn /\ h \notin Children
    BY <1>9 DEF IInv, Apart, ClosesWindows, ToWindow
  <2>2. \A g \in Children : wnd_buf'[g] = 0
    <3>1. \A g \in Children : g \in Handles /\ ~(g < next)
      BY <1>1, <1>9, Tables
    <3> QED BY <1>1, <3>1 DEF OwnBuffers
  <2>3. ChildrenApart'
    <3>1. ASSUME NEW g \in Children
          PROVE  /\ wnd_buf'[g] = 0 /\ wnd_proc'[g] # "app"
                 /\ wnd_proc'[g] = "builtin" <=> child'[g].parent # 0
                 /\ dc'[g] # 0 => child'[g].parent # 0
                 /\ child'[g].parent < next'
      <4>1. g # h /\ g \in Handles
        BY <2>1, Tables
      <4> QED BY <1>1, <1>3, <2>1, <2>2, <4>1 DEF ChildrenApart
    <3>2. ASSUME NEW g \in Handles \ Children
          PROVE  /\ wnd_proc'[g] # "builtin"
                 /\ wnd_proc'[g] # "none" \/ dc'[g] # 0 => g < next'
      <4>1. wnd_proc'[g] \in {"none", wnd_proc[g]}
        BY <1>3
      <4> QED BY <1>1, <2>1, <4>1 DEF ChildrenApart
    <3> QED BY <3>1, <3>2 DEF ChildrenApart
  <2>4. KernelShown'
    <3>1. ASSUME NEW k \in 1 .. Len(kern')
          PROVE  kern'[k].id \in Handles /\ wnd_proc'[kern'[k].id] # "none"
      <4>1. PICK j \in 1 .. Len(kern) : kern'[k] = kern[j] /\ kern[j].id # h
        BY <1>4
      <4>2. kern[j].id \in Handles /\ wnd_proc[kern[j].id] # "none"
        BY <2>1 DEF KernelShown
      <4> QED BY <1>3, <4>1, <4>2
    <3> QED BY <3>1 DEF KernelShown
  <2>5. ASSUME NEW g \in Handles, dc'[g] # 0, Has(g)'
        PROVE  dc'[g] = dc[g] /\ Has(g) /\ BufOf(g)' = BufOf(g)
    <3>1. g # h
      BY <1>3, <2>5 DEF Has
    <3>2. Has(g)
      BY <1>3, <2>5, <3>1 DEF Has
    <3> QED BY <1>1, <1>9, <2>5, <3>1, <3>2
  <2>6. Drawn'
    BY <2>1, <2>5, DrawnKept
  <2> QED BY <2>3, <2>4, <2>6
<1>10. Apart'
  BY <1>1, <1>8, <1>9 DEF Apart
<1> QED BY <1>5, <1>6, <1>7, <1>8, <1>10 DEF IInv

LEMMA DefCloseHolds ==
  ASSUME IInv, msg.m = "close", DefClose(msg.hwnd), UNCHANGED << lv_sel, focus, dc >>, Done
  PROVE  IInv'
<1> DEFINE h == msg.hwnd
<1>1. /\ wnd_proc' = IF h \in Handles THEN [wnd_proc EXCEPT ![h] = "none"] ELSE wnd_proc
      /\ kern' = IF h \in Handles THEN Without(h) ELSE kern
      /\ ~(Has(h) /\ wnd_proc[h] = "builtin")
      /\ Quit(msgq) /\ UNCHANGED << wnd_buf, heap, next, child, made >>
  BY DEF DefClose
<1> HIDE DEF h
<1>2. CASE h \in Handles
  <2>1. wnd_proc' = [wnd_proc EXCEPT ![h] = "none"] /\ kern' = Without(h)
    BY <1>1, <1>2
  <2>2. h >= next => ~IsChild(h)
    BY <1>1, <1>2 DEF IInv, Unnumbered, IsChild, Has
  <2>3. wnd_buf' \in [Handles -> Nat] /\ OwnBuffers'
    BY <1>1 DEF IInv, OwnBuffers, TypesOK
  <2>4. \A g \in Handles : BufOf(g)' = BufOf(g)
    BY <1>1 DEF BufOf, IsChild
  <2>5. msg.hwnd = h
    BY DEF h
  <2> QED BY <1>1, <1>2, <2>1, <2>2, <2>3, <2>4, <2>5, GoneHolds
<1>3. CASE h \notin Handles
  <2>1. UNCHANGED windows
    BY <1>1, <1>3 DEF windows
  <2>2. /\ msgq' \in Seq(Msgs) /\ Len(msgq') < QMax /\ Kept(msgq, msgq')
        /\ msg' \in Msgs /\ msg'.m = "none" /\ loop' = "run" /\ lost' = lost /\ calls' = calls
    BY <1>1, QuitIs
  <2>3. TypesOK'
    BY <2>1, <2>2 DEF windows, focus, IInv, TypesOK
  <2> QED BY <2>1, <2>2, <2>3, ListsStill DEF IInv
<1> QED BY <1>2, <1>3

LEMMA CloseDestroysHolds ==
  ASSUME Releases, IInv, msg.m = "close", CloseDestroys(msg.hwnd),
         UNCHANGED << lv_sel, focus, dc >>, Done
  PROVE  IInv'
<1> DEFINE h == msg.hwnd
<1>1. /\ h \in Handles /\ ~IsChild(h) /\ ~Held(h) /\ TypesOK
      /\ wnd_proc' = [wnd_proc EXCEPT ![h] = "none"] /\ kern' = Without(h)
      /\ wnd_buf' = [wnd_buf EXCEPT ![h] = 0] /\ heap' = heap \ {wnd_buf[h]}
      /\ Quit(msgq) /\ UNCHANGED << next, child, made >> /\ msg.hwnd = h
  BY DEF CloseDestroys, Destroy, Has, IInv
<1> HIDE DEF h
<1>2. /\ wnd_buf' \in [Handles -> Nat] /\ wnd_buf'[h] = 0
      /\ \A g \in Handles : g # h => wnd_buf'[g] = wnd_buf[g]
  BY <1>1 DEF TypesOK
<1>3. OwnBuffers'
  <2>1. ASSUME NEW g \in Handles, wnd_buf'[g] # 0
        PROVE  wnd_buf'[g] = g /\ g \in heap' /\ g < next'
    <3>1. g # h /\ wnd_buf[g] = g /\ g \in heap /\ g < next
      BY <1>2, <2>1 DEF IInv, OwnBuffers
    <3>2. wnd_buf[h] \in {0, h} /\ g # 0
      BY <1>1, Tables DEF IInv, OwnBuffers
    <3> QED BY <1>1, <1>2, <3>1, <3>2
  <2> QED BY <2>1 DEF OwnBuffers
<1>4. ASSUME NEW g \in Handles, g # h, dc[g] # 0, Has(g)
      PROVE  BufOf(g)' = BufOf(g)
  <2>1. IsChild(g)' <=> IsChild(g)
    BY <1>1 DEF IsChild
  <2>2. CASE IsChild(g)
    <3>1. child[g].parent # h /\ child'[g].parent = child[g].parent
      BY <1>1, <1>4, <2>2 DEF Held, IsChild
    <3> QED BY <1>2, <2>1, <2>2, <3>1 DEF BufOf
  <2>3. CASE ~IsChild(g)
    BY <1>2, <1>4, <2>1, <2>3 DEF BufOf
  <2> QED BY <2>2, <2>3
<1> QED BY <1>1, <1>2, <1>3, <1>4, GoneHolds

LEMMA CloseControlHolds ==
  ASSUME IInv, msg.m = "close", CloseControl(msg.hwnd), UNCHANGED << lv_sel, focus, dc >>, Done
  PROVE  IInv'
<1> DEFINE h == msg.hwnd
<1>1. /\ TypesOK /\ h \in Handles /\ wnd_proc[h] = "builtin"
      /\ child' = [child EXCEPT ![h].parent = 0]
      /\ UNCHANGED << wnd_proc, wnd_buf, heap, kern, next, made, lv_sel, dc, msgq >>
      /\ focus_edit' = focus_edit /\ focus_child' = focus_child /\ wm_focus_win' = wm_focus_win
      /\ msg' = NoMsg /\ loop' = "run" /\ lost' = lost /\ calls' = calls
  BY DEF CloseControl, Has, Done, focus, queue, IInv
<1>2. ~(next <= ChildBase)
  <2>1. ASSUME next <= ChildBase PROVE FALSE
    BY <1>1, <2>1 DEF IInv, Apart, ClosesWindows, ToWindow, ChildrenApart
  <2> QED BY <2>1
<1> HIDE DEF h
<1>3. /\ \A g \in Children : /\ child'[g].born = child[g].born /\ child'[g].class = child[g].class
                             /\ child'[g].parent \in {0, child[g].parent}
      /\ child' \in [Children -> [parent : {0} \cup Handles, class : {"edit", "list"}, born : Nat]]
  <2>1. child \in [Children -> [parent : {0} \cup Handles, class : {"edit", "list"}, born : Nat]]
    BY <1>1 DEF TypesOK
  <2>2. CASE h \in Children
    <3>1. [child[h] EXCEPT !.parent = 0] \in [parent : {0} \cup Handles, class : {"edit", "list"}, born : Nat]
      BY <2>1, <2>2
    <3>2. /\ \A g \in Children : child'[g] = IF g = h THEN [child[h] EXCEPT !.parent = 0] ELSE child[g]
          /\ child' \in [Children -> [parent : {0} \cup Handles, class : {"edit", "list"}, born : Nat]]
      BY <1>1, <2>1, <2>2, <3>1
    <3> QED BY <2>1, <2>2, <3>2
  <2>3. CASE h \notin Children
    <3>1. child' = child
      BY <1>1, <2>1, <2>3
    <3> QED BY <2>1, <3>1
  <2> QED BY <2>2, <2>3
<1>4. TypesOK'
  BY <1>1, <1>3, NoMsgIs DEF TypesOK
<1>5. OwnBuffers' /\ Numbered' /\ Unnumbered'
  BY <1>1, <1>3 DEF IInv, OwnBuffers, Numbered, Unnumbered
<1>6. OneKey' /\ Dated' /\ ~lost' /\ OpensTheSelected'
  <2>1. \A g \in Children : \/ ~IsList(g)'
                            \/ IsList(g) /\ child'[g].born = child[g].born /\ lv_sel'[g] = lv_sel[g]
    BY <1>1, <1>3 DEF IsList, IsChild, Has
  <2>2. \A g \in Children : child'[g].parent # 0 => child'[g].born < made'
    BY <1>1, <1>3 DEF IInv, Dated
  <2>3. Kept(msgq, msgq') /\ msg'.m = "none" /\ made' \in Nat /\ made' >= made
    BY <1>1, KeptItself, NoMsgIs DEF TypesOK
  <2> QED BY <1>1, <2>1, <2>2, <2>3, QueueHolds
<1>7. Apart'
  BY <1>1, <1>2 DEF Apart
<1> QED BY <1>4, <1>5, <1>6, <1>7 DEF IInv


(* Enter: the row that is selected is opened; there was no other message   *)
(* about a row.                                                            *)
LEMMA EnterHolds ==
  ASSUME IInv, msg.m = "keydown", NEW h, h = msg.hwnd, IsList(h), Has(child[h].parent),
         msgq' = Pushed(msgq, << Message(child[h].parent, "command",
                                         [list |-> h, born |-> child[h].born, row |-> lv_sel[h]]) >>),
         UNCHANGED << windows, lv_sel, focus, dc >>, Done
  PROVE  IInv'
<1> DEFINE p == child[h].parent
           x == [list |-> h, born |-> child[h].born, row |-> lv_sel[h]]
           w == Message(p, "command", x)
<1>1. /\ TypesOK /\ UNCHANGED << wnd_proc, wnd_buf, heap, kern, next, child, made, dc >>
      /\ lv_sel' = lv_sel /\ msg' = NoMsg /\ loop' = "run" /\ lost' = lost /\ calls' = calls
      /\ focus_edit' = focus_edit /\ focus_child' = focus_child /\ wm_focus_win' = wm_focus_win
      /\ msgq \in Seq(Msgs) /\ Len(msgq) < QMax
  BY DEF windows, focus, Done, IInv, TypesOK
<1>2. h \in Children /\ child[h].parent # 0 /\ p \in Handles
  BY DEF IsList, IsChild, Has
<1>3. x \in Opened /\ x.born < made /\ x.row = lv_sel[h] /\ x.list = h
  <2>1. child[h].born \in Nat /\ lv_sel[h] \in 0 .. Rows - 1 /\ Rows \in Nat
    BY <1>1, <1>2, SlotIs, Tables DEF TypesOK
  <2>2. lv_sel[h] \in Nat
    BY <2>1
  <2>3. child[h].born < made
    BY <1>2 DEF IInv, Dated
  <2> QED BY <1>2, <2>1, <2>2, <2>3 DEF Opened
<1> HIDE DEF x, p
<1>4. w \in Msgs /\ w.m = "command" /\ w.x = x
  <2>1. p \in Nat /\ "command" \in Kinds /\ x \in Payload
    BY <1>2, <1>3, Tables DEF Kinds, Payload
  <2> QED BY <2>1, MessageIs
<1>5. msgq' = Pushed(msgq, << w >>)
  BY DEF x, p
<1> HIDE DEF w
<1>6. /\ msgq' \in Seq(Msgs) /\ Len(msgq') < QMax
      /\ \A i \in 1 .. Len(msgq') : (i \in 1 .. Len(msgq) /\ msgq'[i] = msgq[i]) \/ msgq'[i] = w
  <2> DEFINE ms == << w >>
  <2>1. ms \in Seq(Msgs) /\ Len(ms) = 1 /\ ms[1] = w /\ msgq' = Pushed(msgq, ms)
    BY <1>4, <1>5, OneMessage
  <2> HIDE DEF ms
  <2>2. \A j \in 1 .. Len(ms) : ms[j] = w
    BY <2>1
  <2>3. /\ Pushed(msgq, ms) \in Seq(Msgs) /\ Len(Pushed(msgq, ms)) < QMax
        /\ \A i \in 1 .. Len(Pushed(msgq, ms)) :
             \/ i \in 1 .. Len(msgq) /\ Pushed(msgq, ms)[i] = msgq[i]
             \/ \E j \in 1 .. Len(ms) : i = Len(msgq) + j /\ Pushed(msgq, ms)[i] = ms[j]
    BY <1>1, <2>1, PushedIs
  <2>4. ASSUME NEW i \in 1 .. Len(msgq')
        PROVE  (i \in 1 .. Len(msgq) /\ msgq'[i] = msgq[i]) \/ msgq'[i] = w
    BY <2>1, <2>2, <2>3
  <2> QED BY <2>1, <2>3, <2>4
<1>7. TypesOK'
  BY <1>1, <1>6, NoMsgIs DEF TypesOK
<1>8. /\ NoneOpened
      /\ \A i \in 1 .. Len(msgq) : msgq[i].m # "keydown"
  BY DEF IInv, OneKey
<1>9. OneKey'
  <2>1. \A i \in 1 .. Len(msgq') : msgq'[i].m # "keydown"
    BY <1>4, <1>6, <1>8
  <2> QED BY <1>1, <2>1, NoMsgIs DEF OneKey
<1>10. \A i \in 1 .. Len(msgq') : msgq'[i].m = "command" => msgq'[i].x = x
  BY <1>4, <1>6, <1>8 DEF NoneOpened
<1>11. Dated'
  BY <1>1, <1>3, <1>10 DEF IInv, Dated
<1>12. OpensTheSelected'
  BY <1>1, <1>3, <1>10 DEF OpensTheSelected
<1>13. next <= ChildBase => ClosesWindows'
  <2>1. ASSUME next <= ChildBase, NEW i \in 1 .. Len(msgq') PROVE ToWindow(msgq'[i])
    BY <1>4, <1>6, <2>1 DEF IInv, Apart, ClosesWindows, ToWindow
  <2>2. ToWindow(msg')
    BY <1>1, NoMsgIs DEF ToWindow
  <2> QED BY <2>1, <2>2 DEF ClosesWindows, ToWindow
<1>14. /\ OwnBuffers' /\ Numbered' /\ Unnumbered'
       /\ next <= ChildBase => ChildrenApart' /\ KernelShown' /\ Drawn'
  BY <1>1, StillHolds
<1>15. Apart'
  BY <1>1, <1>13, <1>14 DEF Apart
<1> QED BY <1>1, <1>7, <1>9, <1>11, <1>12, <1>14, <1>15 DEF IInv

(* Another key: the selection moves, and no message is about a row.        *)
LEMMA MoveHolds ==
  ASSUME IInv, msg.m = "keydown", lv_sel' \in [Children -> 0 .. Rows - 1], msgq' = msgq,
         UNCHANGED << windows, focus, dc >>, Done
  PROVE  IInv'
<1>1. /\ TypesOK /\ UNCHANGED << wnd_proc, wnd_buf, heap, kern, next, child, made, dc >>
      /\ msg' = NoMsg /\ loop' = "run" /\ lost' = lost /\ calls' = calls
      /\ focus_edit' = focus_edit /\ focus_child' = focus_child /\ wm_focus_win' = wm_focus_win
  BY DEF windows, focus, Done, IInv
<1>2. TypesOK'
  BY <1>1, NoMsgIs DEF TypesOK
<1>3. Kept(msgq, msgq') /\ msg'.m = "none"
  BY <1>1, KeptItself, NoMsgIs
<1>4. OneKey'
  BY <1>3, KeysKept DEF IInv
<1>5. Dated'
  BY <1>1 DEF IInv, Dated
<1>6. OpensTheSelected'
  BY DEF IInv, OneKey, NoneOpened, OpensTheSelected
<1>7. next <= ChildBase => ClosesWindows'
  BY <1>3, ClosesKept DEF IInv, Apart
<1>8. /\ OwnBuffers' /\ Numbered' /\ Unnumbered'
      /\ next <= ChildBase => ChildrenApart' /\ KernelShown' /\ Drawn'
  BY <1>1, StillHolds
<1>9. Apart'
  BY <1>1, <1>7, <1>8 DEF Apart
<1> QED BY <1>1, <1>2, <1>4, <1>5, <1>6, <1>8, <1>9 DEF IInv

LEMMA ListKeyHolds ==
  ASSUME IInv, ListKey, Done
  PROVE  IInv'
<1> DEFINE h == msg.hwnd
           r == CASE msg.x = "up" /\ lv_sel[h] > 0 -> lv_sel[h] - 1
                  [] msg.x = "down" /\ lv_sel[h] < Rows - 1 -> lv_sel[h] + 1
                  [] OTHER -> lv_sel[h]
           q == Pushed(msgq, << Message(child[h].parent, "command",
                                        [list |-> h, born |-> child[h].born, row |-> lv_sel[h]]) >>)
           enter == msg.x = "enter" /\ Has(child[h].parent)
<1>1. /\ msg.m = "keydown" /\ IsList(h) /\ lv_sel' = [lv_sel EXCEPT ![h] = r]
      /\ msgq' = (IF enter THEN q ELSE msgq)
      /\ UNCHANGED << windows, focus, quit_pending, dc >>
  BY DEF ListKey
<1>2. h \in Children /\ lv_sel \in [Children -> 0 .. Rows - 1] /\ lv_sel[h] \in 0 .. Rows - 1 /\ Rows \in Nat
  BY <1>1, Tables DEF IsList, IsChild, IInv, TypesOK
<1>3. r \in 0 .. Rows - 1
  <2>1. CASE msg.x = "up" /\ lv_sel[h] > 0
    BY <1>2, <2>1
  <2>2. CASE msg.x = "down" /\ lv_sel[h] < Rows - 1
    BY <1>2, <2>2
  <2>3. CASE ~(msg.x = "up" /\ lv_sel[h] > 0) /\ ~(msg.x = "down" /\ lv_sel[h] < Rows - 1)
    BY <1>2, <2>3
  <2> QED BY <2>1, <2>2, <2>3
<1>4. enter => r = lv_sel[h]
  OBVIOUS
<1> HIDE DEF r, q, enter, h
<1>5. lv_sel' \in [Children -> 0 .. Rows - 1]
  BY <1>1, <1>2, <1>3
<1>6. CASE enter
  <2>1. lv_sel' = lv_sel
    BY <1>1, <1>2, <1>4, <1>6
  <2>2. Has(child[h].parent) /\ msgq' = q /\ h = msg.hwnd
    BY <1>1, <1>6 DEF enter, h
  <2> QED BY <1>1, <2>1, <2>2, EnterHolds DEF q
<1>7. CASE ~enter
  BY <1>1, <1>5, <1>7, MoveHolds
<1> QED BY <1>6, <1>7

-----------------------------------------------------------------------------
(* THE THEOREMS                                                            *)

LEMMA InitHolds == Init => IInv
<1> SUFFICES ASSUME Init PROVE IInv
  OBVIOUS
<1>1. TypesOK
  <2>1. next \in Nat \ {0} /\ NoMsg \in Msgs /\ QMax \in Nat /\ 0 < QMax
    BY User32Assumption, NoMsgIs DEF Init
  <2>2. child \in [Children -> [parent : {0} \cup Handles, class : {"edit", "list"}, born : Nat]]
    <3>1. NoChild \in [parent : {0} \cup Handles, class : {"edit", "list"}, born : Nat]
      BY DEF NoChild
    <3> QED BY <3>1 DEF Init
  <2>3. lv_sel \in [Children -> 0 .. Rows - 1]
    <3>1. 0 \in 0 .. Rows - 1
      BY Tables
    <3> QED BY <3>1 DEF Init
  <2>4. msgq \in Seq(Msgs) /\ Len(msgq) = 0 /\ kern \in Seq(Windows)
    BY DEF Init
  <2> QED BY <2>1, <2>2, <2>3, <2>4 DEF Init, TypesOK
<1>2. OwnBuffers /\ Unnumbered
  BY DEF Init, OwnBuffers, Unnumbered, NoChild
<1>3. Len(kern) = 0 /\ Len(msgq) = 0
  BY DEF Init
<1>4. Numbered
  BY <1>3 DEF Numbered
<1>5. OneKey /\ Dated /\ ~lost /\ OpensTheSelected
  BY <1>3, NoMsgIs DEF Init, OneKey, Dated, NoneOpened, OpensTheSelected, NoChild
<1>6. ChildrenApart
  <2>1. next \in Nat \ {0}
    BY User32Assumption DEF Init
  <2> QED BY <2>1, Tables DEF Init, ChildrenApart, NoChild
<1>7. KernelShown /\ ClosesWindows /\ Drawn
  BY <1>3, NoMsgIs DEF Init, KernelShown, ClosesWindows, ToWindow, Drawn
<1> QED BY <1>1, <1>2, <1>4, <1>5, <1>6, <1>7 DEF IInv, Apart

LEMMA NextHolds == Releases /\ IInv /\ [Next]_vars => IInv'
<1> SUFFICES ASSUME Releases, IInv, [Next]_vars PROVE IInv'
  OBVIOUS
<1>1. CASE Call
  BY <1>1, CallHolds
<1>2. CASE Fetch
  BY <1>2, FetchHolds
<1>3. CASE Take
  BY <1>3, TakeHolds
<1>4. CASE Dispatch
  <2>1. CASE HandleClose
    BY <1>4, <2>1, DefCloseHolds, CloseDestroysHolds, CloseControlHolds DEF Dispatch, HandleClose
  <2>2. CASE ListKey
    BY <1>4, <2>2, ListKeyHolds DEF Dispatch
  <2>3. CASE HandleOther
    BY <1>4, <2>3, HandleOtherHolds DEF Dispatch
  <2> QED BY <1>4, <2>1, <2>2, <2>3 DEF Dispatch
<1>5. CASE UNCHANGED vars
  <2>1. /\ UNCHANGED << windows, lv_sel, dc, msgq, loop, msg, calls >> /\ lost' = lost
        /\ focus_edit' = focus_edit /\ focus_child' = focus_child /\ wm_focus_win' = wm_focus_win
    BY <1>5 DEF vars, focus, queue
  <2>2. TypesOK'
    BY <2>1 DEF windows, IInv, TypesOK
  <2>3. Kept(msgq, msgq')
    BY <2>1, KeptItself
  <2> QED BY <2>1, <2>2, <2>3, ListsStill DEF IInv
<1> QED BY <1>1, <1>2, <1>3, <1>4, <1>5 DEF Next

LEMMA KeptByIInv == IInv => WindowsKept
<1> SUFFICES ASSUME IInv PROVE WindowsKept
  OBVIOUS
<1>1. TypesOK /\ next \in Nat
  BY DEF IInv, TypesOK
<1>2. UserTypeOK
  <2>1. ASSUME NEW h \in Handles PROVE wnd_buf[h] \in 0 .. next
    <3>1. wnd_buf[h] = 0 \/ (wnd_buf[h] = h /\ h < next)
      BY DEF IInv, OwnBuffers
    <3>2. wnd_buf[h] \in Nat
      BY <1>1 DEF TypesOK
    <3> QED BY <1>1, <3>1, <3>2
  <2>2. \A h \in Children : lv_sel[h] \in 0 .. Rows - 1
    BY <1>1 DEF TypesOK
  <2> QED BY <1>1, <2>1, <2>2 DEF UserTypeOK, TypesOK
<1>3. BuffersOwned
  BY DEF IInv, OwnBuffers, BuffersOwned
<1>4. DcIsCurrent
  BY DEF IInv, Apart, Drawn, DcIsCurrent
<1> QED BY <1>2, <1>3, <1>4 DEF IInv, EventsKept, WindowsKept

(* In programs that release what they draw with before they destroy a      *)
(* window, the handles, buffers, children, contexts and messages stay as   *)
(* IInv says.                                                              *)
THEOREM WindowsInvariance == ASSUME Releases PROVE Spec => []IInv
<1>1. Init => IInv
  BY InitHolds
<1>2. IInv /\ [Next]_vars => IInv'
  BY NextHolds
<1> QED BY <1>1, <1>2, PTL DEF Spec

(* Two windows of a program never draw in the same memory or in memory     *)
(* that was freed (CreateWindowExA, DestroyWindow, DefWindowProcA); a      *)
(* device context in use draws where its window is shown, until the        *)
(* kernel's numbers reach the handles of children (dc_lookup); no event of *)
(* the kernel is dropped by a full queue (msgq_push); and the row that     *)
(* Enter opens is the one that is selected.                                *)
THEOREM UserWindows == ASSUME Releases PROVE Spec => []WindowsKept
<1>1. Spec => []IInv
  BY WindowsInvariance
<1>2. IInv => WindowsKept
  BY KeptByIInv
<1> QED BY <1>1, <1>2, PTL
=============================================================================

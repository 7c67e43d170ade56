------------------------------- MODULE User32 -------------------------------
(***************************************************************************)
(* The window layer of user/win32/user32.c, in the one program that has    *)
(* loaded it: handles, child windows that live only in this library, the   *)
(* message queue, the translation of the kernel's events, device contexts  *)
(* and the default handling of messages.  The program is a message loop    *)
(* over GetMessageA or PeekMessageA; while it handles a message it calls   *)
(* what it likes, at most Calls times.                                     *)
(*                                                                         *)
(* A top-level window has the number the kernel gives it, the next one     *)
(* since boot, so that numbers go into the range of the children and past  *)
(* the tables.  The screen is a few points; a window covers some of them.  *)
(***************************************************************************)
EXTENDS Integers, Sequences, FiniteSets

CONSTANTS
  MaxWnd,          (* MAX_WNDPROCS, 64: handles are below it                *)
  ChildBase,       (* CHILD_BASE, 32: and those of children from here on    *)
  QMax,            (* MSGQ_MAX, 64: one less fits                           *)
  Boot,            (* numbers the kernel may give the first window          *)
  Points, Origin,  (* where the pointer may be; the point (0, 0)            *)
  Areas,           (* what a window may cover                               *)
  Rows,            (* rows of a list                                        *)
  Releases,        (* TRUE: no window is destroyed while a DC of it is held *)
  Wins, Calls      (* bounds: windows and calls                             *)

ASSUME User32Assumption ==
  /\ ChildBase \in Nat \ {0} /\ MaxWnd \in Nat /\ ChildBase < MaxWnd
  /\ QMax \in Nat /\ QMax >= 3                  \* a key is two messages
  /\ Boot \subseteq Nat \ {0} /\ Rows \in Nat \ {0} /\ Releases \in BOOLEAN
  /\ Wins \in Nat /\ Calls \in Nat

VARIABLES
  wnd_proc,        \* whose procedure each handle has: "none", "app", "builtin"
  wnd_buf,         \* its buffer, 0 for none
  heap,            \* buffers allocated (SYS_MALLOC)
  kern,            \* the program's windows in the kernel, the top one last
  next,            \* wm_next_id of the kernel
  child,           \* child_parent and the class of each slot, and which
                   \* of all the windows made it holds
  lv_sel,          \* the selection of each list
  focus_edit, focus_child, wm_focus_win,
  msgq, quit_pending,
  dc,              \* dc_pool: the buffer of each DC in use, 0 for none
  loop, msg,       \* "run", "handle" (msg), "ended"
  peeks,           \* the loop is over PeekMessageA
  made, calls,     \* windows and calls so far
  lost             \* history: an event's message was dropped

windows == << wnd_proc, wnd_buf, heap, kern, next, child, made >>
focus   == << focus_edit, focus_child, wm_focus_win >>
queue   == << msgq, quit_pending >>
vars == << windows, lv_sel, focus, queue, dc, loop, msg, peeks, calls, lost >>

Handles  == 1 .. MaxWnd - 1
Children == ChildBase .. MaxWnd - 1
NoChild  == [parent |-> 0, class |-> "edit", born |-> 0]
Message(h, m, x) == [hwnd |-> h, m |-> m, x |-> x]
NoMsg == Message(0, "none", 0)

Init ==
  /\ wnd_proc = [h \in Handles |-> "none"] /\ wnd_buf = [h \in Handles |-> 0]
  /\ heap = {} /\ kern = << >> /\ next \in Boot
  /\ child = [h \in Children |-> NoChild] /\ lv_sel = [h \in Children |-> 0]
  /\ focus_edit = 0 /\ focus_child = 0 /\ wm_focus_win = 1
  /\ msgq = << >> /\ quit_pending = FALSE
  /\ dc = [h \in Handles |-> 0]
  /\ loop = "handle" /\ msg = NoMsg /\ peeks \in BOOLEAN
  /\ made = 0 /\ calls = 0 /\ lost = FALSE

-----------------------------------------------------------------------------
(* Handles and the queue.                                                  *)
IsChild(h) == h \in Children /\ child[h].parent # 0
Has(h) == h \in Handles /\ wnd_proc[h] # "none"
Covers(h, p) == \E i \in 1 .. Len(kern) : kern[i].id = h /\ p \in kern[i].area
Largest(S) == IF S = {} THEN 0 ELSE CHOOSE h \in S : \A g \in S : g <= h

(* msgq_push of the messages ms, one after the other: what does not fit is *)
(* dropped.                                                                *)
Pushed(q, ms) ==
  LET room == QMax - 1 - Len(q)
  IN  q \o (IF Len(ms) <= room THEN ms ELSE SubSeq(ms, 1, room))

(* Where a handle's pixels are: a child draws in its parent's buffer.      *)
BufOf(h) ==
  IF ~IsChild(h) THEN wnd_buf[h]
  ELSE IF child[h].parent \in Handles THEN wnd_buf[child[h].parent] ELSE 0

-----------------------------------------------------------------------------
(* CreateWindowExA and DestroyWindow.                                      *)
CreateTop(area) ==
  /\ made < Wins /\ made' = made + 1 /\ next' = next + 1
  /\ kern' = Append(kern, [id |-> next, area |-> area])
  /\ IF next \in Handles
     THEN /\ wnd_proc' = [wnd_proc EXCEPT ![next] = "app"]
          /\ wnd_buf' = [wnd_buf EXCEPT ![next] = next]
          /\ heap' = heap \cup {next}
     ELSE UNCHANGED << wnd_proc, wnd_buf, heap >>
  /\ UNCHANGED << child, lv_sel, focus, queue, dc >>

FreeSlots == {h \in Children : child[h].parent = 0}
CreateChild(p, class) ==
  /\ made < Wins /\ made' = made + 1
  /\ FreeSlots # {}
  /\ LET h == CHOOSE s \in FreeSlots : \A t \in FreeSlots : s <= t
     IN  /\ child' = [child EXCEPT ![h] = [parent |-> p, class |-> class, born |-> made]]
         /\ wnd_proc' = [wnd_proc EXCEPT ![h] = "builtin"]
         /\ wnd_buf' = [wnd_buf EXCEPT ![h] = 0]
         /\ lv_sel' = [lv_sel EXCEPT ![h] = IF class = "list" THEN 0 ELSE @]
         /\ focus_edit' = IF class = "edit" THEN h ELSE focus_edit
         /\ focus_child' = IF class = "list" /\ focus_child = 0 THEN h ELSE focus_child
  /\ UNCHANGED << heap, kern, next, wm_focus_win, queue, dc >>

(* The kernel's windows without the i-th; without the one of that number.  *)
Removed(i) == [k \in 1 .. Len(kern) - 1 |-> IF k < i THEN kern[k] ELSE kern[k + 1]]
Places(id) == {i \in 1 .. Len(kern) : kern[i].id = id}
Without(id) == IF Places(id) = {} THEN kern ELSE Removed(CHOOSE i \in Places(id) : TRUE)
(* DestroyWindow of a window there is, up to its WM_DESTROY: a child's     *)
(* slot is free again; a window's buffer is, and its children keep theirs. *)
Destroy(h) ==
  /\ IF IsChild(h)
     THEN /\ child' = [child EXCEPT ![h].parent = 0]
          /\ wnd_proc' = [wnd_proc EXCEPT ![h] = "none"]
          /\ UNCHANGED << wnd_buf, heap, kern >>
     ELSE /\ heap' = heap \ {wnd_buf[h]}
          /\ wnd_buf' = [wnd_buf EXCEPT ![h] = 0]
          /\ kern' = Without(h)
          /\ wnd_proc' = [wnd_proc EXCEPT ![h] = "none"]
          /\ UNCHANGED child
Held(h) == dc[h] # 0 \/ \E c \in Children : child[c].parent = h /\ dc[c] # 0

(* PostQuitMessage, with the messages pushed before it.                    *)
Quit(q) == /\ quit_pending' = TRUE
           /\ msgq' = Pushed(q, << Message(0, "quit", 0) >>)

-----------------------------------------------------------------------------
(* Device contexts: one for each handle, made when it is asked for and in  *)
(* use until it is released.                                               *)
GetDC(h) == /\ BufOf(h) # 0
            /\ dc' = [dc EXCEPT ![h] = IF @ = 0 THEN BufOf(h) ELSE @]
ReleaseDC(h) == dc' = [dc EXCEPT ![h] = 0]

SetFocus(h) == focus_edit' = IF IsChild(h) /\ child[h].class = "edit" THEN h ELSE focus_edit

(* What the program calls while it handles a message.                      *)
Call ==
  /\ loop = "handle" /\ calls < Calls /\ calls' = calls + 1
  /\ \/ \E area \in Areas : CreateTop(area)
     \/ \E p \in Handles, class \in {"edit", "list"} :
          Has(p) /\ ~IsChild(p) /\ CreateChild(p, class)
     \/ \E h \in Children :
          /\ Has(h) /\ IsChild(h) /\ (Releases => ~Held(h))
          /\ Destroy(h)
          /\ UNCHANGED << next, made, lv_sel, focus, queue, dc >>
     \/ \E h \in Handles :
          /\ \/ GetDC(h)
             \/ dc[h] # 0 /\ ReleaseDC(h)
          /\ UNCHANGED << windows, lv_sel, focus, queue >>
     \/ \E h \in Handles :
          /\ Has(h) /\ SetFocus(h)
          /\ UNCHANGED << windows, lv_sel, focus_child, wm_focus_win, queue, dc >>
     \/ \E h \in Handles :
          /\ msgq' = Pushed(msgq, << Message(h, "user", 0) >>)     \* PostMessageA
          /\ UNCHANGED << windows, lv_sel, focus, quit_pending, dc >>
  /\ UNCHANGED << loop, msg, peeks, lost >>

-----------------------------------------------------------------------------
(* event_to_wm: events to messages.  The pointer's window is the one with  *)
(* the highest number under it; a key has the coordinates (0, 0).          *)
Under(p) == Largest({h \in Handles : Has(h) /\ ~IsChild(h) /\ Covers(h, p)})
First == LET S == {h \in Handles : Has(h)}
         IN  IF S = {} THEN 1 ELSE CHOOSE h \in S : \A g \in S : h <= g
Target(p, kept) ==
  IF Under(p) # 0 THEN Under(p)
  ELSE IF kept /\ wm_focus_win \in Handles /\ Has(wm_focus_win) THEN wm_focus_win ELSE First
KeyTarget ==
  IF Has(focus_edit) THEN focus_edit
  ELSE IF Has(focus_child) THEN focus_child ELSE Target(Origin, TRUE)

(* The kernel's part (wm_route): a press raises the topmost window under   *)
(* the pointer; a press on its close button is a WINCLOSE with its number. *)
TopAt(p) == Largest({i \in 1 .. Len(kern) : p \in kern[i].area})
Raised(i) == Append(Removed(i), kern[i])

Translate(ms) == /\ msgq' = Pushed(msgq, ms)
                 /\ lost' = (lost \/ Len(msgq') < Len(msgq) + Len(ms))
Button(p) ==
  /\ TopAt(p) # 0
  /\ kern' = Raised(TopAt(p))
  /\ wm_focus_win' = IF Under(p) # 0 THEN Under(p) ELSE wm_focus_win
  /\ Translate(<< Message(Target(p, FALSE), "buttondown", kern[TopAt(p)].id) >>)
  /\ UNCHANGED << wnd_proc, wnd_buf, heap, next, child, made >>
CloseBox(p) ==
  /\ TopAt(p) # 0
  /\ Translate(<< Message(Target(p, TRUE), "close", kern[TopAt(p)].id) >>)
  /\ UNCHANGED << windows, wm_focus_win >>
Key(k) ==
  /\ Translate(IF k = "letter" THEN << Message(KeyTarget, "keydown", k), Message(KeyTarget, "char", k) >>
               ELSE << Message(KeyTarget, "keydown", k) >>)
  /\ UNCHANGED << windows, wm_focus_win >>
Event == \/ \E p \in Points : Button(p) \/ CloseBox(p)
         \/ \E k \in {"letter", "up", "down", "enter"} : Key(k)

(* GetMessageA and PeekMessageA take an event when no message is left; the *)
(* loop comes round again for what it became.                              *)
Fetch == /\ loop = "run" /\ msgq = << >> /\ (quit_pending => peeks) /\ Event
         /\ UNCHANGED << lv_sel, focus_edit, focus_child, quit_pending, dc,
                         loop, msg, peeks, calls >>
(* The next message; GetMessageA ends the loop once PostQuitMessage was    *)
(* called, and a loop over PeekMessageA ends at the WM_QUIT.               *)
Take ==
  /\ loop = "run"
  /\ IF quit_pending /\ ~peeks
     THEN loop' = "ended" /\ UNCHANGED << msgq, msg >>
     ELSE /\ msgq # << >>
          /\ msgq' = Tail(msgq) /\ msg' = Head(msgq)
          /\ loop' = IF Head(msgq).m = "quit" THEN "ended" ELSE "handle"
  /\ UNCHANGED << windows, lv_sel, focus, quit_pending, dc, peeks, calls, lost >>

-----------------------------------------------------------------------------
(* DispatchMessageA, once the program has made its calls.                  *)
Done == loop' = "run" /\ msg' = NoMsg /\ UNCHANGED << peeks, calls, lost >>

(* A bug: the program is not told to quit.                                 *)
DefCloseOnly(h) ==
  /\ ~(Has(h) /\ wnd_proc[h] = "builtin")
  /\ wnd_proc' = IF h \in Handles THEN [wnd_proc EXCEPT ![h] = "none"] ELSE wnd_proc
  /\ kern' = IF h \in Handles THEN Without(h) ELSE kern
  /\ UNCHANGED << wnd_buf, heap, next, child, made, queue >>
(* A bug: the buffer is freed, though DCs may be drawing in it.            *)
DefCloseFrees(h) ==
  /\ ~(Has(h) /\ wnd_proc[h] = "builtin")
  /\ wnd_proc' = IF h \in Handles THEN [wnd_proc EXCEPT ![h] = "none"] ELSE wnd_proc
  /\ wnd_buf' = IF h \in Handles THEN [wnd_buf EXCEPT ![h] = 0] ELSE wnd_buf
  /\ heap' = IF h \in Handles THEN heap \ {wnd_buf[h]} ELSE heap
  /\ kern' = IF h \in Handles THEN Without(h) ELSE kern
  /\ Quit(msgq)
  /\ UNCHANGED << next, child, made >>
(* DefWindowProcA of a WM_CLOSE: the window goes, its buffer stays.        *)
DefClose(h) ==
  /\ ~(Has(h) /\ wnd_proc[h] = "builtin")
  /\ wnd_proc' = IF h \in Handles THEN [wnd_proc EXCEPT ![h] = "none"] ELSE wnd_proc
  /\ kern' = IF h \in Handles THEN Without(h) ELSE kern
  /\ Quit(msgq)
  /\ UNCHANGED << wnd_buf, heap, next, child, made >>
(* A procedure that destroys its window: WM_DESTROY comes at once, and is  *)
(* left to DefWindowProcA.                                                 *)
CloseDestroys(h) ==
  /\ Has(h) /\ ~IsChild(h) /\ (Releases => ~Held(h))
  /\ Destroy(h) /\ Quit(msgq)
  /\ UNCHANGED << next, made >>
(* A control only lets go of its parent.                                   *)
CloseControl(h) ==
  /\ Has(h) /\ wnd_proc[h] = "builtin"
  /\ child' = [child EXCEPT ![h].parent = 0]
  /\ UNCHANGED << wnd_proc, wnd_buf, heap, kern, next, made, queue >>
HandleClose ==
  /\ msg.m = "close"
  /\ DefClose(msg.hwnd) \/ CloseDestroys(msg.hwnd) \/ CloseControl(msg.hwnd)
  /\ UNCHANGED << lv_sel, focus, dc >>

IsList(h) == Has(h) /\ IsChild(h) /\ child[h].class = "list"
ListKey ==
  /\ msg.m = "keydown" /\ IsList(msg.hwnd)
  /\ LET h == msg.hwnd IN
     /\ lv_sel' = [lv_sel EXCEPT ![h] = CASE msg.x = "up" /\ @ > 0 -> @ - 1
                                          [] msg.x = "down" /\ @ < Rows - 1 -> @ + 1
                                          [] OTHER -> @]
     /\ msgq' = IF msg.x = "enter" /\ Has(child[h].parent)
                THEN Pushed(msgq, << Message(child[h].parent, "command", [list |-> h, born |-> child[h].born, row |-> lv_sel[h]]) >>)
                ELSE msgq
  /\ UNCHANGED << windows, focus, quit_pending, dc >>
(* Anything else changes nothing here.                                     *)
HandleOther ==
  /\ msg.m # "close" /\ ~(msg.m = "keydown" /\ IsList(msg.hwnd))
  /\ UNCHANGED << windows, lv_sel, focus, queue, dc >>
Dispatch == loop = "handle" /\ (HandleClose \/ ListKey \/ HandleOther) /\ Done

Next == Call \/ Fetch \/ Take \/ Dispatch
(* The program goes on with its loop: it takes its messages and handles    *)
(* each of them.  Nobody has to press a key.                               *)
Fair == WF_vars(Take) /\ WF_vars(Dispatch)
Spec == Init /\ [][Next]_vars /\ Fair

-----------------------------------------------------------------------------
(* Handles, buffers, focus and queue are in their tables.                  *)
UserTypeOK ==
  /\ wnd_proc \in [Handles -> {"none", "app", "builtin"}]
  /\ \A h \in Handles : wnd_buf[h] \in 0 .. next
  /\ Len(msgq) < QMax /\ focus_edit \in {0} \cup Children /\ focus_child \in {0} \cup Children
  /\ \A h \in Children : lv_sel[h] \in 0 .. Rows - 1

(* A window draws in memory that is allocated and is no other window's:    *)
(* neither DestroyWindow nor the WM_DESTROY under it frees a buffer twice  *)
(* or leaves it to a handle.                                               *)
BuffersOwned ==
  /\ \A h \in Handles : wnd_buf[h] # 0 => wnd_buf[h] \in heap
  /\ \A h, g \in Handles : wnd_buf[h] = wnd_buf[g] /\ wnd_buf[h] # 0 => h = g

(* A DC in use draws where its window does, as long as programs release    *)
(* the DCs of a window before they destroy it (dc_lookup keeps a DC that   *)
(* is in use as it is) and no window has had the number of a child.        *)
DcIsCurrent ==
  next <= ChildBase => \A h \in Handles : dc[h] # 0 /\ Has(h) => dc[h] = BufOf(h)

(* Only messages the program posts are ever dropped: an event is taken     *)
(* when the queue is empty, and what it becomes fits.                      *)
EventsKept == ~lost

(* The row that is opened is the one that was selected when Enter was      *)
(* pressed, if the list is still there: no key gets between the Enter and  *)
(* the WM_COMMAND it becomes.                                              *)
OpensTheSelected ==
  \A i \in 1 .. Len(msgq) :
    LET x == msgq[i].x
    IN  msgq[i].m = "command" /\ child[x.list].born = x.born /\ IsList(x.list)
          => lv_sel[x.list] = x.row

(* What the windows of a program keep: a window's buffer is its own, the   *)
(* context of a window draws where it is shown, no event of the kernel is  *)
(* dropped, and Enter opens the row that is selected.                      *)
WindowsKept == UserTypeOK /\ BuffersOwned /\ DcIsCurrent /\ EventsKept /\ OpensTheSelected

(* Closing a window ends a loop over GetMessageA, whichever window the     *)
(* message went to and however full the queue is: the flag of              *)
(* PostQuitMessage is enough.  A loop over PeekMessageA waits for the      *)
(* WM_QUIT, which is dropped when 63 messages were posted before it; and a *)
(* window with the number of a control is closed like a control.           *)
CloseEnds ==
  (~peeks /\ next <= ChildBase /\ \E i \in 1 .. Len(msgq) : msgq[i].m = "close") ~> (loop = "ended")

(* No window of the kernel has the handle of a child.  Not kept: the       *)
(* kernel's numbers grow past MYOS_CHILD_BASE.                             *)
HandlesApart == \A i \in 1 .. Len(kern) : ~IsChild(kern[i].id)

(* A press goes to the window that is on top where it fell.  Not kept: it  *)
(* goes to the last one of the table.                                      *)
PressReachesTop ==
  \A i \in 1 .. Len(msgq) : msgq[i].m = "buttondown" => msgq[i].hwnd = msgq[i].x
=============================================================================

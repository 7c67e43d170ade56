------------------------------- MODULE WinMgr -------------------------------
(***************************************************************************)
(* The window manager of kernel/winmgr.c and the system calls over it: a   *)
(* table of windows with their stacking levels, the focus, and a queue of  *)
(* events for each program.  A program that asks for an event (SYS_EVENT)  *)
(* takes whatever is in the global queue, routes it, and puts it in the    *)
(* queue of the program it belongs to, before it looks in its own.         *)
(*                                                                         *)
(* A call searches the table, then writes to it, and the timer may give    *)
(* the processor to another program in between (syscall.c:187): Look is    *)
(* the searches of the call a program is in, kept in saw; the step after   *)
(* it is the writes, to whatever the table has become.  What a search does *)
(* not decide (a field of the window that was found) is read when written. *)
(* The way of an event from wm_route to wm_event_deliver is kept in to.    *)
(* The history overlapped, which no step reads, becomes TRUE when a        *)
(* program takes a step while another one is inside a call.                *)
(*                                                                         *)
(* A program is its page directory.  The screen is a small grid: nothing   *)
(* is lost of a click but the pixel.  What a redraw paints is an operator  *)
(* on the table (Painted), not a picture kept in the state.                *)
(***************************************************************************)
EXTENDS Integers, Sequences, FiniteSets

CONSTANTS
  Procs, None,
  MaxWins,           (* WM_MAX_WINS, 8: slots, and levels a redraw paints   *)
  MaxClients,        (* WM_MAX_CLIENTS, 4                                   *)
  EvMax,             (* EV_QUEUE_MAX, 64: one less fits                     *)
  ScreenW, ScreenH, Frame, TitleH, MenuH, XBtn,  (* sizes, in cells         *)
  Shapes,            (* the windows programs create: rectangle and flags    *)
  Clicks, Hovers,    (* where the mouse is pressed; released and moved      *)
  Steps, MaxX,       (* how programs move windows, and a bound              *)
  Shows,             (* TRUE: programs call SYS_WINVIS                      *)
  NoMemory,          (* TRUE: kmalloc may fail                              *)
  MaxIds, MaxEvents, (* bounds: windows created, events,                    *)
  MaxCalls           (* calls about windows that are there                  *)

VARIABLES
  wins,        \* wins[]: the slots
  nextId,      \* wm_next_id
  bg,          \* wm_background is allocated
  active,      \* wm_active
  focus,       \* wm_focus_pd
  clients,     \* wm_clients[]: the program (None: not used) and its queue
  evq,         \* ev_queue of the mouse driver
  hand,        \* the event each program in SYS_EVENT has taken
  saw,         \* what the searches of the call each program is in saw
  to,          \* the program wm_route named for the event in hand
  live,        \* programs that run
  pushed,      \* events so far
  calls,       \* calls about windows so far
  held,        \* history: the last button event routed was a press
  hidden,      \* history: SYS_WINVIS was called
  overlapped,  \* history: a step came while another program was in a call
  front        \* history: the program's window raised last, or 0

table == << wins, nextId, bg, active, focus >>
queue == << clients, evq, hand, to >>
vars  == << table, queue, saw, live, pushed, calls, held, hidden, overlapped, front >>

Slots == 1 .. MaxWins
Kinds == {"app", "fixed", "bg"}      \* a program's, the taskbar's, the wallpaper
Rects == [x : Int, y : Int, w : Nat, h : Nat]

ASSUME WinMgrAssumption ==
  /\ MaxWins \in Nat /\ MaxWins <= 4096     \* what lifts the taskbar over all
  /\ MaxClients \in Nat /\ EvMax \in Nat \ {0}
  /\ MaxIds \in Nat /\ MaxEvents \in Nat /\ MaxCalls \in Nat
  /\ ScreenW \in Nat /\ ScreenH \in Nat
  /\ None \notin Procs
  /\ Shapes \subseteq [r : Rects, kind : Kinds, framed : BOOLEAN]
  /\ Clicks \cup Hovers \cup Steps \subseteq Int \X Int

NoRect == [x |-> 0, y |-> 0, w |-> 0, h |-> 0]
Empty == [id |-> 0, pd |-> None, r |-> NoRect, kind |-> "app", framed |-> TRUE,
          z |-> 0, visible |-> FALSE, drag |-> FALSE, off |-> << 0, 0 >>,
          max |-> FALSE, saved |-> NoRect, menu |-> FALSE]
Event(type, at, id) == [type |-> type, at |-> at, id |-> id]
Idle == Event("idle", << 0, 0 >>, 0)    \* not in SYS_EVENT
Loop == Event("loop", << 0, 0 >>, 0)    \* in its loop, between two events
NoClient == [pd |-> None, q |-> << >>]
View == [on |-> TRUE, wins |-> wins, active |-> active, clients |-> clients]
NoView == [on |-> FALSE, wins |-> [s \in Slots |-> Empty], active |-> FALSE,
           clients |-> [c \in 1 .. MaxClients |-> NoClient]]

Init ==
  /\ wins = [s \in Slots |-> Empty] /\ nextId = 1
  /\ bg = FALSE /\ active = FALSE /\ focus = None
  /\ clients = [c \in 1 .. MaxClients |-> NoClient]
  /\ evq = << >> /\ hand = [p \in Procs |-> Idle]
  /\ saw = [p \in Procs |-> NoView] /\ to = [p \in Procs |-> None]
  /\ live = Procs /\ pushed = 0 /\ calls = 0 /\ held = FALSE /\ hidden = FALSE
  /\ overlapped = FALSE /\ front = 0

-----------------------------------------------------------------------------
(* Where things are on the screen.                                         *)
In(p, r) == p[1] \in r.x .. r.x + r.w - 1 /\ p[2] \in r.y .. r.y + r.h - 1
Meets(r, o) == /\ r.x + r.w > o.x /\ o.x + o.w > r.x
               /\ r.y + r.h > o.y /\ o.y + o.h > r.y
Client(w) ==
  LET top == TitleH + (IF w.menu THEN MenuH ELSE 0)
  IN  IF w.framed
      THEN [x |-> w.r.x + Frame, y |-> w.r.y + top,
            w |-> w.r.w - 2 * Frame, h |-> w.r.h - top - Frame]
      ELSE w.r
ButtonsX(w) == w.r.x + w.r.w - Frame - 3 * XBtn

Visible == {s \in Slots : wins[s].visible}
Rank(ws, s) == ws[s].z + (IF ws[s].kind = "fixed" THEN 4096 ELSE 0)

(* The highest of a set of windows, the first of them in the table.        *)
Highest(ws, S) ==
  IF S = {} THEN 0
  ELSE CHOOSE s \in S :
         \A o \in S : Rank(ws, s) > Rank(ws, o) \/ (Rank(ws, s) = Rank(ws, o) /\ s <= o)
NotBg(ws)  == {s \in Slots : ws[s].visible /\ ws[s].kind # "bg"}
Hit(ws, p) == Highest(ws, {s \in NotBg(ws) : In(p, ws[s].r)})
TopmostApp(ws) == Highest(ws, {s \in Slots : ws[s].visible /\ ws[s].kind = "app"})
Dragged(ws)    == {s \in Slots : ws[s].visible /\ ws[s].drag}

-----------------------------------------------------------------------------
(* What a redraw of rectangle r paints at p: the window painted last, or 0 *)
(* for the background.  The windows that meet r are painted from level 0   *)
(* to MaxWins - 1 and in the order of the table, then the taskbar; of a    *)
(* window the frame is painted whole and the client where it meets r.      *)
Blits(w, r, p) == In(p, Client(w)) /\ In(p, r)
Draws(w, r, p) == In(p, w.r) /\ (In(p, Client(w)) => Blits(w, r, p))
Painters(r, p) ==
  {s \in Visible : /\ Meets(r, wins[s].r) /\ Draws(wins[s], r, p)
                   /\ wins[s].kind = "fixed" \/ wins[s].z < MaxWins}
Painted(r, p) ==
  LET S == Painters(r, p)
  IN  IF S = {} THEN 0
      ELSE CHOOSE s \in S :
             \A o \in S : Rank(wins, s) > Rank(wins, o) \/ (Rank(wins, s) = Rank(wins, o) /\ s >= o)

(* The highest level wm_raise finds: of the windows but the taskbar.       *)
Fixed(w) == w.kind = "fixed"
Top(ws) ==
  LET F == {o \in Slots : ws[o].visible /\ ~Fixed(ws[o])}
  IN  CHOOSE z \in {ws[o].z : o \in F} : \A o \in F : ws[o].z <= z
(* A bug: the others stay where they are, under a top that does not grow.  *)
RaisedToTop(ws, s, top) ==
  IF ws[s].kind # "app" THEN ws ELSE [ws EXCEPT ![s].z = top]
(* wm_raise, once it found top: the others come down one level, the window *)
(* goes over it.                                                           *)
Raised(ws, s, top) ==
  IF ws[s].kind # "app" THEN ws
  ELSE [o \in Slots |->
          IF o = s THEN [ws[o] EXCEPT !.z = top + 1]
          ELSE IF ws[o].visible /\ ~Fixed(ws[o]) /\ ws[o].z > ws[s].z
               THEN [ws[o] EXCEPT !.z = @ - 1]
          ELSE ws[o]]

(* A bug: the focus stays with the program whose window went.              *)
FocusStays(ws, f) == IF \A s \in Slots : ~ws[s].visible THEN None ELSE f
(* wm_recompute, whose searches saw the table ws: with no window left the  *)
(* background is freed; a focus with no window goes to the highest one.    *)
NextFocus(ws, f) ==
  LET t == Highest(ws, NotBg(ws))
  IN  IF \E s \in Slots : ws[s].visible /\ ws[s].pd = f THEN f
      ELSE IF t = 0 THEN None ELSE ws[t].pd
AnyVisible(ws) == \E s \in Slots : ws[s].visible
Recompute(ws) ==
  /\ active' = AnyVisible(ws)
  /\ bg' = (bg /\ AnyVisible(ws))
  /\ focus' = NextFocus(ws, focus)

-----------------------------------------------------------------------------
(* The system calls.  A program that is in SYS_EVENT makes no other call.  *)
Runs(p) == p \in live /\ hand[p] = Idle

(* A call of p, or its event on the way, searches.                         *)
Look(p) ==
  /\ p \in live /\ ~saw[p].on /\ hand[p] # Loop
  /\ saw' = [saw EXCEPT ![p] = View]
  /\ UNCHANGED << table, queue, live, pushed, calls, held, hidden >>

Call(p) == Runs(p) /\ calls < MaxCalls /\ calls' = calls + 1

(* wm_create takes the first slot that is not visible: also that of a      *)
(* window that is minimised.  The events that wait are thrown away.        *)
FreeSlot(ws) ==
  LET free == {s \in Slots : ~ws[s].visible}
  IN  IF free = {} THEN 0 ELSE CHOOSE i \in free : \A j \in free : i <= j
Create(p, sh) ==
  LET s    == FreeSlot(saw[p].wins)
      new  == [Empty EXCEPT !.id = nextId, !.pd = p, !.r = sh.r, !.kind = sh.kind,
                            !.framed = sh.framed, !.visible = TRUE]
  IN  /\ Runs(p) /\ s # 0 /\ nextId <= MaxIds
      /\ sh.kind # "app" =>                 \* the desktop starts first
           \A o \in Slots : wins[o].id = 0 \/ wins[o].kind # "app"
      /\ wins' = Raised([wins EXCEPT ![s] = new], s, Top([saw[p].wins EXCEPT ![s] = new]))
      /\ nextId' = nextId + 1
      /\ bg' \in {TRUE} \cup (IF NoMemory THEN {bg} ELSE {})
      /\ active' = TRUE /\ focus' = p /\ evq' = << >>
      /\ UNCHANGED << clients, hand, to, live, pushed, calls, held, hidden >>

Removed(ws, s) == [ws EXCEPT ![s].visible = FALSE, ![s].drag = FALSE]
Close(p, s) ==
  /\ Call(p) /\ saw[p].wins[s].id # 0 /\ saw[p].wins[s].pd = p
  /\ wins' = Removed(wins, s)
  /\ Recompute(Removed(saw[p].wins, s))
  /\ UNCHANGED << nextId, queue, live, pushed, held, hidden >>

(* wm_vis asks nothing: any program, any window that was not overwritten,  *)
(* also one that is closed or whose program is dead.  A drag goes on.      *)
Vis(p, s, on) ==
  /\ Shows /\ Call(p) /\ saw[p].wins[s].id # 0
  /\ wins' = [wins EXCEPT ![s].visible = on]
  /\ Recompute([saw[p].wins EXCEPT ![s].visible = on])
  /\ hidden' = TRUE
  /\ UNCHANGED << nextId, queue, live, pushed, held >>

Move(p, s, dx, dy) ==
  /\ Call(p) /\ saw[p].wins[s].id # 0
  /\ wins[s].r.x + dx <= MaxX /\ wins[s].r.y + dy <= MaxX
  /\ wins' = [wins EXCEPT ![s].r.x = @ + dx, ![s].r.y = @ + dy]
  /\ UNCHANGED << nextId, bg, active, focus, queue, live, pushed, held, hidden >>

SetMenu(p, s, on) ==
  /\ Call(p) /\ saw[p].wins[s].id # 0 /\ wins[s].menu # on
  /\ wins' = [wins EXCEPT ![s].menu = on]
  /\ UNCHANGED << nextId, bg, active, focus, queue, live, pushed, held, hidden >>

(* wm_cleanup_pd: a program ends, its visible windows go and its queue is  *)
(* freed.  A window that is minimised stays, with the name of the dead.    *)
Cleaned(ws, p) == [s \in Slots |->
  IF ws[s].visible /\ ws[s].pd = p
  THEN [ws[s] EXCEPT !.visible = FALSE, !.drag = FALSE] ELSE ws[s]]
(* A bug: the queue is left to the program that was there.                 *)
QueuesKept(p) == clients
QueuesWithout(p) == [c \in 1 .. MaxClients |->
  IF clients[c].pd = p THEN NoClient ELSE clients[c]]
Exit(p) ==
  /\ p \in live /\ live' = live \ {p}
  /\ wins' = Cleaned(wins, p)
  /\ Recompute(Cleaned(saw[p].wins, p))
  /\ clients' = QueuesWithout(p)
  /\ hand' = [hand EXCEPT ![p] = Idle] /\ to' = [to EXCEPT ![p] = None]
  /\ UNCHANGED << nextId, evq, pushed, calls, held, hidden >>

-----------------------------------------------------------------------------
(* The interrupts of the mouse and the keyboard; a full queue drops.  Only *)
(* what comes while there is a window is of interest.                      *)
Push(type, at) ==
  /\ active /\ pushed < MaxEvents /\ pushed' = pushed + 1
  /\ evq' = IF Len(evq) < EvMax - 1 THEN Append(evq, Event(type, at, 0)) ELSE evq
  /\ UNCHANGED << table, clients, hand, to, live, calls, held, hidden >>

(* SYS_EVENT: an event of the global queue, as long as there is one.       *)
Fetch(p) ==
  /\ p \in live /\ ~saw[p].on /\ hand[p] \in {Idle, Loop} /\ evq # << >>
  /\ hand' = [hand EXCEPT ![p] = Head(evq)] /\ evq' = Tail(evq)
  /\ UNCHANGED << table, clients, to, live, pushed, calls, held, hidden >>

(* wm_event_claim: then one of its own, and the call returns.              *)
Claim(p) ==
  /\ p \in live /\ ~saw[p].on /\ hand[p] \in {Idle, Loop} /\ evq = << >>
  /\ hand' = [hand EXCEPT ![p] = Idle]
  /\ clients' = [c \in 1 .. MaxClients |->
                   IF clients[c].pd = p /\ clients[c].q # << >>
                   THEN [clients[c] EXCEPT !.q = Tail(@)] ELSE clients[c]]
  /\ UNCHANGED << table, evq, to, live, pushed, calls, held, hidden >>

(* What wm_route returns: the program an event is for, that the event is   *)
(* used up, or that whoever asked gets it as it is.                        *)
Give(p, pd, ev) == hand' = [hand EXCEPT ![p] = ev] /\ to' = [to EXCEPT ![p] = pd]
Consume(p) == hand' = [hand EXCEPT ![p] = Loop] /\ UNCHANGED to
Raw(p)     == hand' = [hand EXCEPT ![p] = Idle] /\ UNCHANGED to
ToFocus(p) == IF focus # None THEN Give(p, focus, hand[p]) ELSE Raw(p)

(* wm_client_find: the queue of a program, else the first that is not used *)
(* (0: there is none).                                                     *)
ClientOf(cs, pd) ==
  LET own  == {c \in 1 .. MaxClients : cs[c].pd = pd}
      free == {c \in 1 .. MaxClients : cs[c].pd = None}
      S    == IF own # {} THEN own ELSE free
  IN  IF S = {} THEN 0 ELSE CHOOSE i \in S : \A j \in S : i <= j

(* wm_event_deliver: to the queue of that program, allocated now if it has *)
(* none; with no queue left, or the queue full, the event is dropped.      *)
(* Nothing asks whether the program is still there.                        *)
Deliver(p) ==
  LET c == ClientOf(saw[p].clients, to[p])
      q == IF saw[p].clients[c].pd = None THEN << >> ELSE clients[c].q
  IN  /\ p \in live /\ to[p] # None
      /\ hand' = [hand EXCEPT ![p] = Loop] /\ to' = [to EXCEPT ![p] = None]
      /\ clients' = IF c = 0 THEN clients
                    ELSE [clients EXCEPT ![c] = [pd |-> to[p],
                           q |-> IF Len(q) < EvMax - 1 THEN Append(q, hand[p]) ELSE q]]
      /\ UNCHANGED << table, evq, live, pushed, calls, held, hidden >>

Has(p, type) == p \in live /\ to[p] = None /\ hand[p].type = type
Same == UNCHANGED << nextId, clients, evq, live, pushed, calls, hidden >>

(* wm_route with no window on the screen.                                  *)
RouteNone(p) ==
  /\ p \in live /\ to[p] = None /\ hand[p] \notin {Idle, Loop} /\ ~saw[p].active
  /\ Raw(p) /\ UNCHANGED << wins, bg, active, focus >>
  /\ held' = (IF hand[p].type \in {"down", "up"} THEN hand[p].type = "down" ELSE held)
  /\ Same

Drops(p) == \E s \in Dragged(saw[p].wins) :
  /\ \A o \in Dragged(saw[p].wins) : s <= o
  /\ wins' = [wins EXCEPT ![s].drag = FALSE]
Grabs(p) == saw[p].active /\ Dragged(saw[p].wins) # {}
Finds(p) == saw[p].active /\ Dragged(saw[p].wins) = {}
Under(p) == Hit(saw[p].wins, hand[p].at)    \* wm_hit

(* A press while a window is dragged drops the window; outside every       *)
(* window it is the focus's.                                               *)
PressDrops(p) ==
  /\ Has(p, "down") /\ Grabs(p) /\ Drops(p)
  /\ Consume(p) /\ held' = TRUE /\ UNCHANGED << bg, active, focus >> /\ Same
PressOutside(p) ==
  /\ Has(p, "down") /\ Finds(p) /\ Under(p) = 0
  /\ ToFocus(p) /\ held' = TRUE /\ UNCHANGED << wins, bg, active, focus >> /\ Same

(* A bug: a press while a window is dragged goes to the window under it.   *)
PressOnWhileDragged(p, s) ==
  /\ Has(p, "down") /\ saw[p].active /\ s # 0 /\ s = Under(p)
  /\ held' = TRUE /\ Same
(* A press on a window gives its program the focus.                        *)
PressOn(p, s) ==
  /\ Has(p, "down") /\ Finds(p) /\ s # 0 /\ s = Under(p)
  /\ held' = TRUE /\ Same

(* On the client: the window is raised, but not by a click in the column   *)
(* under the buttons.  On the taskbar and the menu strip nothing moves.    *)
InClient(p, s) == hand[p].at[2] >= Client(wins[s]).y
PressClient(p) == LET s == Under(p) IN
  /\ PressOn(p, s) /\ (wins[s].kind = "fixed" \/ InClient(p, s))
  /\ focus' = wins[s].pd
  /\ IF wins[s].kind # "fixed" /\ hand[p].at[1] < ButtonsX(wins[s])
     THEN wins' = Raised(wins, s, Top(saw[p].wins))
     ELSE UNCHANGED wins
  /\ Give(p, wins[s].pd, hand[p]) /\ UNCHANGED << bg, active >>
PressMenu(p) == LET s == Under(p) IN
  /\ PressOn(p, s) /\ wins[s].kind # "fixed" /\ ~InClient(p, s)
  /\ wins[s].menu /\ hand[p].at[2] >= wins[s].r.y + TitleH + Frame
  /\ focus' = wins[s].pd
  /\ Give(p, wins[s].pd, hand[p]) /\ UNCHANGED << wins, bg, active >>

PressTitle(p, s) ==
  /\ PressOn(p, s) /\ wins[s].kind # "fixed" /\ ~InClient(p, s)
  /\ ~(wins[s].menu /\ hand[p].at[2] >= wins[s].r.y + TitleH + Frame)
Button(p, s) == (hand[p].at[1] - ButtonsX(wins[s])) \div XBtn

(* The title's buttons: close is for the program to do, the other two are  *)
(* done here.  Left of them a drag starts.                                 *)
PressClose(p) == LET s == Under(p) IN
  /\ PressTitle(p, s) /\ hand[p].at[1] >= ButtonsX(wins[s]) /\ Button(p, s) = 2
  /\ focus' = wins[s].pd
  /\ Give(p, wins[s].pd, Event("close", hand[p].at, wins[s].id))
  /\ UNCHANGED << wins, bg, active >>
Maximized(w) ==
  IF w.max THEN [w EXCEPT !.max = FALSE, !.r = w.saved]
  ELSE [w EXCEPT !.max = TRUE, !.saved = w.r,
                 !.r = [x |-> 0, y |-> 0, w |-> ScreenW, h |-> ScreenH]]
PressMax(p) == LET s == Under(p) IN
  /\ PressTitle(p, s) /\ hand[p].at[1] >= ButtonsX(wins[s]) /\ Button(p, s) = 1
  /\ focus' = wins[s].pd
  /\ wins' = [wins EXCEPT ![s] = Maximized(@)]
  /\ Consume(p) /\ UNCHANGED << bg, active >>
PressMin(p) == LET s == Under(p) IN
  /\ PressTitle(p, s) /\ hand[p].at[1] >= ButtonsX(wins[s]) /\ Button(p, s) \notin {1, 2}
  /\ wins' = [wins EXCEPT ![s].visible = FALSE]
  /\ LET seen == [saw[p].wins EXCEPT ![s].visible = FALSE]
     IN  /\ active' = AnyVisible(seen) /\ bg' = (bg /\ AnyVisible(seen))
         /\ focus' = NextFocus(seen, wins[s].pd)
  /\ Consume(p)
PressDrag(p) == LET s == Under(p) IN
  /\ PressTitle(p, s) /\ hand[p].at[1] < ButtonsX(wins[s])
  /\ focus' = wins[s].pd
  /\ wins' = [wins EXCEPT ![s].drag = TRUE,
               ![s].off = << hand[p].at[1] - wins[s].r.x, hand[p].at[2] - wins[s].r.y >>]
  /\ Consume(p) /\ UNCHANGED << bg, active >>

(* A release ends a drag; a movement takes the window along.  Both go to   *)
(* the window under the mouse, or to the focus.                            *)
Release(p) ==
  /\ Has(p, "up") /\ Grabs(p) /\ Drops(p) /\ held' = FALSE
  /\ Consume(p) /\ UNCHANGED << bg, active, focus >> /\ Same
DragMoves(p) ==
  /\ Has(p, "move") /\ Grabs(p) /\ UNCHANGED held
  /\ \E s \in Dragged(saw[p].wins) :
       /\ \A o \in Dragged(saw[p].wins) : s <= o
       /\ wins' = [wins EXCEPT ![s].r.x = hand[p].at[1] - wins[s].off[1],
                               ![s].r.y = hand[p].at[2] - wins[s].off[2]]
  /\ Consume(p) /\ UNCHANGED << bg, active, focus >> /\ Same
Hover(p) ==
  /\ Has(p, "up") \/ Has(p, "move")
  /\ Finds(p)
  /\ held' = (held /\ hand[p].type = "move")
  /\ LET s == Under(p)
     IN  IF s # 0 THEN Give(p, wins[s].pd, hand[p]) ELSE ToFocus(p)
  /\ UNCHANGED << wins, bg, active, focus >> /\ Same

(* A key: to the highest program's window, else to the taskbar; neither,   *)
(* and whoever asked gets it.                                              *)
Key(p) ==
  /\ Has(p, "key") /\ saw[p].active /\ UNCHANGED held
  /\ LET ws == saw[p].wins
         s == IF TopmostApp(ws) # 0 THEN TopmostApp(ws) ELSE Highest(ws, NotBg(ws))
     IN  IF s = 0 THEN Raw(p) /\ UNCHANGED focus
         ELSE Give(p, wins[s].pd, hand[p]) /\ focus' = wins[s].pd
  /\ UNCHANGED << wins, bg, active >> /\ Same

Route(p) ==
  \/ RouteNone(p) \/ PressDrops(p) \/ PressOutside(p) \/ PressClient(p) \/ PressMenu(p)
  \/ PressClose(p) \/ PressMax(p) \/ PressMin(p) \/ PressDrag(p)
  \/ Release(p) \/ DragMoves(p) \/ Hover(p) \/ Key(p)

Calls(p) ==
  \/ \E sh \in Shapes : Create(p, sh)
  \/ \E s \in Slots :
       \/ Close(p, s)
       \/ \E on \in BOOLEAN : Vis(p, s, on) \/ SetMenu(p, s, on)
       \/ \E d \in Steps : Move(p, s, d[1], d[2])
  \/ Exit(p)

Irq == \/ \E at \in Clicks : Push("down", at)
       \/ \E type \in {"up", "move"}, at \in Hovers : Push(type, at)
       \/ Push("key", << 0, 0 >>)

(* The window of a program that this step opens or takes over the others.  *)
Fronted ==
  LET R == {s \in Slots : /\ wins'[s].kind = "app"
                          /\ wins'[s].id # wins[s].id \/ wins'[s].z > wins[s].z}
  IN  front' = IF R = {} THEN front ELSE CHOOSE s \in R : TRUE

(* Inside a call: between its searches and its writes, or with an event    *)
(* that is routed and not delivered.                                       *)
Inside(p) == saw[p].on \/ to[p] # None
Writes(p) == /\ saw[p].on /\ (Route(p) \/ Deliver(p) \/ Calls(p))
             /\ saw' = [saw EXCEPT ![p] = NoView]
Step(p) ==
  /\ Look(p) \/ Writes(p) \/ ((Fetch(p) \/ Claim(p)) /\ UNCHANGED saw)
  /\ overlapped' = (overlapped \/ \E q \in Procs \ {p} : Inside(q))

Next == /\ (Irq /\ UNCHANGED << saw, overlapped >>) \/ (\E p \in Procs : Step(p))
        /\ Fronted

Spec == Init /\ [][Next]_vars
-----------------------------------------------------------------------------
(* The properties are of calls that are not overlapped: the code locks     *)
(* nothing, and what two calls in each other's way may leave is told by    *)
(* the model and promised by nobody.                                       *)

(* The types: no level is negative, and no queue is ever full.             *)
Windows == [id : 0 .. MaxIds, pd : Procs \cup {None}, r : Rects, kind : Kinds,
            framed : BOOLEAN, z : Nat, visible : BOOLEAN, drag : BOOLEAN, off : Int \X Int,
            max : BOOLEAN, saved : Rects, menu : BOOLEAN]
Events == [type : {"idle", "loop", "down", "up", "move", "key", "close"},
           at : Clicks \cup Hovers \cup {<< 0, 0 >>}, id : 0 .. MaxIds]
Queues == {q \in Seq(Events) : Len(q) < EvMax}
TypeOK ==
  /\ wins \in [Slots -> Windows] /\ nextId \in 1 .. MaxIds + 1
  /\ bg \in BOOLEAN /\ active \in BOOLEAN /\ focus \in Procs \cup {None}
  /\ clients \in [1 .. MaxClients -> [pd : Procs \cup {None}, q : Queues]]
  /\ evq \in Queues /\ hand \in [Procs -> Events] /\ live \subseteq Procs
  /\ to \in [Procs -> Procs \cup {None}]
  /\ pushed \in Nat /\ calls \in Nat /\ held \in BOOLEAN /\ hidden \in BOOLEAN

(* The focus is a program with a window on the screen, and with a window   *)
(* there other than the wallpaper some program has it.                     *)
FocusHasWindow ==
  /\ focus # None => \E s \in Visible : wins[s].pd = focus
  /\ NotBg(wins) # {} => focus # None

(* The copy of the screen that lies under the windows is freed with the    *)
(* last of them, and the console is shown only when there is none.         *)
BackgroundFreed == /\ bg => Visible # {}
                   /\ active <=> Visible # {}

(* A slot that was never used is not on the screen, and whose window is    *)
(* there is known and, while no program has shown a window again, runs.    *)
OwnersKnown ==
  \A s \in Slots : /\ wins[s].visible => wins[s].id # 0
                   /\ wins[s].id # 0 => wins[s].pd # None
                   /\ wins[s].visible /\ ~hidden => wins[s].pd \in live

(* Whatever closes, hides or dies, in any order of calls that do not       *)
(* overlap: the keyboard of the desktop is never lost, focus and screen    *)
(* follow the windows, and nothing of the dead is left on the screen.      *)
DesktopOK == TypeOK /\ FocusHasWindow /\ BackgroundFreed /\ OwnersKnown
DesktopKept == ~overlapped => DesktopOK

(* A click goes to the window that is seen at that point after the window  *)
(* there was redrawn.                                                      *)
ClickedIsSeen ==
  \A p \in Clicks : LET h == Hit(wins, p) IN
    h # 0 => Painted(wins[h].r, p) = h

(* While no program has shown a window again and no calls have overlapped: *)
(* the window that was opened or clicked last stays in front of all others *)
(* until another is, or it goes.  The keys are its program's; so are the   *)
(* clicks, but on the taskbar; and while its level is one of those         *)
(* painted, a redraw of it shows it wherever it would get the click.       *)
SeenInFront(f) ==
  /\ TopmostApp(wins) = f
  /\ \A p \in Clicks : In(p, wins[f].r) =>
       \/ wins[Hit(wins, p)].kind = "fixed"
       \/ Hit(wins, p) = f /\ (wins[f].z < MaxWins => Painted(wins[f].r, p) = f)
FrontOnTop ==
  ~hidden /\ front # 0 =>
    /\ wins[front].kind = "app" /\ wins[front].id # 0
    /\ front \in Visible =>
         \A o \in Visible \ {front} : wins[o].kind # "fixed" => wins[o].z < wins[front].z
FrontIsSeen ==
  ~overlapped /\ ~hidden /\ front # 0 /\ front \in Visible => SeenInFront(front)

(* Not kept: every click goes to what is seen, while the levels are those  *)
(* that are painted.  Each window that opens comes in at level 0 and takes *)
(* all others down by one, to 0 at the least: with four windows open, the  *)
(* two oldest are both on level 0.  The click finds the first of them in   *)
(* the table, the redraw paints the last one over it.                      *)
Paintable == \A s \in Visible : wins[s].z < MaxWins
HitIsSeen == ~hidden /\ Paintable => ClickedIsSeen

(* Every window on the screen is painted: the last to be raised is not,    *)
(* for its level grows by one with each click.                             *)
TopIsSeen == ClickedIsSeen

(* While no program has hidden a window by SYS_WINVIS and no calls have    *)
(* overlapped: at most one window is dragged, and only between a press and *)
(* the next release or press that was routed, whatever closes or dies      *)
(* meanwhile.                                                              *)
DragOK == ~hidden => /\ Cardinality(Dragged(wins)) <= 1
                     /\ Dragged(wins) # {} => held
OneDrag == ~overlapped => DragOK

(* While no program has shown a window again and no calls have overlapped: *)
(* only a program that runs keeps one of the few queues of events, and an  *)
(* event that is routed is for a program that runs.                        *)
QueuesOK ==
  ~hidden => /\ \A c \in 1 .. MaxClients : clients[c].pd \in live \cup {None}
             /\ \A p \in Procs : to[p] \in live \cup {None}
QueuesOfTheLiving == ~overlapped => QueuesOK

(* At most one program is inside a call, and what its searches saw is what *)
(* is there.                                                               *)
Sees(p) == /\ saw[p].wins = wins /\ saw[p].active = active /\ saw[p].clients = clients
CallsApart ==
  /\ DOMAIN saw = Procs
  /\ \A p, q \in Procs : Inside(p) /\ Inside(q) => p = q
  /\ \A p \in Procs : saw[p].on => Sees(p)

(* Windows, focus, drags and queues together.                              *)
Inv  == DesktopOK /\ DragOK /\ QueuesOK /\ CallsApart
IInv == ~overlapped => Inv
=============================================================================

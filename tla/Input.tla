--------------------------------- MODULE Input ---------------------------------
(***************************************************************************)
(* The keyboard (kernel/drivers/keyboard.c), the mouse and the queue of    *)
(* events both fill (kernel/drivers/mouse.c).  The devices send bytes, and *)
(* an interrupt takes one; a task reads keys and events in between.        *)
(*                                                                         *)
(* A program can put an event of its own in the queue (SYS_MOUSE_INJECT).  *)
(* It does so with interrupts on: with Interrupted a device's can come     *)
(* after the event is written and before the head of the ring is moved.    *)
(***************************************************************************)
EXTENDS Integers, Sequences, FiniteSets

CONSTANTS
  EV_QUEUE_MAX, KBD_BUF,    (* places of the rings, one stays free           *)
  Width,                    (* columns of the screen; rows are alike         *)
  Steps,                    (* how far the mouse moves                       *)
  MouseButtons,
  Keys,                     (* the keys of the keyboard, see Codes           *)
  Interrupted               (* an interrupt comes between an event and head  *)

ASSUME InputAssumption ==
  /\ EV_QUEUE_MAX \in Nat \ {0} /\ KBD_BUF \in Nat \ {0} /\ Width \in Nat \ {0}
  /\ Steps \subseteq Int /\ Interrupted \in BOOLEAN
  /\ Keys \subseteq {"lshift", "rshift", "lctrl", "rctrl", "alt", "altgr", "caps", "a", "left"}

VARIABLES
  down, wire,               \* the keyboard: keys held, bytes to be taken
  ext, flags, kbd_caps,     \* keyboard_irq: the prefix; shift, ctrl and alt
  hand, mwire, valid,       \* the mouse: buttons held, bytes to be taken, last packet valid
  mouse_pkt, mouse_x, mouse_buttons,
  kbd, ev,                  \* the rings
  inject,                   \* the event a program is about to publish
  both, caps, clicked, lost \* history: see the properties
keyboard == << down, wire, ext, flags, kbd_caps, both, caps >>
mouse == << hand, mwire, valid, mouse_pkt, mouse_x, mouse_buttons >>
ivars == << keyboard, mouse, kbd, ev, inject, clicked, lost >>

Mods == {"shift", "ctrl", "alt"}
(* The scan codes of a key: right ctrl and alt are those of the left ones  *)
(* behind a prefix, and so are the arrows those of the numeric pad.        *)
Codes == [lshift |-> << "shift" >>, rshift |-> << "shift" >>, lctrl |-> << "ctrl" >>,
          rctrl |-> << "E0", "ctrl" >>, alt |-> << "alt" >>, altgr |-> << "E0", "alt" >>,
          caps |-> << "caps" >>, a |-> << "a" >>, left |-> << "E0", "left" >>]
Of(m) == {k \in Keys : Codes[k][Len(Codes[k])] = m}
Byte(code, up) == [code |-> code, up |-> up]
Bytes(k, up) == [x \in DOMAIN Codes[k] |-> Byte(Codes[k][x], up)]
Event(type, buttons, key) == [type |-> type, buttons |-> buttons, key |-> key]

(* A ring, and beside it what was put there and not yet taken.             *)
Ring(max) == [slots |-> [p \in 0 .. max - 1 |-> << >>], head |-> 0, tail |-> 0, pending |-> << >>]
Behind(r, p) == (p + 1) % Cardinality(DOMAIN r.slots)
Room(r) == Behind(r, r.head) # r.tail
Push(r, e) ==
  IF Room(r) THEN [slots |-> [r.slots EXCEPT ![r.head] = << e >>], head |-> Behind(r, r.head),
                   tail |-> r.tail, pending |-> Append(r.pending, e)]
  ELSE r
(* A place that was read is empty: what is left there is never looked at.  *)
Pop(r) == [slots |-> [r.slots EXCEPT ![r.tail] = << >>], head |-> r.head,
           tail |-> Behind(r, r.tail), pending |-> Tail(r.pending)]
Flush(r) == [slots |-> [p \in DOMAIN r.slots |-> << >>], head |-> r.head, tail |-> r.head,
             pending |-> << >>]

InputInit ==
  /\ down = {} /\ wire = << >> /\ ext = FALSE /\ flags = {} /\ kbd_caps = FALSE
  /\ hand = {} /\ mwire = << >> /\ valid = TRUE
  /\ mouse_pkt = << >> /\ mouse_x = Width \div 2 /\ mouse_buttons = {}
  /\ kbd = Ring(KBD_BUF) /\ ev = Ring(EV_QUEUE_MAX) /\ inject = << >>
  /\ both = {} /\ caps = FALSE /\ clicked = {} /\ lost = FALSE

-----------------------------------------------------------------------------
(* THE KEYBOARD                                                            *)
(* The keyboard sends a key's next byte when the last was taken.           *)
Paired(D) == {m \in Mods : Cardinality(D \cap Of(m)) > 1}
              \cup {m \in both : D \cap Of(m) # {}}
KeyDown(k) ==
  /\ wire = << >> /\ (k \in down => Codes[k] \in {<< "a" >>, << "E0", "left" >>})
  /\ wire' = Bytes(k, FALSE) /\ down' = down \cup {k} /\ both' = Paired(down')
  /\ caps' = (caps # (k = "caps"))
  /\ UNCHANGED << ext, flags, kbd_caps, mouse, kbd, ev, inject, clicked, lost >>
KeyUp(k) ==
  /\ wire = << >> /\ k \in down
  /\ wire' = Bytes(k, TRUE) /\ down' = down \ {k} /\ both' = Paired(down')
  /\ UNCHANGED << ext, flags, kbd_caps, caps, mouse, kbd, ev, inject, clicked, lost >>

(* A key that is no modifier is an event, and a character for the console. *)
KeyEvents(code) ==
  IF code = "left" THEN ev' = Push(ev, Event("key", flags, "left")) /\ UNCHANGED kbd
  ELSE LET c == IF "shift" \in flags \/ kbd_caps THEN "A" ELSE "a"
       IN  ev' = Push(ev, Event("key", flags, c)) /\ kbd' = Push(kbd, c)
(* A bug: the prefix of a modifier stays.                                  *)
ExtKept(b) == IF b.code \in Mods THEN ext ELSE FALSE
ExtAfter(b) == FALSE
FlagsAfter(b) == IF b.code \notin Mods THEN flags
                 ELSE IF b.up THEN flags \ {b.code} ELSE flags \cup {b.code}
IrqOn == inject = << >> \/ Interrupted
keyboard_irq ==
  /\ wire # << >> /\ IrqOn /\ wire' = Tail(wire)
  /\ LET b == Head(wire)
     IN  IF b.code = "E0" THEN ext' = TRUE /\ UNCHANGED << flags, kbd_caps, kbd, ev >>
         ELSE /\ ext' = ExtAfter(b)
              /\ flags' = FlagsAfter(b)
              /\ kbd_caps' = (kbd_caps # (b.code = "caps" /\ ~b.up /\ ~ext))
              /\ IF b.code \in Mods \cup {"caps"} \/ b.up THEN UNCHANGED << kbd, ev >>
                 ELSE KeyEvents(b.code)
  /\ UNCHANGED << down, both, caps, mouse, inject, clicked, lost >>

-----------------------------------------------------------------------------
(* THE MOUSE                                                               *)
(* A packet: the buttons and whether the movement overflowed, and how far. *)
Packet(B, far, dx) ==
  /\ mwire = << >> /\ hand' = B /\ valid' = ~far
  /\ mwire' = << [buttons |-> B, far |-> far], [by |-> dx], [by |-> 0] >>
  /\ UNCHANGED << mouse_pkt, mouse_x, mouse_buttons, keyboard, kbd, ev, inject, clicked, lost >>

Clamp(x) == IF x < 0 THEN 0 ELSE IF x >= Width THEN Width - 1 ELSE x
(* Buttons that went down, buttons that went up, and the movement.         *)
Released(B) == mouse_buttons \ B
If(c, r, e) == IF c THEN Push(r, e) ELSE r
ButtonEvents(B) ==
  If(Released(B) # {}, If(B \ mouse_buttons # {}, ev, Event("down", B, "none")), Event("up", B, "none"))
(* How many events the buttons make.                                       *)
Changes(B) == Cardinality({S \in {B \ mouse_buttons, mouse_buttons \ B} : S # {}})
mouse_irq ==
  /\ mwire # << >> /\ IrqOn /\ mwire' = Tail(mwire)
  /\ IF Len(mouse_pkt) < 2
     THEN /\ mouse_pkt' = Append(mouse_pkt, Head(mwire))
          /\ UNCHANGED << mouse_x, mouse_buttons, ev, lost >>
     ELSE LET B == mouse_pkt[1].buttons
          IN  /\ mouse_pkt' = << >>
              /\ IF mouse_pkt[1].far THEN UNCHANGED << mouse_x, mouse_buttons, ev, lost >>
                 ELSE /\ mouse_buttons' = B /\ mouse_x' = Clamp(mouse_x + mouse_pkt[2].by)
                      /\ ev' = Push(ButtonEvents(B), Event("move", B, "none"))
                      /\ lost' = IF B = mouse_buttons THEN lost
                                 ELSE EV_QUEUE_MAX - 1 - Len(ev.pending) < Changes(B)
  /\ UNCHANGED << hand, valid, keyboard, kbd, inject, clicked >>

-----------------------------------------------------------------------------
(* TASKS                                                                   *)
(* SYS_EVENT takes an event; what it says of the buttons the reader knows. *)
mouse_event_dequeue ==
  /\ inject = << >> /\ ev.head # ev.tail
  /\ LET e == ev.slots[ev.tail][1]
     IN  clicked' = IF e.type \in {"down", "up"} THEN e.buttons ELSE clicked
  /\ ev' = Pop(ev) /\ UNCHANGED << keyboard, mouse, kbd, inject, lost >>
mouse_event_flush ==
  /\ inject = << >> /\ ev' = Flush(ev) /\ lost' = TRUE
  /\ UNCHANGED << keyboard, mouse, kbd, inject, clicked >>
keyboard_read ==
  /\ inject = << >> /\ kbd.head # kbd.tail /\ kbd' = Pop(kbd)
  /\ UNCHANGED << keyboard, mouse, ev, inject, clicked, lost >>
keyboard_flush ==
  /\ inject = << >> /\ kbd' = Flush(kbd)
  /\ UNCHANGED << keyboard, mouse, ev, inject, clicked, lost >>
Inject ==
  /\ inject = << >> /\ Room(ev)
  /\ inject' = << Behind(ev, ev.head) >>
  /\ ev' = [ev EXCEPT !.slots[ev.head] = << Event("key", {}, "injected") >>]
  /\ UNCHANGED << keyboard, mouse, kbd, clicked, lost >>
Publish ==
  /\ inject # << >> /\ inject' = << >>
  /\ ev' = [ev EXCEPT !.head = inject[1], !.pending = Append(@, Event("key", {}, "injected"))]
  /\ UNCHANGED << keyboard, mouse, kbd, clicked, lost >>

InputNext ==
  \/ (\E k \in Keys : KeyDown(k) \/ KeyUp(k)) \/ keyboard_irq
  \/ (\E B \in SUBSET MouseButtons, far \in BOOLEAN, dx \in Steps : Packet(B, far, dx)) \/ mouse_irq
  \/ mouse_event_dequeue \/ mouse_event_flush \/ keyboard_read \/ keyboard_flush
  \/ Inject \/ Publish
InputSpec == InputInit /\ [][InputNext]_ivars

-----------------------------------------------------------------------------
InputTypeOK ==
  /\ down \subseteq Keys /\ flags \subseteq Mods /\ kbd_caps \in BOOLEAN /\ ext \in BOOLEAN
  /\ hand \subseteq MouseButtons /\ mouse_buttons \subseteq MouseButtons /\ mouse_x \in 0 .. Width - 1
  /\ kbd.head \in 0 .. KBD_BUF - 1 /\ ev.head \in 0 .. EV_QUEUE_MAX - 1 /\ Len(mouse_pkt) < 3
(* The rings give back what was put into them and found room, in order,    *)
(* also when a program's event and a device's come together.               *)
Holds(r) ==
  LET max == Cardinality(DOMAIN r.slots)
  IN  /\ Len(r.pending) = (r.head - r.tail + max) % max
      /\ \A x \in DOMAIN r.pending : r.slots[(r.tail + x - 1) % max] = << r.pending[x] >>
RingsAreQueues == inject = << >> => Holds(kbd) /\ Holds(ev)
(* Shift, ctrl and alt are as the hands have them: whenever one key of a   *)
(* modifier at a time was held since none was.  (With both shifts held the *)
(* first one that is let go ends the shift, until both are up.)            *)
ModifiersTrue == wire = << >> => \A m \in Mods \ both : m \in flags <=> down \cap Of(m) # {}
(* The lock changes once with every press of its key.                      *)
CapsFollows == wire = << >> => kbd_caps = caps
(* Who counts the clicks knows which buttons are held, unless the queue    *)
(* was full or flushed since, or the last packet was an overflowed one.    *)
Clicks(es) == {x \in DOMAIN es : es[x].type \in {"down", "up"}}
Heard(known, es) ==
  IF Clicks(es) = {} THEN known
  ELSE es[CHOOSE x \in Clicks(es) : \A y \in Clicks(es) : y <= x].buttons
ButtonsTold == mwire = << >> /\ valid /\ ~lost => Heard(clicked, ev.pending) = hand
(* keyboard.c, mouse.c: the rings give what was put in, in order; once     *)
(* every byte is read, modifiers, lock and buttons are what the hands hold.*)
DevicesTold == InputTypeOK /\ RingsAreQueues /\ ModifiersTrue /\ CapsFollows /\ ButtonsTold
=============================================================================

-------------------------------- MODULE Menu --------------------------------
(***************************************************************************)
(* The menu bar of user/win32/user32.c: the resource of a menu is parsed   *)
(* into a flat list of items with depths, and menu_modal takes all the     *)
(* program's events while a popup is open.                                 *)
(*                                                                         *)
(* A resource is a sequence of entries: what it is ("pop", "cmd", "sep"),  *)
(* whether it ends its level (MF_END), and its mnemonic (the character     *)
(* behind the ampersand), which is lost where the code cleans the label    *)
(* in place.  A place on the bar is a top-level popup, or 0 for none; a    *)
(* pointer is on a row of the popup, on the bar, or elsewhere.             *)
(***************************************************************************)
EXTENDS Integers, Sequences, FiniteSets

CONSTANTS Resources,        (* menus                                        *)
          Letters           (* mnemonics                                    *)

VARIABLES
  items,                    \* loaded_menu
  clean,                    \* top-level labels that have lost the ampersand
  top, hi,                  \* the popup that is open (0: none), its highlight
  state,                    \* "shut", "open", or "stuck" in a key
  chosen                    \* the item whose WM_COMMAND was pushed last
vars == << items, clean, top, hi, state, chosen >>

-----------------------------------------------------------------------------
(* menu_parse_level, as one pass: the open levels are a stack, each with   *)
(* whether the popup above it was the last of its own level.               *)
(* A bug: a popup that ends its level only ends its own.                   *)
ShutOne(levels) == IF levels = << >> THEN << >> ELSE Tail(levels)
Shut(levels) ==
  LET f[n \in 0 .. Len(levels)] ==       \* levels above the n lowest are shut
        IF n = 0 THEN << >>
        ELSE LET own == levels[Len(levels) - n + 1]
             IN  IF own THEN f[n - 1] ELSE SubSeq(levels, Len(levels) - n + 2, Len(levels))
  IN  f[Len(levels)]
Parsed(res) ==
  LET at[i \in 0 .. Len(res)] ==         \* the levels after i entries
        IF i = 0 THEN << >>
        ELSE IF res[i].type = "pop" THEN << res[i].ends >> \o at[i - 1]
        ELSE IF res[i].ends THEN Shut(at[i - 1]) ELSE at[i - 1]
  IN  [i \in 1 .. Len(res) |-> [type |-> res[i].type, depth |-> Len(at[i - 1]),
                                letter |-> res[i].letter]]

Init == /\ items \in {Parsed(res) : res \in Resources}
        /\ clean = {} /\ top = 0 /\ hi = -1 /\ state = "shut" /\ chosen = 0

Tops == {i \in 1 .. Len(items) : items[i].depth = 0 /\ items[i].type = "pop"}
(* menu_popup_rows and menu_popup_item: the items below t, to the next one *)
(* of depth 0, that have depth 1; rows count from 0.                       *)
Below(t) == {i \in t + 1 .. Len(items) : \A k \in t + 1 .. i : items[k].depth > 0}
RowItems(t) == {i \in Below(t) : items[i].depth = 1}
RowsOf(t) == Cardinality(RowItems(t))
Item(t, r) == CHOOSE i \in RowItems(t) : Cardinality({k \in RowItems(t) : k < i}) = r
Selectable(t, r) == r \in 0 .. RowsOf(t) - 1 /\ items[Item(t, r)].type # "sep"

(* menu_bar_top_at cleans the labels up to the one it looks for, all of    *)
(* them when it finds none; menu_bar_top_x those in front of it.           *)
LookedFor(t) == clean \cup {i \in Tops : t \in Tops => i <= t}
Opened(t) == /\ state' = "open" /\ top' = t /\ hi' = -1
             /\ UNCHANGED << items, chosen >>

Click(t) == /\ state = "shut"
            /\ clean' = LookedFor(t)
            /\ IF t \in Tops THEN Opened(t) ELSE UNCHANGED << items, top, hi, state, chosen >>
(* menu_bar_top_letter, for Alt and a letter.                              *)
Marked(c) == {i \in Tops \ clean : items[i].letter = c}
AltKey(c) == /\ state = "shut" /\ Marked(c) # {}
             /\ LET t == CHOOSE i \in Marked(c) : \A k \in Marked(c) : i <= k
                IN  /\ clean' = clean \cup {i \in Tops : i < t}
                    /\ Opened(t)

-----------------------------------------------------------------------------
(* menu_modal, an event at a time.                                         *)
Highlight(r) == hi' = r /\ UNCHANGED << items, clean, top, state, chosen >>
Cancel == state' = "shut" /\ UNCHANGED << items, clean, top, hi, chosen >>
(* The highlighted item, the first one when there is none; a separator or  *)
(* a submenu only closes the menu.                                         *)
Pick(h, c) ==
  LET i == Item(top, IF h < 0 THEN 0 ELSE h)
  IN  /\ state' = "shut" /\ clean' = c
      /\ chosen' = IF RowsOf(top) > 0 /\ items[i].type = "cmd" THEN i ELSE chosen
      /\ hi' = h /\ UNCHANGED << items, top >>
Switch(t) == /\ top' = t /\ hi' = -1 /\ UNCHANGED << items, state, chosen >>

MoveOnBar(t) == /\ clean' = LookedFor(t)
                /\ IF t \in Tops /\ t # top THEN Switch(t)
                   ELSE UNCHANGED << items, top, hi, state, chosen >>
DownOnBar(t) == IF t \in Tops /\ t # top THEN clean' = LookedFor(t) /\ Switch(t)
                ELSE /\ clean' = LookedFor(t) /\ state' = "shut"
                     /\ UNCHANGED << items, top, hi, chosen >>
Mouse == \/ \E r \in 0 .. RowsOf(top) - 1 : Highlight(r) \/ Pick(r, clean)
         \/ \E t \in Tops \cup {0} : MoveOnBar(t) \/ DownOnBar(t)
         \/ Cancel                            \* a release below the popup

(* The Up and Down keys go round to the next row that is no separator: for *)
(* ever when there is none.                                                *)
Cycle(step) ==
  LET n == RowsOf(top)
      from == IF hi < 0 /\ step < 0 THEN 0 ELSE hi
      row(k) == (from + step * k + 2 * n) % n
      S == {k \in 1 .. n : Selectable(top, row(k))}
  IN  IF n = 0 \/ S = {} THEN state' = "stuck" /\ UNCHANGED << items, clean, top, hi, chosen >>
      ELSE Highlight(row(CHOOSE k \in S : \A j \in S : k <= j))

(* The Left and Right keys: one item back or on, and from there on to the  *)
(* next top-level popup; with none it is the item itself that is opened.   *)
Beside(dir) ==
  LET n == Len(items)
      step(t) == IF t + dir < 1 THEN n ELSE IF t + dir > n THEN 1 ELSE t + dir
      land(t) == LET S == {i \in Tops : i >= t}
                 IN  IF S = {} THEN t ELSE CHOOSE i \in S : \A k \in S : i <= k
  IN  land(step(top))
Turn(dir) == IF Beside(dir) = top THEN Highlight(hi)
             ELSE UNCHANGED clean /\ Switch(Beside(dir))
Mnemonic(c) ==
  LET S == {r \in 0 .. RowsOf(top) - 1 : items[Item(top, r)].letter = c}
  IN  IF S = {} THEN Highlight(hi) ELSE Pick(CHOOSE r \in S : \A q \in S : r <= q, clean)
Keys == \/ \E d \in {-1, 1} : Cycle(d) \/ Turn(d)
        \/ Pick(hi, clean) \/ Cancel
        \/ \E c \in Letters : Mnemonic(c)

Next == \/ \E t \in Tops \cup {0} : Click(t)
        \/ \E c \in Letters : AltKey(c)
        \/ state = "open" /\ (Mouse \/ Keys)
Spec == Init /\ [][Next]_vars

-----------------------------------------------------------------------------
MenuTypeOK == /\ top \in 0 .. Len(items) /\ hi \in -1 .. Len(items)
              /\ chosen \in 0 .. Len(items) /\ clean \subseteq Tops

(* Parsing keeps the shape of the menu: the rows of a popup begin right    *)
(* behind it and run to the entry marked as the last of its level,         *)
(* whatever levels end together under it.                                  *)
LevelsKept ==
  \A res \in Resources : items = Parsed(res) =>
    \A i \in 0 .. Len(items) : i = 0 \/ items[i].type = "pop" =>
      LET d == IF i = 0 THEN 0 ELSE items[i].depth + 1
          Direct == {j \in i + 1 .. Len(items) :
                       items[j].depth = d /\ \A k \in i + 1 .. j : items[k].depth >= d}
      IN  /\ i + 1 \in Direct
          /\ \A j \in Direct : res[j].ends <=> \A k \in Direct : k <= j

(* What is highlighted is a row of the popup that is drawn, also when the  *)
(* pointer or a key has just opened another one with fewer rows.           *)
HighlightInPopup == state = "open" => hi < RowsOf(top)

(* A WM_COMMAND is that of a command of a popup: never of a separator, a   *)
(* submenu or a label of the bar.                                          *)
PicksACommand == chosen # 0 => items[chosen].type = "cmd" /\ items[chosen].depth = 1

(* The popup that is open belongs to a label of the bar.  Not kept: Left   *)
(* of the first one opens the last item of the menu.                       *)
TopIsALabel == state = "open" => top \in Tops
=============================================================================

--------------------------------- MODULE Gdi ---------------------------------
(***************************************************************************)
(* user/win32/gdi32.c: the table of objects, the device contexts of        *)
(* windows (one, made by user32) and of memory, what is drawn, and the     *)
(* dirty rectangle of the window's context, which is all user32 shows of   *)
(* a drawing.  Of the two coordinates only x is kept: a buffer is one row, *)
(* in the middle of every figure.                                          *)
(***************************************************************************)
EXTENDS Integers, Sequences, FiniteSets

CONSTANTS
  Objs,            (* 32: entries of the table of objects                   *)
  MemDcs,          (* 4: memory contexts                                    *)
  Width,           (* width of the window's client area                     *)
  Widths, Places,  (* widths of bitmaps and figures; where they begin       *)
  Colors,          (* colours, with "w" white, the rest created             *)
  Coords,          (* coordinates of lines                                  *)
  Bufs, Calls      (* bounds: bitmaps made, calls                           *)

VARIABLES
  gdi_obj,         \* the table
  dc,              \* the contexts; 0 is the window's
  px,              \* the buffers; the first is the window's
  drawn, back,     \* history: pixels drawn since the window was shown;
                   \* whether a drawing began left of the dirty part
  held,            \* history: handles the program has, what it asked for
  calls
vars == << gdi_obj, dc, px, drawn, back, held, calls >>

Slots == 1 .. Objs
Dcs == 0 .. MemDcs
Free == [type |-> "free", color |-> "w", buf |-> 0]
(* Handles: stock objects are below 0, created ones are their slots.       *)
WHITE_BRUSH == -1
BLACK_PEN == -2
NULL_PEN == -3
Clean == [x |-> 0, w |-> 0]
Size(b) == Cardinality(DOMAIN px[b])
Fresh(b) == [magic |-> TRUE, buf |-> b, cw |-> IF b = 0 THEN 1 ELSE Size(b),
             brush |-> WHITE_BRUSH, pen |-> BLACK_PEN, pen_x |-> 0, dirty |-> Clean]

Init ==
  /\ gdi_obj = [s \in Slots |-> Free]
  /\ px = << [x \in 0 .. Width - 1 |-> "w"] >>
  /\ dc = [d \in Dcs |-> [magic |-> FALSE, buf |-> 0, cw |-> 1, brush |-> WHITE_BRUSH,
                          pen |-> BLACK_PEN, pen_x |-> 0, dirty |-> Clean]]
  /\ drawn = {} /\ back = FALSE /\ held = << >> /\ calls = 0

Call == calls < Calls /\ calls' = calls + 1

-----------------------------------------------------------------------------
(* Objects.  obj_alloc takes the first free entry.                         *)
FirstFree == LET f == {s \in Slots : gdi_obj[s].type = "free"}
             IN  {s \in f : \A t \in f : s <= t}
Made(s, type, c) ==
  /\ gdi_obj' = [gdi_obj EXCEPT ![s] = [type |-> type, color |-> c, buf |-> 0]]
  /\ held' = [h \in DOMAIN held \cup {s} |-> IF h = s THEN [type |-> type, color |-> c] ELSE held[h]]
(* CreateSolidBrush, CreatePen, CreateFontIndirectA.                       *)
Create(type, c) ==
  /\ Call /\ \E s \in FirstFree : Made(s, type, c)
  /\ UNCHANGED << dc, px, drawn, back >>
(* CreateCompatibleBitmap: the entry stays taken when there is no memory.  *)
CreateCompatibleBitmap(w, ok) ==
  /\ Call /\ Len(px) < Bufs
  /\ \E s \in FirstFree :
       IF ok
       THEN /\ gdi_obj' = [gdi_obj EXCEPT ![s] = [type |-> "bitmap", color |-> "w", buf |-> Len(px) + 1]]
            /\ px' = Append(px, [x \in 0 .. w - 1 |-> "w"])
            /\ held' = [h \in DOMAIN held \cup {s} |->
                          IF h = s THEN [type |-> "bitmap", color |-> "w"] ELSE held[h]]
       ELSE /\ gdi_obj' = [gdi_obj EXCEPT ![s] = [type |-> "bitmap", color |-> "w", buf |-> 0]]
            /\ UNCHANGED << px, held >>
  /\ UNCHANGED << dc, drawn, back >>
(* DeleteObject: the buffer of a bitmap is not given back, and contexts    *)
(* keep the handle.                                                        *)
DeleteObject(s) ==
  /\ Call /\ s \in DOMAIN held
  /\ gdi_obj' = [gdi_obj EXCEPT ![s] = [@ EXCEPT !.type = "free"]]
  /\ held' = [h \in DOMAIN held \ {s} |-> held[h]]
  /\ UNCHANGED << dc, px, drawn, back >>

brush_color(h) == IF h > 0 /\ gdi_obj[h].type = "brush" THEN gdi_obj[h].color ELSE "w"
(* The colour of a pen; "none" when it draws nothing.                      *)
pen_color(h) == IF h = BLACK_PEN THEN "k"
                ELSE IF h > 0 /\ gdi_obj[h].type = "pen" THEN gdi_obj[h].color ELSE "none"

-----------------------------------------------------------------------------
(* Contexts.  GetDC and ReleaseDC of user32 for the window's; one that is  *)
(* not released is found again as it was.                                  *)
GetDC ==
  /\ Call /\ dc' = IF dc[0].magic THEN dc ELSE [dc EXCEPT ![0] = Fresh(1)]
  /\ IF dc[0].magic THEN UNCHANGED << drawn, back >> ELSE drawn' = {} /\ back' = FALSE
  /\ UNCHANGED << gdi_obj, px, held >>
CreateCompatibleDC ==
  /\ Call
  /\ \E d \in Dcs \ {0} : /\ ~dc[d].magic /\ \A e \in 1 .. d - 1 : dc[e].magic
                          /\ dc' = [dc EXCEPT ![d] = Fresh(0)]
  /\ UNCHANGED << gdi_obj, px, drawn, back, held >>
(* DeleteDC, ReleaseDC.                                                    *)
DeleteDC(d) ==
  /\ Call /\ dc[d].magic /\ dc' = [dc EXCEPT ![d].magic = FALSE]
  /\ UNCHANGED << gdi_obj, px, drawn, back, held >>

(* SelectObject: a bitmap becomes the buffer of the context.               *)
Selected(c, h) ==
  IF h > 0 /\ gdi_obj[h].type = "bitmap"
  THEN [c EXCEPT !.buf = gdi_obj[h].buf, !.cw = Size(gdi_obj[h].buf)]
  ELSE IF h = WHITE_BRUSH \/ (h > 0 /\ gdi_obj[h].type = "brush") THEN [c EXCEPT !.brush = h]
  ELSE IF h < WHITE_BRUSH \/ (h > 0 /\ gdi_obj[h].type = "pen") THEN [c EXCEPT !.pen = h] ELSE c
SelectObject(d, h) ==
  /\ Call /\ dc[d].magic /\ h \in DOMAIN held \cup {WHITE_BRUSH, BLACK_PEN, NULL_PEN}
  /\ dc' = [dc EXCEPT ![d] = Selected(@, h)]
  /\ UNCHANGED << gdi_obj, px, drawn, back, held >>

-----------------------------------------------------------------------------
(* dc_dirty: the part that is dirty when [x, x + w) is drawn as well.  It  *)
(* moves to the left without becoming wider.                               *)
(* A bug: the new part takes the place of the old one.                     *)
DirtyLast(r, x, w) == IF w <= 0 THEN r ELSE [x |-> x, w |-> w]
Dirty(r, x, w) ==
  IF w <= 0 THEN r
  ELSE IF r.w = 0 THEN [x |-> x, w |-> w]
  ELSE LET left == IF x < r.x THEN x ELSE r.x
       IN  [x |-> left, w |-> IF x + w > left + r.w THEN x + w - left ELSE r.w]
OfWindow(d) == d = 0 /\ dc[0].buf = 1
(* dc_px and dc_rect: paint holds the colours of the pixels drawn, those   *)
(* outside of the buffer are left out.                                     *)
Inside(d) == {x \in 0 .. dc[d].cw - 1 : dc[d].buf # 0}
Draw(d, x, w, paint) ==
  LET b == dc[d].buf
      hit == DOMAIN paint \cap Inside(d)
  IN  /\ px' = IF hit = {} THEN px
               ELSE [px EXCEPT ![b] = [i \in DOMAIN @ \cup hit |-> IF i \in hit THEN paint[i] ELSE @[i]]]
      /\ dc' = [dc EXCEPT ![d].dirty = Dirty(@, x, w)]
      /\ drawn' = IF OfWindow(d) THEN drawn \cup hit ELSE drawn
      /\ back' = (back \/ (d = 0 /\ w > 0 /\ dc[0].dirty.w > 0 /\ x < dc[0].dirty.x))
      /\ UNCHANGED << gdi_obj, held >>
Plain(x, w, c) == [i \in x .. x + w - 1 |-> c]

(* FillRect, whose ends may be in any order.                               *)
FillRect(d, x, w, h) ==
  /\ Call /\ dc[d].magic
  /\ LET l == IF w < 0 THEN x + w ELSE x
         n == IF w < 0 THEN -w ELSE w
     IN  Draw(d, l, n, Plain(l, n, brush_color(h)))
PatBlt(d, x, w) == Call /\ dc[d].magic /\ Draw(d, x, w, Plain(x, w, brush_color(dc[d].brush)))
(* TextOutA: w letters on an opaque or a transparent ground; a letter is   *)
(* as wide as a pixel here.                                                *)
TextOut(d, x, w, opaque) ==
  /\ Call /\ dc[d].magic
  /\ \E ink \in SUBSET (x .. x + w - 1) :
       LET seen == IF opaque THEN x .. x + w - 1 ELSE ink
           hit == seen \cap Inside(d)
           l == CHOOSE i \in hit : \A j \in hit : i <= j
       IN  IF hit = {} THEN Draw(d, 0, 0, << >>)
           ELSE Draw(d, l, (CHOOSE i \in hit : \A j \in hit : i >= j) + 1 - l,
                     [i \in hit |-> IF i \in ink THEN "k" ELSE "w"])
(* Rectangle: the inside with the brush, both edges with the pen; the      *)
(* right one is a pixel further than the inside, and pixels that are drawn *)
(* one by one make only themselves dirty.                                  *)
Rectangle(d, x, w) ==
  LET l == IF w < 0 THEN x + w ELSE x
      r == IF w < 0 THEN x ELSE x + w
      c == pen_color(dc[d].pen)
      inner == Plain(l, r - l, brush_color(dc[d].brush))
      edge == IF c # "none" /\ r \in Inside(d) THEN 1 ELSE 0
      over == [i \in DOMAIN inner \cup {l, r} |-> IF i \in {l, r} THEN c ELSE inner[i]]
  IN  /\ Call /\ dc[d].magic
      /\ Draw(d, l, r - l + edge, IF c = "none" THEN inner ELSE over)
MoveTo(d, x) ==
  /\ Call /\ dc[d].magic /\ dc' = [dc EXCEPT ![d].pen_x = x]
  /\ UNCHANGED << gdi_obj, px, drawn, back, held >>
(* BitBlt and StretchBlt: pixel by pixel from the left, what is outside of *)
(* either buffer is left out; the whole part is dirty.                     *)
Blt(d, x, w, s, xs, sw) ==
  LET b == dc[d].buf
      N == IF w > 0 THEN w ELSE 0
      from(i) == xs + (i * sw) \div w
      P[i \in 0 .. N] ==
        IF i = 0 THEN px
        ELSE IF x + i - 1 \notin Inside(d) \/ from(i - 1) \notin Inside(s) THEN P[i - 1]
        ELSE [P[i - 1] EXCEPT ![b][x + i - 1] = P[i - 1][dc[s].buf][from(i - 1)]]
  IN  /\ Call /\ dc[d].magic /\ dc[s].magic /\ b # 0 /\ dc[s].buf # 0
      /\ px' = P[N] /\ dc' = [dc EXCEPT ![d].dirty = Dirty(@, x, w)]
      /\ drawn' = IF OfWindow(d)
                  THEN drawn \cup {x + i : i \in {j \in 0 .. N - 1 : x + j \in Inside(d) /\ from(j) \in Inside(s)}}
                  ELSE drawn
      /\ back' = (back \/ (d = 0 /\ w > 0 /\ dc[0].dirty.w > 0 /\ x < dc[0].dirty.x))
      /\ UNCHANGED << gdi_obj, held >>

(* wm_paint_window of user32, when WM_PAINT is through: the dirty part is  *)
(* shown and is clean.                                                     *)
Show ==
  /\ Call /\ dc[0].magic /\ dc[0].dirty.w > 0
  /\ dc' = [dc EXCEPT ![0].dirty = [@ EXCEPT !.w = 0]]
  /\ drawn' = {} /\ back' = FALSE /\ UNCHANGED << gdi_obj, px, held >>

Next ==
  \/ \E c \in Colors, t \in {"brush", "pen", "font"} : Create(t, c)
  \/ \E w \in Widths, ok \in BOOLEAN : CreateCompatibleBitmap(w, ok)
  \/ GetDC \/ CreateCompatibleDC \/ Show
  \/ \E h \in {WHITE_BRUSH, BLACK_PEN, NULL_PEN} \cup Slots :
       DeleteObject(h) \/ \E d \in Dcs : SelectObject(d, h)
  \/ \E d \in Dcs :
       \/ DeleteDC(d) \/ \E x \in Places : MoveTo(d, x)
       \/ \E x \in Places, w \in Widths :
            \/ \E v \in {w, -w}, h \in DOMAIN held : FillRect(d, x, v, h)
            \/ PatBlt(d, x, w) \/ Rectangle(d, x, w) \/ Rectangle(d, x, -w)
            \/ \E o \in BOOLEAN : TextOut(d, x, w, o)
            \/ \E s \in Dcs, xs \in Places, sw \in Widths : Blt(d, x, w, s, xs, sw)
Spec == Init /\ [][Next]_vars

-----------------------------------------------------------------------------
(* dc_line, from (0, 0) to (x1, y1): the points in order.                  *)
Line(x1, y1) ==
  LET abs(i) == IF i < 0 THEN -i ELSE i
      sgn(i) == IF i > 0 THEN 1 ELSE -1
      dx == abs(x1)  dy == abs(y1)
      L[n \in 0 .. dx + dy] ==
        IF n = 0 THEN [at |-> << << 0, 0 >> >>, err |-> dx - dy]
        ELSE LET s == L[n - 1]  p == s.at[Len(s.at)]
                 h == 2 * s.err > -dy   v == 2 * s.err < dx
             IN  IF p = << x1, y1 >> THEN s
                 ELSE [at |-> Append(s.at, << p[1] + (IF h THEN sgn(x1) ELSE 0), p[2] + (IF v THEN sgn(y1) ELSE 0) >>),
                       err |-> s.err - (IF h THEN dy ELSE 0) + (IF v THEN dx ELSE 0)]
  IN  L[dx + dy].at

-----------------------------------------------------------------------------
(* A context has the width of the buffer it draws in, whatever was         *)
(* selected, deleted and made again: what is clipped stays in the buffer.  *)
GdiTypeOK ==
  /\ \A d \in Dcs : dc[d].magic /\ dc[d].buf # 0 => dc[d].cw = Size(dc[d].buf)
  /\ Size(1) = Width

(* A handle a program has is the object it asked for, until it deletes it. *)
HeldIsAsMade ==
  \A h \in DOMAIN held : gdi_obj[h].type = held[h].type /\ gdi_obj[h].color = held[h].color

(* The dirty part covers all that was drawn in the window since it was     *)
(* shown, if no drawing began left of it.                                  *)
Covered == \A x \in drawn : x >= dc[0].dirty.x /\ x < dc[0].dirty.x + dc[0].dirty.w
DirtyCovers == dc[0].magic /\ ~back => Covered
(* ... whatever is drawn.  Not kept: the part grows to the left by moving. *)
DirtyCoversAll == dc[0].magic => Covered

(* A line goes from one end to the other in steps to a neighbour, as many  *)
(* as it is long, and is never more than half a pixel off.                 *)
LineIsStraight ==
  calls = 0 => \A x1, y1 \in Coords :
    LET p == Line(x1, y1)
        abs(i) == IF i < 0 THEN -i ELSE i
        n == IF abs(x1) > abs(y1) THEN abs(x1) ELSE abs(y1)
    IN  /\ p[Len(p)] = << x1, y1 >> /\ Len(p) = n + 1
        /\ \A i \in 1 .. n : abs(p[i + 1][1] - p[i][1]) <= 1 /\ abs(p[i + 1][2] - p[i][2]) <= 1
        /\ \A i \in DOMAIN p : 2 * abs(p[i][1] * y1 - p[i][2] * x1) <= n
=============================================================================

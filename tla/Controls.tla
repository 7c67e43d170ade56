------------------------------ MODULE Controls ------------------------------
(***************************************************************************)
(* The common controls that builtin_wndproc of user/win32/user32.c draws   *)
(* and drives: list view, tool bar, status bar, track bar and tree view.   *)
(* One control is modelled, of the class chosen when it is created; each   *)
(* class has its own state and its own messages and keys.  Every message   *)
(* that changes a control also paints it (child_repaint).  The keys of a list   *)
(* that only send the parent a WM_COMMAND are in User32.                   *)
(***************************************************************************)
EXTENDS Integers, Sequences, FiniteSets

CONSTANTS
  Names, Sizes,     (* texts and sizes of rows                              *)
  LvItems,          (* LV_ITEMS_MAX, 64                                     *)
  LvCols,           (* LV_COLS_MAX, 4                                       *)
  TbMax,            (* TB_MAXBTN, 16                                        *)
  SbMax,            (* SB_MAXPARTS, 4                                       *)
  TvMax,            (* TV_MAXNODE, 48                                       *)
  Width,            (* pixels across the control, more than 8               *)
  Heights,          (* rows that may fit in it                              *)
  Widths, Spots     (* widths of parts; positions a program sets            *)

VARIABLES
  kind,             \* child_type
  fit,              \* rows down to the end of the parent, rows of the control
  lv, tb, sb, bar, tv,
  put               \* history: the rows as the program put them
vars == << kind, fit, lv, tb, sb, bar, tv, put >>

Kinds == {"list", "tools", "status", "track", "tree"}
NoRow == [name |-> "none", size |-> 0]
LvRows == 0 .. LvItems - 1
ListMade  == [row |-> [r \in LvRows |-> NoRow], n |-> 0, sel |-> 0, scroll |-> 0, ncol |-> 0]
TrackMade == [min |-> 0, max |-> 100, pos |-> 0]
TreeMade  == [depth |-> << >>, open |-> << >>, sel |-> 0]

(* CreateWindowExA of a control; it lies inside its parent, which shows at *)
(* least the rows the control has room for.                                *)
Init ==
  /\ kind \in Kinds
  /\ fit \in {f \in [shown : Heights, page : Heights] :
                f.page <= f.shown /\ (kind # "list" => f.shown = f.page)}
  /\ lv = ListMade /\ tb = << >> /\ sb = [part |-> << >>, text |-> << >>]
  /\ bar = TrackMade /\ tv = TreeMade
  /\ put = << >>

Lesser(a, b)  == IF a < b THEN a ELSE b
Greater(a, b) == IF a > b THEN a ELSE b
Quo(a, b) == IF a >= 0 THEN a \div b ELSE -((-a) \div b)    \* C's /, b > 0

-----------------------------------------------------------------------------
(* List view.  Painting moves the scroll so that the selection shows.      *)
(* A bug: the rows are counted as the keys count them.                     *)
PaintedPage(l) ==
  LET s == IF l.sel < l.scroll THEN l.sel
           ELSE IF l.sel > l.scroll + fit.page THEN l.sel - fit.page ELSE l.scroll
  IN  [l EXCEPT !.scroll = IF s > l.n - fit.page THEN Greater(l.n - fit.page, 0) ELSE s]
Painted(l) ==
  LET vis == fit.shown
      s == IF l.sel < l.scroll THEN l.sel
           ELSE IF l.sel >= l.scroll + vis THEN l.sel - vis + 1 ELSE l.scroll
  IN  [l EXCEPT !.scroll = IF s > l.n - vis THEN Greater(l.n - vis, 0) ELSE s]
ListIs(l) == lv' = Painted(l) /\ UNCHANGED << tb, sb, bar, tv >>

InsertColumn(a) ==
  /\ a < LvCols
  /\ ListIs([lv EXCEPT !.ncol = Greater(@, a + 1)])
  /\ UNCHANGED put
(* LVM_INSERTITEMA, of the text: a row is replaced, not moved down.  The   *)
(* programs here fill a list from its first row on, leaving no gap.        *)
InsertItem(i, name) ==
  /\ i \in LvRows /\ i <= lv.n
  /\ ListIs([lv EXCEPT !.row[i].name = name, !.n = Greater(@, i + 1)])
  /\ put' = [k \in 1 .. lv'.n |->
               IF k = i + 1 THEN [name |-> name, sized |-> k <= lv.n /\ put[k].sized,
                                  size |-> IF k <= lv.n THEN put[k].size ELSE 0]
               ELSE put[k]]
(* LVM_INSERTITEMA, of the second column: the size of a row.               *)
InsertSize(i, size) ==
  /\ i < lv.n
  /\ ListIs([lv EXCEPT !.row[i].size = size])
  /\ put' = [put EXCEPT ![i + 1] = [@ EXCEPT !.sized = TRUE, !.size = size]]
Dropped(l, i) ==
  [l EXCEPT !.row = [k \in LvRows |-> IF k >= i /\ k < l.n - 1 THEN l.row[k + 1] ELSE l.row[k]],
            !.n = @ - 1]
DeleteItem(i) ==
  LET l == IF i < lv.n THEN Dropped(lv, i) ELSE lv
  IN  /\ ListIs([l EXCEPT !.sel = IF l.sel >= l.n THEN Greater(l.n - 1, 0) ELSE l.sel])
      /\ put' = [k \in 1 .. l.n |-> IF k > i THEN put[k + 1] ELSE put[k]]
DeleteAll == /\ ListIs([lv EXCEPT !.n = 0, !.sel = 0])
             /\ put' = << >>
SetSelection(a) == /\ a < lv.n
                   /\ ListIs([lv EXCEPT !.sel = a])
                   /\ UNCHANGED put

ToRow(r) == ListIs([lv EXCEPT !.sel = r]) /\ UNCHANGED put
ListEnd == Greater(lv.n - 1, 0)
PageDown == ToRow(IF lv.sel + fit.page < lv.n - 1 THEN lv.sel + fit.page
                  ELSE IF lv.n > 0 THEN lv.n - 1 ELSE lv.sel)
ListKey == \/ lv.sel > 0 /\ ToRow(lv.sel - 1)
           \/ lv.sel < lv.n - 1 /\ ToRow(lv.sel + 1)
           \/ ToRow(0) \/ ToRow(ListEnd)
           \/ ToRow(IF lv.sel > fit.page THEN lv.sel - fit.page ELSE 0)
           \/ PageDown

List == \/ \E a \in 0 .. LvCols - 1 : InsertColumn(a)
        \/ \E i \in LvRows : \/ \E name \in Names : InsertItem(i, name)
                           \/ \E size \in Sizes : InsertSize(i, size)
                           \/ DeleteItem(i) \/ SetSelection(i)
        \/ DeleteAll \/ ListKey

-----------------------------------------------------------------------------
(* Tool bar and status bar.                                                *)
AddButtons(ids) ==
  /\ tb' = tb \o SubSeq(ids, 1, Lesser(Len(ids), TbMax - Len(tb)))
  /\ UNCHANGED << lv, sb, bar, tv, put >>
ButtonWidth == IF tb = << >> THEN 0 ELSE Width \div Len(tb)

SetParts(ws) ==
  /\ sb' = [sb EXCEPT !.part = SubSeq(ws, 1, Lesser(Len(ws), SbMax))]
  /\ UNCHANGED << lv, tb, bar, tv, put >>
SetPartText(p, s) ==
  /\ p < SbMax
  /\ sb' = [sb EXCEPT !.text = [k \in (DOMAIN @) \cup {p + 1} |-> IF k = p + 1 THEN s ELSE @[k]]]
  /\ UNCHANGED << lv, tb, bar, tv, put >>
(* Where the part that begins at x ends: width -1 or 0 is the rest.        *)
PartEnd(x, w) == Lesser(x + (IF w \in {-1, 0} THEN Width - x ELSE w), Width)
PartEnds ==
  LET e[p \in 0 .. Len(sb.part)] == IF p = 0 THEN 0 ELSE PartEnd(e[p - 1], sb.part[p])
  IN  e

-----------------------------------------------------------------------------
(* Track bar.                                                              *)
BarIs(b) == bar' = b /\ UNCHANGED << lv, tb, sb, tv, put >>
SetBar(x) == \/ BarIs([bar EXCEPT !.pos = x])
             \/ BarIs([bar EXCEPT !.min = x]) \/ BarIs([bar EXCEPT !.max = x])
SetRange(x, y) == BarIs([bar EXCEPT !.min = x, !.max = y])
BarLeft  == bar.pos > bar.min /\ BarIs([bar EXCEPT !.pos = @ - 1])
BarRight == bar.pos < bar.max /\ BarIs([bar EXCEPT !.pos = @ + 1])
Frac(b) ==
  LET f == IF b.max > b.min THEN Quo((b.pos - b.min) * 100, b.max - b.min) ELSE 0
  IN  Lesser(Greater(f, 0), 100)
Thumb(b) == 4 + ((Width - 8) * Frac(b)) \div 100

-----------------------------------------------------------------------------
(* Tree view: nodes in the order they came, each with its depth (tv_par),  *)
(* all of them drawn.  A handle is an index from 1.                        *)
TreeIs(t) == tv' = t /\ UNCHANGED << lv, tb, sb, bar, put >>
Nodes == 1 .. Len(tv.depth)
InsertNode(par) ==
  LET d == IF par \in Nodes THEN tv.depth[par] + 1 ELSE 0
  IN  /\ Len(tv.depth) < TvMax
      /\ TreeIs([depth |-> Append(tv.depth, d), open |-> Append(tv.open, FALSE),
                 sel |-> IF d = 0 /\ tv.sel = 0 THEN Len(tv.depth) ELSE tv.sel])
SelectNode(h) == h \in Nodes /\ TreeIs([tv EXCEPT !.sel = h - 1])
Expand(a, h)  == /\ h \in Nodes
                 /\ TreeIs([tv EXCEPT !.open[h] = CASE a = 2 -> ~@ [] a = 1 -> TRUE [] a = 0 -> FALSE])
TreeKey == \/ tv.sel < Len(tv.depth) - 1 /\ TreeIs([tv EXCEPT !.sel = @ + 1])
           \/ tv.sel > 0 /\ TreeIs([tv EXCEPT !.sel = @ - 1])
           \/ \E o \in BOOLEAN : tv.sel + 1 \in Nodes /\ TreeIs([tv EXCEPT !.open[tv.sel + 1] = o])

Next ==
  /\ UNCHANGED << kind, fit >>
  /\ \/ kind = "list" /\ List
     \/ kind = "tools" /\ \E n \in 0 .. TbMax + 1 : AddButtons([k \in 1 .. n |-> Len(tb) + k])
     \/ kind = "status" /\ \/ \E n \in 0 .. SbMax + 1 : \E ws \in [1 .. n -> Widths] : SetParts(ws)
                           \/ \E p \in 0 .. SbMax, s \in Names : SetPartText(p, s)
     \/ kind = "track" /\ \/ \E x \in Spots : SetBar(x) \/ \E y \in Spots : SetRange(x, y)
                          \/ BarLeft \/ BarRight
     \/ kind = "tree" /\ \/ \E h \in 0 .. TvMax : InsertNode(h) \/ SelectNode(h)
                                                  \/ \E a \in 0 .. 2 : Expand(a, h)
                         \/ TreeKey
Spec == Init /\ [][Next]_vars

-----------------------------------------------------------------------------
(* Counts within the arrays, selections within the counts (lv_nitem,       *)
(* lv_sel, tb_nbtn, sb_nparts, tv_nnode, tv_sel).                          *)
ControlsTypeOK ==
  /\ lv.n \in 0 .. LvItems /\ lv.ncol \in 0 .. LvCols
  /\ lv.sel \in 0 .. ListEnd /\ lv.scroll \in 0 .. LvItems
  /\ Len(tb) <= TbMax /\ Len(sb.part) <= SbMax /\ DOMAIN sb.text \subseteq 1 .. SbMax
  /\ Len(tv.depth) <= TvMax /\ Len(tv.open) = Len(tv.depth)
  /\ tv.sel \in 0 .. Greater(Len(tv.depth) - 1, 0)
  /\ \A h \in Nodes : tv.depth[h] < h

(* The rows child_paint draws: down to the end of the control, while the   *)
(* scroll goes by the rows down to the end of the parent.                  *)
Drawn(l) == {r \in LvRows : l.scroll <= r /\ r < l.scroll + fit.page /\ r < l.n}

(* Whatever was inserted, deleted and selected: in a list that goes down   *)
(* to the end of its parent the selected row is drawn, and no line is left *)
(* empty below the last row while others are above the first; in a lower   *)
(* list the selection is never above what is drawn, and no further below   *)
(* it than the list is lower.                                              *)
SelectionShows ==
  lv.n > 0 =>
    /\ fit.page = fit.shown => /\ lv.sel \in Drawn(lv)
                               /\ lv.scroll = 0 \/ Cardinality(Drawn(lv)) = fit.page
    /\ \E r \in Drawn(lv) : r <= lv.sel /\ lv.sel <= r + fit.shown - fit.page

(* Not kept by a list lower than its parent ("la seleccion siempre queda   *)
(* visible", user32.c:1772).                                               *)
SelectionAlwaysDrawn == lv.n > 0 => lv.sel \in Drawn(lv)

(* A row that LVM_DELETEITEM moved up keeps the name and the size the      *)
(* program gave it (a size it never gave may be that of an older row).     *)
RowsAsPut ==
  kind = "list" =>
    /\ Len(put) = lv.n
    /\ \A i \in 1 .. lv.n : /\ lv.row[i - 1].name = put[i].name
                            /\ put[i].sized => lv.row[i - 1].size = put[i].size

(* Paging down passes over no row that is drawn neither before nor after:  *)
(* every row between two of them is drawn at one of the two.               *)
NoRowSkipped ==
  [][PageDown /\ kind = "list" =>
       \A r \in LvRows : lv.scroll <= r /\ r <= lv'.scroll => r \in Drawn(lv) \cup Drawn(lv')]_vars

(* What is drawn stays in the bar: buttons, parts of a status bar in       *)
(* order, and the thumb, also when the program sets a position outside the *)
(* range or a range that is empty.                                         *)
DrawnInside ==
  /\ ButtonWidth * Len(tb) <= Width
  /\ \A p \in 1 .. Len(sb.part) : PartEnds[p - 1] <= PartEnds[p] /\ PartEnds[p] <= Width
  /\ 4 <= Thumb(bar) /\ Thumb(bar) <= Width - 4

(* The thumb follows the keys: it never goes the other way, and it is at   *)
(* an end when the position is there.                                      *)
ThumbFollows ==
  [][kind = "track" =>
       /\ BarRight => Thumb(bar') >= Thumb(bar)
       /\ BarLeft => Thumb(bar') <= Thumb(bar)
       /\ bar'.max > bar'.min =>
            /\ bar'.pos <= bar'.min => Thumb(bar') = 4
            /\ bar'.pos >= bar'.max => Thumb(bar') = Width - 4]_vars
=============================================================================

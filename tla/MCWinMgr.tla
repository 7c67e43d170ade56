----------------------------- MODULE MCWinMgr -----------------------------
(* TLC instances of WinMgr: two programs, two windows that overlap, a      *)
(* wallpaper and a taskbar on a screen of 5 by 3 cells.                    *)
EXTENDS WinMgr, TLC

At(x, y, w, h, kind, framed) ==
  [r |-> [x |-> x, y |-> y, w |-> w, h |-> h], kind |-> kind, framed |-> framed]
Desktop  == {At(0, 0, 4, 3, "app", TRUE), At(1, 1, 4, 3, "app", TRUE),
             At(0, 0, 5, 3, "bg", FALSE)}
Corners  == {<< 1, 0 >>, << 2, 0 >>, << 3, 0 >>, << 1, 1 >>, << 0, 2 >>}
Over     == {<< 1, 1 >>}
Right    == {<< 1, 0 >>}
Swaps    == Permutations(Procs)

(* Every property asks for calls that did not overlap, and the history     *)
(* stays TRUE: what lies behind an overlap need not be searched.           *)
Apart    == ~overlapped
=============================================================================

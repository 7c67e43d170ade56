------------------------------- MODULE Dialog -------------------------------
(***************************************************************************)
(* Modal dialogs and message boxes of user/win32/user32.c: loops that take *)
(* all of the program's events, and buttons that click when the mouse goes *)
(* down and up in them.  A dialog's controls, its procedure, its result    *)
(* and its end are kept once for the library, so that a dialog opened by   *)
(* the procedure of another one takes its place.                           *)
(*                                                                         *)
(* A template is a sequence of controls.  A text is its length.  A pointer *)
(* is on the control with a number, or on none (0).                        *)
(***************************************************************************)
EXTENDS Integers, Sequences

CONSTANTS
  Templates,       (* dialogs: sequences of [cls, default]                  *)
  MaxCtl,          (* 16: controls of a dialog                              *)
  TxtMax,          (* 47: characters of a control's text                    *)
  Results,         (* what programs pass to EndDialog                       *)
  MaxDepth, ProcCalls (* bounds: dialogs one in another; calls of a procedure *)

ASSUME DialogAssumption ==
  /\ MaxCtl \in Nat /\ TxtMax \in Nat /\ MaxDepth \in Nat \ {0} /\ ProcCalls \in Nat
  /\ \A tpl \in Templates : tpl \in Seq([cls : STRING, default : BOOLEAN])

VARIABLES
  dlg_ctls,        \* the controls, each with its text and if it is pressed
  dlg_proc,        \* whose procedure is called: the depth of its dialog
  dlg_result, dlg_done, dlg_focus,
  stack,           \* the dialogs open, the innermost last
  box,             \* the message box: its buttons, pressed or not; or none
  returned,        \* history: the last dialog closed
  whole,           \* history: every command came of a whole click or a key
  proc_calls
dvars == << dlg_ctls, dlg_proc, dlg_result, dlg_done, dlg_focus, stack, box,
           returned, whole, proc_calls >>

NoBox == << >>
None  == [result |-> 0, own |-> 0, ended |-> TRUE, alone |-> TRUE]
Control(c) == [cls |-> c.cls, default |-> c.default, text |-> 0, pressed |-> FALSE, seen |-> FALSE]
Built(tpl) == [i \in 1 .. (IF Len(tpl) < MaxCtl THEN Len(tpl) ELSE MaxCtl) |-> Control(tpl[i])]
FirstEdit(ctls) == LET S == {i \in DOMAIN ctls : ctls[i].cls = "edit"}
                   IN  IF S = {} THEN 0 ELSE CHOOSE i \in S : \A k \in S : i <= k
(* A dialog in the stack: what it is doing ("loop", or in its procedure    *)
(* for "init", "click", "key"); history: what its procedure ended it with, *)
(* and whether it has opened another.                                      *)
Frame == [phase |-> "init", own |-> 0, ended |-> FALSE, alone |-> TRUE]
Depth == Len(stack)
Now == stack[Depth]
With(fr) == [stack EXCEPT ![Depth] = fr]

DialogInit ==
  /\ dlg_ctls = << >> /\ dlg_proc = 0 /\ dlg_result = 0 /\ dlg_done = FALSE
  /\ dlg_focus = 0 /\ stack = << >> /\ box = NoBox
  /\ returned = None /\ whole = TRUE /\ proc_calls = 0

-----------------------------------------------------------------------------
(* DialogBoxParamA: what it finds in the library is overwritten, and the   *)
(* procedure is called with WM_INITDIALOG.                                 *)
(* A bug: the result of the dialog before is still there.                  *)
OpenStale(tpl, below) ==
  /\ dlg_ctls' = Built(tpl) /\ dlg_focus' = FirstEdit(Built(tpl))
  /\ dlg_proc' = Len(below) + 1
  /\ stack' = Append(below, Frame)
  /\ UNCHANGED << dlg_result, dlg_done >>
Open(tpl, below) ==
  /\ dlg_ctls' = Built(tpl) /\ dlg_focus' = FirstEdit(Built(tpl))
  /\ dlg_proc' = Len(below) + 1
  /\ dlg_result' = 0 /\ dlg_done' = FALSE
  /\ stack' = Append(below, Frame)
OpenFirst(tpl) == /\ Depth = 0 /\ box = NoBox /\ Open(tpl, << >>)
                  /\ UNCHANGED << box, returned, whole, proc_calls >>

(* What a procedure calls.  EndDialog may come from any of them, and the   *)
(* one that is called is that of the dialog opened last.                   *)
InProc == /\ Depth > 0 /\ box = NoBox /\ Now.phase # "loop"
          /\ proc_calls < ProcCalls /\ proc_calls' = proc_calls + 1
EndDialog(r) ==
  /\ InProc
  /\ dlg_result' = r /\ dlg_done' = TRUE
  /\ stack' = IF dlg_proc = Depth THEN With([Now EXCEPT !.own = r, !.ended = TRUE]) ELSE stack
  /\ UNCHANGED << dlg_ctls, dlg_proc, dlg_focus, box, returned, whole >>
SetItemText(i, n) ==
  /\ InProc /\ i \in DOMAIN dlg_ctls
  /\ dlg_ctls' = [dlg_ctls EXCEPT ![i].text = IF n > TxtMax THEN TxtMax ELSE n]
  /\ UNCHANGED << dlg_proc, dlg_result, dlg_done, dlg_focus, stack, box, returned, whole >>
OpenInside(tpl) ==
  /\ InProc /\ Depth < MaxDepth
  /\ Open(tpl, With([Now EXCEPT !.alone = FALSE]))
  /\ UNCHANGED << box, returned, whole >>
OpenBox(n) ==
  /\ InProc
  /\ box' = [b \in 1 .. n |-> [pressed |-> FALSE, seen |-> FALSE]]
  /\ UNCHANGED << dlg_ctls, dlg_proc, dlg_result, dlg_done, dlg_focus, stack, returned, whole >>

(* The procedure returns.  After a click the loop goes on to the next      *)
(* event without a look at dlg_done; after a key it looks.                 *)
Close == /\ stack' = SubSeq(stack, 1, Depth - 1)
         /\ returned' = [result |-> dlg_result, own |-> Now.own,
                         ended |-> Now.ended, alone |-> Now.alone]
LookAtDone == IF dlg_done THEN Close
              ELSE stack' = With([Now EXCEPT !.phase = "loop"]) /\ UNCHANGED returned
ProcReturns ==
  /\ Depth > 0 /\ box = NoBox /\ Now.phase # "loop"
  /\ IF Now.phase = "key" THEN LookAtDone
     ELSE stack' = With([Now EXCEPT !.phase = "loop"]) /\ UNCHANGED returned
  /\ UNCHANGED << dlg_ctls, dlg_proc, dlg_result, dlg_done, dlg_focus, box, whole, proc_calls >>

-----------------------------------------------------------------------------
(* user32_button_feed of the buttons of bs in their order, up to one that  *)
(* has been clicked: it was pressed, and the mouse goes up in it.          *)
Clicked(bs, p) == {b \in DOMAIN bs : b = p /\ bs[b].pressed}
FedDown(bs, p) == [b \in DOMAIN bs |-> IF b = p THEN [bs[b] EXCEPT !.pressed = TRUE, !.seen = TRUE]
                                       ELSE bs[b]]
FedUp(bs, p) ==
  [b \in DOMAIN bs |-> IF Clicked(bs, p) = {} \/ b <= p THEN [bs[b] EXCEPT !.pressed = FALSE] ELSE bs[b]]
Buttons == {i \in DOMAIN dlg_ctls : dlg_ctls[i].cls = "button"}

InLoop == Depth > 0 /\ box = NoBox /\ Now.phase = "loop"
Kept == UNCHANGED << dlg_proc, dlg_result, dlg_done, dlg_focus, box, proc_calls >>
MouseDown(p) ==
  /\ InLoop
  /\ dlg_ctls' = IF p \in Buttons THEN FedDown(dlg_ctls, p) ELSE dlg_ctls
  /\ LookAtDone /\ UNCHANGED whole /\ Kept
MouseUp(p) ==
  /\ InLoop
  /\ dlg_ctls' = FedUp(dlg_ctls, p)
  /\ IF Clicked(dlg_ctls, p) # {}
     THEN /\ stack' = With([Now EXCEPT !.phase = "click"])
          /\ whole' = (whole /\ dlg_ctls[p].seen)
          /\ UNCHANGED returned
     ELSE LookAtDone /\ UNCHANGED whole
  /\ Kept
(* Enter presses the default button, Esc is a WM_CLOSE; other keys are for *)
(* the text field that has the focus.                                      *)
KeyToProc(k) ==
  /\ InLoop
  /\ k = "enter" => \E i \in DOMAIN dlg_ctls : dlg_ctls[i].default
  /\ stack' = With([Now EXCEPT !.phase = "key"])
  /\ UNCHANGED << dlg_ctls, returned, whole >> /\ Kept
Typed(n) == IF n < TxtMax THEN n + 1 ELSE n
Type(back) ==
  /\ InLoop
  /\ dlg_ctls' = IF dlg_focus \notin DOMAIN dlg_ctls THEN dlg_ctls
                 ELSE [dlg_ctls EXCEPT ![dlg_focus].text =
                         IF back THEN (IF @ > 0 THEN @ - 1 ELSE 0) ELSE Typed(@)]
  /\ LookAtDone /\ UNCHANGED whole /\ Kept

-----------------------------------------------------------------------------
(* MessageBoxA: one button, or two for a question.                         *)
BoxKept == UNCHANGED << dlg_ctls, dlg_proc, dlg_result, dlg_done, dlg_focus, stack, returned, proc_calls >>
BoxDown(p) == box # NoBox /\ box' = FedDown(box, p) /\ UNCHANGED whole /\ BoxKept
BoxUp(p) ==
  /\ box # NoBox
  /\ IF Clicked(box, p) # {} THEN box' = NoBox /\ whole' = (whole /\ box[p].seen)
     ELSE box' = FedUp(box, p) /\ UNCHANGED whole
  /\ BoxKept
BoxKey == box # NoBox /\ box' = NoBox /\ UNCHANGED whole /\ BoxKept

Spots == 0 .. MaxCtl
DialogNext ==
  \/ \E tpl \in Templates : OpenFirst(tpl) \/ OpenInside(tpl)
  \/ \E r \in Results : EndDialog(r)
  \/ \E i \in 1 .. MaxCtl, n \in {0, TxtMax + 1} : SetItemText(i, n)
  \/ \E n \in 1 .. 2 : OpenBox(n)
  \/ ProcReturns
  \/ \E p \in Spots : MouseDown(p) \/ MouseUp(p) \/ BoxDown(p) \/ BoxUp(p)
  \/ \E k \in {"enter", "esc"} : KeyToProc(k)
  \/ \E back \in BOOLEAN : Type(back)
  \/ BoxKey
DialogSpec == DialogInit /\ [][DialogNext]_dvars

-----------------------------------------------------------------------------
DialogTypeOK == /\ Depth <= MaxDepth /\ Len(dlg_ctls) <= MaxCtl /\ dlg_focus \in 0 .. MaxCtl
                /\ \A i \in DOMAIN dlg_ctls : dlg_ctls[i].text \in 0 .. TxtMax
                /\ Len(box) <= 2

(* A button is clicked only by a press and a release in it, both since it  *)
(* was drawn: the release of the click that opened a dialog or a box, or   *)
(* closed the one over it, clicks nothing.                                 *)
ClicksAreWhole == whole

(* A dialog whose procedure opened no other dialog (message boxes do not   *)
(* count) closes only when that procedure has called EndDialog, and        *)
(* returns what it said last.                                              *)
ReturnsItsResult ==
  returned.alone => returned.ended /\ returned.result = returned.own

(* What a program's dialogs keep: controls and texts fit, a click is       *)
(* pressed and let go in one dialog, and each dialog, over whatever        *)
(* others, returns its own result.                                         *)
DialogsKept == DialogTypeOK /\ ClicksAreWhole /\ ReturnsItsResult

(* The same for every dialog.  Not kept: dlg_result and dlg_done are one   *)
(* for all of them.                                                        *)
EachReturnsItsOwn == returned.ended /\ returned.result = returned.own
=============================================================================

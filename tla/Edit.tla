-------------------------------- MODULE Edit --------------------------------
(***************************************************************************)
(* The edit control of user/win32/user32.c: a child window whose text is a *)
(* NUL-terminated array edited in place with a memmove, and a caret.  The  *)
(* text can also be set behind the caret's back by SetWindowTextA.  One    *)
(* control is modelled; its window and its parent are there throughout.    *)
(***************************************************************************)
EXTENDS Integers, Sequences

CONSTANTS
  Chars, NL, NUL,
  TxtLen,           (* CHILD_TXTLEN, 1024: the array, with the NUL          *)
  Given             (* the texts the program sets                           *)

ASSUME EditAssumption == /\ TxtLen \in Nat \ {0} /\ NUL \notin Chars \cup {NL}
                         /\ Given \subseteq Seq(Chars \cup {NL})

VARIABLES
  child_text,       \* the array
  child_cur,        \* the caret, an index
  shown             \* what child_paint last drew: the text, and the caret
evars == << child_text, child_cur, shown >>

Cells == 0 .. TxtLen - 1
Strlen(t) == CHOOSE n \in Cells : t[n] = NUL /\ \A k \in 0 .. n - 1 : t[k] # NUL
Read(t) == [k \in 1 .. Strlen(t) |-> t[k - 1]]
Clipped(t, c) == IF c > Strlen(t) THEN Strlen(t) ELSE c
len == Strlen(child_text)
cur == Clipped(child_text, child_cur)

EditInit == /\ child_text = [k \in Cells |-> NUL] /\ child_cur = 0
        /\ shown = [text |-> << >>, caret |-> 0]

(* child_paint: the caret is drawn where the text reaches it, or else at   *)
(* the first character.                                                    *)
Painted(t, c) == [text |-> Read(t), caret |-> IF c > Strlen(t) THEN 0 ELSE c]
Repaint == shown' = Painted(child_text', child_cur')

(* memmove_myos(t + d, t + s, n)                                           *)
Memmove(t, d, s, n) ==
  [k \in Cells |-> IF k \in d .. d + n - 1 THEN t[s + k - d] ELSE t[k]]
(* A text copied into the array: at most TxtLen - 1 characters and a NUL;  *)
(* what was behind them stays.                                             *)
Copied(t, s) ==
  LET n == IF Len(s) < TxtLen THEN Len(s) ELSE TxtLen - 1
  IN  [k \in Cells |-> IF k < n THEN s[k + 1] ELSE IF k = n THEN NUL ELSE t[k]]

-----------------------------------------------------------------------------
(* Messages and calls of the program.                                      *)
SetText(s) ==                                              \* WM_SETTEXT
  /\ child_text' = Copied(child_text, s)
  /\ child_cur' = Strlen(child_text')
  /\ Repaint
SetWindowText(s) ==                                        \* SetWindowTextA
  /\ child_text' = Copied(child_text, s)
  /\ UNCHANGED << child_cur, shown >>

(* child_insert, for a WM_CHAR and for Enter and Backspace.                *)
Insert(c) ==
  /\ len < TxtLen - 1
  /\ child_text' = [Memmove(child_text, cur + 1, cur, len - cur + 1) EXCEPT ![cur] = c]
  /\ child_cur' = cur + 1
  /\ Repaint
Backspace ==
  /\ cur > 0
  /\ child_text' = Memmove(child_text, cur - 1, cur, len - cur + 1)
  /\ child_cur' = cur - 1
  /\ Repaint
Del ==
  /\ cur < len
  /\ child_text' = Memmove(child_text, cur, cur + 1, len - cur)
  /\ UNCHANGED child_cur
  /\ Repaint

MoveTo(p) == child_cur' = p /\ UNCHANGED child_text /\ Repaint
Left  == MoveTo(IF cur > 0 THEN cur - 1 ELSE 0)
Right == MoveTo(IF cur < len THEN cur + 1 ELSE len)
Home  == MoveTo(0)
End   == MoveTo(len)

LineStart(p) == CHOOSE s \in 0 .. p : /\ s = 0 \/ child_text[s - 1] = NL
                                      /\ \A k \in s .. p - 1 : child_text[k] # NL
(* A bug: the column is not cut at the end of the line above.              *)
UpLong ==
  LET linestart == LineStart(cur)
  IN  /\ linestart # 0
      /\ MoveTo(LineStart(linestart - 1) + cur - linestart)
Up ==
  LET linestart == LineStart(cur)
      newpos    == LineStart(linestart - 1) + cur - linestart
  IN  /\ linestart # 0
      /\ MoveTo(IF newpos > linestart - 1 THEN linestart - 1 ELSE newpos)
Down ==
  \E endline \in cur .. len - 1 :
    /\ child_text[endline] = NL /\ \A k \in cur .. endline - 1 : child_text[k] # NL
    /\ LET newpos == endline + 1 + cur - LineStart(cur)
       IN  MoveTo(IF newpos > len THEN len ELSE newpos)

Keydown == Left \/ Right \/ Home \/ End \/ Del \/ Up \/ Down \/ Backspace
EditNext == \/ \E s \in Given : SetText(s) \/ SetWindowText(s)
        \/ \E c \in Chars \cup {NL} : Insert(c)
        \/ Keydown
EditSpec == EditInit /\ [][EditNext]_evars

-----------------------------------------------------------------------------
(* The array holds a NUL: no key and no call loses the end of the text,    *)
(* and the caret is an index of the array (child_text, child_cur).         *)
EditTypeOK == /\ child_text \in [Cells -> Chars \cup {NL, NUL}]
              /\ \E k \in Cells : child_text[k] = NUL
              /\ child_cur \in Cells

(* The array and its caret are the text editor of LineEditor: a key moves  *)
(* or changes what is at the caret and leaves the rest of the text alone,  *)
(* also when SetWindowTextA has left the caret behind the end.             *)
Editor == INSTANCE LineEditor WITH Limit <- TxtLen - 1,
            text <- Read(child_text), pos <- cur
IsEditor == Editor!Spec

(* A key that changes the text or moves the caret also draws it: only      *)
(* SetWindowTextA leaves the screen behind.                                *)
KeysAreShown ==
  [][Keydown \/ (\E c \in Chars \cup {NL} : Insert(c))
       => shown' = [text |-> Read(child_text'), caret |-> cur']]_evars

(* The edit control: it is a line editor, and after every key the screen   *)
(* shows its text.                                                         *)
EditKept == []EditTypeOK /\ IsEditor /\ KeysAreShown
=============================================================================

----------------------------- MODULE LineEditor -----------------------------
(***************************************************************************)
(* What an edit control promises: a text with a caret between two of its   *)
(* characters, and keys that type, erase and move.                         *)
(***************************************************************************)
EXTENDS Integers, Sequences, FiniteSets

CONSTANTS Chars, NL, Limit,     (* what can be typed, the newline, the size *)
          Given                 (* texts that may be put in place of all    *)
VARIABLES text, pos

Upto(n) == SubSeq(text, 1, n)
From(n) == SubSeq(text, n + 1, Len(text))
Spots == 0 .. Len(text)
Row(p) == Cardinality({i \in 1 .. p : text[i] = NL})
RowStart(p) == CHOOSE s \in 0 .. p : /\ s = 0 \/ text[s] = NL
                                     /\ \A i \in s + 1 .. p : text[i] # NL
Col(p) == p - RowStart(p)
AtRowEnd(p) == p = Len(text) \/ text[p + 1] = NL

Init == text = << >> /\ pos = 0

(* A text put in place of the one there is, as much of it as fits: the     *)
(* caret goes to its end, or stays as far as the text goes; one that was   *)
(* at the end may come to be anywhere behind where it was.                 *)
Replace(s) ==
  /\ text' = SubSeq(s, 1, IF Len(s) < Limit THEN Len(s) ELSE Limit)
  /\ pos' \in 0 .. Len(text')
  /\ \/ pos' = Len(text') \/ pos' = pos
     \/ pos = Len(text) /\ pos' > pos
Type(c) == /\ Len(text) < Limit
           /\ text' = Upto(pos) \o << c >> \o From(pos) /\ pos' = pos + 1
Erase(n) == /\ n \in 1 .. pos    \* the n-th character, and the caret with it
            /\ text' = Upto(n - 1) \o From(n) /\ pos' = n - 1
Cut == /\ pos < Len(text)
       /\ text' = Upto(pos) \o From(pos + 1) /\ pos' = pos
Go(p) == pos' = p /\ text' = text

(* A row up: the same column, or the end of a row that is shorter.         *)
Up == \E p \in Spots : /\ Row(p) = Row(pos) - 1
                       /\ Col(p) = Col(pos) \/ (Col(p) < Col(pos) /\ AtRowEnd(p))
                       /\ Go(p)
(* Some row down: the same column when the next row is that long.          *)
Down == \E p \in Spots :
          /\ Row(p) > Row(pos)
          /\ (\E q \in Spots : Row(q) = Row(pos) + 1 /\ Col(q) = Col(pos))
               => Row(p) = Row(pos) + 1 /\ Col(p) = Col(pos)
          /\ Go(p)

Next == \/ \E s \in Given : Replace(s)
        \/ \E c \in Chars \cup {NL} : Type(c)
        \/ Erase(pos) \/ Cut \/ Up \/ Down
        \/ (pos > 0 /\ Go(pos - 1)) \/ (pos < Len(text) /\ Go(pos + 1))
        \/ Go(0) \/ Go(Len(text))
Spec == Init /\ [][Next]_<< text, pos >>
=============================================================================

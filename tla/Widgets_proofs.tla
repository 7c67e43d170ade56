--------------------------- MODULE Widgets_proofs ---------------------------
(***************************************************************************)
(* Edit controls, dialogs and message boxes of programs.  The edit control *)
(* is the line editor, for every size of its array and every text; dialogs *)
(* and message boxes keep their promises for every template, every number  *)
(* of controls and characters, and one in another to any depth.            *)
(***************************************************************************)
EXTENDS Edit, Dialog, FiniteSetTheorems, SequenceTheorems, WellFoundedInduction, TLAPS

LEMMA Least ==
  ASSUME NEW S, S \subseteq Nat, S # {}
  PROVE  \E i \in S : \A j \in S : i <= j
<1>1. PICK a \in S : \A b \in S : ~(<< b, a >> \in OpToRel(<, Nat))
  BY NatLessThanWellFounded, WFMin
<1>2. \A b \in S : ~(b < a)
  BY <1>1 DEF OpToRel
<1> QED BY <1>2

-----------------------------------------------------------------------------
(* THE EDIT CONTROL                                                        *)

Sym == Chars \cup {NL}
Arrays == [Cells -> Sym \cup {NUL}]
HasEnd(t) == \E k \in Cells : t[k] = NUL
(* n is the length of the text in the array t.                             *)
EndsAt(t, n) == n \in Cells /\ t[n] = NUL /\ \A k \in 0 .. n - 1 : t[k] # NUL

-----------------------------------------------------------------------------
(* THE ARRAY AND ITS TEXT                                                  *)

LEMMA CellsAre == TxtLen \in Nat /\ TxtLen > 0 /\ Cells = 0 .. TxtLen - 1 /\ Cells \subseteq Nat /\ NUL \notin Sym
BY EditAssumption DEF Cells, Sym

LEMMA EndIs ==
  ASSUME NEW t, NEW n, EndsAt(t, n)
  PROVE  Strlen(t) = n
<1>1. n \in Cells /\ t[n] = NUL /\ \A k \in 0 .. n - 1 : t[k] # NUL
  BY DEF EndsAt
<1> DEFINE P(m) == t[m] = NUL /\ \A k \in 0 .. m - 1 : t[k] # NUL
<1>2. ASSUME NEW m \in Cells, P(m) PROVE m = n
  <2>1. m \in Nat /\ n \in Nat
    BY <1>1, CellsAre
  <2>2. ~(m < n)
    BY <1>1, <1>2, <2>1
  <2>3. ~(n < m)
    BY <1>1, <1>2, <2>1
  <2> QED BY <2>1, <2>2, <2>3
<1>3. n \in Cells /\ P(n)
  BY <1>1
<1>4. Strlen(t) = CHOOSE m \in Cells : P(m)
  BY DEF Strlen
<1> HIDE DEF P
<1> QED BY <1>2, <1>3, <1>4

LEMMA TextEnds ==
  ASSUME NEW t, HasEnd(t)
  PROVE  EndsAt(t, Strlen(t))
<1> DEFINE S == {k \in Cells : t[k] = NUL}
<1>1. S \subseteq Nat /\ S # {}
  BY CellsAre DEF HasEnd
<1>2. PICK n \in S : \A j \in S : n <= j
  <2> HIDE DEF S
  <2> QED BY <1>1, Least
<1>3. n \in Cells /\ t[n] = NUL
  BY <1>2
<1>4. \A k \in 0 .. n - 1 : k \in Cells /\ ~(n <= k)
  BY <1>3, CellsAre
<1>5. \A k \in 0 .. n - 1 : t[k] # NUL
  BY <1>2, <1>4
<1>6. EndsAt(t, n)
  BY <1>3, <1>5 DEF EndsAt
<1> QED BY <1>6, EndIs

(* The text of an array.                                                   *)
LEMMA ReadIs ==
  ASSUME NEW t \in Arrays, NEW n, EndsAt(t, n)
  PROVE  /\ Read(t) \in Seq(Sym) /\ Len(Read(t)) = n /\ n \in 0 .. TxtLen - 1
         /\ \A k \in 1 .. n : Read(t)[k] = t[k - 1]
<1>1. n \in Cells /\ \A k \in 0 .. n - 1 : t[k] # NUL /\ Strlen(t) = n
  BY EndIs DEF EndsAt
<1>2. n \in Nat /\ n \in 0 .. TxtLen - 1 /\ Strlen(t) = n
  BY EndIs, <1>1, CellsAre
<1>3. \A k \in 1 .. n : k - 1 \in Cells /\ t[k - 1] \in Sym
  <2> SUFFICES ASSUME NEW k \in 1 .. n PROVE k - 1 \in Cells /\ t[k - 1] \in Sym
    OBVIOUS
  <2>1. k - 1 \in 0 .. n - 1 /\ k - 1 \in Cells
    BY <1>2, CellsAre
  <2>2. t[k - 1] \in Sym \cup {NUL}
    BY <2>1 DEF Arrays
  <2> QED BY <1>1, <2>1, <2>2
<1>4. Read(t) = [k \in 1 .. n |-> t[k - 1]]
  BY <1>2 DEF Read
<1>5. Read(t) \in [1 .. n -> Sym]
  BY <1>3, <1>4
<1> HIDE DEF Read
<1>6. Read(t) \in Seq(Sym) /\ Len(Read(t)) = n
  BY <1>2, <1>5
<1> QED BY <1>2, <1>4, <1>6

(* Two texts are the same when they agree everywhere.                      *)
LEMMA SameText ==
  ASSUME NEW t \in Arrays, NEW n, EndsAt(t, n), NEW s \in Seq(Sym), Len(s) = n,
         \A k \in 1 .. n : s[k] = t[k - 1]
  PROVE  Read(t) = s
<1>1. /\ Read(t) \in Seq(Sym) /\ Len(Read(t)) = n
      /\ \A k \in 1 .. n : Read(t)[k] = t[k - 1]
  BY ReadIs
<1> DEFINE r == Read(t)
<1>2. r \in Seq(Sym) /\ Len(r) = Len(s) /\ \A k \in 1 .. Len(r) : r[k] = s[k]
  BY <1>1
<1> HIDE DEF r
<1>3. r = s
  BY <1>2, SeqEqual
<1> QED BY <1>3 DEF r

LEMMA PartOf ==
  ASSUME NEW S, NEW s \in Seq(S), NEW a \in 1 .. Len(s) + 1, NEW b \in 0 .. Len(s)
  PROVE  LET r == SubSeq(s, a, b) IN
         /\ r \in Seq(S) /\ Len(r) = (IF a <= b THEN b - a + 1 ELSE 0)
         /\ \A k \in 1 .. Len(r) : r[k] = s[a + k - 1]
OBVIOUS

(* What is in front of p, what is put there, and what is behind q.         *)
Spliced(s, p, c, q) == SubSeq(s, 1, p) \o << c >> \o SubSeq(s, q + 1, Len(s))
IsSpliced(r, s, p, c, q) ==
  /\ r \in Seq(Sym) /\ Len(r) = p + 1 + Len(s) - q
  /\ \A k \in 1 .. Len(r) : r[k] = IF k <= p THEN s[k] ELSE IF k = p + 1 THEN c ELSE s[k + q - p - 1]

LEMMA SpliceIs ==
  ASSUME NEW s \in Seq(Sym), NEW q \in 0 .. Len(s), NEW p \in 0 .. q, NEW c \in Sym
  PROVE  IsSpliced(Spliced(s, p, c, q), s, p, c, q)
<1> DEFINE A == SubSeq(s, 1, p)
           B == SubSeq(s, q + 1, Len(s))
           M == << c >>
<1>1. Len(s) \in Nat
  OBVIOUS
<1>2. A \in Seq(Sym) /\ Len(A) = p /\ \A k \in 1 .. p : A[k] = s[k]
  <2>1. 1 \in 1 .. Len(s) + 1 /\ p \in 0 .. Len(s) /\ p \in Nat
    BY <1>1
  <2>2. A \in Seq(Sym) /\ Len(A) = (IF 1 <= p THEN p - 1 + 1 ELSE 0) /\ \A k \in 1 .. Len(A) : A[k] = s[1 + k - 1]
    BY <2>1, PartOf
  <2> HIDE DEF A
  <2> QED BY <2>1, <2>2
<1>3. B \in Seq(Sym) /\ Len(B) = Len(s) - q /\ \A k \in 1 .. Len(s) - q : B[k] = s[q + k]
  <2> DEFINE a == q + 1
             b == Len(s)
  <2>1. a \in 1 .. Len(s) + 1 /\ b \in 0 .. Len(s)
    BY <1>1
  <2> HIDE DEF a, b
  <2>2. SubSeq(s, a, b) \in Seq(Sym) /\ Len(SubSeq(s, a, b)) = (IF a <= b THEN b - a + 1 ELSE 0)
        /\ \A k \in 1 .. Len(SubSeq(s, a, b)) : SubSeq(s, a, b)[k] = s[a + k - 1]
    BY <2>1, PartOf
  <2>3. B \in Seq(Sym) /\ Len(B) = (IF q + 1 <= Len(s) THEN Len(s) - (q + 1) + 1 ELSE 0)
        /\ \A k \in 1 .. Len(B) : B[k] = s[q + 1 + k - 1]
    BY <2>2 DEF a, b
  <2> HIDE DEF B
  <2>4. q \in Nat /\ Len(B) = Len(s) - q
    BY <1>1, <2>3
  <2>5. \A k \in 1 .. Len(s) - q : q + 1 + k - 1 = q + k
    BY <1>1, <2>4
  <2> QED BY <2>3, <2>4, <2>5
<1>4. M \in Seq(Sym) /\ Len(M) = 1 /\ M[1] = c
  OBVIOUS
<1> DEFINE AM == A \o M
<1> HIDE DEF A, B, M
<1>5. AM \in Seq(Sym) /\ Len(AM) = p + 1 /\ \A k \in 1 .. p + 1 : AM[k] = IF k <= p THEN s[k] ELSE c
  <2>1. /\ AM \in Seq(Sym) /\ Len(AM) = Len(A) + Len(M)
        /\ \A k \in 1 .. Len(A) + Len(M) : AM[k] = IF k <= Len(A) THEN A[k] ELSE M[k - Len(A)]
    BY <1>2, <1>4, ConcatProperties
  <2> HIDE DEF AM
  <2> QED BY <1>1, <1>2, <1>4, <2>1
<1> HIDE DEF AM
<1> DEFINE r == AM \o B
<1>6. /\ r \in Seq(Sym) /\ Len(r) = p + 1 + Len(s) - q
      /\ \A k \in 1 .. Len(r) : r[k] = IF k <= p + 1 THEN AM[k] ELSE B[k - p - 1]
  <2>1. /\ r \in Seq(Sym) /\ Len(r) = Len(AM) + Len(B)
        /\ \A k \in 1 .. Len(AM) + Len(B) : r[k] = IF k <= Len(AM) THEN AM[k] ELSE B[k - Len(AM)]
    BY <1>3, <1>5, ConcatProperties
  <2> HIDE DEF r
  <2> QED BY <1>1, <1>3, <1>5, <2>1
<1> HIDE DEF r
<1>8. \A k \in 1 .. Len(r) : r[k] = IF k <= p THEN s[k] ELSE IF k = p + 1 THEN c ELSE s[k + q - p - 1]
  <2> SUFFICES ASSUME NEW k \in 1 .. Len(r)
               PROVE  r[k] = IF k <= p THEN s[k] ELSE IF k = p + 1 THEN c ELSE s[k + q - p - 1]
    OBVIOUS
  <2>1. k \in Nat /\ p \in Nat /\ q \in Nat /\ 1 <= k /\ k <= p + 1 + Len(s) - q
    BY <1>1, <1>6
  <2>2. CASE k <= p + 1
    BY <1>5, <1>6, <2>1, <2>2
  <2>3. CASE k > p + 1
    <3>1. k - p - 1 \in 1 .. Len(s) - q /\ q + (k - p - 1) = k + q - p - 1
      BY <1>1, <2>1, <2>3
    <3>2. B[k - p - 1] = s[k + q - p - 1]
      BY <1>3, <3>1
    <3> QED BY <1>6, <2>1, <2>3, <3>2
  <2> QED BY <2>1, <2>2, <2>3
<1>9. IsSpliced(r, s, p, c, q)
  BY <1>6, <1>8 DEF IsSpliced
<1> QED BY <1>9 DEF r, AM, A, B, M, Spliced

LEMMA CutIs ==
  ASSUME NEW S, NEW s \in Seq(S), NEW q \in 0 .. Len(s), NEW p \in 0 .. q
  PROVE  LET r == SubSeq(s, 1, p) \o SubSeq(s, q + 1, Len(s)) IN
         /\ r \in Seq(S) /\ Len(r) = p + Len(s) - q
         /\ \A k \in 1 .. Len(r) : r[k] = IF k <= p THEN s[k] ELSE s[k + q - p]
<1> DEFINE A == SubSeq(s, 1, p)
           B == SubSeq(s, q + 1, Len(s))
<1>1. Len(s) \in Nat
  OBVIOUS
<1>2. A \in Seq(S) /\ Len(A) = p /\ \A k \in 1 .. p : A[k] = s[k]
  <2>1. 1 \in 1 .. Len(s) + 1 /\ p \in 0 .. Len(s) /\ p \in Nat
    BY <1>1
  <2>2. A \in Seq(S) /\ Len(A) = (IF 1 <= p THEN p - 1 + 1 ELSE 0) /\ \A k \in 1 .. Len(A) : A[k] = s[1 + k - 1]
    BY <2>1, PartOf
  <2> HIDE DEF A
  <2> QED BY <2>1, <2>2
<1>3. B \in Seq(S) /\ Len(B) = Len(s) - q /\ \A k \in 1 .. Len(s) - q : B[k] = s[q + k]
  <2> DEFINE a == q + 1
             b == Len(s)
  <2>1. a \in 1 .. Len(s) + 1 /\ b \in 0 .. Len(s)
    BY <1>1
  <2> HIDE DEF a, b
  <2>2. SubSeq(s, a, b) \in Seq(S) /\ Len(SubSeq(s, a, b)) = (IF a <= b THEN b - a + 1 ELSE 0)
        /\ \A k \in 1 .. Len(SubSeq(s, a, b)) : SubSeq(s, a, b)[k] = s[a + k - 1]
    BY <2>1, PartOf
  <2>3. B \in Seq(S) /\ Len(B) = (IF q + 1 <= Len(s) THEN Len(s) - (q + 1) + 1 ELSE 0)
        /\ \A k \in 1 .. Len(B) : B[k] = s[q + 1 + k - 1]
    BY <2>2 DEF a, b
  <2> HIDE DEF B
  <2>4. q \in Nat /\ Len(B) = Len(s) - q
    BY <1>1, <2>3
  <2>5. \A k \in 1 .. Len(s) - q : q + 1 + k - 1 = q + k
    BY <1>1, <2>4
  <2> QED BY <2>3, <2>4, <2>5
<1> DEFINE r == A \o B
<1> HIDE DEF A, B
<1>6. /\ r \in Seq(S) /\ Len(r) = p + Len(s) - q
      /\ \A k \in 1 .. Len(r) : r[k] = IF k <= p THEN A[k] ELSE B[k - p]
  <2>1. /\ r \in Seq(S) /\ Len(r) = Len(A) + Len(B)
        /\ \A k \in 1 .. Len(A) + Len(B) : r[k] = IF k <= Len(A) THEN A[k] ELSE B[k - Len(A)]
    BY <1>2, <1>3, ConcatProperties
  <2> HIDE DEF r
  <2> QED BY <1>1, <1>2, <1>3, <2>1
<1> HIDE DEF r
<1>8. \A k \in 1 .. Len(r) : r[k] = IF k <= p THEN s[k] ELSE s[k + q - p]
  <2> SUFFICES ASSUME NEW k \in 1 .. Len(r)
               PROVE  r[k] = IF k <= p THEN s[k] ELSE s[k + q - p]
    OBVIOUS
  <2>1. k \in Nat /\ p \in Nat /\ q \in Nat /\ 1 <= k /\ k <= p + Len(s) - q
    BY <1>1, <1>6
  <2>2. CASE k <= p
    BY <1>2, <1>6, <2>1, <2>2
  <2>3. CASE k > p
    <3>1. k - p \in 1 .. Len(s) - q /\ q + (k - p) = k + q - p
      BY <1>1, <2>1, <2>3
    <3>2. B[k - p] = s[k + q - p]
      BY <1>3, <3>1
    <3> QED BY <1>6, <2>1, <2>3, <3>2
  <2> QED BY <2>1, <2>2, <2>3
<1> QED BY <1>6, <1>8 DEF r, A, B

-----------------------------------------------------------------------------
(* THE STATE                                                               *)

(* The array, its text, where it ends and where the caret is.              *)
LEMMA StateIs ==
  ASSUME EditTypeOK
  PROVE  /\ child_text \in Arrays /\ EndsAt(child_text, len) /\ child_cur \in Nat
         /\ len \in Nat /\ len <= TxtLen - 1 /\ cur \in Nat /\ cur <= len /\ cur <= child_cur
         /\ cur = (IF child_cur > len THEN len ELSE child_cur)
         /\ Read(child_text) \in Seq(Sym) /\ Len(Read(child_text)) = len
         /\ \A k \in 1 .. len : Read(child_text)[k] = child_text[k - 1]
<1>1. child_text \in Arrays /\ HasEnd(child_text) /\ child_cur \in Nat
  BY CellsAre DEF EditTypeOK, Arrays, HasEnd, Sym
<1>2. EndsAt(child_text, len)
  BY <1>1, TextEnds DEF len
<1>3. /\ Read(child_text) \in Seq(Sym) /\ Len(Read(child_text)) = len /\ len \in 0 .. TxtLen - 1
      /\ \A k \in 1 .. len : Read(child_text)[k] = child_text[k - 1]
  BY <1>1, <1>2, ReadIs
<1>4. cur = IF child_cur > len THEN len ELSE child_cur
  BY DEF cur, Clipped, len
<1> HIDE DEF len, cur
<1>5. len \in Nat /\ len <= TxtLen - 1 /\ cur \in Nat /\ cur <= len /\ cur <= child_cur
  BY <1>1, <1>3, <1>4, CellsAre
<1> QED BY <1>1, <1>2, <1>3, <1>4, <1>5

(* The state after a step, when the array is t and ends at n.              *)
LEMMA After ==
  ASSUME NEW t \in Arrays, NEW n, EndsAt(t, n), NEW c \in Cells,
         child_text' = t, child_cur' = c
  PROVE  EditTypeOK' /\ len' = n /\ cur' = (IF c > n THEN n ELSE c) /\ Read(child_text)' = Read(t)
         /\ (Repaint /\ c <= n => shown' = [text |-> Read(child_text'), caret |-> cur'])
<1>1. Strlen(t) = n /\ n \in Cells /\ t[n] = NUL
  BY EndIs DEF EndsAt
<1>2. EditTypeOK'
  BY <1>1 DEF EditTypeOK, Arrays, Sym
<1>3. len' = n /\ cur' = (IF c > n THEN n ELSE c)
  BY <1>1 DEF len, cur, Clipped
<1>4. Repaint /\ c <= n => shown' = [text |-> Read(child_text'), caret |-> cur']
  <2> SUFFICES ASSUME Repaint, c <= n PROVE shown' = [text |-> Read(child_text'), caret |-> cur']
    OBVIOUS
  <2>1. c \in Nat /\ n \in Nat /\ ~(c > n)
    BY <1>1, CellsAre
  <2>2. cur' = c
    BY <1>3, <2>1
  <2>3. shown' = [text |-> Read(t), caret |-> IF c > Strlen(t) THEN 0 ELSE c]
    BY DEF Repaint, Painted
  <2> QED BY <1>1, <2>1, <2>2, <2>3
<1> QED BY <1>2, <1>3, <1>4

-----------------------------------------------------------------------------
(* WHAT THE STEPS DO TO THE TEXT                                           *)

(* A text copied into the array.                                           *)
LEMMA CopiedIs ==
  ASSUME NEW t \in Arrays, NEW s \in Seq(Sym)
  PROVE  LET n == IF Len(s) < TxtLen THEN Len(s) ELSE TxtLen - 1
         IN  /\ Copied(t, s) \in Arrays /\ EndsAt(Copied(t, s), n)
             /\ Read(Copied(t, s)) = SubSeq(s, 1, n)
<1> DEFINE n == IF Len(s) < TxtLen THEN Len(s) ELSE TxtLen - 1
           u == Copied(t, s)
<1>1. Len(s) \in Nat /\ n \in Nat /\ n <= Len(s) /\ n <= TxtLen - 1 /\ n \in Cells
  BY CellsAre
<1>2. u = [k \in Cells |-> IF k < n THEN s[k + 1] ELSE IF k = n THEN NUL ELSE t[k]]
  BY DEF Copied
<1> HIDE DEF n
<1>3. \A k \in 0 .. n - 1 : k \in Cells /\ k + 1 \in 1 .. Len(s) /\ s[k + 1] \in Sym
  <2> SUFFICES ASSUME NEW k \in 0 .. n - 1 PROVE k \in Cells /\ k + 1 \in 1 .. Len(s) /\ s[k + 1] \in Sym
    OBVIOUS
  <2>1. k \in Cells /\ k + 1 \in 1 .. Len(s)
    BY <1>1, CellsAre
  <2> QED BY <2>1
<1>4. u \in Arrays
  <2>1. \A k \in Cells : (IF k < n THEN s[k + 1] ELSE IF k = n THEN NUL ELSE t[k]) \in Sym \cup {NUL}
    <3> SUFFICES ASSUME NEW k \in Cells
                 PROVE  (IF k < n THEN s[k + 1] ELSE IF k = n THEN NUL ELSE t[k]) \in Sym \cup {NUL}
      OBVIOUS
    <3>1. k \in Nat /\ t[k] \in Sym \cup {NUL}
      BY CellsAre DEF Arrays
    <3>2. CASE k < n
      BY <1>1, <1>3, <3>1, <3>2
    <3> QED BY <3>1, <3>2
  <2> HIDE DEF u
  <2> QED BY <1>2, <2>1 DEF Arrays
<1>5. EndsAt(u, n)
  <2>1. u[n] = NUL
    BY <1>1, <1>2
  <2>2. \A k \in 0 .. n - 1 : u[k] = s[k + 1] /\ u[k] # NUL
    BY <1>1, <1>2, <1>3, CellsAre
  <2> QED BY <1>1, <2>1, <2>2 DEF EndsAt
<1>6. Read(u) = SubSeq(s, 1, n)
  <2>1. 1 \in 1 .. Len(s) + 1 /\ n \in 0 .. Len(s)
    BY <1>1
  <2> DEFINE r == SubSeq(s, 1, n)
  <2>2. r \in Seq(Sym) /\ Len(r) = (IF 1 <= n THEN n - 1 + 1 ELSE 0) /\ \A k \in 1 .. Len(r) : r[k] = s[1 + k - 1]
    BY <2>1, PartOf
  <2> HIDE DEF r
  <2>3. Len(r) = n
    BY <1>1, <2>2
  <2>4. \A k \in 1 .. n : r[k] = u[k - 1]
    <3> SUFFICES ASSUME NEW k \in 1 .. n PROVE r[k] = u[k - 1]
      OBVIOUS
    <3>1. k - 1 \in Cells /\ k - 1 < n /\ (k - 1) + 1 = k /\ 1 + k - 1 = k
      BY <1>1, CellsAre
    <3> QED BY <1>2, <2>2, <2>3, <3>1
  <2> HIDE DEF u
  <2> QED BY <1>4, <1>5, <2>2, <2>3, <2>4, SameText DEF r
<1> QED BY <1>4, <1>5, <1>6 DEF n

(* child_insert at the caret p of a text of length n.                      *)
LEMMA InsertIs ==
  ASSUME NEW t \in Arrays, NEW n, EndsAt(t, n), n < TxtLen - 1, NEW p \in 0 .. n, NEW c \in Sym
  PROVE  LET u == [Memmove(t, p + 1, p, n - p + 1) EXCEPT ![p] = c]
         IN  /\ u \in Arrays /\ EndsAt(u, n + 1)
             /\ Read(u) = SubSeq(Read(t), 1, p) \o << c >> \o SubSeq(Read(t), p + 1, Len(Read(t)))
<1> DEFINE u == [Memmove(t, p + 1, p, n - p + 1) EXCEPT ![p] = c]
<1>1. n \in Nat /\ t[n] = NUL /\ p \in Nat /\ p <= n /\ TxtLen \in Nat /\ Cells = 0 .. TxtLen - 1
      /\ \A k \in 0 .. n - 1 : t[k] # NUL
  BY CellsAre DEF EndsAt
<1>2. \A k \in Cells : t[k] \in Sym \cup {NUL}
  BY DEF Arrays
<1>3. u = [k \in Cells |-> IF k = p THEN c ELSE IF k \in p + 1 .. n + 1 THEN t[k - 1] ELSE t[k]]
  <2>1. p + 1 + (n - p + 1) - 1 = n + 1 /\ \A k \in Cells : p + k - (p + 1) = k - 1
    BY <1>1
  <2>2. Memmove(t, p + 1, p, n - p + 1) = [k \in Cells |-> IF k \in p + 1 .. n + 1 THEN t[k - 1] ELSE t[k]]
    BY <2>1 DEF Memmove
  <2> QED BY <2>2
<1> HIDE DEF u
<1>4. u \in Arrays
  <2>1. \A k \in Cells : u[k] \in Sym \cup {NUL}
    <3> SUFFICES ASSUME NEW k \in Cells PROVE u[k] \in Sym \cup {NUL}
      OBVIOUS
    <3>1. k \in p + 1 .. n + 1 => k - 1 \in Cells
      BY <1>1
    <3> QED BY <1>2, <1>3, <3>1
  <2> QED BY <1>3, <2>1 DEF Arrays
<1>5. EndsAt(u, n + 1)
  <2>1. n + 1 \in Cells /\ u[n + 1] = t[n]
    BY <1>1, <1>3
  <2>2. ASSUME NEW k \in 0 .. n PROVE u[k] # NUL
    <3>1. k \in Cells
      BY <1>1
    <3>2. CASE k < p
      BY <1>1, <1>3, <3>1, <3>2
    <3>3. CASE k = p
      BY <1>3, <3>1, <3>3, CellsAre
    <3>4. CASE k > p
      BY <1>1, <1>3, <3>1, <3>4
    <3> QED BY <1>1, <3>2, <3>3, <3>4
  <2>3. n + 1 - 1 = n
    BY <1>1
  <2> QED BY <1>1, <2>1, <2>2, <2>3 DEF EndsAt
<1> DEFINE s == Read(t)
           r == SubSeq(s, 1, p) \o << c >> \o SubSeq(s, p + 1, Len(s))
<1>6. s \in Seq(Sym) /\ Len(s) = n /\ \A k \in 1 .. n : s[k] = t[k - 1]
  BY ReadIs
<1> HIDE DEF s
<1>7. /\ r \in Seq(Sym) /\ Len(r) = p + 1 + Len(s) - p
      /\ \A k \in 1 .. Len(r) : r[k] = IF k <= p THEN s[k] ELSE IF k = p + 1 THEN c ELSE s[k + p - p - 1]
  <2> DEFINE q == p
  <2>1. q \in 0 .. Len(s) /\ p \in 0 .. q
    BY <1>1, <1>6
  <2> HIDE DEF q
  <2>2. IsSpliced(Spliced(s, p, c, q), s, p, c, q)
    BY <1>6, <2>1, SpliceIs
  <2>3. IsSpliced(r, s, p, c, p)
    BY <2>2 DEF q, Spliced
  <2> HIDE DEF r
  <2> QED BY <2>3 DEF IsSpliced
<1> HIDE DEF r
<1>8. Len(r) = n + 1
  BY <1>1, <1>6, <1>7
<1>9. \A k \in 1 .. n + 1 : r[k] = u[k - 1]
  <2> SUFFICES ASSUME NEW k \in 1 .. n + 1 PROVE r[k] = u[k - 1]
    OBVIOUS
  <2>1. k - 1 \in Cells /\ k \in Nat /\ 1 <= k /\ k <= n + 1 /\ k + p - p - 1 = k - 1
    BY <1>1
  <2>2. CASE k <= p
    BY <1>1, <1>3, <1>6, <1>7, <1>8, <2>1, <2>2
  <2>3. CASE k = p + 1
    BY <1>1, <1>3, <1>7, <1>8, <2>1, <2>3
  <2>4. CASE k > p + 1
    <3>1. r[k] = s[k - 1] /\ k - 1 \in 1 .. n /\ s[k - 1] = t[k - 1 - 1]
      BY <1>1, <1>6, <1>7, <1>8, <2>1, <2>4
    <3>2. u[k - 1] = t[k - 1 - 1]
      BY <1>1, <1>3, <2>1, <2>4
    <3> QED BY <3>1, <3>2
  <2> QED BY <1>1, <2>1, <2>2, <2>3, <2>4
<1>10. Read(u) = r
  BY <1>4, <1>5, <1>7, <1>8, <1>9, SameText
<1> QED BY <1>4, <1>5, <1>10 DEF u, r, s

(* The character behind p taken out of a text of length n.                 *)
LEMMA RemovedIs ==
  ASSUME NEW t \in Arrays, NEW n, EndsAt(t, n), NEW p \in 0 .. n - 1
  PROVE  LET u == Memmove(t, p, p + 1, n - p)
         IN  /\ u \in Arrays /\ EndsAt(u, n - 1)
             /\ Read(u) = SubSeq(Read(t), 1, p) \o SubSeq(Read(t), p + 1 + 1, Len(Read(t)))
<1> DEFINE u == Memmove(t, p, p + 1, n - p)
<1>1. n \in Nat /\ t[n] = NUL /\ p \in Nat /\ p < n /\ TxtLen \in Nat /\ Cells = 0 .. TxtLen - 1 /\ n \in Cells
      /\ \A k \in 0 .. n - 1 : t[k] # NUL
  BY CellsAre DEF EndsAt
<1>2. \A k \in Cells : t[k] \in Sym \cup {NUL}
  BY DEF Arrays
<1>3. u = [k \in Cells |-> IF k \in p .. n - 1 THEN t[k + 1] ELSE t[k]]
  <2>1. p + (n - p) - 1 = n - 1 /\ \A k \in Cells : (p + 1) + k - p = k + 1
    BY <1>1
  <2> QED BY <2>1 DEF Memmove
<1> HIDE DEF u
<1>4. u \in Arrays
  <2>1. \A k \in Cells : u[k] \in Sym \cup {NUL}
    <3> SUFFICES ASSUME NEW k \in Cells PROVE u[k] \in Sym \cup {NUL}
      OBVIOUS
    <3>1. k \in p .. n - 1 => k + 1 \in Cells
      BY <1>1
    <3> QED BY <1>2, <1>3, <3>1
  <2> QED BY <1>3, <2>1 DEF Arrays
<1>5. EndsAt(u, n - 1)
  <2>1. n - 1 \in Cells /\ u[n - 1] = t[n]
    BY <1>1, <1>3
  <2>2. ASSUME NEW k \in 0 .. n - 1 - 1 PROVE u[k] # NUL
    <3>1. k \in Cells /\ k \in Nat /\ k + 1 \in 0 .. n - 1
      BY <1>1
    <3>2. CASE k < p
      BY <1>1, <1>3, <3>1, <3>2
    <3>3. CASE k >= p
      BY <1>1, <1>3, <3>1, <3>3
    <3> QED BY <1>1, <3>1, <3>2, <3>3
  <2> QED BY <1>1, <2>1, <2>2 DEF EndsAt
<1> DEFINE s == Read(t)
           q == p + 1
           r == SubSeq(s, 1, p) \o SubSeq(s, q + 1, Len(s))
<1>6. s \in Seq(Sym) /\ Len(s) = n /\ \A k \in 1 .. n : s[k] = t[k - 1]
  BY ReadIs
<1> HIDE DEF s
<1>7. /\ r \in Seq(Sym) /\ Len(r) = p + Len(s) - q
      /\ \A k \in 1 .. Len(r) : r[k] = IF k <= p THEN s[k] ELSE s[k + q - p]
  <2>1. q \in 0 .. Len(s) /\ p \in 0 .. q
    BY <1>1, <1>6
  <2> HIDE DEF q
  <2> QED BY <1>6, <2>1, CutIs
<1> HIDE DEF r
<1>8. Len(r) = n - 1 /\ \A k \in Nat : k + q - p = k + 1
  BY <1>1, <1>6, <1>7
<1>9. \A k \in 1 .. n - 1 : r[k] = u[k - 1]
  <2> SUFFICES ASSUME NEW k \in 1 .. n - 1 PROVE r[k] = u[k - 1]
    OBVIOUS
  <2>1. k - 1 \in Cells /\ k \in Nat /\ 1 <= k /\ k <= n - 1 /\ k + q - p = k + 1
    BY <1>1, <1>8
  <2>2. CASE k <= p
    <3>1. r[k] = s[k] /\ k \in 1 .. n /\ s[k] = t[k - 1]
      BY <1>1, <1>6, <1>7, <1>8, <2>1, <2>2
    <3>2. u[k - 1] = t[k - 1]
      BY <1>1, <1>3, <2>1, <2>2
    <3> QED BY <3>1, <3>2
  <2>4. CASE k > p
    <3>1. r[k] = s[k + 1] /\ k + 1 \in 1 .. n /\ s[k + 1] = t[k]
      BY <1>1, <1>6, <1>7, <1>8, <2>1, <2>4
    <3>2. u[k - 1] = t[k]
      BY <1>1, <1>3, <2>1, <2>4
    <3> QED BY <3>1, <3>2
  <2> QED BY <1>1, <2>1, <2>2, <2>4
<1>10. Read(u) = r
  BY <1>4, <1>5, <1>7, <1>8, <1>9, SameText
<1> QED BY <1>4, <1>5, <1>10 DEF u, r, s, q

-----------------------------------------------------------------------------
(* ROWS                                                                    *)

(* The newlines of the text s up to p; the row of p begins at b.           *)
Nls(s, p) == {i \in 1 .. p : s[i] = NL}
Starts(s, p, b) == /\ b \in 0 .. p
                   /\ b = 0 \/ s[b] = NL
                   /\ \A i \in b + 1 .. p : s[i] # NL

LEMMA OneStart ==
  ASSUME NEW s, NEW p \in Nat, NEW a, NEW b, Starts(s, p, a), Starts(s, p, b)
  PROVE  a = b
<1>1. /\ a \in Nat /\ b \in Nat /\ a <= p /\ b <= p /\ (a = 0 \/ s[a] = NL) /\ (b = 0 \/ s[b] = NL)
      /\ \A i \in a + 1 .. p : s[i] # NL
      /\ \A i \in b + 1 .. p : s[i] # NL
  BY DEF Starts
<1>2. ~(a < b)
  BY <1>1
<1>3. ~(b < a)
  BY <1>1
<1> QED BY <1>1, <1>2, <1>3

LEMMA SomeStart ==
  ASSUME NEW s, NEW p \in Nat
  PROVE  \E b : Starts(s, p, b)
<1> DEFINE S == {d \in 0 .. p : p - d = 0 \/ s[p - d] = NL}
<1>1. S \subseteq Nat /\ p \in S
  OBVIOUS
<1>2. PICK d \in S : \A j \in S : d <= j
  <2> HIDE DEF S
  <2> QED BY <1>1, Least
<1>3. d \in 0 .. p /\ p - d \in 0 .. p /\ (p - d = 0 \/ s[p - d] = NL)
  BY <1>2
<1>4. ASSUME NEW i \in p - d + 1 .. p PROVE s[i] # NL
  <2>1. p - i \in 0 .. p /\ p - i < d /\ p - (p - i) = i /\ d \in Nat
    BY <1>3
  <2>2. p - i \notin S
    BY <1>2, <2>1
  <2> QED BY <2>1, <2>2
<1>5. Starts(s, p, p - d)
  BY <1>3, <1>4 DEF Starts
<1> QED BY <1>5

LEMMA NlsAre ==
  ASSUME NEW s, NEW p \in Nat
  PROVE  IsFiniteSet(Nls(s, p)) /\ Cardinality(Nls(s, p)) \in Nat
<1>1. IsFiniteSet(1 .. p) /\ Nls(s, p) \in SUBSET (1 .. p)
  BY FS_Interval DEF Nls
<1> QED BY <1>1, FS_Subset, FS_CardinalityType

LEMMA RowSame ==
  ASSUME NEW s, NEW q \in Nat, NEW p \in 0 .. q, \A i \in p + 1 .. q : s[i] # NL
  PROVE  Nls(s, q) = Nls(s, p)
BY DEF Nls

LEMMA RowNext ==
  ASSUME NEW s, NEW q \in Nat, NEW p \in 0 .. q, NEW m \in p + 1 .. q, s[m] = NL,
         \A i \in p + 1 .. q : i # m => s[i] # NL
  PROVE  Cardinality(Nls(s, q)) = Cardinality(Nls(s, p)) + 1
<1> DEFINE N == Nls(s, p)
<1>1. p \in Nat /\ m \notin N
  BY DEF Nls
<1>2. Nls(s, q) = N \cup {m}
  BY DEF Nls
<1>3. IsFiniteSet(N)
  BY <1>1, NlsAre
<1> HIDE DEF N
<1>4. Cardinality(N \cup {m}) = Cardinality(N) + 1
  BY <1>1, <1>3, FS_AddElement
<1> QED BY <1>2, <1>4 DEF N

LEMMA RowGrows ==
  ASSUME NEW s, NEW q \in Nat, NEW p \in 0 .. q
  PROVE  /\ Cardinality(Nls(s, p)) <= Cardinality(Nls(s, q))
         /\ \A m \in p + 1 .. q : s[m] = NL => Cardinality(Nls(s, p)) < Cardinality(Nls(s, q))
<1> DEFINE N == Nls(s, p)
           Q == Nls(s, q)
<1>1. p \in Nat /\ N \in SUBSET Q
  BY DEF Nls
<1>2. \A m \in p + 1 .. q : s[m] = NL => m \in Q /\ m \notin N
  BY <1>1 DEF Nls
<1>3. IsFiniteSet(Q) /\ Cardinality(Q) \in Nat /\ Cardinality(N) \in Nat
  BY <1>1, NlsAre
<1> HIDE DEF N, Q
<1>4. Cardinality(N) <= Cardinality(Q) /\ (Cardinality(Q) = Cardinality(N) => Q = N)
  BY <1>1, <1>3, FS_Subset
<1> QED BY <1>2, <1>3, <1>4 DEF N, Q

LEMMA EditorRow == ASSUME NEW p PROVE Editor!Row(p) = Cardinality(Nls(Read(child_text), p))
BY DEF Editor!Row, Nls, Editor!Cardinality, Cardinality

LEMMA EditorStart ==
  ASSUME NEW p \in Nat, NEW b, Starts(Read(child_text), p, b)
  PROVE  Editor!RowStart(p) = b /\ Editor!Col(p) = p - b
<1> DEFINE s == Read(child_text)
           P(m) == (m = 0 \/ s[m] = NL) /\ \A i \in m + 1 .. p : s[i] # NL
<1>1. Editor!RowStart(p) = CHOOSE m \in 0 .. p : P(m)
  BY DEF Editor!RowStart
<1>2. b \in 0 .. p /\ P(b)
  BY DEF Starts
<1>3. ASSUME NEW m \in 0 .. p, P(m) PROVE m = b
  <2>1. Starts(s, p, m)
    BY <1>3 DEF Starts
  <2> HIDE DEF s
  <2> QED BY <2>1, OneStart DEF s
<1> HIDE DEF P
<1>4. Editor!RowStart(p) = b
  BY <1>1, <1>2, <1>3
<1> QED BY <1>4 DEF Editor!Col

LEMMA LineStartIs ==
  ASSUME EditTypeOK, NEW p \in 0 .. len
  PROVE  Starts(Read(child_text), p, LineStart(p))
<1> DEFINE s == Read(child_text)
           P(m) == (m = 0 \/ child_text[m - 1] = NL) /\ \A k \in m .. p - 1 : child_text[k] # NL
<1>1. len \in Nat /\ \A k \in 1 .. len : s[k] = child_text[k - 1]
  BY StateIs
<1>2. p \in Nat /\ p <= len
  BY <1>1
<1> HIDE DEF s
<1>3. ASSUME NEW m \in 0 .. p
      PROVE  P(m) <=> Starts(s, p, m)
  <2>1. m \in Nat /\ m <= p /\ (m # 0 => m \in 1 .. len)
    BY <1>1, <1>2
  <2>2. (m = 0 \/ child_text[m - 1] = NL) <=> (m = 0 \/ s[m] = NL)
    BY <1>1, <2>1
  <2>3. ASSUME \A k \in m .. p - 1 : child_text[k] # NL, NEW i \in m + 1 .. p PROVE s[i] # NL
    <3>1. i - 1 \in m .. p - 1 /\ i \in 1 .. len
      BY <1>1, <1>2, <2>1
    <3> QED BY <1>1, <2>3, <3>1
  <2>4. ASSUME \A i \in m + 1 .. p : s[i] # NL, NEW k \in m .. p - 1 PROVE child_text[k] # NL
    <3>1. k + 1 \in m + 1 .. p /\ k + 1 \in 1 .. len /\ k + 1 - 1 = k
      BY <1>1, <1>2, <2>1
    <3>2. s[k + 1] = child_text[k]
      BY <1>1, <3>1
    <3> QED BY <2>4, <3>1, <3>2
  <2> QED BY <2>2, <2>3, <2>4 DEF Starts
<1>4. PICK b : Starts(s, p, b)
  BY <1>2, SomeStart
<1>5. b \in 0 .. p
  BY <1>4 DEF Starts
<1>6. LineStart(p) = CHOOSE m \in 0 .. p : P(m)
  BY DEF LineStart
<1> HIDE DEF P
<1>7. P(b) /\ \A m \in 0 .. p : P(m) => m = b
  BY <1>2, <1>3, <1>4, <1>5, OneStart
<1>8. LineStart(p) = b
  BY <1>5, <1>6, <1>7
<1> QED BY <1>4, <1>8 DEF s

-----------------------------------------------------------------------------
(* THE STEPS                                                               *)

Edits == Editor!Next \/ UNCHANGED << Read(child_text), cur >>
Shows == shown' = [text |-> Read(child_text'), caret |-> cur']

(* The caret moves.                                                        *)
LEMMA Moves ==
  ASSUME EditTypeOK, NEW p \in 0 .. len, MoveTo(p)
  PROVE  EditTypeOK' /\ Editor!Go(p) /\ Shows
<1>1. /\ child_text \in Arrays /\ EndsAt(child_text, len) /\ len \in Nat /\ len <= TxtLen - 1
  BY StateIs
<1>2. p \in Cells /\ p <= len /\ ~(p > len)
  BY <1>1, CellsAre
<1>3. child_text' = child_text /\ child_cur' = p /\ Repaint
  BY DEF MoveTo
<1>4. EditTypeOK' /\ cur' = p /\ Read(child_text)' = Read(child_text) /\ Shows
  BY <1>1, <1>2, <1>3, After DEF Shows
<1> QED BY <1>4 DEF Editor!Go

LEMMA SetTextStep ==
  ASSUME EditTypeOK, NEW s \in Given, SetText(s) \/ SetWindowText(s)
  PROVE  EditTypeOK' /\ Edits
<1> DEFINE t == Copied(child_text, s)
           n == IF Len(s) < TxtLen THEN Len(s) ELSE TxtLen - 1
<1>1. /\ child_text \in Arrays /\ child_cur \in Cells
      /\ cur = (IF child_cur > len THEN len ELSE child_cur)
      /\ Len(Read(child_text)) = len /\ len \in Nat /\ child_cur \in Nat
  BY StateIs DEF EditTypeOK
<1>2. s \in Seq(Sym)
  BY EditAssumption DEF Sym
<1>3. t \in Arrays /\ EndsAt(t, n) /\ Read(t) = SubSeq(s, 1, n)
  BY <1>1, <1>2, CopiedIs
<1>4. n \in Cells /\ n \in Nat /\ Strlen(t) = n /\ n = IF Len(s) < TxtLen - 1 THEN Len(s) ELSE TxtLen - 1
  BY <1>2, <1>3, EndIs, CellsAre DEF EndsAt
<1>5. Read(t) \in Seq(Sym) /\ Len(Read(t)) = n
  BY <1>3, ReadIs
<1>6. child_text' = t /\ (child_cur' = n \/ child_cur' = child_cur)
  BY <1>4 DEF SetText, SetWindowText
<1> HIDE DEF t, n
<1>7. child_cur' \in Cells /\ child_cur' \in Nat
  BY <1>1, <1>4, <1>6
<1>8. /\ EditTypeOK' /\ cur' = (IF child_cur' > n THEN n ELSE child_cur')
      /\ Read(child_text)' = Read(t)
  <2> DEFINE c == child_cur'
  <2>1. c \in Cells /\ child_cur' = c
    BY <1>7
  <2> HIDE DEF c
  <2>2. EditTypeOK' /\ cur' = (IF c > n THEN n ELSE c) /\ Read(child_text)' = Read(t)
    BY <1>3, <1>6, <2>1, After
  <2> QED BY <2>1, <2>2
<1>9. cur' \in 0 .. n /\ (cur' = n \/ cur' = cur \/ (cur = len /\ cur' > cur))
  BY <1>1, <1>4, <1>6, <1>7, <1>8
<1>10. Editor!Replace(s)
  <2>1. Read(child_text)' = SubSeq(s, 1, IF Len(s) < TxtLen - 1 THEN Len(s) ELSE TxtLen - 1)
    BY <1>3, <1>4, <1>8
  <2>2. Len(Read(child_text)') = n
    BY <1>5, <1>8
  <2> QED BY <1>1, <1>9, <2>1, <2>2 DEF Editor!Replace
<1> QED BY <1>8, <1>10 DEF Edits, Editor!Next

LEMMA InsertStep ==
  ASSUME EditTypeOK, NEW c \in Chars \cup {NL}, Insert(c)
  PROVE  EditTypeOK' /\ Edits /\ Shows
<1> DEFINE n == len
           p == cur
           t == child_text
           u == [Memmove(t, p + 1, p, n - p + 1) EXCEPT ![p] = c]
<1>1. /\ t \in Arrays /\ EndsAt(t, n) /\ n \in Nat /\ p \in Nat /\ p <= n /\ n < TxtLen - 1
      /\ child_text' = u /\ child_cur' = p + 1 /\ Repaint /\ Len(Read(t)) = n
  BY StateIs DEF Insert
<1>2. c \in Sym
  BY DEF Sym
<1>3. p \in 0 .. n /\ p + 1 \in Cells /\ p + 1 <= n + 1 /\ ~(p + 1 > n + 1) /\ n + 1 \in Nat
  BY <1>1, CellsAre
<1> HIDE DEF n, p, t
<1>4. /\ u \in Arrays /\ EndsAt(u, n + 1)
      /\ Read(u) = SubSeq(Read(t), 1, p) \o << c >> \o SubSeq(Read(t), p + 1, Len(Read(t)))
  BY <1>1, <1>2, <1>3, InsertIs
<1> HIDE DEF u
<1>5. /\ EditTypeOK' /\ cur' = (IF p + 1 > n + 1 THEN n + 1 ELSE p + 1) /\ Read(child_text)' = Read(u)
      /\ (Repaint /\ p + 1 <= n + 1 => Shows)
  <2> DEFINE m == n + 1
             d == p + 1
  <2>1. EndsAt(u, m) /\ d \in Cells /\ child_cur' = d
    BY <1>1, <1>3, <1>4
  <2> HIDE DEF m, d
  <2>2. /\ EditTypeOK' /\ cur' = (IF d > m THEN m ELSE d) /\ Read(child_text)' = Read(u)
        /\ (Repaint /\ d <= m => Shows)
    BY <1>1, <1>4, <2>1, After DEF Shows
  <2> QED BY <2>2 DEF m, d
<1>6. cur' = p + 1 /\ Shows
  BY <1>1, <1>3, <1>5
<1>7. Editor!Type(c)
  BY <1>1, <1>4, <1>5, <1>6 DEF Editor!Type, Editor!Upto, Editor!From, n, p, t
<1> QED BY <1>5, <1>6, <1>7 DEF Edits, Editor!Next

LEMMA BackspaceStep ==
  ASSUME EditTypeOK, Backspace
  PROVE  EditTypeOK' /\ Edits /\ Shows
<1> DEFINE n == len
           p == cur - 1
           t == child_text
           u == Memmove(t, p, p + 1, n - p)
<1>1. /\ t \in Arrays /\ EndsAt(t, n) /\ n \in Nat /\ cur \in Nat /\ cur <= n /\ cur > 0 /\ n <= TxtLen - 1
      /\ child_text' = Memmove(t, cur - 1, cur, n - cur + 1) /\ child_cur' = p /\ Repaint
      /\ Len(Read(t)) = n
  BY StateIs DEF Backspace
<1> HIDE DEF n, t
<1>2. /\ p \in Nat /\ p \in 0 .. n - 1 /\ p \in Cells /\ p + 1 = cur /\ n - cur + 1 = n - p
      /\ n - 1 \in Nat /\ p <= n - 1 /\ ~(p > n - 1)
  BY <1>1, CellsAre
<1>3. child_text' = u
  BY <1>1, <1>2
<1> HIDE DEF p
<1>4. /\ u \in Arrays /\ EndsAt(u, n - 1)
      /\ Read(u) = SubSeq(Read(t), 1, p) \o SubSeq(Read(t), p + 1 + 1, Len(Read(t)))
  BY <1>1, <1>2, RemovedIs
<1> HIDE DEF u
<1>5. EditTypeOK' /\ cur' = p /\ Read(child_text)' = Read(u) /\ Shows
  <2> DEFINE m == n - 1
  <2>1. EndsAt(u, m) /\ p <= m /\ ~(p > m)
    BY <1>2, <1>4
  <2> HIDE DEF m
  <2> QED BY <1>1, <1>2, <1>3, <1>4, <2>1, After DEF Shows
<1>6. Editor!Erase(cur)
  <2>1. cur \in 1 .. cur /\ cur - 1 = p /\ p + 1 + 1 = cur + 1
    BY <1>1, <1>2
  <2>2. Read(child_text)' = SubSeq(Read(child_text), 1, cur - 1)
                            \o SubSeq(Read(child_text), cur + 1, Len(Read(child_text)))
    BY <1>4, <1>5, <2>1 DEF t
  <2> QED BY <1>5, <2>1, <2>2 DEF Editor!Erase, Editor!Upto, Editor!From
<1> QED BY <1>5, <1>6 DEF Edits, Editor!Next

LEMMA DelStep ==
  ASSUME EditTypeOK, Del
  PROVE  EditTypeOK' /\ Edits /\ Shows
<1> DEFINE n == len
           p == cur
           t == child_text
           u == Memmove(t, p, p + 1, n - p)
<1>1. /\ t \in Arrays /\ EndsAt(t, n) /\ n \in Nat /\ p \in Nat /\ p < n /\ n <= TxtLen - 1
      /\ child_text' = u /\ child_cur' = child_cur /\ Repaint
      /\ Len(Read(t)) = n /\ child_cur \in Nat /\ p = (IF child_cur > n THEN n ELSE child_cur)
  BY StateIs DEF Del
<1> HIDE DEF n, t, p
<1>2. /\ p \in 0 .. n - 1 /\ p \in Cells /\ child_cur' = p
      /\ n - 1 \in Nat /\ p <= n - 1 /\ ~(p > n - 1)
  BY <1>1, CellsAre
<1>4. /\ u \in Arrays /\ EndsAt(u, n - 1)
      /\ Read(u) = SubSeq(Read(t), 1, p) \o SubSeq(Read(t), p + 1 + 1, Len(Read(t)))
  BY <1>1, <1>2, RemovedIs
<1> HIDE DEF u
<1>5. EditTypeOK' /\ cur' = p /\ Read(child_text)' = Read(u) /\ Shows
  <2> DEFINE m == n - 1
  <2>1. EndsAt(u, m) /\ p <= m /\ ~(p > m)
    BY <1>2, <1>4
  <2> HIDE DEF m
  <2> QED BY <1>1, <1>2, <1>4, <2>1, After DEF Shows
<1>6. Editor!Cut
  BY <1>1, <1>4, <1>5 DEF Editor!Cut, Editor!Upto, Editor!From, t, p, n
<1> QED BY <1>5, <1>6 DEF Edits, Editor!Next

LEMMA AsideStep ==
  ASSUME EditTypeOK, Left \/ Right \/ Home \/ End
  PROVE  EditTypeOK' /\ Edits /\ Shows
<1>1. cur \in Nat /\ len \in Nat /\ cur <= len /\ Len(Read(child_text)) = len
  BY StateIs
<1>2. CASE Left
  <2> DEFINE p == IF cur > 0 THEN cur - 1 ELSE 0
  <2>1. p \in 0 .. len /\ ((cur > 0 /\ p = cur - 1) \/ p = 0)
    BY <1>1
  <2>2. MoveTo(p)
    BY <1>2 DEF Left
  <2> HIDE DEF p
  <2>3. EditTypeOK' /\ Editor!Go(p) /\ Shows
    BY <2>1, <2>2, Moves
  <2> QED BY <2>1, <2>3 DEF Edits, Editor!Next
<1>3. CASE Right
  <2> DEFINE p == IF cur < len THEN cur + 1 ELSE len
  <2>1. p \in 0 .. len /\ ((cur < len /\ p = cur + 1) \/ p = len)
    BY <1>1
  <2>2. MoveTo(p)
    BY <1>3 DEF Right
  <2> HIDE DEF p
  <2>3. EditTypeOK' /\ Editor!Go(p) /\ Shows
    BY <2>1, <2>2, Moves
  <2> QED BY <1>1, <2>1, <2>3 DEF Edits, Editor!Next
<1>4. CASE Home
  <2>1. 0 \in 0 .. len /\ MoveTo(0)
    BY <1>1, <1>4 DEF Home
  <2>2. EditTypeOK' /\ Editor!Go(0) /\ Shows
    BY <2>1, Moves
  <2> QED BY <2>2 DEF Edits, Editor!Next
<1>5. CASE End
  <2> DEFINE p == len
  <2>1. p \in 0 .. len /\ MoveTo(p) /\ p = Len(Read(child_text))
    BY <1>1, <1>5 DEF End
  <2> HIDE DEF p
  <2>2. EditTypeOK' /\ Editor!Go(p) /\ Shows
    BY <2>1, Moves
  <2> QED BY <2>1, <2>2 DEF Edits, Editor!Next
<1> QED BY <1>2, <1>3, <1>4, <1>5

(* The row above: the same column of it, or its end.                       *)
LEMMA UpStep ==
  ASSUME EditTypeOK, Up
  PROVE  EditTypeOK' /\ Edits /\ Shows
<1> DEFINE s == Read(child_text)
           e == LineStart(cur)
           b == LineStart(e - 1)
           p == IF b + cur - e > e - 1 THEN e - 1 ELSE b + cur - e
<1>1. cur \in Nat /\ len \in Nat /\ cur <= len /\ Len(s) = len /\ cur \in 0 .. len
  BY StateIs
<1>2. e # 0 /\ MoveTo(p)
  BY DEF Up
<1>3. e \in Nat /\ e \in 1 .. cur /\ s[e] = NL /\ \A i \in e + 1 .. cur : s[i] # NL
  <2>1. Starts(s, cur, e)
    BY <1>1, LineStartIs
  <2> HIDE DEF e, s
  <2> QED BY <1>1, <1>2, <2>1 DEF Starts
<1>4. Editor!RowStart(cur) = e /\ Editor!Col(cur) = cur - e
  <2>1. Starts(s, cur, e)
    BY <1>1, LineStartIs
  <2> HIDE DEF e
  <2> QED BY <1>1, <2>1, EditorStart
<1> HIDE DEF e
<1>5. Starts(s, e - 1, b)
  <2> DEFINE d == e - 1
  <2>1. d \in 0 .. len
    BY <1>1, <1>3
  <2> HIDE DEF d
  <2>2. Starts(s, d, LineStart(d))
    BY <2>1, LineStartIs
  <2> QED BY <2>2 DEF d
<1>6. b \in 0 .. e - 1 /\ (b = 0 \/ s[b] = NL) /\ \A i \in b + 1 .. e - 1 : s[i] # NL
  BY <1>5 DEF Starts
<1> HIDE DEF b
<1>7. /\ p \in Nat /\ b <= p /\ p <= e - 1 /\ p \in 0 .. len
      /\ p - b <= cur - e /\ (p - b = cur - e \/ p = e - 1)
  BY <1>1, <1>3, <1>6
<1> HIDE DEF p, s
<1>8. Editor!Col(p) = p - b
  <2>1. Starts(s, p, b)
    BY <1>3, <1>6, <1>7 DEF Starts
  <2> QED BY <1>7, <2>1, EditorStart DEF s
<1>9. Editor!Row(p) = Editor!Row(cur) - 1
  <2>1. \A i \in p + 1 .. cur : i # e => s[i] # NL
    BY <1>1, <1>3, <1>6, <1>7
  <2>2. p \in 0 .. cur /\ e \in p + 1 .. cur
    BY <1>1, <1>3, <1>7
  <2>3. Cardinality(Nls(s, cur)) = Cardinality(Nls(s, p)) + 1
    BY <1>1, <1>3, <2>1, <2>2, RowNext
  <2>4. Cardinality(Nls(s, p)) \in Nat
    BY <1>7, NlsAre
  <2> QED BY <2>3, <2>4, EditorRow DEF s
<1>10. Editor!Col(p) = Editor!Col(cur) \/ (Editor!Col(p) < Editor!Col(cur) /\ Editor!AtRowEnd(p))
  <2>1. CASE p = e - 1
    <3>1. p + 1 = e /\ s[p + 1] = NL
      BY <1>3, <2>1
    <3>2. Editor!AtRowEnd(p)
      BY <3>1 DEF Editor!AtRowEnd, s
    <3> QED BY <1>1, <1>3, <1>4, <1>6, <1>7, <1>8, <3>2
  <2>2. CASE p # e - 1
    BY <1>4, <1>7, <1>8, <2>2
  <2> QED BY <2>1, <2>2
<1>11. EditTypeOK' /\ Editor!Go(p) /\ Shows
  BY <1>2, <1>7, Moves
<1>12. p \in Editor!Spots
  BY <1>1, <1>7 DEF Editor!Spots, s
<1>13. Editor!Up
  BY <1>9, <1>10, <1>11, <1>12 DEF Editor!Up
<1> QED BY <1>11, <1>13 DEF Edits, Editor!Next

(* A row below: the same column of the next row, if it is that long.       *)
LEMMA DownStep ==
  ASSUME EditTypeOK, Down
  PROVE  EditTypeOK' /\ Edits /\ Shows
<1> DEFINE s == Read(child_text)
           b == LineStart(cur)
<1>1. /\ cur \in Nat /\ len \in Nat /\ cur <= len /\ Len(s) = len /\ cur \in 0 .. len
      /\ \A k \in 1 .. len : s[k] = child_text[k - 1]
  BY StateIs
<1>2. PICK endline \in cur .. len - 1 :
        /\ child_text[endline] = NL /\ \A k \in cur .. endline - 1 : child_text[k] # NL
        /\ LET newpos == endline + 1 + cur - LineStart(cur)
           IN  MoveTo(IF newpos > len THEN len ELSE newpos)
  BY DEF Down
<1> DEFINE e == endline + 1
           new == e + cur - b
           p == IF new > len THEN len ELSE new
<1>3. MoveTo(p)
  BY <1>2
<1>4. e \in Nat /\ e \in cur + 1 .. len /\ s[e] = NL /\ \A i \in cur + 1 .. e - 1 : s[i] # NL
  <2>1. endline \in Nat /\ cur <= endline /\ endline <= len - 1
    BY <1>1
  <2>2. s[e] = NL
    BY <1>1, <1>2, <2>1
  <2>3. ASSUME NEW i \in cur + 1 .. e - 1 PROVE s[i] # NL
    <3>1. i - 1 \in cur .. endline - 1 /\ i \in 1 .. len
      BY <1>1, <2>1
    <3> QED BY <1>1, <1>2, <3>1
  <2> QED BY <1>1, <2>1, <2>2, <2>3
<1> HIDE DEF e
<1>5. Starts(s, cur, b)
  BY <1>1, LineStartIs
<1>6. b \in 0 .. cur
  BY <1>5 DEF Starts
<1> HIDE DEF b, s
<1>7. Editor!Col(cur) = cur - b
  BY <1>1, <1>5, EditorStart DEF s
<1>8. new \in Nat /\ e <= new /\ p \in 0 .. len /\ e <= p /\ p \in Nat
  BY <1>1, <1>4, <1>6
<1>9. Editor!Row(p) > Editor!Row(cur)
  <2>1. cur \in 0 .. p /\ e \in cur + 1 .. p
    BY <1>1, <1>4, <1>8
  <2> HIDE DEF p
  <2>2. Cardinality(Nls(s, cur)) < Cardinality(Nls(s, p))
    BY <1>4, <1>8, <2>1, RowGrows
  <2>3. Cardinality(Nls(s, cur)) \in Nat /\ Cardinality(Nls(s, p)) \in Nat
    BY <1>1, <1>8, NlsAre
  <2> QED BY <2>2, <2>3, EditorRow DEF s
<1>10. ASSUME NEW q \in Editor!Spots, Editor!Row(q) = Editor!Row(cur) + 1, Editor!Col(q) = Editor!Col(cur)
       PROVE  p = q
  <2>1. q \in Nat /\ q <= len
    BY <1>1 DEF Editor!Spots, s
  <2> DEFINE R(i) == Cardinality(Nls(s, i))
  <2>2. R(q) = R(cur) + 1
    BY <1>10, EditorRow DEF s
  <2>3. R(q) \in Nat /\ R(cur) \in Nat /\ R(e) \in Nat
    BY <1>1, <1>4, <2>1, NlsAre
  <2>4. e <= q
    <3>1. CASE q <= cur
      <4>1. q \in 0 .. cur
        BY <1>1, <2>1, <3>1
      <4>2. R(q) <= R(cur)
        BY <1>1, <4>1, RowGrows
      <4> QED BY <2>2, <2>3, <4>2
    <3>2. CASE cur < q /\ q < e
      <4>1. cur \in 0 .. q /\ \A i \in cur + 1 .. q : i \in cur + 1 .. e - 1
        BY <1>1, <1>4, <2>1, <3>2
      <4>2. \A i \in cur + 1 .. q : s[i] # NL
        BY <1>4, <4>1
      <4>3. Nls(s, q) = Nls(s, cur)
        BY <2>1, <4>1, <4>2, RowSame
      <4>4. R(q) = R(cur)
        BY <4>3
      <4> HIDE DEF R
      <4> QED BY <2>2, <2>3, <4>4
    <3> QED BY <1>1, <1>4, <2>1, <3>1, <3>2
  <2>5. R(e) = R(cur) + 1
    <3>1. cur \in 0 .. e /\ \A i \in cur + 1 .. e : i # e => i \in cur + 1 .. e - 1
      BY <1>1, <1>4
    <3>2. e \in cur + 1 .. e
      BY <1>4
    <3> QED BY <1>4, <3>1, <3>2, RowNext
  <2>6. \A i \in e + 1 .. q : s[i] # NL
    <3>1. e \in 0 .. q
      BY <1>4, <2>1, <2>4
    <3>2. \A m \in e + 1 .. q : s[m] = NL => R(e) < R(q)
      BY <2>1, <3>1, RowGrows
    <3> QED BY <2>2, <2>3, <2>5, <3>2
  <2>7. Starts(s, q, e)
    BY <1>4, <2>1, <2>4, <2>6 DEF Starts
  <2>8. Editor!Col(q) = q - e
    BY <2>1, <2>7, EditorStart DEF s
  <2>9. q = new
    BY <1>1, <1>4, <1>6, <1>7, <1>10, <2>1, <2>8
  <2>10. ~(new > len) /\ p = new
    BY <1>1, <1>8, <2>1, <2>9
  <2> QED BY <2>9, <2>10
<1> HIDE DEF p
<1>11. EditTypeOK' /\ Editor!Go(p) /\ Shows
  BY <1>3, <1>8, Moves
<1>12. p \in Editor!Spots
  BY <1>1, <1>8 DEF Editor!Spots, s
<1>13. Editor!Down
  BY <1>9, <1>10, <1>11, <1>12 DEF Editor!Down
<1> QED BY <1>11, <1>13 DEF Edits, Editor!Next

-----------------------------------------------------------------------------
LEMMA EditStarts == EditInit => EditTypeOK /\ Editor!Init
<1> SUFFICES ASSUME EditInit PROVE EditTypeOK /\ Editor!Init
  OBVIOUS
<1>1. child_text = [k \in Cells |-> NUL] /\ child_cur = 0 /\ 0 \in Cells
  BY CellsAre DEF EditInit
<1>2. EditTypeOK
  BY <1>1 DEF EditTypeOK
<1>3. EndsAt(child_text, 0)
  BY <1>1 DEF EndsAt
<1>4. len = 0
  BY <1>3, EndIs DEF len
<1>5. cur = 0 /\ Read(child_text) \in Seq(Sym) /\ Len(Read(child_text)) = 0
  BY <1>1, <1>2, <1>4, StateIs
<1>6. Read(child_text) = << >>
  BY <1>5
<1> QED BY <1>2, <1>5, <1>6 DEF Editor!Init

LEMMA EditSteps ==
  ASSUME EditTypeOK, [EditNext]_evars
  PROVE  /\ EditTypeOK' /\ Edits
         /\ Keydown \/ (\E c \in Chars \cup {NL} : Insert(c)) => Shows
<1>1. ASSUME NEW s \in Given, SetText(s) \/ SetWindowText(s) PROVE EditTypeOK' /\ Edits
  BY <1>1, SetTextStep
<1>2. ASSUME NEW c \in Chars \cup {NL}, Insert(c) PROVE EditTypeOK' /\ Edits /\ Shows
  BY <1>2, InsertStep
<1>3. CASE Keydown
  BY <1>3, AsideStep, DelStep, UpStep, DownStep, BackspaceStep DEF Keydown
<1>4. CASE UNCHANGED evars
  <2>1. child_text' = child_text /\ child_cur' = child_cur
    BY <1>4 DEF evars
  <2>2. EditTypeOK'
    BY <2>1 DEF EditTypeOK
  <2>3. Edits
    BY <2>1 DEF Edits, cur, Clipped
  <2> QED BY <1>2, <1>3, <2>2, <2>3
<1>5. CASE EditNext
  BY <1>1, <1>2, <1>3, <1>5 DEF EditNext
<1>6. EditTypeOK' /\ Edits
  BY <1>4, <1>5, <1>1, <1>2, <1>3 DEF EditNext
<1> QED BY <1>2, <1>3, <1>6

(* The edit control (child_insert, child_paint, the keys of a child window *)
(* in user32.c): for every size of the array and every text the program    *)
(* sets, the array keeps its NUL and the caret stays in it; text and caret *)
(* are the line editor of LineEditor, step by step; and every key shows    *)
(* on the screen what it did.                                              *)
THEOREM EditIsEditor == EditSpec => EditKept
<1>1. EditInit => EditTypeOK /\ Editor!Init
  BY EditStarts
<1>2. EditTypeOK /\ [EditNext]_evars => EditTypeOK' /\ [Editor!Next]_<< Read(child_text), cur >>
  BY EditSteps DEF Edits
<1>3. EditTypeOK /\ [EditNext]_evars =>
        [Keydown \/ (\E c \in Chars \cup {NL} : Insert(c))
           => shown' = [text |-> Read(child_text'), caret |-> cur']]_evars
  BY EditSteps DEF Shows
<1> QED BY <1>1, <1>2, <1>3, PTL DEF EditSpec, EditKept, IsEditor, KeysAreShown, Editor!Spec

-----------------------------------------------------------------------------
(* DIALOGS                                                                 *)

Ctls    == [cls : STRING, default : BOOLEAN, text : 0 .. TxtMax, pressed : BOOLEAN, seen : BOOLEAN]
Faces   == [pressed : BOOLEAN, seen : BOOLEAN]
Phases  == {"init", "loop", "click", "key"}
Frames  == [phase : Phases, own : Results \cup {0}, ended : BOOLEAN, alone : BOOLEAN]

DialogTypes ==
  /\ dlg_ctls \in Seq(Ctls) /\ Len(dlg_ctls) <= MaxCtl /\ dlg_focus \in 0 .. MaxCtl
  /\ box \in Seq(Faces) /\ Len(box) <= 2
  /\ stack \in Seq(Frames) /\ Len(stack) <= MaxDepth
  /\ dlg_done \in BOOLEAN /\ whole = TRUE

(* A button that is pressed was drawn before.                              *)
PressedSeen(bs) == \A b \in DOMAIN bs : bs[b].pressed => bs[b].seen
(* The dialogs under another one have opened it; as long as the innermost  *)
(* one has opened none, its procedure is called, and it alone has set the  *)
(* library's result and end.                                               *)
Covering == \A d \in 1 .. Depth - 1 : ~stack[d].alone
OwnEnd ==
  Depth > 0 /\ Now.alone =>
    dlg_proc = Depth /\ dlg_done = Now.ended /\ (dlg_done => dlg_result = Now.own)

DialogInv == /\ DialogTypes /\ PressedSeen(dlg_ctls) /\ PressedSeen(box)
             /\ Covering /\ OwnEnd /\ ReturnsItsResult

-----------------------------------------------------------------------------
LEMMA Depths ==
  ASSUME DialogTypes
  PROVE  /\ Depth \in Nat /\ MaxDepth \in Nat /\ MaxCtl \in Nat /\ TxtMax \in Nat
         /\ Depth > 0 => Now \in Frames
<1>1. stack \in Seq(Frames)
  BY DEF DialogTypes
<1>2. Depth \in Nat
  BY <1>1 DEF Depth
<1>3. Depth > 0 => Now \in Frames
  BY <1>1, <1>2 DEF Now, Depth
<1> QED BY <1>2, <1>3, DialogAssumption

(* The innermost dialog changes, and no other one.                         *)
LEMMA WithIs ==
  ASSUME DialogTypes, Depth > 0, NEW fr \in Frames
  PROVE  /\ With(fr) \in Seq(Frames) /\ Len(With(fr)) = Depth /\ With(fr)[Depth] = fr
         /\ \A d \in 1 .. Depth - 1 : With(fr)[d] = stack[d]
<1>1. stack \in Seq(Frames) /\ Depth = Len(stack) /\ Depth \in Nat
  BY Depths DEF DialogTypes, Depth
<1>2. With(fr) = [stack EXCEPT ![Len(stack)] = fr]
  BY <1>1 DEF With
<1>3. With(fr) \in Seq(Frames) /\ Len(With(fr)) = Len(stack)
      /\ \A d \in 1 .. Len(stack) : With(fr)[d] = IF d = Len(stack) THEN fr ELSE stack[d]
  BY <1>1, <1>2
<1> QED BY <1>1, <1>3

(* The rest of the library stays.                                          *)
LEMMA FrameKept ==
  ASSUME DialogInv, Depth > 0, NEW fr \in Frames, stack' = With(fr),
         dlg_proc' = dlg_proc, dlg_done' = dlg_done, dlg_result' = dlg_result,
         fr.alone => Now.alone /\ fr.own = Now.own /\ fr.ended = Now.ended
  PROVE  stack' \in Seq(Frames) /\ Len(stack') <= MaxDepth /\ Covering' /\ OwnEnd'
<1>1. DialogTypes /\ Depth \in Nat
  BY Depths DEF DialogInv
<1>2. /\ stack' \in Seq(Frames) /\ Len(stack') = Depth /\ stack'[Depth] = fr
      /\ \A d \in 1 .. Depth - 1 : stack'[d] = stack[d]
  BY <1>1, WithIs
<1>3. Len(stack') <= MaxDepth
  BY <1>1, <1>2 DEF DialogTypes, Depth
<1>4. Depth' = Depth /\ Now' = fr
  BY <1>2 DEF Depth, Now
<1>5. Covering'
  BY <1>2, <1>4 DEF DialogInv, Covering
<1>6. OwnEnd'
  BY <1>4 DEF DialogInv, OwnEnd
<1> QED BY <1>2, <1>3, <1>5, <1>6

-----------------------------------------------------------------------------
(* OPENING A DIALOG                                                        *)

LEMMA FirstEditIs ==
  ASSUME NEW cs \in Seq(Ctls), Len(cs) <= MaxCtl
  PROVE  FirstEdit(cs) \in 0 .. MaxCtl
<1> DEFINE S == {i \in DOMAIN cs : cs[i].cls = "edit"}
<1>1. DOMAIN cs = 1 .. Len(cs) /\ Len(cs) \in Nat /\ MaxCtl \in Nat
  BY DialogAssumption
<1>2. S \subseteq Nat /\ \A i \in S : i \in 0 .. MaxCtl
  BY <1>1
<1>3. FirstEdit(cs) = IF S = {} THEN 0 ELSE CHOOSE i \in S : \A k \in S : i <= k
  BY DEF FirstEdit
<1> HIDE DEF S
<1>4. CASE S = {}
  BY <1>1, <1>3, <1>4
<1>5. CASE S # {}
  <2>1. \E i \in S : \A k \in S : i <= k
    BY <1>2, <1>5, Least
  <2>2. (CHOOSE i \in S : \A k \in S : i <= k) \in S
    BY <2>1
  <2> QED BY <1>2, <1>3, <1>5, <2>2
<1> QED BY <1>4, <1>5

LEMMA BuiltIs ==
  ASSUME NEW tpl \in Templates
  PROVE  Built(tpl) \in Seq(Ctls) /\ Len(Built(tpl)) <= MaxCtl /\ PressedSeen(Built(tpl))
<1>1. tpl \in Seq([cls : STRING, default : BOOLEAN]) /\ MaxCtl \in Nat /\ TxtMax \in Nat
  BY DialogAssumption
<1> DEFINE n == IF Len(tpl) < MaxCtl THEN Len(tpl) ELSE MaxCtl
<1>2. n \in Nat /\ n <= MaxCtl /\ n <= Len(tpl)
  BY <1>1
<1>3. ASSUME NEW i \in 1 .. n
      PROVE  Control(tpl[i]) \in Ctls /\ ~Control(tpl[i]).pressed
  <2>1. tpl[i] \in [cls : STRING, default : BOOLEAN]
    <3> DEFINE R == [cls : STRING, default : BOOLEAN]
    <3>1. tpl \in Seq(R) /\ i \in 1 .. Len(tpl)
      BY <1>1, <1>2
    <3> HIDE DEF R
    <3>2. tpl[i] \in R
      BY <3>1
    <3> QED BY <3>2 DEF R
  <2> DEFINE c == tpl[i]
             x == Control(c)
  <2>2. 0 \in 0 .. TxtMax
    BY <1>1
  <2>3. c.cls \in STRING /\ c.default \in BOOLEAN
    BY <2>1
  <2>4. x = [cls |-> c.cls, default |-> c.default, text |-> 0, pressed |-> FALSE, seen |-> FALSE]
    BY DEF Control
  <2> HIDE DEF c, x
  <2>5. x \in Ctls /\ ~x.pressed
    BY <2>2, <2>3, <2>4 DEF Ctls
  <2> QED BY <2>5 DEF x, c
<1>4. Built(tpl) = [i \in 1 .. n |-> Control(tpl[i])]
  BY DEF Built
<1> HIDE DEF n
<1>5. Built(tpl) \in [1 .. n -> Ctls]
  BY <1>3, <1>4
<1>6. Built(tpl) \in Seq(Ctls) /\ Len(Built(tpl)) = n
  BY <1>2, <1>5
<1> QED BY <1>2, <1>3, <1>4, <1>6 DEF PressedSeen

(* A dialog over those of below, each of which has opened another.         *)
LEMMA OpenHolds ==
  ASSUME DialogInv, NEW tpl \in Templates, NEW below \in Seq(Frames), Len(below) < MaxDepth,
         \A d \in 1 .. Len(below) : ~below[d].alone,
         Open(tpl, below), UNCHANGED << box, returned, whole >>
  PROVE  DialogInv'
<1>1. /\ dlg_ctls' = Built(tpl) /\ dlg_focus' = FirstEdit(Built(tpl))
      /\ dlg_proc' = Len(below) + 1 /\ dlg_result' = 0 /\ dlg_done' = FALSE
      /\ stack' = Append(below, Frame) /\ box' = box /\ returned' = returned /\ whole' = whole
  BY DEF Open
<1>2. /\ Built(tpl) \in Seq(Ctls) /\ Len(Built(tpl)) <= MaxCtl /\ PressedSeen(Built(tpl))
      /\ FirstEdit(Built(tpl)) \in 0 .. MaxCtl
  BY BuiltIs, FirstEditIs
<1>3. Frame \in Frames /\ Frame.alone /\ Frame.ended = FALSE /\ Len(below) \in Nat /\ MaxDepth \in Nat
  BY DialogAssumption DEF Frame, Frames, Phases
<1>4. /\ stack' \in Seq(Frames) /\ Len(stack') = Len(below) + 1 /\ stack'[Len(below) + 1] = Frame
      /\ \A d \in 1 .. Len(below) : stack'[d] = below[d]
  <2> DEFINE fr == Frame
  <2>1. fr \in Frames
    BY <1>3
  <2> HIDE DEF fr
  <2>2. /\ Append(below, fr) \in Seq(Frames) /\ Len(Append(below, fr)) = Len(below) + 1
        /\ Append(below, fr)[Len(below) + 1] = fr
        /\ \A d \in 1 .. Len(below) : Append(below, fr)[d] = below[d]
    BY <2>1
  <2> QED BY <1>1, <2>2 DEF fr
<1>5. Depth' = Len(below) + 1 /\ Now' = Frame
  BY <1>4 DEF Depth, Now
<1>6. Covering'
  BY <1>3, <1>4, <1>5 DEF Covering
<1>7. OwnEnd'
  BY <1>1, <1>3, <1>5 DEF OwnEnd
<1>8. DialogTypes'
  <2>1. Len(stack') <= MaxDepth
    BY <1>3, <1>4
  <2> QED BY <1>1, <1>2, <1>4, <2>1 DEF DialogInv, DialogTypes
<1>9. PressedSeen(dlg_ctls)' /\ PressedSeen(box)'
  BY <1>1, <1>2 DEF DialogInv, PressedSeen
<1>10. ReturnsItsResult'
  BY <1>1 DEF DialogInv, ReturnsItsResult
<1> QED BY <1>6, <1>7, <1>8, <1>9, <1>10 DEF DialogInv

LEMMA OpenFirstHolds ==
  ASSUME DialogInv, NEW tpl \in Templates, OpenFirst(tpl)
  PROVE  DialogInv'
<1> DEFINE below == << >>
<1>1. Open(tpl, below) /\ UNCHANGED << box, returned, whole >>
  BY DEF OpenFirst
<1>2. below \in Seq(Frames) /\ Len(below) = 0 /\ 0 < MaxDepth
  BY DialogAssumption
<1> HIDE DEF below
<1>3. Len(below) < MaxDepth /\ \A d \in 1 .. Len(below) : ~below[d].alone
  BY <1>2
<1> QED BY <1>1, <1>2, <1>3, OpenHolds

LEMMA OpenInsideHolds ==
  ASSUME DialogInv, NEW tpl \in Templates, OpenInside(tpl)
  PROVE  DialogInv'
<1> DEFINE fr == [Now EXCEPT !.alone = FALSE]
<1>1. /\ DialogTypes /\ Depth > 0 /\ Depth < MaxDepth /\ Depth \in Nat /\ Now \in Frames
      /\ Open(tpl, With(fr)) /\ UNCHANGED << box, returned, whole >>
  BY Depths DEF DialogInv, OpenInside, InProc
<1>2. fr \in Frames /\ ~fr.alone
  BY <1>1 DEF Frames
<1> HIDE DEF fr
<1>3. /\ With(fr) \in Seq(Frames) /\ Len(With(fr)) = Depth /\ With(fr)[Depth] = fr
      /\ \A d \in 1 .. Depth - 1 : With(fr)[d] = stack[d]
  BY <1>1, <1>2, WithIs
<1>4. \A d \in 1 .. Depth : d = Depth \/ d \in 1 .. Depth - 1
  BY <1>1
<1>5. \A d \in 1 .. Len(With(fr)) : ~With(fr)[d].alone
  BY <1>2, <1>3, <1>4 DEF DialogInv, Covering
<1> QED BY <1>1, <1>3, <1>5, OpenHolds

-----------------------------------------------------------------------------
(* WHAT A PROCEDURE DOES                                                   *)

LEMMA EndDialogHolds ==
  ASSUME DialogInv, NEW r \in Results, EndDialog(r)
  PROVE  DialogInv'
<1> DEFINE fr == [Now EXCEPT !.own = r, !.ended = TRUE]
<1>1. /\ DialogTypes /\ Depth > 0 /\ Depth \in Nat /\ Now \in Frames
      /\ dlg_result' = r /\ dlg_done' = TRUE
      /\ stack' = IF dlg_proc = Depth THEN With(fr) ELSE stack
      /\ UNCHANGED << dlg_ctls, dlg_proc, dlg_focus, box, returned, whole >>
  BY Depths DEF DialogInv, EndDialog, InProc
<1>2. fr \in Frames /\ fr.own = r /\ fr.ended = TRUE
  BY <1>1 DEF Frames
<1> HIDE DEF fr
<1>3. stack' \in Seq(Frames) /\ Len(stack') <= MaxDepth /\ Covering' /\ OwnEnd'
  <2>1. CASE dlg_proc = Depth
    <3>1. /\ stack' \in Seq(Frames) /\ Len(stack') = Depth /\ stack'[Depth] = fr
          /\ \A d \in 1 .. Depth - 1 : stack'[d] = stack[d]
      BY <1>1, <1>2, <2>1, WithIs
    <3>2. Depth' = Depth /\ Now' = fr
      BY <3>1 DEF Depth, Now
    <3>3. Len(stack') <= MaxDepth
      BY <1>1, <3>1 DEF DialogTypes, Depth
    <3>4. Covering'
      BY <3>1, <3>2 DEF DialogInv, Covering
    <3>5. OwnEnd'
      BY <1>1, <1>2, <2>1, <3>2 DEF OwnEnd
    <3> QED BY <3>1, <3>3, <3>4, <3>5
  <2>2. CASE dlg_proc # Depth
    <3>1. stack' = stack /\ Depth' = Depth /\ Now' = Now
      BY <1>1, <2>2 DEF Depth, Now
    <3>2. ~Now.alone
      BY <1>1, <2>2 DEF DialogInv, OwnEnd
    <3>3. OwnEnd'
      BY <3>1, <3>2 DEF OwnEnd
    <3> QED BY <3>1, <3>3 DEF DialogInv, DialogTypes, Covering
  <2> QED BY <2>1, <2>2
<1>4. DialogTypes'
  BY <1>1, <1>3 DEF DialogTypes
<1>5. PressedSeen(dlg_ctls)' /\ PressedSeen(box)' /\ ReturnsItsResult'
  BY <1>1 DEF DialogInv, PressedSeen, ReturnsItsResult
<1> QED BY <1>3, <1>4, <1>5 DEF DialogInv

(* What leaves the dialogs and the library's result alone.                 *)
LEMMA RestHolds ==
  ASSUME DialogInv, UNCHANGED << stack, dlg_proc, dlg_result, dlg_done, dlg_focus, returned >>,
         dlg_ctls' \in Seq(Ctls), Len(dlg_ctls') <= MaxCtl, PressedSeen(dlg_ctls'),
         box' \in Seq(Faces), Len(box') <= 2, PressedSeen(box'), whole' = TRUE
  PROVE  DialogInv'
<1>1. DialogTypes'
  BY DEF DialogInv, DialogTypes
<1>2. Depth' = Depth /\ Now' = Now
  BY DEF Depth, Now
<1>3. Covering' /\ OwnEnd' /\ ReturnsItsResult'
  BY <1>2 DEF DialogInv, Covering, OwnEnd, ReturnsItsResult
<1>4. PressedSeen(dlg_ctls)' /\ PressedSeen(box)'
  BY DEF PressedSeen
<1> QED BY <1>1, <1>3, <1>4 DEF DialogInv

(* A control with another text.                                            *)
LEMMA TextIs ==
  ASSUME DialogInv, NEW i \in DOMAIN dlg_ctls, NEW n \in 0 .. TxtMax
  PROVE  LET cs == [dlg_ctls EXCEPT ![i].text = n]
         IN  cs \in Seq(Ctls) /\ Len(cs) = Len(dlg_ctls) /\ PressedSeen(cs)
<1>1. dlg_ctls \in Seq(Ctls) /\ PressedSeen(dlg_ctls) /\ DOMAIN dlg_ctls = 1 .. Len(dlg_ctls)
  BY DEF DialogInv, DialogTypes
<1> DEFINE c == dlg_ctls[i]
           x == [c EXCEPT !.text = n]
<1>2. c \in Ctls
  BY <1>1
<1>3. x \in Ctls /\ x.pressed = c.pressed /\ x.seen = c.seen
  <2> HIDE DEF c
  <2> QED BY <1>2 DEF Ctls
<1>4. [dlg_ctls EXCEPT ![i].text = n] = [dlg_ctls EXCEPT ![i] = x]
  OBVIOUS
<1>5. c.pressed => c.seen
  BY <1>1 DEF PressedSeen
<1> DEFINE cs == [dlg_ctls EXCEPT ![i] = x]
<1> HIDE DEF x
<1>6. cs \in Seq(Ctls) /\ Len(cs) = Len(dlg_ctls) /\ DOMAIN cs = DOMAIN dlg_ctls
      /\ \A b \in DOMAIN cs : cs[b] = IF b = i THEN x ELSE dlg_ctls[b]
  BY <1>1, <1>3
<1> HIDE DEF cs, c
<1>7. PressedSeen(cs)
  BY <1>1, <1>3, <1>5, <1>6 DEF PressedSeen
<1> QED BY <1>4, <1>6, <1>7 DEF cs

LEMMA SetItemTextHolds ==
  ASSUME DialogInv, NEW i, NEW n \in {0, TxtMax + 1}, SetItemText(i, n)
  PROVE  DialogInv'
<1> DEFINE m == IF n > TxtMax THEN TxtMax ELSE n
<1>1. /\ DialogTypes /\ i \in DOMAIN dlg_ctls /\ TxtMax \in Nat
      /\ dlg_ctls' = [dlg_ctls EXCEPT ![i].text = m]
      /\ UNCHANGED << dlg_proc, dlg_result, dlg_done, dlg_focus, stack, box, returned, whole >>
  BY Depths DEF DialogInv, SetItemText
<1>2. m \in 0 .. TxtMax
  BY <1>1
<1> HIDE DEF m
<1>3. dlg_ctls' \in Seq(Ctls) /\ Len(dlg_ctls') = Len(dlg_ctls) /\ PressedSeen(dlg_ctls')
  BY <1>1, <1>2, TextIs
<1> QED BY <1>1, <1>3, RestHolds DEF DialogInv, DialogTypes

LEMMA OpenBoxHolds ==
  ASSUME DialogInv, NEW n \in 1 .. 2, OpenBox(n)
  PROVE  DialogInv'
<1> DEFINE face == [pressed |-> FALSE, seen |-> FALSE]
           bs == [b \in 1 .. n |-> face]
<1>1. face \in Faces /\ ~face.pressed
  BY DEF Faces
<1> HIDE DEF face
<1>2. bs \in Seq(Faces) /\ Len(bs) = n /\ \A b \in DOMAIN bs : bs[b] = face
  BY <1>1
<1>3. box' = bs /\ UNCHANGED << dlg_ctls, dlg_proc, dlg_result, dlg_done, dlg_focus, stack,
                               returned, whole >>
  BY DEF OpenBox, face
<1> HIDE DEF bs
<1>4. PressedSeen(box')
  BY <1>1, <1>2, <1>3 DEF PressedSeen
<1>5. box' \in Seq(Faces) /\ Len(box') <= 2
  BY <1>2, <1>3
<1> QED BY <1>3, <1>4, <1>5, RestHolds DEF DialogInv, DialogTypes

-----------------------------------------------------------------------------
(* THE LOOP                                                                *)

(* The innermost dialog goes to another place of its code.                 *)
LEMMA PhaseHolds ==
  ASSUME DialogInv, Depth > 0, NEW ph \in Phases, stack' = With([Now EXCEPT !.phase = ph]),
         UNCHANGED << dlg_proc, dlg_result, dlg_done, dlg_focus, returned >>,
         dlg_ctls' \in Seq(Ctls), Len(dlg_ctls') <= MaxCtl, PressedSeen(dlg_ctls'),
         box' \in Seq(Faces), Len(box') <= 2, PressedSeen(box'), whole' = TRUE
  PROVE  DialogInv'
<1> DEFINE fr == [Now EXCEPT !.phase = ph]
<1>1. Now \in Frames
  BY Depths DEF DialogInv
<1>2. fr \in Frames /\ fr.alone = Now.alone /\ fr.own = Now.own /\ fr.ended = Now.ended
  BY <1>1 DEF Frames
<1> HIDE DEF fr
<1>3. stack' = With(fr)
  BY DEF fr
<1>4. stack' \in Seq(Frames) /\ Len(stack') <= MaxDepth /\ Covering' /\ OwnEnd'
  BY <1>2, <1>3, FrameKept
<1>5. DialogTypes'
  BY <1>4 DEF DialogInv, DialogTypes
<1>6. PressedSeen(dlg_ctls)' /\ PressedSeen(box)' /\ ReturnsItsResult'
  BY DEF PressedSeen, DialogInv, ReturnsItsResult
<1> QED BY <1>4, <1>5, <1>6 DEF DialogInv

(* The innermost dialog closes: those under it have all opened another.    *)
LEMMA CloseHolds ==
  ASSUME DialogInv, Depth > 0, dlg_done, Close,
         UNCHANGED << dlg_proc, dlg_result, dlg_done, dlg_focus >>,
         dlg_ctls' \in Seq(Ctls), Len(dlg_ctls') <= MaxCtl, PressedSeen(dlg_ctls'),
         box' \in Seq(Faces), Len(box') <= 2, PressedSeen(box'), whole' = TRUE
  PROVE  DialogInv'
<1>1. stack \in Seq(Frames) /\ Depth = Len(stack) /\ Depth \in Nat /\ DialogTypes /\ Depth <= MaxDepth
      /\ MaxDepth \in Nat
  BY Depths DEF DialogInv, DialogTypes, Depth
<1>2. /\ stack' = SubSeq(stack, 1, Depth - 1)
      /\ returned' = [result |-> dlg_result, own |-> Now.own, ended |-> Now.ended, alone |-> Now.alone]
  BY DEF Close
<1>3. stack' \in Seq(Frames) /\ Len(stack') = Depth - 1
      /\ \A d \in 1 .. Depth - 1 : stack'[d] = stack[d]
  <2>1. 1 \in 1 .. Len(stack) + 1 /\ Depth - 1 \in 0 .. Len(stack)
    BY <1>1
  <2> QED BY <1>1, <1>2, <2>1
<1>4. Depth' = Depth - 1
  BY <1>3 DEF Depth
<1>5. \A d \in 1 .. Depth' : ~stack'[d].alone
  BY <1>3, <1>4 DEF DialogInv, Covering
<1>6. Covering'
  BY <1>1, <1>4, <1>5 DEF Covering
<1>7. OwnEnd'
  BY <1>1, <1>4, <1>5 DEF OwnEnd, Now
<1>8. ReturnsItsResult'
  BY <1>2 DEF DialogInv, OwnEnd, ReturnsItsResult
<1>9. DialogTypes'
  <2>1. Len(stack') <= MaxDepth
    BY <1>1, <1>3
  <2> QED BY <1>1, <1>3, <2>1 DEF DialogTypes
<1>10. PressedSeen(dlg_ctls)' /\ PressedSeen(box)'
  BY DEF PressedSeen
<1> QED BY <1>6, <1>7, <1>8, <1>9, <1>10 DEF DialogInv

LEMMA LookAtDoneHolds ==
  ASSUME DialogInv, Depth > 0, LookAtDone,
         UNCHANGED << dlg_proc, dlg_result, dlg_done, dlg_focus >>,
         dlg_ctls' \in Seq(Ctls), Len(dlg_ctls') <= MaxCtl, PressedSeen(dlg_ctls'),
         box' \in Seq(Faces), Len(box') <= 2, PressedSeen(box'), whole' = TRUE
  PROVE  DialogInv'
<1>1. CASE dlg_done
  BY <1>1, CloseHolds DEF LookAtDone
<1>2. CASE ~dlg_done
  <2>1. stack' = With([Now EXCEPT !.phase = "loop"]) /\ returned' = returned /\ "loop" \in Phases
    BY <1>2 DEF LookAtDone, Phases
  <2> QED BY <2>1, PhaseHolds
<1> QED BY <1>1, <1>2

(* The mouse goes down, and up, over buttons.                              *)
LEMMA FedIs ==
  ASSUME NEW R \in {Ctls, Faces}, NEW bs \in Seq(R), PressedSeen(bs), NEW p
  PROVE  /\ FedDown(bs, p) \in Seq(R) /\ Len(FedDown(bs, p)) = Len(bs) /\ PressedSeen(FedDown(bs, p))
         /\ FedUp(bs, p) \in Seq(R) /\ Len(FedUp(bs, p)) = Len(bs) /\ PressedSeen(FedUp(bs, p))
         /\ Clicked(bs, p) # {} => bs[p].seen = TRUE
<1> DEFINE n == Len(bs)
<1>1. n \in Nat /\ DOMAIN bs = 1 .. n /\ \A b \in 1 .. n : bs[b] \in R
  OBVIOUS
<1> HIDE DEF n
<1>2. ASSUME NEW x \in R
      PROVE  /\ [x EXCEPT !.pressed = TRUE, !.seen = TRUE] \in R
             /\ [x EXCEPT !.pressed = TRUE, !.seen = TRUE].seen = TRUE
             /\ [x EXCEPT !.pressed = FALSE] \in R
             /\ [x EXCEPT !.pressed = FALSE].pressed = FALSE
             /\ x.seen \in BOOLEAN
  <2>1. CASE R = Ctls
    BY <2>1 DEF Ctls
  <2>2. CASE R = Faces
    BY <2>2 DEF Faces
  <2> QED BY <2>1, <2>2
<1>3. FedDown(bs, p) \in Seq(R) /\ Len(FedDown(bs, p)) = Len(bs) /\ PressedSeen(FedDown(bs, p))
  <2> DEFINE f == FedDown(bs, p)
  <2>1. f = [b \in 1 .. n |-> IF b = p THEN [bs[b] EXCEPT !.pressed = TRUE, !.seen = TRUE] ELSE bs[b]]
    BY <1>1 DEF FedDown
  <2> HIDE DEF f
  <2>2. \A b \in 1 .. n : f[b] \in R /\ (f[b].pressed => f[b].seen)
    <3> SUFFICES ASSUME NEW b \in 1 .. n PROVE f[b] \in R /\ (f[b].pressed => f[b].seen)
      OBVIOUS
    <3> DEFINE x == bs[b]
               y == [x EXCEPT !.pressed = TRUE, !.seen = TRUE]
    <3>3. x \in R /\ (f[b] = IF b = p THEN y ELSE x) /\ (x.pressed => x.seen)
      BY <1>1, <2>1 DEF PressedSeen
    <3> HIDE DEF x
    <3>4. y \in R /\ y.seen = TRUE
      BY <1>2, <3>3
    <3> HIDE DEF y
    <3>1. CASE b = p
      BY <3>1, <3>3, <3>4
    <3>2. CASE b # p
      BY <3>2, <3>3
    <3> QED BY <3>1, <3>2
  <2>3. f \in [1 .. n -> R]
    BY <2>1, <2>2
  <2>4. f \in Seq(R) /\ Len(f) = n /\ DOMAIN f = 1 .. n
    BY <1>1, <2>3
  <2>5. PressedSeen(f)
    BY <2>2, <2>4 DEF PressedSeen
  <2>6. Len(f) = Len(bs)
    BY <2>4 DEF n
  <2> QED BY <2>4, <2>5, <2>6 DEF f
<1>4. FedUp(bs, p) \in Seq(R) /\ Len(FedUp(bs, p)) = Len(bs) /\ PressedSeen(FedUp(bs, p))
  <2> DEFINE f == FedUp(bs, p)
             ups(b) == Clicked(bs, p) = {} \/ b <= p
  <2>1. f = [b \in 1 .. n |-> IF ups(b) THEN [bs[b] EXCEPT !.pressed = FALSE] ELSE bs[b]]
    BY <1>1 DEF FedUp
  <2> HIDE DEF f, ups
  <2>2. \A b \in 1 .. n : f[b] \in R /\ (f[b].pressed => f[b].seen)
    <3> SUFFICES ASSUME NEW b \in 1 .. n PROVE f[b] \in R /\ (f[b].pressed => f[b].seen)
      OBVIOUS
    <3> DEFINE x == bs[b]
               y == [x EXCEPT !.pressed = FALSE]
    <3>3. x \in R /\ (f[b] = IF ups(b) THEN y ELSE x) /\ (x.pressed => x.seen)
      BY <1>1, <2>1 DEF PressedSeen
    <3> HIDE DEF x
    <3>4. y \in R /\ y.pressed = FALSE
      BY <1>2, <3>3
    <3> HIDE DEF y
    <3>1. CASE ups(b)
      BY <3>1, <3>3, <3>4
    <3>2. CASE ~ups(b)
      BY <3>2, <3>3
    <3> QED BY <3>1, <3>2
  <2>3. f \in [1 .. n -> R]
    BY <2>1, <2>2
  <2>4. f \in Seq(R) /\ Len(f) = n /\ DOMAIN f = 1 .. n
    BY <1>1, <2>3
  <2>5. PressedSeen(f)
    BY <2>2, <2>4 DEF PressedSeen
  <2>6. Len(f) = Len(bs)
    BY <2>4 DEF n
  <2> QED BY <2>4, <2>5, <2>6 DEF f
<1>5. Clicked(bs, p) # {} => bs[p].seen = TRUE
  BY <1>1, <1>2 DEF Clicked, PressedSeen
<1> QED BY <1>3, <1>4, <1>5

(* What is known of the library while the innermost dialog's loop runs.    *)
LEMMA LoopIs ==
  ASSUME DialogInv, InLoop, Kept
  PROVE  /\ Depth > 0 /\ whole = TRUE
         /\ dlg_ctls \in Seq(Ctls) /\ Len(dlg_ctls) <= MaxCtl /\ PressedSeen(dlg_ctls)
         /\ UNCHANGED << dlg_proc, dlg_result, dlg_done, dlg_focus >>
         /\ box' \in Seq(Faces) /\ Len(box') <= 2 /\ PressedSeen(box')
BY DEF DialogInv, DialogTypes, InLoop, Kept

LEMMA MouseDownHolds ==
  ASSUME DialogInv, NEW p, MouseDown(p)
  PROVE  DialogInv'
<1>1. InLoop /\ Kept /\ LookAtDone /\ whole' = whole
      /\ dlg_ctls' = IF p \in Buttons THEN FedDown(dlg_ctls, p) ELSE dlg_ctls
  BY DEF MouseDown
<1>2. dlg_ctls' \in Seq(Ctls) /\ Len(dlg_ctls') <= MaxCtl /\ PressedSeen(dlg_ctls')
  <2>1. dlg_ctls \in Seq(Ctls) /\ Len(dlg_ctls) <= MaxCtl /\ PressedSeen(dlg_ctls)
    BY <1>1, LoopIs
  <2>2. /\ FedDown(dlg_ctls, p) \in Seq(Ctls) /\ Len(FedDown(dlg_ctls, p)) = Len(dlg_ctls)
        /\ PressedSeen(FedDown(dlg_ctls, p))
    BY <2>1, FedIs
  <2> QED BY <1>1, <2>1, <2>2
<1> QED BY <1>1, <1>2, LoopIs, LookAtDoneHolds

LEMMA MouseUpHolds ==
  ASSUME DialogInv, NEW p, MouseUp(p)
  PROVE  DialogInv'
<1>1. /\ InLoop /\ Kept /\ dlg_ctls' = FedUp(dlg_ctls, p)
      /\ IF Clicked(dlg_ctls, p) # {}
         THEN /\ stack' = With([Now EXCEPT !.phase = "click"])
              /\ whole' = (whole /\ dlg_ctls[p].seen)
              /\ UNCHANGED returned
         ELSE LookAtDone /\ UNCHANGED whole
  BY DEF MouseUp
<1>2. /\ Depth > 0 /\ whole = TRUE
      /\ UNCHANGED << dlg_proc, dlg_result, dlg_done, dlg_focus >>
      /\ box' \in Seq(Faces) /\ Len(box') <= 2 /\ PressedSeen(box')
      /\ dlg_ctls \in Seq(Ctls) /\ Len(dlg_ctls) <= MaxCtl /\ PressedSeen(dlg_ctls)
  BY <1>1, LoopIs
<1>3. /\ FedUp(dlg_ctls, p) \in Seq(Ctls) /\ Len(FedUp(dlg_ctls, p)) = Len(dlg_ctls)
      /\ PressedSeen(FedUp(dlg_ctls, p))
      /\ Clicked(dlg_ctls, p) # {} => dlg_ctls[p].seen = TRUE
  BY <1>2, FedIs
<1>4. dlg_ctls' \in Seq(Ctls) /\ Len(dlg_ctls') <= MaxCtl /\ PressedSeen(dlg_ctls')
  BY <1>1, <1>2, <1>3
<1>5. CASE Clicked(dlg_ctls, p) # {}
  <2>1. stack' = With([Now EXCEPT !.phase = "click"]) /\ returned' = returned /\ whole' = TRUE
        /\ "click" \in Phases
    BY <1>1, <1>2, <1>3, <1>5 DEF Phases
  <2> QED BY <1>2, <1>4, <2>1, PhaseHolds
<1>6. CASE Clicked(dlg_ctls, p) = {}
  <2>1. LookAtDone /\ whole' = TRUE
    BY <1>1, <1>2, <1>6
  <2> QED BY <1>2, <1>4, <2>1, LookAtDoneHolds
<1> QED BY <1>5, <1>6

LEMMA KeyToProcHolds ==
  ASSUME DialogInv, NEW k, KeyToProc(k)
  PROVE  DialogInv'
<1>1. InLoop /\ Kept /\ stack' = With([Now EXCEPT !.phase = "key"]) /\ "key" \in Phases
      /\ UNCHANGED << dlg_ctls, returned, whole >>
  BY DEF KeyToProc, Phases
<1>2. /\ Depth > 0 /\ whole' = TRUE
      /\ UNCHANGED << dlg_proc, dlg_result, dlg_done, dlg_focus >>
      /\ box' \in Seq(Faces) /\ Len(box') <= 2 /\ PressedSeen(box')
      /\ dlg_ctls' \in Seq(Ctls) /\ Len(dlg_ctls') <= MaxCtl /\ PressedSeen(dlg_ctls')
  BY <1>1, LoopIs
<1> QED BY <1>1, <1>2, PhaseHolds

LEMMA TypeHolds ==
  ASSUME DialogInv, NEW back, Type(back)
  PROVE  DialogInv'
<1> DEFINE old == dlg_ctls[dlg_focus].text
           new == IF back THEN (IF old > 0 THEN old - 1 ELSE 0) ELSE Typed(old)
<1>1. /\ InLoop /\ Kept /\ LookAtDone /\ whole' = whole
      /\ dlg_ctls' = IF dlg_focus \notin DOMAIN dlg_ctls THEN dlg_ctls
                     ELSE [dlg_ctls EXCEPT ![dlg_focus].text = new]
  BY DEF Type
<1>2. /\ Depth > 0 /\ whole = TRUE /\ TxtMax \in Nat
      /\ UNCHANGED << dlg_proc, dlg_result, dlg_done, dlg_focus >>
      /\ box' \in Seq(Faces) /\ Len(box') <= 2 /\ PressedSeen(box')
      /\ dlg_ctls \in Seq(Ctls) /\ Len(dlg_ctls) <= MaxCtl /\ PressedSeen(dlg_ctls)
  BY <1>1, LoopIs, DialogAssumption
<1>3. dlg_ctls' \in Seq(Ctls) /\ Len(dlg_ctls') <= MaxCtl /\ PressedSeen(dlg_ctls')
  <2>1. CASE dlg_focus \notin DOMAIN dlg_ctls
    BY <1>1, <1>2, <2>1
  <2>2. CASE dlg_focus \in DOMAIN dlg_ctls
    <3>1. dlg_ctls[dlg_focus] \in Ctls
      BY <1>2, <2>2
    <3>2. old \in 0 .. TxtMax
      BY <3>1 DEF Ctls
    <3> HIDE DEF old
    <3>3. new \in 0 .. TxtMax
      BY <1>2, <3>2 DEF Typed
    <3>4. dlg_ctls' = [dlg_ctls EXCEPT ![dlg_focus].text = new]
      BY <1>1, <2>2
    <3> HIDE DEF new
    <3>5. dlg_ctls' \in Seq(Ctls) /\ Len(dlg_ctls') = Len(dlg_ctls) /\ PressedSeen(dlg_ctls')
      BY <2>2, <3>3, <3>4, TextIs
    <3> QED BY <1>2, <3>5
  <2> QED BY <2>1, <2>2
<1> HIDE DEF new
<1> QED BY <1>1, <1>2, <1>3, LookAtDoneHolds

LEMMA ProcReturnsHolds ==
  ASSUME DialogInv, ProcReturns
  PROVE  DialogInv'
<1>1. /\ Depth > 0 /\ whole' = TRUE
      /\ UNCHANGED << dlg_proc, dlg_result, dlg_done, dlg_focus >>
      /\ box' \in Seq(Faces) /\ Len(box') <= 2 /\ PressedSeen(box')
      /\ dlg_ctls' \in Seq(Ctls) /\ Len(dlg_ctls') <= MaxCtl /\ PressedSeen(dlg_ctls')
      /\ \/ LookAtDone
         \/ stack' = With([Now EXCEPT !.phase = "loop"]) /\ returned' = returned
  BY DEF ProcReturns, DialogInv, DialogTypes
<1>2. "loop" \in Phases
  BY DEF Phases
<1> QED BY <1>1, <1>2, LookAtDoneHolds, PhaseHolds

-----------------------------------------------------------------------------
(* MESSAGE BOXES                                                           *)

LEMMA BoxHolds ==
  ASSUME DialogInv, NEW p, BoxDown(p) \/ BoxUp(p) \/ BoxKey
  PROVE  DialogInv'
<1>1. /\ UNCHANGED << dlg_ctls, dlg_proc, dlg_result, dlg_done, dlg_focus, stack, returned >>
      /\ \/ box' = FedDown(box, p) /\ whole' = whole
         \/ box' = FedUp(box, p) /\ whole' = whole
         \/ box' = NoBox /\ whole' = whole
         \/ Clicked(box, p) # {} /\ box' = NoBox /\ whole' = (whole /\ box[p].seen)
  BY DEF BoxDown, BoxUp, BoxKey, BoxKept
<1>2. /\ box \in Seq(Faces) /\ Len(box) <= 2 /\ PressedSeen(box) /\ whole = TRUE
      /\ dlg_ctls' \in Seq(Ctls) /\ Len(dlg_ctls') <= MaxCtl /\ PressedSeen(dlg_ctls')
  BY <1>1 DEF DialogInv, DialogTypes
<1>3. /\ FedDown(box, p) \in Seq(Faces) /\ Len(FedDown(box, p)) = Len(box) /\ PressedSeen(FedDown(box, p))
      /\ FedUp(box, p) \in Seq(Faces) /\ Len(FedUp(box, p)) = Len(box) /\ PressedSeen(FedUp(box, p))
      /\ Clicked(box, p) # {} => box[p].seen = TRUE
  BY <1>2, FedIs
<1>4. NoBox \in Seq(Faces) /\ Len(NoBox) <= 2 /\ PressedSeen(NoBox)
  BY DEF NoBox, PressedSeen
<1>5. box' \in Seq(Faces) /\ Len(box') <= 2 /\ PressedSeen(box') /\ whole' = TRUE
  BY <1>1, <1>2, <1>3, <1>4
<1> QED BY <1>1, <1>2, <1>5, RestHolds

-----------------------------------------------------------------------------
LEMMA DialogStarts == DialogInit => DialogInv
<1> SUFFICES ASSUME DialogInit PROVE DialogInv
  OBVIOUS
<1> DEFINE none == << >>
<1>1. none \in Seq(Ctls) /\ none \in Seq(Faces) /\ none \in Seq(Frames)
  OBVIOUS
<1>11. Len(none) = 0 /\ DOMAIN none = {}
  OBVIOUS
<1>12. dlg_ctls = none /\ box = none /\ stack = none
  BY DEF DialogInit, NoBox
<1> HIDE DEF none
<1>2. DialogTypes
  <2>1. MaxCtl \in Nat /\ MaxDepth \in Nat /\ dlg_focus \in 0 .. MaxCtl
    BY DialogAssumption DEF DialogInit
  <2>2. dlg_done \in BOOLEAN /\ whole = TRUE
    BY DEF DialogInit
  <2>3. Len(none) <= MaxCtl /\ Len(none) <= 2 /\ Len(none) <= MaxDepth
    BY <1>11, <2>1
  <2> QED BY <1>1, <1>12, <2>1, <2>2, <2>3 DEF DialogTypes
<1>3. PressedSeen(dlg_ctls) /\ PressedSeen(box)
  BY <1>11, <1>12 DEF PressedSeen
<1>4. Depth = 0
  BY <1>11, <1>12 DEF Depth
<1>5. Covering /\ OwnEnd
  BY <1>4 DEF Covering, OwnEnd
<1>6. ReturnsItsResult
  BY DEF DialogInit, ReturnsItsResult, None
<1> QED BY <1>2, <1>3, <1>5, <1>6 DEF DialogInv

LEMMA DialogSteps == DialogInv /\ [DialogNext]_dvars => DialogInv'
<1> SUFFICES ASSUME DialogInv, [DialogNext]_dvars PROVE DialogInv'
  OBVIOUS
<1>1. ASSUME NEW tpl \in Templates, OpenFirst(tpl) \/ OpenInside(tpl) PROVE DialogInv'
  BY <1>1, OpenFirstHolds, OpenInsideHolds
<1>2. ASSUME NEW r \in Results, EndDialog(r) PROVE DialogInv'
  BY <1>2, EndDialogHolds
<1>3. ASSUME NEW i \in 1 .. MaxCtl, NEW n \in {0, TxtMax + 1}, SetItemText(i, n) PROVE DialogInv'
  BY <1>3, SetItemTextHolds
<1>4. ASSUME NEW n \in 1 .. 2, OpenBox(n) PROVE DialogInv'
  BY <1>4, OpenBoxHolds
<1>5. CASE ProcReturns
  BY <1>5, ProcReturnsHolds
<1>6. ASSUME NEW p \in Spots, MouseDown(p) \/ MouseUp(p) \/ BoxDown(p) \/ BoxUp(p) PROVE DialogInv'
  BY <1>6, MouseDownHolds, MouseUpHolds, BoxHolds
<1>7. ASSUME NEW k \in {"enter", "esc"}, KeyToProc(k) PROVE DialogInv'
  BY <1>7, KeyToProcHolds
<1>8. ASSUME NEW back \in BOOLEAN, Type(back) PROVE DialogInv'
  BY <1>8, TypeHolds
<1>9. CASE BoxKey
  BY <1>9, BoxHolds
<1>10. CASE UNCHANGED dvars
  <2>1. UNCHANGED << dlg_ctls, dlg_proc, dlg_result, dlg_done, dlg_focus, stack, box, returned, whole >>
    BY <1>10 DEF dvars
  <2> QED BY <2>1, RestHolds DEF DialogInv, DialogTypes
<1> QED BY <1>1, <1>2, <1>3, <1>4, <1>5, <1>6, <1>7, <1>8, <1>9, <1>10 DEF DialogNext

LEMMA DialogInvKept == DialogInv => DialogsKept
<1> SUFFICES ASSUME DialogInv PROVE DialogsKept
  OBVIOUS
<1>1. \A i \in DOMAIN dlg_ctls : dlg_ctls[i].text \in 0 .. TxtMax
  <2> SUFFICES ASSUME NEW i \in DOMAIN dlg_ctls PROVE dlg_ctls[i].text \in 0 .. TxtMax
    OBVIOUS
  <2>1. dlg_ctls[i] \in Ctls
    BY DEF DialogInv, DialogTypes
  <2> QED BY <2>1 DEF Ctls
<1> QED BY <1>1 DEF DialogInv, DialogTypes, DialogsKept, DialogTypeOK, ClicksAreWhole, Depth

(* A program's dialogs and message boxes (user32.c): whatever the          *)
(* templates, the events and what the procedures call, a click is pressed  *)
(* and let go in one dialog, controls and texts fit, and a dialog whose    *)
(* procedure opened no other one closes only on its own EndDialog and      *)
(* returns its result.                                                     *)
THEOREM UserDialogs == DialogSpec => []DialogsKept
<1>1. DialogSpec => []DialogInv
  BY DialogStarts, DialogSteps, PTL DEF DialogSpec
<1> QED BY <1>1, DialogInvKept, PTL
=============================================================================

----------------------------- MODULE FileDialog -----------------------------
(***************************************************************************)
(* user/win32/comdlg32.c: the dialogs that ask for a file to open or to    *)
(* save, and the box that asks before a file is written over.              *)
(***************************************************************************)
EXTENDS Integers, Sequences, FiniteSets

CONSTANTS
  Chars, Capital,   (* what is typed; the small letter of each capital      *)
  Dirs,             (* what the directory may list: sequences of names      *)
  Rows, PageRows,   (* 16 rows seen, 10 rows to a page                      *)
  MAX_FILES, NAME_MAX,
  Outs,             (* sizes of the program's buffer                        *)
  Filters, Indexes  (* lists of characters and 0 as lpstrFilter has them    *)

ASSUME FileDialogAssumption ==
  /\ Chars \subseteq STRING /\ Dirs \subseteq Seq(Seq(STRING)) /\ Filters \subseteq Seq(STRING)
  /\ Rows \in Nat \ {0} /\ PageRows \in Nat /\ MAX_FILES \in Nat /\ NAME_MAX \in Nat \ {0}
  /\ Outs \subseteq Nat \ {0}

VARIABLES
  is_save, out_n,
  dir, files,               \* the names in the directory; those in the list
  sel, scroll, fname,       \* 0 is the first row
  pressed,                  \* the buttons that are pressed
  state,                    \* "no", "open", "confirm", "done"
  result, out,
  asked, agreed             \* history: the box came; its answer
fvars == << is_save, out_n, dir, files, sel, scroll, fname, pressed, state, result, out, asked, agreed >>

low8(c) == IF c \in DOMAIN Capital THEN Capital[c] ELSE c
Begins(name, p) == Len(p) <= Len(name) /\ \A i \in DOMAIN p : low8(name[i]) = low8(p[i])
Least(a, b) == IF a < b THEN a ELSE b
Most(a, b) == IF a > b THEN a ELSE b
file_count == Len(files)
File(i) == files[i + 1]

-----------------------------------------------------------------------------
(* parse_filter: pairs of a description and of patterns, each ending in 0; *)
(* the extensions of the first pair are read from its description, and of  *)
(* the others from the second letter of the patterns of the pair before.   *)
NUL == "0"
At(s, i) == IF i \in DOMAIN s THEN s[i] ELSE NUL
(* The ends of the strings.                                                *)
StringEnd(s, i) == CHOOSE j \in i .. Len(s) + 1 : At(s, j) = NUL /\ \A k \in i .. j - 1 : At(s, k) # NUL
Start(filt, idx) ==
  LET P[n \in 0 .. idx] ==
        IF n = 0 THEN 1
        ELSE IF P[n - 1] = 0 THEN 0
        ELSE LET p == StringEnd(filt, P[n - 1]) + 1 IN IF At(filt, p) = NUL THEN 0 ELSE p + 1
  IN  IF idx = 0 THEN 0 ELSE P[idx - 1]
(* The extensions in the patterns s[p .. e - 1], none for "*.*".           *)
Exts(s, p, e) ==
  LET cut == {i \in p - 1 .. e : i \in {p - 1, e} \/ s[i] = ";"}
      Word(i) == LET ends == {j \in cut : j >= i} IN SubSeq(s, i, (CHOOSE j \in ends : \A k \in ends : j <= k) - 1)
      words == {Word(i + 1) : i \in cut \ {e}}
      exts == {SubSeq(w, 3, Len(w)) : w \in {w \in words : Len(w) >= 3 /\ w[1] = "*" /\ w[2] = "."}}
  IN  IF << "*" >> \in exts THEN {} ELSE exts
ext_list(filt, idx) ==
  LET p == Start(filt, idx) IN IF p = 0 \/ At(filt, p) = NUL THEN {} ELSE Exts(filt, p, StringEnd(filt, p))
file_matches(name, exts) ==
  \/ exts = {}
  \/ \E x \in exts : /\ Len(name) > Len(x) + 1 /\ name[Len(name) - Len(x)] = "."
                     /\ Begins(SubSeq(name, Len(name) - Len(x) + 1, Len(name)), x)

-----------------------------------------------------------------------------
FileDialogInit ==
  /\ is_save \in BOOLEAN /\ out_n \in Outs /\ dir = {} /\ files = << >>
  /\ sel = 0 /\ scroll = 0 /\ fname = << >> /\ pressed = {} /\ state = "no"
  /\ result = FALSE /\ out = << >> /\ asked = FALSE /\ agreed = FALSE

(* load_list: the first names that match, in the order of the directory.   *)
Nth(S, k) == CHOOSE i \in S : Cardinality({j \in S : j <= i}) = k
load_list(names, exts) ==
  LET S == {i \in DOMAIN names : file_matches(names[i], exts)}
  IN  [k \in 1 .. Least(Cardinality(S), MAX_FILES) |-> names[Nth(S, k)]]

(* dlg_run up to its loop: no dialog when there is nothing to open.        *)
Run(names, filt, idx) ==
  LET list == load_list(names, ext_list(filt, idx))
  IN  /\ state = "no" /\ files' = list /\ dir' = {names[i] : i \in DOMAIN names}
      /\ state' = IF list = << >> /\ ~is_save THEN "done" ELSE "open"
      /\ UNCHANGED << is_save, out_n, sel, scroll, fname, pressed, result, out, asked, agreed >>

(* clamp_view.                                                             *)
View(s, first) == IF s < first THEN s ELSE IF s >= first + Rows THEN s - Rows + 1 ELSE first
Select(s) == sel' = s /\ scroll' = View(s, scroll)
InDialog == state = "open"
Same == UNCHANGED << is_save, out_n, dir, files, pressed, state, result, out, asked, agreed >>
Arrow ==
  /\ InDialog
  /\ \/ sel > 0 /\ Select(sel - 1)
     \/ sel < file_count - 1 /\ Select(sel + 1)
     \/ Select(Most(sel - PageRows, 0))
     \/ Select(Least(sel + PageRows, file_count - 1))
     \/ sel' = 0 /\ scroll' = 0
     \/ Select(file_count - 1)
  /\ UNCHANGED fname /\ Same
(* A letter: find_prefix selects the first file that begins with the name. *)
Letter(c) ==
  LET name == Append(fname, c)
      first == {i \in 0 .. file_count - 1 : Begins(File(i), name)}
  IN  /\ InDialog /\ Len(fname) < NAME_MAX - 1 /\ fname' = name
      /\ IF first = {} THEN UNCHANGED << sel, scroll >>
         ELSE Select(CHOOSE i \in first : \A j \in first : i <= j)
      /\ Same
Backspace ==
  /\ InDialog /\ fname # << >> /\ fname' = SubSeq(fname, 1, Len(fname) - 1)
  /\ UNCHANGED << sel, scroll >> /\ Same
(* A press on a row of the list.                                           *)
ClickRow(row) ==
  /\ InDialog /\ scroll + row < file_count /\ sel' = scroll + row
  /\ UNCHANGED << scroll, fname >> /\ Same

(* dlg_wants_confirm looks at the disk only for a name that was typed.     *)
wants_confirm == is_save /\ fname \in dir
(* The name that is given back.                                            *)
(* A bug: a typed beginning is not completed.                              *)
ChosenTyped == IF fname # << >> THEN fname ELSE IF file_count > 0 THEN File(sel) ELSE fname
Chosen ==
  IF fname # << >>
  THEN IF ~is_save /\ (\E i \in DOMAIN files : Begins(files[i], fname)) THEN File(sel) ELSE fname
  ELSE IF file_count > 0 THEN File(sel) ELSE fname
Put(s) == SubSeq(s, 1, Least(Len(s), out_n - 1))
Finish(ok) ==
  /\ state' = "done" /\ result' = ok /\ out' = IF ok THEN Put(Chosen) ELSE << >>
  /\ UNCHANGED << is_save, out_n, dir, files, sel, scroll, fname >>
(* Enter, or the button.                                                   *)
Ok == IF wants_confirm
      THEN /\ state' = "confirm" /\ asked' = TRUE
           /\ UNCHANGED << is_save, out_n, dir, files, sel, scroll, fname, result, out, agreed >>
      ELSE Finish(TRUE) /\ UNCHANGED << asked, agreed >>
Enter == InDialog /\ Ok /\ UNCHANGED pressed
Esc == InDialog /\ Finish(FALSE) /\ UNCHANGED << pressed, asked, agreed >>
(* confirm_overwrite: the answer, the dialog goes on after a no.           *)
Answer(yes) ==
  /\ agreed' = yes /\ UNCHANGED asked
  /\ IF yes THEN Finish(TRUE)
     ELSE state' = "open" /\ UNCHANGED << is_save, out_n, dir, files, sel, scroll, fname, result, out >>
ConfirmKey ==
  /\ state = "confirm" /\ (\E yes \in BOOLEAN : Answer(yes))
  /\ pressed' = pressed \ {"yes", "no"}

(* btn_feed: a button counts when it is let go where it was pressed.  The  *)
(* first is looked at before the second.                                   *)
Buttons == IF state = "open" THEN << "ok", "cancel" >> ELSE << "yes", "no" >>
Press(b) ==
  /\ state \in {"open", "confirm"} /\ b \in {Buttons[1], Buttons[2]}
  /\ pressed' = pressed \cup {b}
  /\ UNCHANGED << is_save, out_n, dir, files, sel, scroll, fname, state, result, out, asked, agreed >>
Pushed(b) ==
  CASE b = "ok" -> Ok
    [] b = "cancel" -> Finish(FALSE) /\ UNCHANGED << asked, agreed >>
    [] b \in {"yes", "no"} -> Answer(b = "yes")
Release(b) ==
  /\ state \in {"open", "confirm"} /\ pressed # {} /\ b \in {Buttons[1], Buttons[2], "beside"}
  /\ pressed' = pressed \ IF b = "ok" /\ b \in pressed THEN {b} ELSE {Buttons[1], Buttons[2]}
  /\ IF b \in pressed THEN Pushed(b)
     ELSE UNCHANGED << is_save, out_n, dir, files, sel, scroll, fname, state, result, out, asked, agreed >>

FileDialogNext ==
  \/ \E d \in Dirs, f \in Filters, i \in Indexes : Run(d, f, i)
  \/ Arrow \/ Backspace \/ Enter \/ Esc \/ ConfirmKey
  \/ \E c \in Chars : Letter(c)
  \/ \E r \in 0 .. Rows - 1 : ClickRow(r)
  \/ \E b \in {"ok", "cancel", "yes", "no", "beside"} : Press(b) \/ Release(b)
FileDialogSpec == FileDialogInit /\ [][FileDialogNext]_fvars

-----------------------------------------------------------------------------
(* What is selected is in the list and among the rows that are seen, when  *)
(* there is a list.                                                        *)
SelectedSeen ==
  /\ Len(files) <= MAX_FILES /\ Len(fname) < NAME_MAX /\ Len(out) < out_n
  /\ file_count > 0 => sel \in 0 .. file_count - 1 /\ scroll >= 0 /\ sel \in scroll .. scroll + Rows - 1
(* ... when there is none, too.  Not kept by the keys.                     *)
NothingSelected == file_count = 0 => sel = 0 /\ scroll = 0

(* A dialog to open gives a file of the list, unless the name typed begins *)
(* none of them.                                                           *)
OpensAFile ==
  state = "done" /\ result /\ ~is_save =>
    \/ \E i \in DOMAIN files : out = Put(files[i])
    \/ out = Put(fname) /\ \A i \in DOMAIN files : ~Begins(files[i], fname)

(* A name that was typed and is a file's is not given to save before       *)
(* somebody agreed.                                                        *)
TypedIsConfirmed ==
  state = "done" /\ result /\ is_save /\ fname \in dir => agreed
(* "devuelve 1 si el nombre actual de Guardar ya existe (hay que confirmar *)
(* sobrescritura)" (comdlg32.c:498): no file's name is.  Not kept when the *)
(* file is the selected one.                                               *)
AskedBeforeOverwriting ==
  state = "done" /\ result /\ is_save /\ Chosen \in dir => agreed

(* A list has the files with a name before one of its extensions, in       *)
(* capital letters or in small ones.                                       *)
Ends(name, x) == \E k \in DOMAIN name : /\ k > 1 /\ name[k] = "." /\ Len(name) = k + Len(x)
                                        /\ \A i \in DOMAIN x : low8(name[k + i]) = low8(x[i])
ListsByEnd ==
  state = "no" => \A f \in Filters, d \in Dirs : \A i \in DOMAIN d :
    LET x == Exts(f, 1, StringEnd(f, 1)) IN
      file_matches(d[i], x) <=> x = {} \/ \E e \in x : Ends(d[i], e)
(* Every way through a file dialog keeps the selection in the list and in  *)
(* sight, gives a file of the list or a typed name, and has agreement for a*)
(* typed name that exists.                                                 *)
PicksAFile == SelectedSeen /\ OpensAFile /\ TypedIsConfirmed /\ ListsByEnd
(* "p = patron del filtro activo (segunda cadena del par idx)"             *)
(* (comdlg32.c:200): the extensions are those of the patterns chosen.  Not *)
(* kept: they are looked for one string too early.                         *)
FiltersChosen ==
  \A f \in Filters : LET d == StringEnd(f, 1) + 1 IN
    At(f, d) # NUL => ext_list(f, 1) = Exts(f, d, StringEnd(f, d))
=============================================================================

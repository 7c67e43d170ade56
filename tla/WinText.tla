------------------------------- MODULE WinText -------------------------------
(***************************************************************************)
(* What user/win32/kernel32.c and user/win32/msvcrt.c do with texts and    *)
(* numbers: name patterns, .INI files, the two encodings, messages with    *)
(* arguments, the words of a command line, printed numbers, MulDiv.  A     *)
(* behaviour is one call, compared with a definition of what it should     *)
(* give.                                                                   *)
(***************************************************************************)
EXTENDS Integers, Sequences, FiniteSets, SequencesExt

CONSTANTS
  Patterns, Found,       (* patterns, names of files                        *)
  Lines, LinesMax,       (* lines of an .INI file, how many                 *)
  Formats, Params, Room, (* of FormatMessageA: formats, arguments, sizes    *)
  Commands, Words, ArgMax, (* command lines; words; 33: entries of argv     *)
  Fields, Bits           (* fields of a format; bits of an int              *)

VARIABLES call, result
vars == << call, result >>

MaxInt == 2 ^ (Bits - 1) - 1
Cut(s, n) == SubSeq(s, 1, IF Len(s) < n THEN Len(s) ELSE n)

-----------------------------------------------------------------------------
(* name_match.  A bug: a star stops at the first place the rest could      *)
(* begin at.                                                               *)
MatchFirst(pat, name) ==
  LET M[p \in 1 .. Len(pat) + 1, n \in 1 .. Len(name) + 1] ==
        IF p > Len(pat) THEN n > Len(name)
        ELSE IF pat[p] = "*"
        THEN \/ p = Len(pat)
             \/ \E m \in n .. Len(name) : /\ name[m] = pat[p + 1] /\ M[p + 1, m]
                                          /\ \A k \in n .. m - 1 : name[k] # pat[p + 1]
        ELSE n <= Len(name) /\ pat[p] \in {"?", name[n]} /\ M[p + 1, n + 1]
  IN  M[1, 1]
Match(pat, name) ==
  LET M[p \in 1 .. Len(pat) + 1, n \in 1 .. Len(name) + 1] ==
        IF p > Len(pat) THEN n > Len(name)
        ELSE IF pat[p] = "*" THEN \E m \in n .. Len(name) + 1 : M[p + 1, m]
        ELSE n <= Len(name) /\ pat[p] \in {"?", name[n]} /\ M[p + 1, n + 1]
  IN  M[1, 1]

(* ini_find_value: lines with a section, with a key and a value, or other  *)
(* ones; the blanks that are cut off are not there, names are in one case. *)
(* GetPrivateProfileStringA takes its default for an empty value too.      *)
IniFind(lines, sec, key) ==
  LET S[i \in 0 .. Len(lines)] ==
        IF i = 0 THEN [in |-> FALSE, value |-> "none"]
        ELSE IF S[i - 1].value # "none" THEN S[i - 1]
        ELSE IF lines[i].kind = "section" THEN [S[i - 1] EXCEPT !.in = lines[i].name = sec]
        ELSE IF S[i - 1].in /\ lines[i].kind = "entry" /\ lines[i].name = key
        THEN [S[i - 1] EXCEPT !.value = lines[i].value] ELSE S[i - 1]
  IN  S[Len(lines)].value
ProfileString(lines, sec, key) ==
  LET v == IniFind(lines, sec, key) IN IF v \in {"none", "empty"} THEN "default" ELSE v

(* utf16_to_cp437 and cp437_to_utf16: the code points of the bytes from    *)
(* 128 on; 0 for those that have none.                                     *)
cp437_map ==
  << \h00C7, \h00FC, \h00E9, \h00E2, \h00E4, \h00E0, \h00E5, \h00E7, \h00EA, \h00EB, \h00E8,
     \h00EF, \h00EE, \h00EC, \h00C4, \h00C5, \h00C9, \h00E6, \h00C6, \h00F4, \h00F6, \h00F2,
     \h00FB, \h00F9, \h00FF, \h00D6, \h00DC, \h00A2, \h00A3, \h00A5, \h20A7, \h0192, \h00E1,
     \h00ED, \h00F3, \h00FA, \h00F1, \h00D1, \h00AA, \h00BA, \h00BF, \h2310, \h00AC, \h00BD,
     \h00BC, \h00A1, \h00AB, \h00AE >>
  \o [i \in 1 .. 48 |-> 0] \o
  << \h03B1, \h00DF, \h0393, \h03C0, \h03A3, \h03C3, \h00B5, \h03C4, \h03A6, \h0398, \h03A9,
     \h03B4, \h221E, \h03C6, \h03B5, \h2229, \h2261, \h00B1, \h2265, \h2264, \h2320, \h2321,
     \h00F7, \h2248, \h00B0, \h00B9, \h00B7, \h221A, \h00B3, \h00B2, \h25A0, \h00A0 >>
Unknown == \hFFFD
ToWide(b) == IF b < 128 THEN b ELSE IF cp437_map[b - 127] = 0 THEN Unknown ELSE cp437_map[b - 127]
ToBytes(u) ==
  LET at == {i \in 1 .. 128 : cp437_map[i] = u}
  IN  IF u < 128 THEN u
      ELSE IF at = {} THEN 63 ELSE 127 + (CHOOSE i \in at : \A j \in at : i <= j)

(* FormatMessageA: a format is a sequence of characters, "%", "1", "2";     *)
(* argument k is put in for "%k", as far as there is room, and nothing     *)
(* when there are no arguments.                                            *)
Nth == {"1", "2"}
Format(fmt, args, size) ==
  LET F[i \in 0 .. Len(fmt)] ==
        IF i = 0 THEN [out |-> << >>, at |-> 1]
        ELSE LET s == F[i - 1]
                 n == IF s.at < Len(fmt) THEN fmt[s.at + 1] ELSE "end"
                 Go(x, d) == [out |-> Cut(s.out \o x, size - 1), at |-> s.at + d]
             IN  IF s.at > Len(fmt) \/ Len(s.out) >= size - 1 THEN s
                 ELSE IF fmt[s.at] # "%" THEN Go(<< fmt[s.at] >>, 1)
                 ELSE IF n = "%" THEN Go(<< "%" >>, 2)
                 ELSE IF n \in Nth THEN Go(IF n \in DOMAIN args THEN args[n] ELSE << >>, 2)
                 ELSE IF n = "end" THEN s ELSE Go(<< "%" >>, 1)
  IN  F[Len(fmt)].out

-----------------------------------------------------------------------------
(* split_cmdline and wsplit_cmdline: words between blanks or in quotes     *)
(* ("'" here), with a 0 behind each; length counts all of it.              *)
Blank == " "
Quote == "'"
Begin(s, w, mode) == [s EXCEPT !.argv = Append(@, w), !.mode = mode, !.length = @ + Len(w)]
Longer(s, c) == [s EXCEPT !.argv = [@ EXCEPT ![Len(@)] = Append(@, c)], !.length = @ + 1]
EndWord(s) == IF s.mode \in {"word", "quoted"} THEN [s EXCEPT !.mode = "gap", !.length = @ + 1] ELSE s
SplitStep(s, c) ==
  CASE s.mode = "full" -> s
    [] s.mode = "gap" /\ c = Blank -> s
    [] s.mode = "gap" /\ Len(s.argv) >= ArgMax - 1 -> [s EXCEPT !.mode = "full"]
    [] s.mode = "gap" /\ c = Quote -> Begin(s, << >>, "quoted")
    [] s.mode = "gap" -> Begin(s, << c >>, "word")
    [] << s.mode, c >> \in {<< "word", Blank >>, << "quoted", Quote >>} -> EndWord(s)
    [] OTHER -> Longer(s, c)
Split(cmd) ==
  LET S[i \in 0 .. Len(cmd)] == IF i = 0 THEN [argv |-> << >>, mode |-> "gap", length |-> 0]
                                ELSE SplitStep(S[i - 1], cmd[i])
  IN  EndWord(S[Len(cmd)])

-----------------------------------------------------------------------------
(* The field of a printf conversion: flags and width, as it is read.       *)
Digit == [d \in {"0", "1", "2", "3"} |-> CASE d = "0" -> 0 [] d = "1" -> 1 [] d = "2" -> 2 [] OTHER -> 3]
Field(spec) ==
  LET S[i \in 0 .. Len(spec)] ==
        IF i = 0 THEN [left |-> FALSE, width |-> 0]
        ELSE CASE spec[i] = "-" -> [S[i - 1] EXCEPT !.left = TRUE]
               [] spec[i] \in {"0", "+", "."} -> S[i - 1]
               [] OTHER -> [S[i - 1] EXCEPT !.width = 10 * @ + Digit[spec[i]]]
  IN  S[Len(spec)]
(* How many digits v has; C's division goes towards 0.                     *)
Quot(a, b) == LET q == (IF a < 0 THEN -a ELSE a) \div (IF b < 0 THEN -b ELSE b)
              IN  IF (a < 0) = (b < 0) THEN q ELSE -q
Digits(v, base) == LET D[n \in 0 .. Bits] == IF n = 0 THEN v ELSE Quot(D[n - 1], base)
                   IN  Cardinality({n \in 0 .. Bits : D[n] # 0})
Shown(v, base) == IF v = 0 THEN 1 ELSE Digits(v, base)
(* What is printed: blanks, a sign, digits, blanks.                        *)
Pad(f, n) == LET p == IF f.width > n THEN f.width - n ELSE 0
             IN  [before |-> IF f.left THEN 0 ELSE p, after |-> IF f.left THEN p ELSE 0]
(* %d: the sign counts.                                                    *)
PrintSigned(f, v) ==
  LET a == IF v < 0 THEN -v ELSE v
  IN  [pad |-> Pad(f, Shown(a, 10) + (IF v < 0 THEN 1 ELSE 0)), sign |-> v < 0, digits |-> Shown(a, 10)]
(* %u and %x: the digits are counted of v as an int.                       *)
AsInt(v) == IF v > MaxInt THEN v - 2 * (MaxInt + 1) ELSE v
PrintUnsigned(f, v, base) == [pad |-> Pad(f, Shown(AsInt(v), base)), sign |-> FALSE, digits |-> Shown(v, base)]

(* MulDiv: the results the build can give; 2 * rem may overflow.           *)
MulDiv(a, b, c) ==
  IF c = 0 THEN {-1}
  ELSE IF a = 0 \/ b = 0 THEN {0}
  ELSE IF a > Quot(MaxInt, b) \/ a < Quot(-MaxInt, b) THEN {-1}
  ELSE LET p == IF c < 0 THEN -(a * b) ELSE a * b
           d == IF c < 0 THEN -c ELSE c
           rem == p - Quot(p, d) * d
       IN  IF 2 * rem > MaxInt THEN {Quot(p, d), Quot(p, d) + 1}
           ELSE {Quot(p, d) + (IF 2 * rem >= d THEN 1 ELSE 0)}

-----------------------------------------------------------------------------
Ints == -MaxInt .. MaxInt
Argument(args) == [k \in {ToString(i) : i \in 1 .. Len(args)} |->
                     args[CHOOSE i \in 1 .. Len(args) : ToString(i) = k]]
(* How a list of words is written on a line.                               *)
Written(w) == IF w = << >> \/ Blank \in ToSet(w) THEN << Quote >> \o w \o << Quote >> ELSE w
Line(words) == LET L[i \in 0 .. Len(words)] ==
                     IF i = 0 THEN << >>
                     ELSE L[i - 1] \o (IF i = 1 THEN << >> ELSE << Blank >>) \o Written(words[i])
               IN  L[Len(words)]

Init ==
  /\ result = << >>
  /\ \/ \E p \in Patterns, n \in Found : call = [op |-> "match", pat |-> p, name |-> n]
     \/ \E k \in 0 .. LinesMax : \E ls \in [1 .. k -> Lines] : call = [op |-> "ini", lines |-> ls]
     \/ \E b \in 0 .. 255 : call = [op |-> "byte", byte |-> b]
     \/ \E f \in Formats, a \in Params, s \in Room : call = [op |-> "message", fmt |-> f, args |-> a, size |-> s]
     \/ \E c \in Commands : call = [op |-> "command", cmd |-> c]
     \/ \E k \in 1 .. ArgMax - 1 : \E ws \in [1 .. k -> Words] :
          call = [op |-> "words", words |-> ws, cmd |-> Line(ws)]
     \/ \E f \in Fields, v \in Ints : call = [op |-> "signed", field |-> f, value |-> v]
     \/ \E f \in Fields, v \in 0 .. 2 * MaxInt + 1, b \in {10, 16} :
          call = [op |-> "unsigned", field |-> f, value |-> v, base |-> b]
     \/ \E a, b, c \in Ints : call = [op |-> "muldiv", a |-> a, b |-> b, c |-> c]
Next ==
  /\ result = << >> /\ UNCHANGED call
  /\ \/ call.op = "match" /\ result' = << Match(call.pat, call.name) >>
     \/ call.op = "ini" /\ result' = << ProfileString(call.lines, "s", "k") >>
     \/ call.op = "byte" /\ result' = << ToBytes(ToWide(call.byte)) >>
     \/ call.op = "message" /\ result' = << Format(call.fmt, Argument(call.args), call.size) >>
     \/ call.op \in {"command", "words"} /\ result' = << Split(call.cmd) >>
     \/ call.op = "signed" /\ result' = << PrintSigned(Field(call.field), call.value) >>
     \/ call.op = "unsigned" /\ result' = << PrintUnsigned(Field(call.field), call.value, call.base) >>
     \/ call.op = "muldiv" /\ \E r \in MulDiv(call.a, call.b, call.c) : result' = << r >>
Spec == Init /\ [][Next]_vars

Done(op) == call.op = op /\ result # << >>

-----------------------------------------------------------------------------
(* A file is found by a pattern when the name can be cut into the pieces   *)
(* the pattern asks for, however many stars it has.                        *)
MatchesPieces ==
  Done("match") =>
    (result[1] <=>
      \E e \in [0 .. Len(call.pat) -> 0 .. Len(call.name)] :
        /\ e[0] = 0 /\ e[Len(call.pat)] = Len(call.name)
        /\ \A i \in 1 .. Len(call.pat) :
             IF call.pat[i] = "*" THEN e[i] >= e[i - 1]
             ELSE e[i] = e[i - 1] + 1 /\ call.pat[i] \in {"?", call.name[e[i]]})

(* The value of a key is the first one below a header of its section, with *)
(* no other header between; else, and when it is empty, the default.       *)
FirstOfSection ==
  LET L == call.lines
      under(i) == \E j \in 1 .. i - 1 : /\ L[j] = [kind |-> "section", name |-> "s", value |-> "empty"]
                                        /\ \A m \in j + 1 .. i - 1 : L[m].kind # "section"
      hit == {i \in 1 .. Len(L) : L[i].kind = "entry" /\ L[i].name = "k" /\ under(i)}
  IN  Done("ini") =>
        result[1] = IF hit = {} THEN "default"
                       ELSE LET i == CHOOSE i \in hit : \A j \in hit : i <= j
                            IN  IF L[i].value = "empty" THEN "default" ELSE L[i].value

(* A name FindFirstFileW gives opens the same file in CreateFileW: every   *)
(* byte that has a code point comes back as itself.                        *)
BytesReturn ==
  Done("byte") => \/ result[1] = call.byte
                  \/ call.byte > 127 /\ cp437_map[call.byte - 127] = 0 /\ result[1] = 63

(* A message is the format with the arguments put in, cut off at the size  *)
(* of the buffer, of which the last byte is the 0.                         *)
MessageFits ==
  Done("message") =>
    /\ Len(result[1]) < call.size
    /\ IsPrefix(result[1], Format(call.fmt, Argument(call.args), 100))
    /\ Len(result[1]) < call.size - 1 => result[1] = Format(call.fmt, Argument(call.args), 100)

(* The words of a command line never take more room than the line and its  *)
(* 0, nor more entries than there are.                                     *)
WordsFit ==
  Done("command") => result[1].length <= Len(call.cmd) + 1 /\ Len(result[1].argv) <= ArgMax - 1
(* A list of words that is written with quotes around those with blanks    *)
(* arrives as it was.                                                      *)
WordsArrive ==
  Done("words") => result[1].argv = call.words

(* A number takes its width, with the blanks on one side, or what it needs *)
(* if that is more; unsigned numbers of half of the range only.            *)
WidthKept ==
  Done("signed") \/ (Done("unsigned") /\ call.value <= MaxInt) =>
    LET r == result[1]
        n == r.pad.before + (IF r.sign THEN 1 ELSE 0) + r.digits + r.pad.after
    IN  /\ n >= Field(call.field).width
        /\ r.pad.before # 0 \/ r.pad.after # 0 => n = Field(call.field).width
        /\ IF Field(call.field).left THEN r.pad.before = 0 ELSE r.pad.after = 0

(* MulDiv gives the nearest integer, half rounded up, when nothing is      *)
(* negative, the product is an int and so is twice the divisor.            *)
MulDivNearest ==
  Done("muldiv") /\ call.a >= 0 /\ call.b >= 0 /\ call.c > 0
    /\ 2 * call.c <= MaxInt /\ call.a * call.b <= MaxInt =>
    result[1] = (2 * call.a * call.b + call.c) \div (2 * call.c)

(* The width of a field is the number that is written in it.  Not kept: a  *)
(* zero inside of it is taken for a flag.                                  *)
WidthRead ==
  Done("signed") /\ Len(call.field) = 2 /\ call.field[1] \in {"1", "2", "3"} /\ call.field[2] \in DOMAIN Digit =>
    Field(call.field).width = 10 * Digit[call.field[1]] + Digit[call.field[2]]
=============================================================================

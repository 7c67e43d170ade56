------------------------------ MODULE Registry ------------------------------
(***************************************************************************)
(* user/win32/advapi32.c: the registry.  Each program has its own tables   *)
(* of keys and values; the values are read from registry.ini at the first  *)
(* call, and every change writes the whole file again.                     *)
(*                                                                         *)
(* The path of a key is a name, as long as a letter; the four roots are    *)
(* the same key.  A value has a type, what it holds (the data) and how     *)
(* many bytes of it.  In the file a value is its name and type, together   *)
(* as long as a letter, its bytes and the end of the line.                 *)
(***************************************************************************)
EXTENDS Integers, Sequences

CONSTANTS
  Procs,            (* programs that run                                    *)
  Paths, Names,     (* of keys and of values                                *)
  Data,             (* what a value may hold                                *)
  Sizes,            (* how many bytes are set; 0 is a text of no size given *)
  Types,            (* "sz", "dword", "bin" and others                      *)
  MAX_KEYS, MAX_VALS, VAL_MAX,
  LINE_MAX,         (* bytes of a value that fit in line[256]               *)
  BUF_MAX,          (* the buffer of the file                               *)
  None, Calls       (* Calls bounds the calls of the programs               *)

VARIABLES
  rkeys, rvals, rval_n, rreg_inited,   \* the tables of each program
  file,                                \* lines of registry.ini; << >> when there is none
  wrote,                               \* bytes reg_save put in its buffer
  told,                                \* history: what each program set or found, by key and name
  calls
vars == << rkeys, rvals, rval_n, rreg_inited, file, wrote, told, calls >>

Blank == [path |-> None, name |-> None, type |-> "sz", data |-> None, size |-> 0]
Init ==
  /\ rkeys = [p \in Procs |-> << >>] /\ rval_n = [p \in Procs |-> 0]
  /\ rvals = [p \in Procs |-> [i \in 1 .. MAX_VALS |-> Blank]]
  /\ rreg_inited = [p \in Procs |-> FALSE]
  /\ file = << >> /\ wrote = 0 /\ calls = 0
  /\ told = [p \in Procs |-> [x \in {} |-> Blank]]

Less(a, b) == IF a < b THEN a ELSE b
rval_find(V, n, path, name) == {i \in 1 .. n : V[i].path = path /\ V[i].name = name}
First(S) == CHOOSE i \in S : \A j \in S : i <= j

-----------------------------------------------------------------------------
(* val_enc: a text is written whole, a number is as long as a letter, and  *)
(* any other type is written as bytes as far as the line goes; with no     *)
(* bytes, what the line before it held is written after the name.          *)
Enc(v, before) ==
  LET n == Less(v.size, VAL_MAX)
      line(type, size) == [key |-> FALSE, path |-> v.path, name |-> v.name, type |-> type,
                           data |-> v.data, size |-> size]
  IN  IF v.type = "dword" THEN line("dword", 1)
      ELSE IF v.type = "sz" THEN line("sz", n)
      ELSE IF n = 0 THEN [before EXCEPT !.path = v.path, !.name = v.name]
      ELSE line("bin", Less(n, LINE_MAX))

(* reg_save: key by key, each with its values, as long as the buffer has   *)
(* room for the beginning of a key; what does not fit of a line is left    *)
(* out, its end is not.  fwrite makes the file anew.                       *)
ValLine(s, v) ==
  LET e == Enc(v, s.line)
      room == IF s.at < BUF_MAX - 1 THEN BUF_MAX - 1 - s.at ELSE 0
      len == Less(1 + e.size, room)
  IN  [at |-> s.at + len + 1, line |-> e,
       out |-> IF len = 0 THEN s.out ELSE Append(s.out, [e EXCEPT !.size = len - 1])]
KeyLine(s, path) ==
  LET fits == s.at + 1 < BUF_MAX - 2
  IN  [at |-> s.at + (IF fits THEN 4 ELSE 3), line |-> s.line,
       out |-> Append(s.out, [key |-> TRUE, path |-> IF fits THEN path ELSE None, name |-> None,
                              type |-> "key", data |-> None, size |-> 0])]
Saved(K, V, n) ==
  LET W[k \in 0 .. Len(K)] ==
        IF k = 0 THEN [at |-> 0, out |-> << >>,
                        line |-> [key |-> FALSE, path |-> None, name |-> None, type |-> "cut",
                                  data |-> None, size |-> 0]]
        ELSE IF W[k - 1].at >= BUF_MAX THEN W[k - 1]
        ELSE LET U[v \in 0 .. n] ==
                   IF v = 0 THEN KeyLine(W[k - 1], K[k])
                   ELSE IF V[v].path # K[k] THEN U[v - 1] ELSE ValLine(U[v - 1], V[v])
             IN  U[n]
  IN  W[Len(K)]

(* reg_load: the values of the file, under the keys they stand below; the  *)
(* table of keys stays empty.                                              *)
Loaded(V, lines) ==
  LET L[i \in 0 .. Len(lines)] ==
        IF i = 0 THEN [path |-> None, v |-> V, n |-> 0]
        ELSE LET s == L[i - 1]  l == lines[i]
             IN  IF l.key THEN [s EXCEPT !.path = l.path]
                 ELSE IF s.n >= MAX_VALS \/ l.type = "cut" THEN s
                 ELSE [s EXCEPT !.n = @ + 1,
                         !.v[s.n + 1] = [path |-> s.path, name |-> l.name, type |-> l.type,
                                         data |-> l.data, size |-> l.size]]
  IN  L[Len(lines)]
Table(p) == IF rreg_inited[p] THEN [v |-> rvals[p], n |-> rval_n[p]]
            ELSE LET l == Loaded(rvals[p], file) IN [v |-> l.v, n |-> l.n]
Known(v, n) == [x \in {<< v[i].path, v[i].name >> : i \in 1 .. n} |->
                  v[First(rval_find(v, n, x[1], x[2]))]]
Put(p, v, n) ==
  /\ rreg_inited' = [rreg_inited EXCEPT ![p] = TRUE]
  /\ rvals' = [rvals EXCEPT ![p] = v] /\ rval_n' = [rval_n EXCEPT ![p] = n]
Call == calls < Calls /\ calls' = calls + 1
Found(p) == IF rreg_inited[p] THEN told[p] ELSE Known(Table(p).v, Table(p).n)

(* RegCreateKeyExA; RegOpenKeyExA changes no more than the first call.     *)
RegCreateKey(p, path) ==
  /\ Call /\ Put(p, Table(p).v, Table(p).n)
  /\ rkeys' = IF (\E k \in DOMAIN rkeys[p] : rkeys[p][k] = path) \/ Len(rkeys[p]) >= MAX_KEYS
              THEN rkeys ELSE [rkeys EXCEPT ![p] = Append(@, path)]
  /\ told' = [told EXCEPT ![p] = Found(p)]
  /\ UNCHANGED << file, wrote >>
RegOpenKey(p) ==
  /\ Call /\ ~rreg_inited[p] /\ Put(p, Table(p).v, Table(p).n)
  /\ told' = [told EXCEPT ![p] = Found(p)]
  /\ UNCHANGED << rkeys, file, wrote >>

(* What the file is after a change.                                        *)
Save(p, v, n) ==
  LET w == Saved(rkeys[p], v, n)
  IN  wrote' = w.at /\ file' = w.out

(* RegSetValueExA: a text without a size keeps the data that was there.    *)
Slot(t, path, name) ==
  LET at == rval_find(t.v, t.n, path, name) IN IF at = {} THEN t.n + 1 ELSE First(at)
RegSetValue(p, h, name, type, data, size, len) ==
  LET t == Table(p)  path == rkeys[p][h]
      i == Slot(t, path, name)
      n == IF i > t.n THEN t.n + 1 ELSE t.n
      bare == type = "sz" /\ size = 0
      v == [t.v EXCEPT ![i] = [path |-> path, name |-> name, type |-> type,
                               data |-> IF size = 0 THEN @.data ELSE data,
                               size |-> IF bare THEN len ELSE Less(size, VAL_MAX)]]
  IN  /\ Call /\ i <= MAX_VALS
      /\ Put(p, v, n) /\ Save(p, v, n)
      /\ told' = [told EXCEPT ![p] =
                    IF size = 0 THEN Known(v, n)
                    ELSE [x \in DOMAIN Found(p) \cup {<< path, name >>} |->
                            IF x = << path, name >>
                            THEN [path |-> path, name |-> name, type |-> type, data |-> data,
                                  size |-> Less(size, VAL_MAX)]
                            ELSE Found(p)[x]]]
      /\ UNCHANGED rkeys
(* RegDeleteValueA: the values after it move down.                         *)
(* A bug: the last one stays where it is.                                  *)
WithoutLast(t, i) == [t.v EXCEPT ![i] = IF i + 1 < t.n THEN t.v[i + 1] ELSE @]
Without(t, i) == [j \in DOMAIN t.v |-> IF j >= i /\ j < t.n THEN t.v[j + 1] ELSE t.v[j]]
RegDeleteValue(p, h, name) ==
  LET t == Table(p)  path == rkeys[p][h]  at == rval_find(t.v, t.n, path, name)
  IN  /\ Call /\ at # {}
      /\ LET v == Without(t, First(at)) IN
           /\ Put(p, v, t.n - 1) /\ Save(p, v, t.n - 1)
           /\ told' = [told EXCEPT ![p] = [x \in DOMAIN Found(p) \ {<< path, name >>} |-> Found(p)[x]]]
      /\ UNCHANGED rkeys

(* A program ends, and is started again.                                   *)
Restart(p) ==
  /\ Call /\ rreg_inited[p]
  /\ rkeys' = [rkeys EXCEPT ![p] = << >>] /\ rval_n' = [rval_n EXCEPT ![p] = 0]
  /\ rvals' = [rvals EXCEPT ![p] = [i \in 1 .. MAX_VALS |-> Blank]]
  /\ rreg_inited' = [rreg_inited EXCEPT ![p] = FALSE]
  /\ told' = [told EXCEPT ![p] = [x \in {} |-> Blank]]
  /\ UNCHANGED << file, wrote >>

Next == \E p \in Procs :
  \/ RegOpenKey(p) \/ Restart(p) \/ \E path \in Paths : RegCreateKey(p, path)
  \/ \E h \in DOMAIN rkeys[p], name \in Names :
       \/ RegDeleteValue(p, h, name)
       \/ \E type \in Types, data \in Data, size \in Sizes :
            RegSetValue(p, h, name, type, data, size, 1)
       \/ \E data \in Data : RegSetValue(p, h, name, "sz", data, 0, VAL_MAX + 1)
Spec == Init /\ [][Next]_vars

-----------------------------------------------------------------------------
(* Keys and values are within their tables, and no value is there twice    *)
(* unless the file it came from was cut.                                   *)
RegTypeOK == \A p \in Procs :
  /\ Len(rkeys[p]) <= MAX_KEYS /\ rval_n[p] \in 0 .. MAX_VALS
  /\ wrote < BUF_MAX => \A i, j \in 1 .. rval_n[p] :
       i # j => << rvals[p][i].path, rvals[p][i].name >> # << rvals[p][j].path, rvals[p][j].name >>

(* What a program reads is what it set last, or found in the file: values  *)
(* that come, go and move in the table do not change each other.           *)
ReadsWhatItSet == \A p \in Procs :
  rreg_inited[p] /\ wrote < BUF_MAX => Known(rvals[p], rval_n[p]) = told[p]

(* What is saved is read again by the next program: each value whose key   *)
(* the program knew, as long as lines and buffer are long enough.          *)
Same(v, w) == /\ v.path = w.path /\ v.name = w.name /\ v.data = w.data
              /\ v.type = "dword" \/ v.size = w.size
              /\ v.type \in {"sz", "dword", "bin"} => v.type = w.type
LastSaved(p) == Loaded([i \in 1 .. MAX_VALS |-> Blank], Saved(rkeys[p], rvals[p], rval_n[p]).out)
ComesBack == \A p \in Procs :
  LET s == Saved(rkeys[p], rvals[p], rval_n[p])  l == LastSaved(p)
  IN  s.at < BUF_MAX => \A i \in 1 .. rval_n[p] :
        /\ \E k \in DOMAIN rkeys[p] : rkeys[p][k] = rvals[p][i].path
        /\ rvals[p][i].type = "dword" \/ rvals[p][i].size \in 1 .. (IF rvals[p][i].type = "sz" THEN VAL_MAX ELSE LINE_MAX)
        => \E j \in 1 .. l.n : Same(rvals[p][i], l.v[j])

(* "cada RegSetValueExA vuelca el archivo completo" (advapi32.c:9): a save *)
(* keeps the values of keys that the program did not open.  Not kept: only *)
(* the program's own keys are written.                                     *)
SaveKeepsOthers ==
  [][\A i \in DOMAIN file : ~file[i].key /\ file[i].type # "cut" /\ Len(file') > 0 /\ file' # file =>
       \/ \E j \in DOMAIN file' : ~file'[j].key /\ file'[j].path = file[i].path /\ file'[j].name = file[i].name
       \/ \E p \in Procs : told'[p] # told[p] /\ \E h \in DOMAIN rkeys[p] : rkeys[p][h] = file[i].path]_file
=============================================================================

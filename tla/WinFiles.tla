------------------------------ MODULE WinFiles ------------------------------
(***************************************************************************)
(* The file calls of the two libraries a Win32 program has:                *)
(* user/win32/kernel32.c (CreateFileA, ReadFile, WriteFile, CloseHandle,   *)
(* FindFirstFileA ...) and user/win32/msvcrt.c (_open, _read, _write,      *)
(* _close).  Each has a table of handles and one buffer that all handles   *)
(* write to; a file is stored when its handle is closed.  A program uses   *)
(* one of the two.  The calls named ...W turn their strings into those of  *)
(* the calls named ...A and are not told apart.                            *)
(*                                                                         *)
(* The files are those of the root directory: slots with names, and what   *)
(* is in them.  A byte is a letter, CR or LF.                              *)
(***************************************************************************)
EXTENDS Integers, Sequences, FiniteSets

CONSTANTS
  Names, None,     (* names of files; no name                               *)
  DirSlots,        (* slots of the directory                                *)
  Handles,         (* 16: entries of the table of open files                *)
  WMax,            (* 65536: the buffer                                     *)
  Chunk,           (* 512: what a text read takes at a time                 *)
  Finds,           (* 4: searches                                           *)
  CR, LF, Files,   (* the line ends; contents of the files there are        *)
  Texts,           (* what a program writes at a time                       *)
  Sizes, Seeks,    (* sizes it reads, distances it moves                    *)
  Calls            (* bound: calls                                          *)

VARIABLES
  lib,             \* "kernel32" or "msvcrt"
  dirent, data,    \* the name in each slot; what each file holds
  open_files,      \* the table: name, position, ...
  wbuf,            \* the buffer, as much of it as was ever written
  find_st,         \* the searches, the last one at the end
  last,            \* history: what the last call did
  crossed,         \* history: a search was closed that was not the last
  calls
vars == << lib, dirent, data, open_files, wbuf, find_st, last, crossed, calls >>

Table == 1 .. Handles
(* History of a handle: what the program wrote, whether another handle     *)
(* wrote over it, whether all of it was taken.                             *)
Closed == [name |-> None, size |-> 0, pos |-> 0, writable |-> FALSE, wlen |-> 0,
           text |-> FALSE, pend_cr |-> FALSE, said |-> << >>, mixed |-> FALSE, whole |-> TRUE]
Nothing == [op |-> "none"]

Init ==
  /\ lib \in {"kernel32", "msvcrt"}
  /\ \E n \in Names : dirent = [i \in 1 .. DirSlots |-> IF i = 1 THEN n ELSE None]
  /\ data \in [Names -> Files]
  /\ \A n \in Names : n # dirent[1] => data[n] = << >>
  /\ open_files = [h \in Table |-> Closed] /\ wbuf = << >> /\ find_st = << >>
  /\ last = Nothing /\ crossed = FALSE /\ calls = 0

-----------------------------------------------------------------------------
(* The file system below.                                                  *)
Exists(n) == \E i \in 1 .. DirSlots : dirent[i] = n
Room == {i \in 1 .. DirSlots : dirent[i] = None}
Created(n) == [dirent EXCEPT ![CHOOSE i \in Room : \A j \in Room : i <= j] = n]
(* Entry k of the directory, from 0; there are as many as there are files. *)
Listed == SelectSeq(dirent, LAMBDA n : n # None)
Cut(s, n) == SubSeq(s, 1, IF Len(s) < n THEN Len(s) ELSE n)
(* mefs_write of a file: it fails without the file, and may for want of    *)
(* space.                                                                  *)
Stores(n, s) == data' = [data EXCEPT ![n] = s]

Call == calls < Calls /\ calls' = calls + 1 /\ UNCHANGED lib
FreeHandle == CHOOSE h \in Table : /\ open_files[h].name = None
                                   /\ \A g \in Table : open_files[g].name = None => h <= g
AllOpen == \A h \in Table : open_files[h].name # None
Opened(n, w, t) ==
  open_files' = [open_files EXCEPT ![FreeHandle] =
                   [Closed EXCEPT !.name = n, !.size = Len(data[n]), !.writable = w, !.text = t]]

(* CreateFileA: a file that is not there is made before the table is       *)
(* searched for a free entry.                                              *)
CreateFile(n, w, t, create) ==
  /\ lib = "kernel32" /\ Call
  /\ Exists(n) \/ (w /\ create /\ Room # {})
  /\ IF Exists(n) THEN UNCHANGED << dirent, data >>
     ELSE dirent' = Created(n) /\ Stores(n, << >>)
  /\ IF AllOpen THEN UNCHANGED open_files ELSE Opened(n, w, t)
  /\ last' = Nothing /\ UNCHANGED << wbuf, find_st, crossed >>
(* _open: whether the file could be made is not looked at; O_TRUNC empties *)
(* the file at once.                                                       *)
OpenFd(n, w, t, create, trunc) ==
  /\ lib = "msvcrt" /\ Call
  /\ Exists(n) \/ (w /\ create)
  /\ dirent' = IF Exists(n) \/ Room = {} THEN dirent ELSE Created(n)
  /\ ~AllOpen /\ Opened(n, w, t)
  /\ IF ~Exists(n) \/ trunc THEN Stores(n, << >>) ELSE UNCHANGED data
  /\ last' = Nothing /\ UNCHANGED << wbuf, find_st, crossed >>

-----------------------------------------------------------------------------
(* Writing.  In text mode a line end takes two bytes, if there is room.    *)
(* What s becomes behind len bytes.                                        *)
Encoded(s, len) ==
  LET e[k \in 0 .. Len(s)] ==
        IF k = 0 THEN << >>
        ELSE IF len + Len(e[k - 1]) >= WMax THEN e[k - 1]
        ELSE e[k - 1] \o (IF s[k] = LF /\ len + Len(e[k - 1]) + 1 < WMax
                          THEN << CR, LF >> ELSE << s[k] >>)
  IN  e[Len(s)]
Put(f, s) == IF f.text THEN Encoded(s, f.wlen) ELSE Cut(s, WMax - f.wlen)
(* How many of the program's bytes that is: all, when the buffer is not    *)
(* full after them.                                                        *)
Whole(f, s) == f.wlen + Len(Put(f, s)) < WMax
Over(b, at, s) == [i \in 1 .. (IF at + Len(s) > Len(b) THEN at + Len(s) ELSE Len(b)) |->
                     IF i > at /\ i <= at + Len(s) THEN s[i - at] ELSE b[i]]

(* WriteFile and _write, which does not look whether the file may be       *)
(* written.                                                                *)
Write(h, s) ==
  LET f == open_files[h]
      p == Put(f, s)
  IN  /\ Call /\ f.name # None /\ (lib = "kernel32" => f.writable)
      /\ wbuf' = Over(wbuf, f.wlen, p)
      /\ open_files' =
           [g \in Table |->
              IF g = h
              THEN [f EXCEPT !.wlen = @ + Len(p), !.said = @ \o s, !.whole = @ /\ Whole(f, s)]
              ELSE [open_files[g] EXCEPT !.mixed = @ \/ (p # << >> /\ open_files[g].wlen > f.wlen)]]
      /\ last' = Nothing /\ UNCHANGED << dirent, data, find_st, crossed >>

Stored(f) == SubSeq(wbuf, 1, f.wlen)
Save(f, ok) == IF ok /\ Exists(f.name) THEN Stores(f.name, Stored(f)) ELSE UNCHANGED data
(* CloseHandle and _close store the file of a handle that may write, what  *)
(* was written or nothing, and do not look whether that worked.            *)
Close(h, ok) ==
  LET f == open_files[h]
  IN  /\ Call /\ f.name # None
      /\ IF f.writable THEN Save(f, ok) ELSE UNCHANGED data
      /\ last' = [op |-> "close", f |-> f, ok |-> ok /\ f.writable /\ Exists(f.name)]
      /\ open_files' = [open_files EXCEPT ![h] = Closed]
      /\ UNCHANGED << dirent, wbuf, find_st, crossed >>
SetEndOfFile(h, ok) ==
  /\ lib = "kernel32" /\ Call /\ open_files[h].name # None /\ open_files[h].writable
  /\ Save(open_files[h], ok)
  /\ last' = Nothing /\ UNCHANGED << dirent, open_files, wbuf, find_st, crossed >>

-----------------------------------------------------------------------------
(* Reading.  In text mode a CR waits for the byte behind it; a chunk is    *)
(* passed over as a whole, also when there was no room for all of it.      *)
(* Of a byte c: what comes out, and whether it is a CR that waits.         *)
Step(w, c) ==
  [out  |-> IF w /\ c = LF THEN << LF >>
            ELSE (IF w THEN << CR >> ELSE << >>) \o (IF c = CR THEN << >> ELSE << c >>),
   wait |-> c = CR]
(* A chunk s into what is there, up to n bytes: kernel32 drops what does   *)
(* not fit, msvcrt writes one byte more.                                   *)
Taken(r, s, n) ==
  LET t[k \in 0 .. Len(s)] ==
        IF k = 0 THEN r
        ELSE IF Len(t[k - 1].out) >= n THEN t[k - 1]
        ELSE LET x == Step(t[k - 1].wait, s[k])
                 o == t[k - 1].out \o x.out
             IN  [out |-> IF lib = "kernel32" THEN Cut(o, n) ELSE o, wait |-> x.wait]
  IN  t[Len(s)]
TextRead(f, n) ==
  LET d == IF Exists(f.name) THEN data[f.name] ELSE << >>
      From(p) == Cut(SubSeq(d, p + 1, Len(d)), Chunk)
      R[k \in 0 .. Len(d) + 1] ==
        IF k = 0 THEN [out |-> << >>, wait |-> f.pend_cr, pos |-> f.pos]
        ELSE LET r == R[k - 1]
             IN  IF Len(r.out) >= n \/ From(r.pos) = << >> THEN r
                 ELSE LET t == Taken([out |-> r.out, wait |-> r.wait], From(r.pos), n)
                      IN  [out |-> t.out, wait |-> t.wait, pos |-> r.pos + Len(From(r.pos))]
      e == R[Len(d) + 1]
  IN  IF e.wait /\ Len(e.out) < n THEN [e EXCEPT !.out = Append(@, CR), !.wait = FALSE] ELSE e
BinaryRead(f, n) ==
  LET d == IF Exists(f.name) THEN data[f.name] ELSE << >>
      s == Cut(SubSeq(d, f.pos + 1, Len(d)), n)
  IN  [out |-> s, wait |-> f.pend_cr, pos |-> f.pos + Len(s)]
Read(h, n) ==
  LET f == open_files[h]
      r == IF f.text THEN TextRead(f, n) ELSE BinaryRead(f, n)
  IN  /\ Call /\ f.name # None
      /\ open_files' = [open_files EXCEPT ![h].pos = r.pos, ![h].pend_cr = r.wait]
      /\ last' = [op |-> "read", f |-> f, n |-> n, out |-> r.out]
      /\ UNCHANGED << dirent, data, wbuf, find_st, crossed >>

(* SetFilePointer, to a place within the size the file had when opened.    *)
SetFilePointer(h, d, method) ==
  LET f == open_files[h]
      base == CASE method = "begin" -> 0 [] method = "current" -> f.pos [] OTHER -> f.size
      p == IF d < 0 /\ base < -d THEN base ELSE base + d
  IN  /\ lib = "kernel32" /\ Call /\ f.name # None
      /\ open_files' = [open_files EXCEPT ![h].pos = IF p > f.size THEN f.size ELSE p]
      /\ last' = Nothing /\ UNCHANGED << dirent, data, wbuf, find_st, crossed >>

-----------------------------------------------------------------------------
(* Deleting, copying and moving.                                           *)
Gone(d, n) == [i \in 1 .. DirSlots |-> IF d[i] = n THEN None ELSE d[i]]
Delete(n) ==
  /\ lib = "kernel32" /\ Call /\ Exists(n)
  /\ dirent' = Gone(dirent, n) /\ UNCHANGED data
  /\ last' = Nothing /\ UNCHANGED << open_files, wbuf, find_st, crossed >>
(* CopyFileA: only to a name that is free; the new file stays, empty, when *)
(* it cannot be written.                                                   *)
CopyTo(src, dst, ok) ==
  /\ Exists(src) /\ ~Exists(dst) /\ Room # {}
  /\ Stores(dst, IF ok THEN data[src] ELSE << >>)
Copy(src, dst, ok) ==
  /\ lib = "kernel32" /\ Call /\ CopyTo(src, dst, ok) /\ dirent' = Created(dst)
  /\ last' = Nothing /\ UNCHANGED << open_files, wbuf, find_st, crossed >>
(* A bug: the source is deleted whatever became of the copy.               *)
MoveBlind(src, dst, ok) ==
  /\ lib = "kernel32" /\ Call /\ CopyTo(src, dst, ok)
  /\ dirent' = Gone(Created(dst), src)
  /\ last' = [op |-> "move", src |-> src, dst |-> dst]
  /\ UNCHANGED << open_files, wbuf, find_st, crossed >>
Move(src, dst, ok) ==
  /\ lib = "kernel32" /\ Call /\ CopyTo(src, dst, ok)
  /\ dirent' = IF ok THEN Gone(Created(dst), src) ELSE Created(dst)
  /\ last' = [op |-> "move", src |-> src, dst |-> dst]
  /\ UNCHANGED << open_files, wbuf, find_st, crossed >>

-----------------------------------------------------------------------------
(* Searches for all files.  A handle is a place in find_st; closing one    *)
(* closes the last one.  History: what was found, and the directory then.  *)
Search == [idx |-> 0, seen |-> << >>, at |-> Listed]
Advanced(s) == [s EXCEPT !.idx = @ + 1, !.seen = Append(@, Listed[s.idx + 1])]
FindFirst ==
  /\ lib = "kernel32" /\ Call /\ Len(find_st) < Finds
  /\ IF Listed = << >> THEN UNCHANGED find_st
     ELSE find_st' = Append(find_st, Advanced(Search))
  /\ last' = Nothing /\ UNCHANGED << dirent, data, open_files, wbuf, crossed >>
FindNext(i) ==
  /\ Call /\ i \in 1 .. Len(find_st)
  /\ IF find_st[i].idx < Len(Listed)
     THEN find_st' = [find_st EXCEPT ![i] = Advanced(@)] /\ last' = Nothing
     ELSE last' = [op |-> "found", s |-> find_st[i]] /\ UNCHANGED find_st
  /\ UNCHANGED << dirent, data, open_files, wbuf, crossed >>
FindClose(i) ==
  /\ Call /\ i \in 1 .. Len(find_st)
  /\ find_st' = SubSeq(find_st, 1, Len(find_st) - 1)
  /\ crossed' = (crossed \/ i # Len(find_st))
  /\ last' = Nothing /\ UNCHANGED << dirent, data, open_files, wbuf >>

Next ==
  \/ \E n \in Names, w, t, c \in BOOLEAN :
       CreateFile(n, w, t, c) \/ \E tr \in BOOLEAN : OpenFd(n, w, t, c, tr)
  \/ \E h \in Table : \/ \E s \in Texts : Write(h, s)
                      \/ \E ok \in BOOLEAN : Close(h, ok) \/ SetEndOfFile(h, ok)
                      \/ \E n \in Sizes : Read(h, n)
                      \/ \E d \in Seeks, m \in {"begin", "current", "end"} : SetFilePointer(h, d, m)
  \/ \E n \in Names : \/ Delete(n)
                      \/ \E m \in Names, ok \in BOOLEAN : Copy(n, m, ok) \/ Move(n, m, ok)
  \/ FindFirst \/ \E i \in 1 .. Finds : FindNext(i) \/ FindClose(i)
Spec == Init /\ [][Next]_vars

-----------------------------------------------------------------------------
(* Handles write within the buffer and read within the file they were      *)
(* opened on.                                                              *)
FilesTypeOK ==
  /\ \A h \in Table : open_files[h].name \in Names \cup {None} /\ open_files[h].wlen <= WMax
  /\ Len(wbuf) <= WMax /\ Len(find_st) <= Finds
  /\ \A i, j \in 1 .. DirSlots : dirent[i] = dirent[j] /\ dirent[i] # None => i = j

(* Lines: what a text reader sees in a file.                               *)
Lines(d) == LET keep == {i \in 1 .. Len(d) : ~(d[i] = CR /\ i < Len(d) /\ d[i + 1] = LF)}
                nth(k) == CHOOSE i \in keep : Cardinality({j \in keep : j < i}) = k - 1
            IN  [k \in 1 .. Cardinality(keep) |-> d[nth(k)]]

(* A file that was written and stored holds what the program wrote, if no  *)
(* other handle wrote to the buffer behind it: in text mode, what a text   *)
(* reader sees is the text.                                                *)
WriterSaves ==
  LET f == last.f
  IN  last.op = "close" => (last.ok /\ ~f.mixed /\ f.whole =>
        f.said = IF f.text THEN Lines(data[f.name]) ELSE data[f.name])

(* A text file that is read in one call is read as its lines, wherever the *)
(* chunks begin: a CR before an LF goes, any other stays.                  *)
ReadsLines ==
  last.op = "read" =>
    (last.f.text /\ last.f.pos = 0 /\ ~last.f.pend_cr /\ Exists(last.f.name)
       /\ last.n >= Len(data[last.f.name]) => last.out = Lines(data[last.f.name]))

(* Moving a file never loses what is in it, also when it cannot be copied. *)
MoveKeeps ==
  [][last'.op = "move" /\ calls' # calls =>
       \E i \in 1 .. DirSlots : dirent'[i] \in {last'.src, last'.dst}
                                /\ data'[dirent'[i]] = data[last'.src]]_vars

(* A search that comes to its end has found every file once, if nothing    *)
(* was created or deleted meanwhile and searches are closed in the order   *)
(* in which they nest.                                                     *)
FindsEach ==
  last.op = "found" =>
    (~crossed /\ last.s.at = Listed => last.s.seen = Listed)

(* A writer saves what it wrote whoever else writes.  Not kept: there is   *)
(* one buffer.                                                             *)
EveryWriterSaves ==
  LET f == last.f
  IN  last.op = "close" => (last.ok /\ f.whole /\ ~f.text => f.said = data[f.name])

(* A file that was opened for writing and not written stays as it was.     *)
(* Not kept: close writes an empty file.                                   *)
UnwrittenKept ==
  [][last'.op = "close" /\ calls' # calls /\ last'.f.said = << >> => data' = data]_vars
=============================================================================

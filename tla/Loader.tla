-------------------------------- MODULE Loader --------------------------------
(***************************************************************************)
(* How a program gets its memory: the modules (DLLs) that are read and     *)
(* relocated once at boot (kernel/win32.c), the image of an .exe           *)
(* (kernel/pe.c) or an ELF program (kernel/elf.c), its relocations and its *)
(* imports, and the modules mapped beside it.                              *)
(*                                                                         *)
(* A file is a sequence of words, and a word holds an address, a name (a   *)
(* number) or code.  Frames do not run out here: ProcMem is about that.    *)
(***************************************************************************)
EXTENDS Integers, Sequences, FiniteSets

CONSTANTS
  P,                    (* words of a page                                  *)
  USER_VADDR_BASE, USER_VADDR_END, PE_REBASE_BASE,
  WIN32_IDATA_VA, WIN32_IDATA_MAX, WIN32_TIB_VA, WIN32_RELOC_DELTA,
  dll_descs,            (* sequence of modules: name, base and file         *)
  Programs,             (* what can be run                                  *)
  CrtRet                (* << msvcrt.dll, _crt_ret >>                       *)

VARIABLES
  mods,                 \* the modules read at boot: bin, base, dll_idx
  pc,
  i, j, n,              \* the loops' counters
  file, base, space     \* what is being loaded, where, and the words mapped
vars == << mods, pc, i, j, n, file, base, space >>

Empty == << >>
Init ==
  /\ mods = << >> /\ pc = "boot" /\ i = 1 /\ j = 0 /\ n = 0
  /\ file = Empty /\ base = 0 /\ space = Empty

W(f, o) == IF o \in 0 .. Len(f.w) - 1 THEN f.w[o + 1] ELSE 0
PageOf(va) == va - (va % P)
PageAlign(va) == PageOf(va + P - 1)
(* paging_user_frame: of the address of a page only.                       *)
Mapped(va) == va % P = 0 /\ va \in DOMAIN space
(* Pages are mapped where there are none, and filled with content.         *)
Maps(va, end) ==
  /\ va = end \/ va % P = 0
  /\ va .. end - 1 \subseteq (USER_VADDR_BASE .. USER_VADDR_END - 1) \ DOMAIN space
With(va, end, content) ==
  [a \in DOMAIN space \cup va .. end - 1 |-> IF a \in DOMAIN space THEN space[a] ELSE content[a]]
Stored(va, w) == IF Mapped(PageOf(va)) THEN [space EXCEPT ![va] = w] ELSE space

-----------------------------------------------------------------------------
(* MODULES                                                                 *)
RelocVaToOff(f, va) ==
  LET S == {k \in DOMAIN f.segs : va \in f.segs[k].vaddr .. f.segs[k].vaddr + f.segs[k].filesz - 1}
      k == CHOOSE x \in S : \A y \in S : x <= y
  IN  IF S = {} THEN -1 ELSE f.segs[k].off + va - f.segs[k].vaddr
(* The words that the relocations of one of the four sections name.        *)
(* A bug: of the .rodata section they are not applied.                     *)
RelSectionsLess == {"text", "data", "exports"}
RelSections == {"text", "data", "exports", "rodata"}
apply_relocs(f, delta) ==
  [f EXCEPT !.w = [x \in DOMAIN f.w |->
     f.w[x] + delta * Cardinality({s \in RelSections :
                                     \E va \in f.rel[s] : RelocVaToOff(f, va) = x - 1})]]
(* load_one: a file that is missing, too large or without exports is left  *)
(* out and the others move up.                                             *)
LoadOne(found) ==
  /\ pc = "boot" /\ i <= Len(dll_descs)
  /\ i' = i + 1
  /\ mods' = IF ~found THEN mods
             ELSE Append(mods, [bin |-> apply_relocs(dll_descs[i].file, WIN32_RELOC_DELTA),
                                base |-> dll_descs[i].base + WIN32_RELOC_DELTA, dll_idx |-> i])
  /\ UNCHANGED << pc, j, n, file, base, space >>
Booted ==
  /\ pc = "boot" /\ i > Len(dll_descs) /\ pc' = "idle"
  /\ UNCHANGED << mods, i, j, n, file, base, space >>

find_module(dll) == {k \in DOMAIN mods : dll_descs[mods[k].dll_idx].name = dll}
win32_resolve(dll, fn) ==
  LET S == find_module(dll)
      f == mods[CHOOSE k \in S : TRUE].bin
  IN  IF S = {} \/ fn \notin DOMAIN f.exports THEN 0 ELSE W(f, f.exports[fn])

-----------------------------------------------------------------------------
(* THE IMAGE OF AN .EXE                                                    *)
InUser(va) == va >= USER_VADDR_BASE /\ va < USER_VADDR_END
Run(f) ==
  /\ pc = "idle" /\ file' = f /\ space' = Empty /\ i' = 1
  /\ pc' = IF ~f.ok THEN "failed" ELSE IF f.kind = "pe" THEN "sections" ELSE "segments"
  /\ base' = IF InUser(f.base) THEN f.base ELSE PE_REBASE_BASE
  /\ UNCHANGED << mods, j, n >>
Fails == pc' = "failed" /\ space' = Empty /\ UNCHANGED i

LoadSection ==
  /\ pc = "sections" /\ i <= Len(file.secs)
  /\ LET s == file.secs[i]
         va == base + s.va
         end == va + IF s.vsize > s.rsize THEN s.vsize ELSE s.rsize
         Content == [a \in va .. PageAlign(end) - 1 |->
                       IF a - va < s.rsize THEN W(file, s.rptr + a - va) ELSE 0]
     IN  IF Maps(va, PageAlign(end))
         THEN i' = i + 1 /\ space' = With(va, PageAlign(end), Content) /\ UNCHANGED pc
         ELSE Fails
  /\ UNCHANGED << mods, j, n, file, base >>
(* The page of the header is there although no section has it.             *)
LoadHeader ==
  /\ pc = "sections" /\ i > Len(file.secs)
  /\ LET Content == [a \in base .. base + P - 1 |-> W(file, a - base)]
     IN  IF Mapped(base) \/ Maps(base, base + P)
         THEN /\ space' = IF Mapped(base) THEN space ELSE With(base, base + P, Content)
              /\ pc' = "relocs" /\ i' = 0
         ELSE Fails
  /\ UNCHANGED << mods, j, n, file, base >>

pe_rva_to_off(rva) ==
  LET S == {k \in DOMAIN file.secs : file.secs[k].rsize # 0
              /\ rva \in file.secs[k].va .. file.secs[k].va + file.secs[k].vsize - 1}
      s == file.secs[CHOOSE x \in S : \A y \in S : x <= y]
  IN  IF S = {} THEN 0 ELSE s.rptr + rva - s.va

(* A block: the page, the words of the block, and the places in the page,  *)
(* or a negative number for an entry that does nothing.                    *)
RelocEnd ==
  LET end == pe_rva_to_off(file.reloc.rva) + file.reloc.size
  IN  IF end > Len(file.w) THEN Len(file.w) ELSE end
IsBlock(off) ==
  /\ base # file.base /\ file.reloc.rva # 0 /\ file.reloc.size # 0
  /\ off + 2 <= RelocEnd /\ W(file, off) # 0 /\ W(file, off + 1) >= 2
  /\ off + W(file, off + 1) <= RelocEnd
Target(off, k) == base + W(file, off) + W(file, k)
ApplyBlock ==
  /\ pc = "relocs"
  /\ LET off == pe_rva_to_off(file.reloc.rva) + i
         Entries(va) == {k \in off + 2 .. off + W(file, off + 1) - 1 :
                           W(file, k) >= 0 /\ Target(off, k) = va}
     IN  IF IsBlock(off)
         THEN /\ space' = [a \in DOMAIN space |->
                             space[a] + (base - file.base) * Cardinality(Entries(a))]
              /\ i' = i + W(file, off + 1) /\ UNCHANGED << pc, j, n >>
         ELSE pc' = "imports" /\ i' = 0 /\ j' = 0 /\ n' = 0 /\ UNCHANGED space
  /\ UNCHANGED << mods, file, base >>

-----------------------------------------------------------------------------
(* IMPORTS                                                                 *)
(* A descriptor is the list of names, the name of the module and the IAT.  *)
Desc == pe_rva_to_off(file.imports + i * 3)
oft == W(file, Desc)
dll == pe_rva_to_off(W(file, Desc + 1))
ft == W(file, Desc + 2)
IsDesc ==
  /\ file.imports # 0 /\ Desc # 0 /\ Desc + 3 <= Len(file.w)
  /\ ft # 0 /\ dll # 0 /\ dll < Len(file.w)
Thunk == pe_rva_to_off(oft + j)
th == W(file, Thunk)
IsThunk ==
  /\ Thunk # 0 /\ Thunk + 1 <= Len(file.w) /\ th # 0
  /\ th > 0 => pe_rva_to_off(th) # 0 /\ pe_rva_to_off(th) + 1 <= Len(file.w)
(* Ordinals are negative, and are names of their own.                      *)
Import ==
  /\ pc = "imports" /\ IsDesc /\ IsThunk
  /\ LET fn == IF th < 0 THEN th ELSE W(file, pe_rva_to_off(th))
         addr == win32_resolve(W(file, dll), fn)
         slot == base + ft + j
     IN  /\ space' = Stored(slot, addr)
         /\ n' = IF addr # 0 /\ Mapped(PageOf(slot)) THEN n + 1 ELSE n
  /\ j' = j + 1 /\ UNCHANGED << mods, pc, i, file, base >>
NextDesc ==
  /\ pc = "imports" /\ IsDesc /\ ~IsThunk /\ i' = i + 1 /\ j' = 0
  /\ UNCHANGED << mods, pc, n, file, base, space >>
LastDesc ==
  /\ pc = "imports" /\ ~IsDesc
  /\ pc' = (IF n = 0 THEN "idata" ELSE "modules") /\ i' = 1 /\ j' = 0
  /\ UNCHANGED << mods, n, file, base, space >>
(* The older table of slots at a fixed address: module, name, address.     *)
(* The frame of a slot is asked for by the address of the slot, so that    *)
(* only the slot at the beginning of the page is found.                    *)
Slot(k) == WIN32_IDATA_VA + (k - 1) * 3
IdataSlot ==
  /\ pc = "idata"
  /\ IF i <= WIN32_IDATA_MAX /\ Mapped(Slot(i)) /\ space[PageOf(Slot(i))] # 0
     THEN LET p == PageOf(Slot(i))
          IN  space' = [space EXCEPT ![p + 2] = win32_resolve(space[p], space[p + 1])]
              /\ i' = i + 1 /\ UNCHANGED pc
     ELSE pc' = "modules" /\ i' = 1 /\ UNCHANGED space
  /\ UNCHANGED << mods, j, n, file, base >>

-----------------------------------------------------------------------------
(* ELF PROGRAMS                                                            *)
LoadSegment ==
  /\ pc = "segments"
  /\ IF i > Len(file.segs) THEN pc' = "modules" /\ i' = 1 /\ UNCHANGED space
     ELSE LET s == file.segs[i]
              start == PageOf(s.vaddr)
              end == PageAlign(s.vaddr + s.memsz)
              Content == [a \in start .. end - 1 |->
                            IF a - s.vaddr \in 0 .. s.filesz - 1 THEN W(file, s.off + a - s.vaddr) ELSE 0]
          IN  IF Maps(start, end) /\ (s.filesz > 0 => s.vaddr % P = 0)
              THEN space' = With(start, end, Content) /\ i' = i + 1 /\ UNCHANGED pc
              ELSE Fails
  /\ UNCHANGED << mods, j, n, file, base >>

-----------------------------------------------------------------------------
(* THE MODULES BESIDE IT                                                   *)
(* Segment j of module i, where the module was relocated to.  When a page  *)
(* cannot be mapped the program starts without it and the rest.            *)
Reached(va, end) ==
  CHOOSE e \in va .. end : (e - va) % P = 0 /\ Maps(va, e) /\ (e = end \/ ~Maps(va, e + P))
MapModule ==
  /\ pc = "modules" /\ i <= Len(mods)
  /\ LET m == mods[i]
         s == m.bin.segs[j + 1]
         va == s.vaddr + m.base - PageOf(m.bin.segs[1].vaddr)
         end == PageAlign(va + s.memsz)
         Content == [a \in va .. Reached(va, end) - 1 |->
                       IF a - va < s.filesz THEN W(m.bin, s.off + a - va) ELSE 0]
     IN  /\ space' = With(va, Reached(va, end), Content)
         /\ pc' = IF Reached(va, end) = end THEN pc ELSE "stack"
         /\ IF j + 1 < Len(m.bin.segs) THEN j' = j + 1 /\ UNCHANGED i ELSE j' = 0 /\ i' = i + 1
  /\ UNCHANGED << mods, n, file, base >>
win32_tib_map ==
  /\ pc = "modules" /\ i > Len(mods) /\ pc' = "stack"
  /\ LET Content == [a \in WIN32_TIB_VA .. WIN32_TIB_VA + P - 1 |->
                       IF a = WIN32_TIB_VA THEN WIN32_TIB_VA ELSE 0]
     IN  space' = IF Maps(WIN32_TIB_VA, WIN32_TIB_VA + P)
                  THEN With(WIN32_TIB_VA, WIN32_TIB_VA + P, Content) ELSE space
  /\ UNCHANGED << mods, i, j, n, file, base >>
(* The stack, and on it the address main returns to.                       *)
Start ==
  /\ pc = "stack"
  /\ LET Content == [a \in USER_VADDR_END - P .. USER_VADDR_END - 1 |->
       IF a = USER_VADDR_END - 2 THEN win32_resolve(CrtRet[1], CrtRet[2]) ELSE 0]
     IN  IF Maps(USER_VADDR_END - P, USER_VADDR_END)
         THEN pc' = "started" /\ space' = With(USER_VADDR_END - P, USER_VADDR_END, Content)
         ELSE pc' = "failed" /\ space' = Empty
  /\ UNCHANGED << mods, i, j, n, file, base >>
Ends ==
  /\ pc \in {"started", "failed"} /\ pc' = "idle"
  /\ i' = 1 /\ j' = 0 /\ n' = 0 /\ file' = Empty /\ base' = 0 /\ space' = Empty
  /\ UNCHANGED mods

Next ==
  \/ (\E found \in BOOLEAN : LoadOne(found)) \/ Booted \/ (\E f \in Programs : Run(f))
  \/ LoadSection \/ LoadHeader \/ ApplyBlock \/ Import \/ NextDesc \/ LastDesc \/ IdataSlot
  \/ LoadSegment \/ MapModule \/ win32_tib_map \/ Start \/ Ends
Spec == Init /\ [][Next]_vars

-----------------------------------------------------------------------------
LoaderTypeOK ==
  /\ pc \in {"boot", "idle", "sections", "relocs", "imports", "idata", "segments", "modules",
             "stack", "started", "failed"}
  /\ Len(mods) <= Len(dll_descs) /\ DOMAIN space \subseteq USER_VADDR_BASE .. USER_VADDR_END - 1
  /\ \A a \in DOMAIN space : PageOf(a) .. PageOf(a) + P - 1 \subseteq DOMAIN space

(* A program starts with the words of its file where they were linked to   *)
(* be, moved with the image when they are addresses of it, and zeros       *)
(* behind them.  file.refs are the words the linker made addresses of,     *)
(* file.calls its imports: word, module and name.                          *)
Slots == {c[1] : c \in file.calls}
ImageAsLinked ==
  pc = "started" /\ file.kind = "pe" =>
    \A k \in DOMAIN file.secs :
      LET s == file.secs[k]
      IN  \A r \in (s.va .. s.va + s.vsize - 1) \ Slots :
            space[base + r] = (IF r - s.va < s.rsize THEN W(file, s.rptr + r - s.va) ELSE 0)
                              + (IF r \in file.refs THEN base - file.base ELSE 0)
(* The code a module's file has at the address its linker gave an export.  *)
Linked(d, va) == W(d.file, RelocVaToOff(d.file, va))
(* Every import leads to the code of that name, in the space of this       *)
(* program, whichever modules were found at boot; one that no module has   *)
(* is 0.                                                                   *)
ImportsBound ==
  pc = "started" =>
    \A c \in file.calls :
      LET a == space[base + c[1]]
          S == {k \in DOMAIN mods : LET d == dll_descs[mods[k].dll_idx]
                                    IN  d.name = c[2] /\ c[3] \in DOMAIN d.file.exports}
      IN  IF S = {} THEN a = 0
          ELSE LET d == dll_descs[mods[CHOOSE k \in S : TRUE].dll_idx]
               IN  a \in DOMAIN space /\ space[a] = Linked(d, W(d.file, d.file.exports[c[3]]))
(* Every pointer in a module leads to what it led to when it was linked:   *)
(* in the first program and in the tenth.                                  *)
ModulesAsLinked ==
  pc = "started" =>
    \A k \in DOMAIN mods :
      LET d == dll_descs[mods[k].dll_idx]
          delta == mods[k].base - d.base
      IN  \A s \in {"text", "data", "exports", "rodata"} : \A va \in d.file.rel[s] :
            /\ space[va + delta] \in DOMAIN space
            /\ space[space[va + delta]] = Linked(d, Linked(d, va))
(* What main returns to is the end of the C library.                       *)
ReturnsToCrt ==
  pc = "started" =>
    LET a == space[USER_VADDR_END - 2]
        S == {k \in DOMAIN mods : dll_descs[mods[k].dll_idx].name = CrtRet[1]}
    IN  IF S = {} THEN a = 0
        ELSE LET d == dll_descs[mods[CHOOSE k \in S : TRUE].dll_idx]
             IN  a \in DOMAIN space /\ space[a] = Linked(d, W(d.file, d.file.exports[CrtRet[2]]))
=============================================================================

------------------------------ MODULE MCServices ------------------------------
(* TLC instances of what serves a program beside its windows: the heaps    *)
(* (UserHeap, KernelHeap), how it is loaded (Loader), keyboard and mouse   *)
(* (Input), the registry (Registry), the file dialogs (FileDialog) and     *)
(* drawing (Gdi).  They share no state: a behaviour is one part's.         *)
EXTENDS UserHeap, KernelHeap, Input, FileDialog, TLC

VARIABLES part,
  mods, pc, row, col, bound, image, base, space,
  dev,
  rkeys, rvals, rval_n, rreg_inited, reg_file, wrote, told, reg_calls,
  gdi_obj, dc, px, drawn, back, given, draw_calls

registry == << rkeys, rvals, rval_n, rreg_inited, reg_file, wrote, told, reg_calls >>
loader == << mods, pc, row, col, bound, image, base, space >>
input == << dev, ivars >>
draw == << gdi_obj, dc, px, drawn, back, given, draw_calls >>
ServiceVars == << part, vars, kvars, loader, input, registry, fvars, draw >>

ASSUME HeapsAssumption == UserHeapParameters /\ KernelHeapParameters

(* Two modules, and programs of each kind: an .exe linked below user       *)
(* memory, with names, an ordinal and a name that nobody exports; one with *)
(* the older table; one that does not fit, one with two sections in a      *)
(* page; ELF programs with and without the beginning of a page.            *)
Sec(va, vsize, rptr, rsize) == [va |-> va, vsize |-> vsize, rptr |-> rptr, rsize |-> rsize]
Seg(off, vaddr, filesz, memsz) == [off |-> off, vaddr |-> vaddr, filesz |-> filesz, memsz |-> memsz]

Kernel32 == [w |-> << 0, 1011, 1012, 184, 184, 185 >>,
  segs |-> << Seg(1, 184, 3, 4), Seg(4, 192, 2, 3) >>,
  rel |-> [text |-> {}, data |-> {}, exports |-> {192, 193}, rodata |-> {186}],
  exports |-> (11 :> 4 @@ 12 :> 5)]
Msvcrt == [w |-> << 0, 0, 1021, 200, 1022, 200, 202 >>,
  segs |-> << Seg(2, 200, 3, 4), Seg(5, 208, 2, 2) >>,
  rel |-> [text |-> {}, data |-> {201}, exports |-> {208, 209}, rodata |-> {}],
  exports |-> (21 :> 5 @@ -8 :> 6)]
None3 == [rva |-> 0, size |-> 0]
Exe(w, b, secs, imports, reloc, refs, named) ==
  [kind |-> "pe", ok |-> TRUE, w |-> w, base |-> b, secs |-> secs, imports |-> imports,
   reloc |-> reloc, refs |-> refs, calls |-> named]
Real == Exe(<< 7, 7, 7, 7,  501, 16, 502, 0,
               25, 35, 31,  28, 36, 34,  0, 0, 0,  37, 38, 0,  -8, 0, 0,  37, 38, 0,  -8,
               1, 2, 11, 99, 0,  8, 4, 1, -1,  16, 3, 3, 0 >>,
  0, << Sec(8, 4, 4, 3), Sec(16, 23, 8, 23), Sec(40, 8, 32, 8) >>, 16, [rva |-> 40, size |-> 8],
  {9, 19}, {<< 31, 1, 11 >>, << 32, 1, 99 >>, << 34, 2, -8 >>})
Old == Exe(<< 7, 501, 1, 12, 0, 0, 0, 0 >>, 104, << Sec(0, 3, 1, 1), Sec(64, 6, 2, 6) >>, 0, None3,
  {}, {<< 66, 1, 12 >>})
Far == Exe(<< 7, 501, 502 >>, 104, << Sec(8, 1, 1, 1), Sec(144, 9, 2, 1) >>, 0, None3, {}, {})
Shared == Exe(<< 7, 501, 502 >>, 104, << Sec(8, 1, 1, 1), Sec(10, 1, 2, 1) >>, 0, None3, {}, {})
Elf(b, w, segs) == [kind |-> "elf", ok |-> TRUE, w |-> w, base |-> b, segs |-> segs, calls |-> {}]
Plain == Elf(104, << 7, 501, 502 >>, << Seg(1, 104, 2, 11) >>)
Uneven == Elf(104, << 7, 501, 502 >>, << Seg(1, 105, 2, 2) >>)
L == INSTANCE Loader WITH P <- 8, USER_VADDR_BASE <- 104, USER_VADDR_END <- 256, PE_REBASE_BASE <- 112,
  WIN32_IDATA_VA <- 168, WIN32_IDATA_MAX <- 3, WIN32_TIB_VA <- 176, WIN32_RELOC_DELTA <- 32,
  dll_descs <- << [name |-> 1, base |-> 184, file |-> Kernel32], [name |-> 2, base |-> 200, file |-> Msvcrt] >>,
  Programs <- {Real, Far, Old, Shared, Plain, Uneven, [Real EXCEPT !.ok = FALSE]},
  CrtRet <- << 2, 21 >>, i <- row, j <- col, n <- bound, file <- image

(* The modifiers of a keyboard, typing, a mouse's buttons, its moves, and  *)
(* a button with a key and a program that injects.                         *)
Moves == {-1, 1}
Still == valid' /\ \A k \in DOMAIN mwire' : mwire'[k] # [by |-> -1]
Uses ==
  /\ dev \in {"modifiers", "typing"} => mwire' = << >>
  /\ dev # "both" => inject' = << >>
  /\ dev = "modifiers" => down' \subseteq {"lshift", "rshift", "lctrl", "rctrl", "caps"}
  /\ dev = "typing" => down' \subseteq {"lshift", "a", "left"}
  /\ dev = "clicks" => down' = {} /\ Still
  /\ dev = "moves" => down' = {} /\ hand' \subseteq {"l"}
  /\ dev = "both" => down' \subseteq {"left"} /\ hand' \subseteq {"l"} /\ Still

(* Two programs, tables with two places, values longer than a line and     *)
(* than a value, and a file that overflows the buffer.                     *)
R == INSTANCE Registry WITH Procs <- {"p", "q"}, Paths <- {"k", "l"}, Names <- {"a", "b"}, Data <- {"x"},
       Sizes <- {0, 1, 3}, Types <- {"sz", "bin", "exp", "dword"}, MAX_KEYS <- 2, MAX_VALS <- 2,
       VAL_MAX <- 3, LINE_MAX <- 2, BUF_MAX <- 12, None <- "none", Calls <- 4,
       file <- reg_file, calls <- reg_calls

(* A directory with more names than the list and more rows than are seen.  *)
at == << "a", ".", "t" >>
Folders == {<< >>, << at >>, << << "b" >>, << "A" >>, at, << ".", "t" >>, << "a", "b" >> >>}
Patterns == {<< >>, << "a", "0", "*", ".", "t", "0", "b", "0", "*", ".", "*", "0" >>,
             << "*", ".", "b", ";", "*", ".", "t", "0", "*", ".", "b", "0" >>}
Small == [c \in {"A"} |-> "a"]

(* Two objects, one context in memory, a bitmap smaller than the window;   *)
(* figures that begin left of it, lines that end far outside.              *)
G == INSTANCE Gdi WITH Objs <- 2, MemDcs <- 1, Width <- 3, Widths <- {1, 2}, Places <- {-1, 0, 1},
       Colors <- {"r"}, Coords <- -7 .. 7, Bufs <- 2, Calls <- 5, held <- given, calls <- draw_calls

ServiceInit ==
  /\ part \in {"user_heap", "kernel_heap", "loader", "input", "registry", "dialog", "draw"}
  /\ dev \in {"modifiers", "typing", "clicks", "moves", "both"} /\ (part # "input" => dev = "both")
  /\ Init /\ KernelInit /\ L!Init /\ InputInit
  /\ R!Init /\ FileDialogInit /\ G!Init
  /\ part # "dialog" => is_save /\ out_n = 3
ServiceNext ==
  /\ UNCHANGED part
  /\ \/ part = "user_heap" /\ Next /\ UNCHANGED << kvars, loader, input, registry, fvars, draw >>
     \/ part = "kernel_heap" /\ KernelNext /\ UNCHANGED << vars, loader, input, registry, fvars, draw >>
     \/ part = "loader" /\ L!Next /\ UNCHANGED << vars, kvars, input, registry, fvars, draw >>
     \/ part = "input" /\ InputNext /\ Uses /\ UNCHANGED dev
          /\ UNCHANGED << vars, kvars, loader, registry, fvars, draw >>
     \/ part = "registry" /\ R!Next /\ UNCHANGED << vars, kvars, loader, input, fvars, draw >>
     \/ part = "dialog" /\ FileDialogNext /\ UNCHANGED << vars, kvars, loader, input, registry, draw >>
     \/ part = "draw" /\ G!Next /\ UNCHANGED << vars, kvars, loader, input, registry, fvars >>
ServiceSpec == ServiceInit /\ [][ServiceNext]_ServiceVars

(* What each part keeps, beside the heaps; its module says what the        *)
(* conjuncts mean.                                                         *)
(* elf.c, pe.c: when a program starts, its image, every import and every   *)
(* module beside it are as they were linked, moved as a whole, and main    *)
(* returns to the end of the C library.                                    *)
ProgramAsLinked ==
  part = "loader" => /\ L!LoaderTypeOK /\ L!ImageAsLinked /\ L!ImportsBound
                     /\ L!ModulesAsLinked /\ L!ReturnsToCrt
(* advapi32.c: a program reads the values it set, and what is saved comes  *)
(* back from registry.ini.                                                 *)
ValuesKept == part = "registry" => R!RegTypeOK /\ R!ReadsWhatItSet /\ R!ComesBack
(* gdi32: a handle is the object that was made, a line is as straight as   *)
(* pixels allow, and what a window shows covers what was drawn.            *)
DrawnAsMade ==
  part = "draw" => G!GdiTypeOK /\ G!HeldIsAsMade /\ G!DirtyCovers /\ G!LineIsStraight
=============================================================================

------------------------------- MODULE CrtExit -------------------------------
(***************************************************************************)
(* The end of a program that uses user/win32/msvcrt.c: the initialisers    *)
(* of _initterm, atexit and its table, exit, _exit and _cexit, which run   *)
(* the functions of the table, abort and _crt_ret, which do not.  A        *)
(* function may register others, call exit or _cexit, or abort.            *)
(***************************************************************************)
EXTENDS Integers, Sequences, FiniteSets

CONSTANTS
  Fns,             (* functions a program registers                         *)
  ATEXIT_MAX,      (* 32: entries of the table                              *)
  Inits, NoFn,     (* the table of _initterm, a sequence with NoFn in it    *)
  Depth            (* bound: calls of _cexit inside of each other           *)

ASSUME ExitAssumption ==
  /\ ATEXIT_MAX \in Nat /\ Depth \in Nat
  /\ Inits \in Seq({Inits[i] : i \in DOMAIN Inits})

VARIABLES
  at,              \* how far _initterm is
  atexit_tab, atexit_n,
  stack,           \* what runs: main, _cexit, functions
  reg, ran,        \* history: registered and still to run; run, in order
  over             \* "no", or how the process ended
xvars == << at, atexit_tab, atexit_n, stack, reg, ran, over >>

ExitInit ==
  /\ at = 1 /\ atexit_tab = [i \in 1 .. ATEXIT_MAX |-> NoFn] /\ atexit_n = 0
  /\ stack = << >> /\ reg = << >> /\ ran = << >> /\ over = "no"

Running == stack # << >> /\ over = "no"
Top == stack[Len(stack)]
Pop == SubSeq(stack, 1, Len(stack) - 1)
(* Code of the program, in main, in an initialiser or in a registered      *)
(* function, runs, not _cexit.                                             *)
Program == Running /\ Top.who # "_cexit"

(* _initterm: entries that are 0 are left out; then main.                  *)
InitTerm ==
  /\ stack = << >> /\ over = "no"
  /\ LET f == IF at > Len(Inits) THEN "main" ELSE Inits[at]
     IN  f # NoFn /\ stack' = << [who |-> f, exits |-> FALSE] >>
  /\ at' = at + 1 /\ UNCHANGED << atexit_tab, atexit_n, reg, ran, over >>
SkipInit ==
  /\ stack = << >> /\ over = "no" /\ at <= Len(Inits) /\ Inits[at] = NoFn
  /\ at' = at + 1 /\ UNCHANGED << atexit_tab, atexit_n, stack, reg, ran, over >>

Atexit(f) ==
  /\ Program /\ atexit_n < ATEXIT_MAX
  /\ atexit_tab' = [atexit_tab EXCEPT ![atexit_n + 1] = f] /\ atexit_n' = atexit_n + 1
  /\ reg' = Append(reg, f) /\ UNCHANGED << at, stack, ran, over >>

(* exit and _exit end the process when _cexit is through.                  *)
Cexit(exits) ==
  /\ Program /\ Cardinality({i \in DOMAIN stack : stack[i].who = "_cexit"}) < Depth
  /\ stack' = Append(stack, [who |-> "_cexit", exits |-> exits])
  /\ UNCHANGED << at, atexit_tab, atexit_n, reg, ran, over >>
(* The loop of _cexit: one function, or its end.                           *)
(* A bug: the entry is taken from the table when its function is through.  *)
CexitCallLate ==
  /\ Running /\ Top.who = "_cexit" /\ atexit_n > 0
  /\ stack' = Append(stack, [who |-> atexit_tab[atexit_n], exits |-> FALSE])
  /\ ran' = Append(ran, atexit_tab[atexit_n])
  /\ reg' = IF reg = << >> THEN reg ELSE SubSeq(reg, 1, Len(reg) - 1)
  /\ UNCHANGED << at, atexit_tab, atexit_n, over >>
CexitCall ==
  /\ Running /\ Top.who = "_cexit" /\ atexit_n > 0
  /\ atexit_n' = atexit_n - 1
  /\ stack' = Append(stack, [who |-> atexit_tab[atexit_n], exits |-> FALSE])
  /\ ran' = Append(ran, atexit_tab[atexit_n])
  /\ reg' = SubSeq(reg, 1, Len(reg) - 1)
  /\ UNCHANGED << at, atexit_tab, over >>
CexitEnd ==
  /\ Running /\ Top.who = "_cexit" /\ atexit_n = 0
  /\ IF Top.exits THEN over' = "exit" /\ UNCHANGED stack ELSE stack' = Pop /\ UNCHANGED over
  /\ UNCHANGED << at, atexit_tab, atexit_n, reg, ran >>

(* A function returns; main returns to _crt_ret, which ends the process.   *)
Return ==
  /\ Program
  /\ IF Top.who = "main" THEN over' = "return" /\ UNCHANGED stack
     ELSE stack' = Pop /\ UNCHANGED over
  /\ UNCHANGED << at, atexit_tab, atexit_n, reg, ran >>
Abort == Program /\ over' = "abort" /\ UNCHANGED << at, atexit_tab, atexit_n, stack, reg, ran >>

Registered == Len(ran) + Len(reg) <= ATEXIT_MAX + 1   \* bound: what is registered in all
ExitNext ==
  \/ InitTerm \/ SkipInit \/ \E e \in BOOLEAN : Cexit(e)
  \/ \E f \in Fns : Registered /\ Atexit(f)
  \/ CexitCall \/ CexitEnd \/ Return \/ Abort
ExitSpec == ExitInit /\ [][ExitNext]_xvars

-----------------------------------------------------------------------------
(* What runs is one of these, and no entry behind the table is written.    *)
Codes == Fns \cup {"main", "_cexit"} \cup {Inits[i] : i \in DOMAIN Inits}
ExitTypeOK ==
  /\ at \in Nat \ {0} /\ atexit_n \in 0 .. ATEXIT_MAX
  /\ atexit_tab \in [1 .. ATEXIT_MAX -> Fns \cup {NoFn}]
  /\ stack \in Seq([who : Codes, exits : BOOLEAN])
  /\ reg \in Seq(Fns) /\ ran \in Seq(Fns)
  /\ over \in {"no", "exit", "return", "abort"}

(* The table holds what is registered and not yet run, in order, also when *)
(* a function that _cexit runs registers others or calls _cexit again: so  *)
(* each runs once, the last one first.                                     *)
TableIsOwed ==
  over = "no" => /\ atexit_n = Len(reg)
                 /\ \A i \in 1 .. atexit_n : atexit_tab[i] = reg[i]
(* A process that ends by exit has run every function that was registered. *)
ExitRunsAll == over = "exit" => reg = << >>
(* exit runs every function that was registered once, the last one first.  *)
ExitKept == ExitTypeOK /\ TableIsOwed /\ ExitRunsAll
=============================================================================

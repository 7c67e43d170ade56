------------------------------- MODULE WinLock -------------------------------
(***************************************************************************)
(* The critical sections of user/win32/kernel32.c, as the threads of a     *)
(* process use them: EnterCriticalSection sets the bit with "lock btsl"    *)
(* and then looks at it, which are two steps; LeaveCriticalSection clears  *)
(* it.                                                                     *)
(***************************************************************************)
EXTENDS Integers

CONSTANT Threads
VARIABLES lock, pc
vars == << lock, pc >>

(* The section is initialised before it is used.                           *)
InitializeCriticalSection == lock = 0
Init == InitializeCriticalSection /\ pc = [t \in Threads |-> "out"]

Go(t, from, to) == pc[t] = from /\ pc' = [pc EXCEPT ![t] = to]
Want(t) == Go(t, "out", "set") /\ UNCHANGED lock
Set(t) == Go(t, "set", "look") /\ lock' = 1
Look(t) == /\ pc[t] = "look"
           /\ pc' = [pc EXCEPT ![t] = IF lock = 0 THEN "in" ELSE "set"]
           /\ UNCHANGED lock
LeaveCriticalSection(t) == Go(t, "in", "out") /\ lock' = 0

Next == \E t \in Threads : Want(t) \/ Set(t) \/ Look(t) \/ LeaveCriticalSection(t)
(* A thread that waits or is inside is scheduled again and again.          *)
Spec == Init /\ [][Next]_vars
        /\ \A t \in Threads : WF_vars(Set(t) \/ Look(t) \/ LeaveCriticalSection(t))

(* Whoever wants the section enters it, when those inside leave it.        *)
EnterReturns == \A t \in Threads : pc[t] = "set" ~> pc[t] = "in"
=============================================================================

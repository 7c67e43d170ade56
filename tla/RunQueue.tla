------------------------------ MODULE RunQueue ------------------------------
(***************************************************************************)
(* What the scheduler of kernel/task/task.c promises: a queue of the live  *)
(* tasks in the order of their next turns.  The running task, while it is  *)
(* alive, is the last of the queue; a new task goes to its front, before   *)
(* every task that has been waiting.                                       *)
(***************************************************************************)
EXTENDS Integers, Sequences

CONSTANTS
  Tasks,   (* the tasks there can be               *)
  First    (* the task that is there from the start *)

VARIABLES
  line,    \* live tasks, the next one to run first
  running  \* the task that has the processor, dead or alive

Queued(t) == \E i \in 1 .. Len(line) : line[i] = t

Init == line = << First >> /\ running = First

(* The timer gives the processor to the next task in line.                 *)
Turn ==
  /\ running' = Head(line)
  /\ line' = Append(Tail(line), Head(line))

(* The running task adds a task to the front of the queue ...              *)
Spawn(t) ==
  /\ Queued(running) /\ ~Queued(t)
  /\ line' = << t >> \o line
  /\ UNCHANGED running

(* ... or takes one out, possibly itself.  The first task stays.           *)
Drop(t) ==
  /\ Queued(running) /\ t # First
  /\ \E i \in 1 .. Len(line) :
       /\ line[i] = t
       /\ line' = SubSeq(line, 1, i - 1) \o SubSeq(line, i + 1, Len(line))
  /\ UNCHANGED running

Next == Turn \/ \E t \in Tasks : Spawn(t) \/ Drop(t)

Spec == Init /\ [][Next]_<< line, running >>
=============================================================================

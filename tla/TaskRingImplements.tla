------------------------- MODULE TaskRingImplements -------------------------
(***************************************************************************)
(* The circular list of TaskRing, read from the task after current on, is  *)
(* the queue of RunQueue: the tasks of the list, each of which is the next *)
(* of the one before it.                                                   *)
(***************************************************************************)
EXTENDS TaskRing

InTurn(ring, f, first) ==
  CHOOSE s \in [1 .. Cardinality(ring) -> ring] :
    /\ s[1] = first
    /\ \A i \in 1 .. Cardinality(ring) - 1 : s[i + 1] = f[s[i]]
Line == InTurn(Orbit(next[current]), next, next[current])

Queue == INSTANCE RunQueue
           WITH Tasks <- Slots, First <- Idle, line <- Line, running <- current

(* Every step of the scheduler is one of the queue or leaves it alone: a   *)
(* death takes out the dying task and its threads and nobody else, a       *)
(* creation changes nobody's order, a tick gives the turn to the next one. *)
(* It is so while no calls race.                                           *)
Implements ==
  Queue!Init /\ [][~raced' => [Queue!Next]_<< Line, current >>]_vars
=============================================================================

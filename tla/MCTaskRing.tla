---------------------------- MODULE MCTaskRing ----------------------------
(* TLC instance of TaskRing: directories are interchangeable model values. *)
EXTENDS TaskRingImplements, TLC

Unraced == ~raced

Directories == Permutations(PDs)

===========================================================================

------------------------------- MODULE MCMefs -------------------------------
(* TLC instances of Mefs.  Names, contents and tasks are interchangeable.  *)
(* A behaviour has files of several blocks, or directories and files of    *)
(* one, or a smaller disk on which the power or a sector fails once.       *)
EXTENDS Mefs, TLC

Swaps == Permutations(Names) \cup Permutations(Contents) \cup Permutations(Tasks)

VARIABLES part, entries2, fileCount2, cwd2, sectorBuf2, disk2, pc2, op2, want2, touched2, health2,
  clash2, crashes2, errors2
vars2 == << entries2, fileCount2, cwd2, sectorBuf2, disk2, pc2, op2, want2, touched2, health2,
            clash2, crashes2, errors2 >>

P == INSTANCE Mefs WITH Capacity <- 2, MaxLen <- 1,
       Calls <- {"create", "write", "delete", "flush", "format"}, MaxCrashes <- 1, MaxErrors <- 1,
       entries <- entries2, fileCount <- fileCount2, cwd <- cwd2, sectorBuf <- sectorBuf2,
       disk <- disk2, pc <- pc2, op <- op2, want <- want2, touched <- touched2, health <- health2,
       clash <- clash2, crashes <- crashes2, errors <- errors2

(* After the power cut or the failure, files are written and flushed.      *)
After == crashes2 + errors2 = 1 => \A t \in Tasks : pc2[t] = "idle" => op2'[t].kind \in {"none", "make", "write", "flush"}

DiskInit == part \in {"files", "dirs", "power"} /\ Init /\ P!Init
DiskNext ==
  /\ UNCHANGED part
  /\ \/ part = "files" /\ Next /\ cwd' = Root /\ (\A t \in Tasks : ~op'[t].new.dir) /\ UNCHANGED vars2
     \/ part = "dirs" /\ Next /\ (\A t \in Tasks : op'[t].len <= 1) /\ UNCHANGED vars2
     \/ part = "power" /\ P!Next /\ crashes2' + errors2' <= 1 /\ After /\ UNCHANGED vars
DiskSpec == DiskInit /\ [][DiskNext]_<< part, vars, vars2 >>

(* Through a loss of power or a failed sector: what was flushed is read    *)
(* after the restart, no block has two files and files read back.          *)
PowerSurvives ==
  part = "power" => P!IInv /\ P!FlushedSurvives /\ P!FilesOwnTheirBlocks /\ P!ReadsBack
=============================================================================

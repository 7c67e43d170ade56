-------------------------------- MODULE MCLibs --------------------------------
(* TLC instances of what the network and a program's libraries do.  The    *)
(* network: the TCP client (TcpClient), addresses and datagrams of several *)
(* tasks (NetIp), the bytes of packets and names (NetText), the ring of    *)
(* the card (RxRing).  winmm: sound (Sound).  kernel32 and msvcrt: files   *)
(* (WinFiles), texts (WinText) and how a program ends (CrtExit).  They     *)
(* share no state: a behaviour is one part's.                              *)
EXTENDS TcpClient, NetIp, Sound, CrtExit, TLC

VARIABLES part,
  input, result,
  rx_ring, addr, ptr, rx_capr, rx, arrived, read,
  lib, dirent, data, open_files, wbuf, find_st, last, crossed, file_calls,
  given, made

packet == << input, result >>
ring == << rx_ring, addr, ptr, rx_capr, rx, arrived, read >>
files == << lib, dirent, data, open_files, wbuf, find_st, last, crossed, file_calls >>
text == << given, made >>
net == << vars, nvars, packet, ring >>
libs == << files, text, xvars, svars >>
LibVars == << part, net, libs >>

(* Two tasks, two hosts and one that takes another's place, a cache with   *)
(* one entry.                                                              *)
IdOf == [n \in {"a", "c"} |-> IF n = "c" THEN 2 ELSE 1]

(* Names of up to seven of ".13a", labels of up to two letters, and numbers*)
(* up to 31, reckoned modulo 64.                                           *)
UpTo(S, n) == UNION {[1 .. k -> S] : k \in 0 .. n}
Record(o, t, d) == [owner |-> o, type |-> t, data |-> d]
P == INSTANCE NetText WITH Strings <- UpTo({46, 49, 51, 97}, 7), LABEL_MAX <- 2, WireMax <- 7,
       BYTE_MAX <- 31, Word <- 64, Base <- 4, CsumAt <- 2,
       Packets <- {d \in UNION {[1 .. k -> 0 .. 3] : k \in {4, 5, 6}} : d[3] = 0 /\ d[4] = 0},
       Frames <- [n : {33, 34, 41, 42, 46, 60}, ip : BOOLEAN, ihl : {20, 24}, proto : {6, 17},
                  port : {7, 8}, udplen : {7, 8, 12, 20}],
       Port <- 7, Rooms <- {0, 4, 12},
       Questions <- {<< 0 >>, << 2, 5, 6, 0 >>, << 1, 9, 2, 7, 8, 0 >>},
       Records <- {Record(o, x[1], x[2]) : o \in {<< 192, 12 >>, << 0 >>, << 1, 9, 0 >>},
                     x \in {<< 1, << 10, 0, 2, 2 >> >>, << 1, << 8, 8, 8, 8 >> >>, << 5, << 192, 12 >> >>,
                            << 5, << 3, 1, 0, 0 >> >>, << 1, << 9 >> >>}},
       AnswersMax <- 2, call <- input

(* Frames shorter and longer than the rooms, until the ring is full.         *)
X == INSTANCE RxRing WITH RX_WRAP <- 12, TAIL <- 1, Lengths <- {1, 2, 4}, Rooms <- {1, 2, 4},
       Traffic <- 11, Reads <- 5, got <- read

(* Two names, two slots, two handles; contents with line ends whole, alone *)
(* and cut by a read; a search more than there is room for.                *)
F == INSTANCE WinFiles WITH Names <- {"f", "g"}, None <- "none", DirSlots <- 2, Handles <- 2,
       WMax <- 4, Chunk <- 2, Finds <- 2, CR <- "r", LF <- "n",
       Files <- {<< >>, << "r", "n" >>, << "a", "r", "r", "n", "b" >>, << "r", "a", "r" >>},
       Texts <- {<< "a" >>, << "r", "n" >>, << "b", "n", "a" >>},
       Sizes <- {1, 5}, Seeks <- {-1, 1}, Calls <- 4, calls <- file_calls

Line(kind, name, value) == [kind |-> kind, name |-> name, value |-> value]
(* All patterns, names, formats and command lines of these lengths.        *)
T == INSTANCE WinText WITH Patterns <- UpTo({"a", "*", "?"}, 4), Found <- UpTo({"a", "b"}, 4),
       Lines <- {Line("section", "s", "empty"), Line("section", "t", "empty"), Line("entry", "k", "v"),
                 Line("entry", "k", "empty"), Line("entry", "j", "w"), Line("other", "k", "empty")},
       LinesMax <- 4, Formats <- UpTo({"x", "%", "1", "2"}, 4),
       Params <- {<< >>, << << "p", "q" >>, << "r" >> >>, << << "%", "1" >>, << "s", "t", "u" >> >>},
       Room <- {1, 2, 4}, Commands <- UpTo({"a", " ", "'"}, 7), ArgMax <- 4, call <- given, result <- made,
       Words <- {<< >>, << "a" >>, << "a", " ", "b" >>, << " " >>, << "a", "b" >>, << "a", "'", "b" >>},
       Fields <- {<< >>, << "2" >>, << "-", "2" >>, << "3" >>, << "0", "3" >>, << "-", "3" >>, << "1", "0" >>},
       Bits <- 5

(* Sounds shorter and longer than the buffer of the codec and than a copy, *)
(* some to be converted, with a frame cut off; WAV files with a chunk of   *)
(* odd length, without data, and cut off.                                  *)
Samples(len) == [k \in 1 .. len |-> k]
As(ch, bits) == [ch |-> ch, bits |-> bits]
Clips == {Samples(1), Samples(6)}
Byte22 == 0 .. 22
Waves == {As(1, 8), As(2, 8), As(1, 16), As(2, 16), As(3, 24)}
WaveFile == [f \in {"f", "g"} |-> IF f = "f" THEN [ok |-> TRUE, data |-> Samples(22), format |-> As(2, 16)]
                                  ELSE [ok |-> FALSE, data |-> Samples(1), format |-> As(1, 8)]]
Part(id, size) == [id |-> id, size |-> size]
Riffs == {[len |-> 15, chunk |-> (3 :> Part("fmt", 3) @@ 8 :> Part("data", 9))],
          [len |-> 14, chunk |-> (3 :> Part("fmt", 2) @@ 7 :> Part("list", 1) @@ 11 :> Part("data", 1))],
          [len |-> 15, chunk |-> (3 :> Part("fmt", 2) @@ 7 :> Part("list", 1) @@ 11 :> Part("data", 2))],
          [len |-> 9, chunk |-> (3 :> Part("fmt", 2) @@ 7 :> Part("list", 30))],
          [len |-> 9, chunk |-> (3 :> Part("fmt", 4))]}

(* An empty entry, and an initialiser.                                     *)
Starts == << NoFn, "i" >>

LibInit == /\ part \in {"tcp", "hosts", "packet", "ring", "files", "text", "exit", "sound"}
           /\ mac = [h \in {"srv", "h"} |-> IF h = "srv" THEN "2" ELSE "1"]
           /\ part # "packet" => input = [op |-> "sum", d |-> << 0, 0, 0, 0 >>]
           /\ Init /\ NetInit /\ P!Init /\ X!Init /\ F!Init /\ ExitInit /\ SoundInit
           /\ part # "files" => lib = "msvcrt" /\ dirent[1] = "f" /\ data["f"] = << >>
           /\ IF part = "text" THEN T!Init ELSE given = [op |-> "none"] /\ made = << >>
LibNext ==
  /\ UNCHANGED part
  /\ \/ part = "tcp" /\ Next /\ UNCHANGED << nvars, packet, ring, libs >>
     \/ part = "hosts" /\ NetNext /\ UNCHANGED << vars, packet, ring, libs >>
     \/ part = "packet" /\ P!Next /\ UNCHANGED << vars, nvars, ring, libs >>
     \/ part = "ring" /\ X!Next /\ UNCHANGED << vars, nvars, packet, libs >>
     \/ part = "files" /\ F!Next /\ UNCHANGED << net, text, xvars, svars >>
     \/ part = "text" /\ T!Next /\ UNCHANGED << net, files, xvars, svars >>
     \/ part = "exit" /\ ExitNext /\ UNCHANGED << net, files, text, svars >>
     \/ part = "sound" /\ SoundNext /\ UNCHANGED << net, files, text, xvars >>
(* No call waits in a part that does not run.                              *)
LibSpec == LibInit /\ [][LibNext]_LibVars /\ WF_vars(Resend \/ GiveUp \/ RecvTimeout) /\ NetFair
             /\ SoundFair

(* Every call into the kernel returns: one that waits for a connection,    *)
(* those of two tasks at once for addresses and datagrams, or to play.     *)
EveryCallReturns == CallsReturn /\ NetReturns /\ PlayReturns
(* What the other parts keep; their modules say what the conjuncts mean.   *)
(* rtl8139.c: frames are read as they came, over the end of the ring.  The *)
(* bytes in them: names, addresses, sums and datagrams are what the wire   *)
(* says, and a cut answer never gives another address.                     *)
PacketsRead ==
  /\ X!ReadsInOrder
  /\ part = "packet" => /\ P!WireNames /\ P!AddressesAgree /\ P!ChecksumHolds
                        /\ P!UdpFits /\ P!FirstAddress
(* Files of msvcrt and kernel32: what is written is saved, a reader gets   *)
(* the lines, a search finds each file and a move loses nothing.           *)
FilesKept ==
  /\ [](part = "files" => F!FilesTypeOK /\ F!WriterSaves /\ F!ReadsLines /\ F!FindsEach)
  /\ F!MoveKeeps
(* Patterns, ini files, code pages, messages, command lines, fields of     *)
(* printf and MulDiv give what their definitions say; the data of a WAV    *)
(* file is found where it is.                                              *)
TextsAsMeant ==
  /\ part = "text" => /\ T!MatchesPieces /\ T!FirstOfSection /\ T!BytesReturn /\ T!MessageFits
                      /\ T!WordsFit /\ T!WordsArrive /\ T!WidthKept /\ T!MulDivNearest
  /\ part = "sound" /\ plays = << >> => FindsData
=============================================================================

-------------------------------- MODULE Sound --------------------------------
(***************************************************************************)
(* Sound, from the program to the codec: user/win32/winmm.c (files, the    *)
(* wave output and the mci commands), SYS_AUDIO_PLAY of kernel/syscall.c   *)
(* and kernel/drivers/ac97.c.  A byte of a sound is any value, which the   *)
(* model only moves; a halfword is its low byte and its high byte.         *)
(***************************************************************************)
EXTENDS Integers, Sequences

CONSTANTS
  Players,          (* tasks that play                                      *)
  WaveFiles, Tunes, (* the file of each name; names of files and aliases    *)
  Formats, Sounds,  (* formats and sounds of waveOutWrite                   *)
  Bytes,            (* what a byte of a sound may be, 0 among them          *)
  CHUNK, FRAMES,    (* bytes of a copy into the kernel, whole frames; frames*)
                    (* of the buffer                                        *)
  LEN_MAX,          (* a megabyte: what may be played at once               *)
  Wavs, Mod,        (* files as chunks, for the parser; 2^32                *)
  PlayMax           (* bound on the calls of the tasks                      *)

ASSUME SoundAssumption ==
  /\ CHUNK \in Nat \ {0} /\ CHUNK % 4 = 0 /\ FRAMES \in Nat \ {0}
  /\ LEN_MAX \in Nat /\ PlayMax \in Nat /\ 0 \in Bytes
  /\ Sounds \subseteq Seq(Bytes) /\ \A f \in DOMAIN WaveFiles : WaveFiles[f].data \in Seq(Bytes)

NoSound == << >>

VARIABLES
  wave_out_open, wo,       \* each task's winmm: a device is open, its format
  alias, file,             \* the names of the last mci open
  play,                    \* of each task: the data it plays, how far it is;
                           \* history: the sound that is of, and its format
  res,                     \* what the last call returned
  ac97_buf, bd,            \* the driver's buffer; halfwords for the codec
  running,                 \* the codec plays
  heard, played,           \* history: what it was given; frames of each call
  plays
svars == << wave_out_open, wo, alias, file, play, res, ac97_buf, bd, running, heard, played, plays >>

Stereo == [ch |-> 2, bits |-> 16]
Silent == [at |-> "no", data |-> NoSound, base |-> 0, end |-> 0, off |-> 0, of |-> NoSound, as |-> Stereo]
SoundInit ==
  /\ wave_out_open = [t \in Players |-> FALSE]
  /\ wo = [t \in Players |-> [ch |-> 0, bits |-> 0]]
  /\ alias = [t \in Players |-> "-"] /\ file = [t \in Players |-> "-"]
  /\ play = [t \in Players |-> Silent] /\ res = [t \in Players |-> "none"]
  /\ ac97_buf = NoSound /\ bd = 0 /\ running = FALSE
  /\ heard = NoSound /\ played = [t \in Players |-> 0] /\ plays = << >>

Smaller(a, b) == IF a < b THEN a ELSE b

-----------------------------------------------------------------------------
(* wav_play: 16-bit stereo as it is; otherwise frame by frame, one channel *)
(* twice and a byte as the high one of a sample.                           *)
Fits(f) == [ch |-> IF f.ch \in {1, 2} THEN f.ch ELSE 2, bits |-> IF f.bits \in {8, 16} THEN f.bits ELSE 16]
Sample(d, i, bits) == IF bits = 8 THEN << 0, d[i] >> ELSE << d[i], d[i + 1] >>
Converted(d, f) ==
  LET w == f.bits \div 8
      step == w * f.ch
      C[k \in 0 .. Len(d) \div step] ==
        IF k = 0 THEN NoSound
        ELSE LET i == (k - 1) * step + 1
             IN  C[k - 1] \o Sample(d, i, f.bits) \o Sample(d, IF f.ch = 2 THEN i + w ELSE i, f.bits)
  IN  C[Len(d) \div step]
Direct(f) == Fits(f) = Stereo
ToPlay(d, f) == IF Direct(f) THEN d ELSE Converted(d, Fits(f))

-----------------------------------------------------------------------------
Begins(t) == play[t].at = "no" /\ Len(plays) < PlayMax /\ plays' = Append(plays, t)
Ends(t, r) == res' = [res EXCEPT ![t] = r] /\ play' = [play EXCEPT ![t] = Silent]
Codec == << ac97_buf, bd, running, heard >>
Mine == << wave_out_open, wo, alias, file >>
(* wav_play and SYS_AUDIO_PLAY: no data is no failure, but a conversion    *)
(* that needs memory fails without it, and a sound that it leaves without  *)
(* a frame, or that is too long, is refused.                               *)
Plays(t, d, f) ==
  LET s == ToPlay(d, f)
  IN  /\ played' = [played EXCEPT ![t] = 0]
      /\ \/ d = NoSound /\ Ends(t, "ok")
         \/ d # NoSound /\ (s = NoSound \/ Len(s) > LEN_MAX \/ ~Direct(f)) /\ Ends(t, "failed")
         \/ /\ s # NoSound /\ Len(s) <= LEN_MAX
            /\ play' = [play EXCEPT ![t] =
                          [Silent EXCEPT !.at = "chunk", !.data = s, !.of = d, !.as = Fits(f)]]
            /\ UNCHANGED res
(* play_file: nothing when there is no such file, or no data in it.        *)
PlayFile(t, name) ==
  \/ name \in DOMAIN WaveFiles /\ WaveFiles[name].ok /\ Plays(t, WaveFiles[name].data, WaveFiles[name].format)
  \/ Ends(t, "failed") /\ UNCHANGED played
PlaySound(t, name) == Begins(t) /\ PlayFile(t, name) /\ UNCHANGED << Mine, Codec >>
waveOutOpen(t, f) ==
  /\ Begins(t)
  /\ IF wave_out_open[t] THEN Ends(t, "allocated") /\ UNCHANGED << wave_out_open, wo >>
     ELSE /\ wave_out_open' = [wave_out_open EXCEPT ![t] = TRUE]
          /\ wo' = [wo EXCEPT ![t] = Fits(f)] /\ Ends(t, "ok")
  /\ UNCHANGED << alias, file, played, Codec >>
waveOutClose(t) ==
  /\ Begins(t) /\ wave_out_open' = [wave_out_open EXCEPT ![t] = FALSE] /\ Ends(t, "ok")
  /\ UNCHANGED << wo, alias, file, played, Codec >>
(* waveOutWrite looks at the format, not whether the output is open.       *)
waveOutWrite(t, d) ==
  /\ Begins(t) /\ d # NoSound /\ Plays(t, d, wo[t]) /\ UNCHANGED << Mine, Codec >>
(* mciSendStringA: open keeps the two names, play takes its word for the   *)
(* name of a file.                                                         *)
MciOpen(t, name, as) ==
  /\ Begins(t) /\ file' = [file EXCEPT ![t] = name] /\ alias' = [alias EXCEPT ![t] = as]
  /\ Ends(t, "ok") /\ UNCHANGED << wave_out_open, wo, played, Codec >>
MciPlay(t, word) ==
  /\ Begins(t) /\ file' = [file EXCEPT ![t] = word] /\ PlayFile(t, word)
  /\ UNCHANGED << wave_out_open, wo, alias, Codec >>

-----------------------------------------------------------------------------
(* The system call: chunk by chunk into memory of the kernel, when there   *)
(* is some.                                                                *)
NextChunk(t) ==
  /\ play[t].at = "chunk"
  /\ IF play[t].base >= Len(play[t].data) THEN Ends(t, "ok")
     ELSE \/ /\ play' = [play EXCEPT ![t] = [@ EXCEPT !.at = "piece", !.off = play[t].base,
                           !.end = Smaller(play[t].base + CHUNK, Len(play[t].data))]]
             /\ UNCHANGED res
          \/ Ends(t, "failed")
  /\ UNCHANGED << Mine, Codec, played, plays >>
(* ac97_play_kernel: a byte and the next one make a halfword, for every    *)
(* byte of the piece; the codec is told of the frames the piece has.       *)
PieceLen(c) == Smaller(c.end - c.off, 4 * FRAMES)
Byte(d, i) == IF i \in DOMAIN d THEN d[i] ELSE 0
Piece(t) ==
  LET c == play[t]  n == PieceLen(c)
  IN  /\ c.at = "piece"
      /\ ac97_buf' = [i \in 1 .. n |-> << c.data[c.off + i], Byte(c.data, c.off + i + 1) >>]
      /\ play' = [play EXCEPT ![t] =
                    IF n \div 4 = 0 THEN [c EXCEPT !.at = "chunk", !.base = c.base + CHUNK]
                    ELSE [c EXCEPT !.at = "run", !.off = c.off + n]]
      /\ bd' = IF n \div 4 = 0 THEN bd ELSE 2 * (n \div 4)
      /\ UNCHANGED << Mine, res, running, heard, played, plays >>
Run(t) ==
  /\ play[t].at = "run" /\ running' = TRUE
  /\ play' = [play EXCEPT ![t].at = "wait"]
  /\ heard' = SubSeq(ac97_buf, 1, Smaller(bd, Len(ac97_buf)))
  /\ played' = [played EXCEPT ![t] = @ + bd \div 2]
  /\ UNCHANGED << Mine, res, ac97_buf, bd, plays >>
CodecDone == running /\ running' = FALSE /\ UNCHANGED << Mine, play, res, ac97_buf, bd, heard, played, plays >>
(* A bug: the rest of the chunk is left out.                               *)
PolledOnce(t) ==
  LET c == play[t]
  IN  /\ c.at = "wait"
      /\ IF running THEN Ends(t, "failed")
         ELSE /\ play' = [play EXCEPT ![t] = [c EXCEPT !.at = "chunk", !.base = c.base + CHUNK]]
              /\ UNCHANGED res
      /\ UNCHANGED << Mine, Codec, played, plays >>
(* The poll: the buffer is through, or it was looked at often enough.      *)
Polled(t) ==
  LET c == play[t]
  IN  /\ c.at = "wait"
      /\ IF running THEN Ends(t, "failed")
         ELSE /\ play' = [play EXCEPT ![t] = IF c.off < c.end THEN [c EXCEPT !.at = "piece"]
                                             ELSE [c EXCEPT !.at = "chunk", !.base = c.base + CHUNK]]
              /\ UNCHANGED res
      /\ UNCHANGED << Mine, Codec, played, plays >>

SoundNext == CodecDone \/ \E t \in Players :
  \/ \E n \in Tunes : PlaySound(t, n) \/ MciPlay(t, n) \/ \E a \in Tunes : MciOpen(t, n, a)
  \/ \E f \in Formats : waveOutOpen(t, f)
  \/ waveOutClose(t) \/ \E d \in Sounds : waveOutWrite(t, d)
  \/ NextChunk(t) \/ Piece(t) \/ Run(t) \/ Polled(t)
SoundSpec == SoundInit /\ [][SoundNext]_svars
(* The kernel goes on with a call; every poll has an end.                  *)
SoundFair == \A t \in Players : WF_svars(NextChunk(t) \/ Piece(t) \/ Run(t) \/ Polled(t))

-----------------------------------------------------------------------------
(* wav_parse: where the data of a file is.  A file is its length and the   *)
(* chunk headers, by where they stand; the file's header is 12 bytes, a    *)
(* chunk's 8, in units of 4; positions are numbers of w bits.              *)
NoData == [at |-> 0, len |-> 0]
After(p, size) == (p + 2 + size + (size % 2)) % Mod
WavData(w, p) ==
  LET size == w.chunk[p].size
  IN  [at |-> p + 2, len |-> IF (p + 2 + size) % Mod > w.len THEN w.len - (p + 2) ELSE size]
(* Where the loop is after so many chunks: "lost" without an end in sight. *)
Parsed(w, n) ==
  LET P[i \in 0 .. n] ==
        IF i = 0 THEN [p |-> 3, found |-> NoData]
        ELSE LET s == P[i - 1]
             IN  IF s.found # NoData \/ s.p + 2 > w.len \/ s.p \notin DOMAIN w.chunk THEN s
                 ELSE IF w.chunk[s.p].id = "data" THEN [s EXCEPT !.found = WavData(w, s.p)]
                 ELSE [s EXCEPT !.p = After(s.p, w.chunk[s.p].size)]
  IN  P[n]

-----------------------------------------------------------------------------
(* A piece is no longer than the buffer has frames, and a call is within   *)
(* the data it was given.                                                  *)
SoundTypeOK ==
  /\ bd <= 2 * FRAMES
  /\ \A t \in Players : LET c == play[t] IN
       /\ c.off <= Len(c.data) /\ c.end <= Len(c.data)
       /\ c.at = "wait" => c.off <= c.end

(* Every frame of the sound that a program plays becomes a frame of two    *)
(* samples of 16 bits, in order, the left one first.                       *)
FramesOf(d, f) == Len(d) \div ((f.bits \div 8) * f.ch)
Frame(d, f, k, side) ==
  LET w == f.bits \div 8  i == (k - 1) * w * f.ch + 1 + (IF side = 2 /\ f.ch = 2 THEN w ELSE 0)
  IN  Sample(d, i, f.bits)
KeepsFrames ==
  \A t \in Players : play[t].at # "no" =>
    LET c == play[t].data  d == play[t].of  f == play[t].as
    IN  /\ Len(c) \div 4 = FramesOf(d, f) /\ (f # Stereo => Len(c) = 4 * FramesOf(d, f))
        /\ \A k \in 1 .. FramesOf(d, f) : /\ << c[4 * k - 3], c[4 * k - 2] >> = Frame(d, f, k, 1)
                                          /\ << c[4 * k - 1], c[4 * k] >> = Frame(d, f, k, 2)

(* A call that is through with its sound has given the codec every frame   *)
(* of it, however long it is, when nobody else plays.                      *)
AllFramesPlayed ==
  \A t \in Players :
    (\A i \in DOMAIN plays : plays[i] = t) /\ play[t].at = "chunk" /\ play[t].base >= Len(play[t].data) =>
      played[t] = FramesOf(play[t].of, play[t].as)

(* winmm.c, SYS_AUDIO_PLAY, ac97.c: the whole sound reaches the codec,     *)
(* frame by frame.                                                         *)
SoundKept == SoundTypeOK /\ KeepsFrames /\ AllFramesPlayed

(* A file whose chunks are as long as they say and end within the file is  *)
(* read up to its data, and the data is in the file.                       *)
Sound(w) == \A p \in DOMAIN w.chunk : w.chunk[p].id # "data" =>
  LET q == p + 2 + w.chunk[p].size + (w.chunk[p].size % 2) IN q \in DOMAIN w.chunk \/ q = w.len
FindsData ==
  \A w \in {w \in Wavs : Sound(w)} :
    LET r == Parsed(w, w.len)
        places == {p \in DOMAIN w.chunk : w.chunk[p].id = "data"}
    IN  /\ places # {} => \E p \in places : r.found.at = p + 2 /\ r.found.at + r.found.len <= w.len
        /\ places = {} => r.found = NoData

(* A call that plays returns.                                              *)
PlayReturns == \A t \in Players : play[t].at # "no" ~> play[t].at = "no"

(* "reproduce PCM (16-bit stereo, tasa `rate`) que ya vive en RAM del      *)
(* kernel" (ac97.c:161): what the codec is given are the halfwords of the  *)
(* sound.  Not kept: every byte becomes one.                               *)
PlaysTheData == \A t \in Players : play[t].at = "wait" => \A i \in DOMAIN heard :
  \E k \in 0 .. Len(play[t].data) \div 2 - 1 :
    heard[i] = << play[t].data[2 * k + 1], play[t].data[2 * k + 2] >>
(* "1 s a 48 kHz stereo 16-bit (192 KB)" (ac97.c:79): it is written within. *)
(* Not kept, for the same reason.                                          *)
InBuffer == Len(ac97_buf) <= 2 * FRAMES
=============================================================================

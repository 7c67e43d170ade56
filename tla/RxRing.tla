-------------------------------- MODULE RxRing --------------------------------
(***************************************************************************)
(* The receive ring of kernel/drivers/rtl8139.c.  The chip writes frames,  *)
(* each behind a header of one word, one after the other around the ring;  *)
(* the driver has a place of its own where the next one should be, reads   *)
(* the header there, and tells the chip how far it is.  Nothing clears a   *)
(* header that was read.                                                   *)
(*                                                                         *)
(* Sizes are in words of four bytes.                                       *)
(***************************************************************************)
EXTENDS Integers, Sequences

CONSTANTS
  RX_WRAP, TAIL,      (* the ring, 64 KB, and the 16 bytes behind it        *)
  Lengths, Rooms,     (* of frames; of the callers' buffers                 *)
  Traffic, Reads      (* bound what the chip writes, in words, and the calls*)

VARIABLES
  rx_ring, addr, ptr, \* the words; where the chip writes, what it keeps
  rx_capr,            \* where the driver reads next
  rx,                 \* the call of rtl8139_rx: room and capr, or << >>
  arrived, got        \* history: the sizes of the frames kept; the answers
vars == << rx_ring, addr, ptr, rx_capr, rx, arrived, got >>

(* A word is a header for whoever takes it for one.                        *)
Word(ok, len, frame, k) == [ok |-> ok, len |-> len, frame |-> frame, k |-> k]
Empty == Word(FALSE, 0, 0, 0)
(* rtl8139_init: CAPR is 0, four words behind for the chip.                *)
Init ==
  /\ rx_ring = [i \in 0 .. RX_WRAP + TAIL - 1 |-> Empty] /\ addr = 0 /\ ptr = 4 % RX_WRAP
  /\ rx_capr = 0 /\ rx = << >> /\ arrived = << >> /\ got = << >>

-----------------------------------------------------------------------------
(* The chip: header, data, crc.  There is room when the driver has read    *)
(* all, or when the frame ends in front of what it has not.                *)
Written == LET W[i \in 0 .. Len(arrived)] == IF i = 0 THEN 0 ELSE W[i - 1] + arrived[i] + 2 IN W[Len(arrived)]
Space(n) == LET free == (ptr - addr) % RX_WRAP IN free = 0 \/ n + 2 < free
Receive(n, odd) ==
  LET frame == Len(arrived) + 1
      Put(i) == IF i = 0 THEN Word(TRUE, n + 1, frame, 0) ELSE Word(odd, 1, frame, i)
  IN  /\ Space(n) /\ Written + n + 2 <= Traffic
      /\ rx_ring' = [i \in DOMAIN rx_ring |->
           LET k == (i - addr) % RX_WRAP IN IF i < RX_WRAP /\ k < n + 2 THEN Put(k) ELSE rx_ring[i]]
      /\ addr' = (addr + n + 2) % RX_WRAP
      /\ arrived' = Append(arrived, n)
      /\ UNCHANGED << ptr, rx_capr, rx, got >>

(* rtl8139_rx.  The place is taken at the beginning of the call.           *)
Call(room) ==
  /\ rx = << >> /\ Len(got) < Reads /\ rx' = << room, rx_capr >>
  /\ UNCHANGED << rx_ring, addr, ptr, rx_capr, arrived, got >>
(* A bug: the driver goes on by what the caller had room for.              *)
StepCut(capr, raw, copy) == (capr + copy + 1) % RX_WRAP
Step(capr, raw, copy) == (capr + raw + 1) % RX_WRAP
Read ==
  LET room == rx[1]  capr == rx[2]  raw == rx_ring[capr].len
      copy == IF raw - 1 > room THEN room + 1 ELSE raw
      next == Step(capr, raw, copy)
  IN  /\ rx # << >> /\ rx_ring[capr].ok
      /\ rx' = << >>
      /\ rx_capr' = next /\ ptr' = next
      /\ got' = Append(got, [words |-> [i \in 1 .. copy - 1 |->
                               IF capr + i \in DOMAIN rx_ring THEN rx_ring[capr + i] ELSE Empty],
                             room |-> room])
      /\ UNCHANGED << rx_ring, addr, arrived >>
(* Nothing there: the chip is told the place again, and after a time the   *)
(* call gives up.                                                          *)
Poll ==
  /\ rx # << >> /\ ~rx_ring[rx[2]].ok
  /\ ptr' = rx_capr /\ (rx' = rx \/ rx' = << >>)
  /\ UNCHANGED << rx_ring, addr, rx_capr, arrived, got >>

Next ==
  \/ \E n \in Lengths, odd \in BOOLEAN : Receive(n, odd)
  \/ \E room \in Rooms : Call(room)
  \/ Read \/ Poll
Spec == Init /\ [][Next]_vars

-----------------------------------------------------------------------------
(* Calls get the frames in the order they came in, each once, from its     *)
(* first word on and no more than there is room for, also after a frame    *)
(* that was longer than the room.                                          *)
Cut(i) == LET n == arrived[i] IN IF n < got[i].room THEN n ELSE got[i].room
ReadsInOrder ==
  \A i \in DOMAIN got :
    /\ i \in DOMAIN arrived /\ Len(got[i].words) = Cut(i)
    /\ \A k \in DOMAIN got[i].words : got[i].words[k].frame = i /\ got[i].words[k].k = k
=============================================================================

------------------------------ MODULE TcpClient ------------------------------
(***************************************************************************)
(* The TCP client of kernel/drivers/net.c: one connection, whose state is  *)
(* in statics, and calls that block in a loop over the packets that come   *)
(* in and the timer.                                                       *)
(*                                                                         *)
(* Sequence numbers count from the first byte of each side, and a byte of  *)
(* the peer is its position in the peer's stream.  A connection has a port *)
(* of its own, so that segments of an earlier one are not its own.  The    *)
(* network loses, repeats, delays and reorders: what comes in is any       *)
(* segment the peer may have sent, at any time, in any number.             *)
(***************************************************************************)
EXTENDS Integers, Sequences

CONSTANTS
  StreamLen,   (* bytes the peer sends before its FIN                       *)
  Payloads,    (* what the program sends, one to a segment                  *)
  Rooms,       (* the sizes of the program's buffers                        *)
  Tries,       (* transmissions of a segment, 3                             *)
  SendAgain,   (* TRUE: a program may send after a send that returned -1    *)
  MaxSends,    (* bound on the calls of send in a connection                *)
  None

ASSUME TcpAssumption ==
  /\ StreamLen \in Nat /\ Rooms \subseteq Nat \ {0}
  /\ Tries \in Nat \ {0} /\ MaxSends \in Nat
  /\ SendAgain \in BOOLEAN /\ None \notin Payloads

VARIABLES
  state,             \* tcp_state
  seq, ack,          \* tcp_seq, tcp_ack
  call, tries, arg,  \* the call that blocks, its transmissions, its argument
  peer, pin,         \* the peer's side, and what it was sent, in order
  sent,              \* data segments on their way to the peer
  finSent,           \* our FIN is on its way
  got, told,         \* history: bytes given to the program, sends acknowledged
  gaveUp             \* history: a send returned -1

tcp  == << state, seq, ack >>
self == << call, tries, arg >>
past == << got, told, gaveUp >>
vars == << tcp, self, peer, pin, sent, finSent, past >>

States == {"free", "syn", "est", "fin"}
Calls  == {"none", "connect", "send", "recv"}

Init ==
  /\ state = "free" /\ seq = 0 /\ ack = 0
  /\ call = "none" /\ tries = 0 /\ arg = None
  /\ peer = "none" /\ pin = << >> /\ sent = {} /\ finSent = FALSE
  /\ got = << >> /\ told = << >> /\ gaveUp = FALSE

-----------------------------------------------------------------------------
Blocks(c, a) == call' = c /\ tries' = 1 /\ arg' = a
Returns == call' = "none" /\ tries' = 0 /\ arg' = None

(* net_tcp_connect: a new port and a SYN, or no route to the peer, which   *)
(* leaves the state at SYN.                                                *)
Connect ==
  /\ call = "none" /\ state = "free"
  /\ state' = "syn" /\ seq' = 0 /\ UNCHANGED ack
  /\ \/ Blocks("connect", None) /\ peer' = "syn"
     \/ Returns /\ peer' = "none"
  /\ pin' = << >> /\ sent' = {} /\ finSent' = FALSE
  /\ got' = << >> /\ told' = << >> /\ gaveUp' = FALSE

(* Any segment of the connection with SYN or ACK set passes for a SYN+ACK, *)
(* the RST+ACK of a peer that refuses too.                                 *)
SynAnswered ==
  /\ call = "connect" /\ peer \in {"est", "refused"}
  /\ state' = "est" /\ seq' = 0 /\ ack' = 0
  /\ Returns
  /\ UNCHANGED << peer, pin, sent, finSent, past >>

(* A bug: the count of tries starts again with every answer awaited.       *)
ResendForever ==
  /\ call \in {"connect", "send"}
  /\ tries' = (tries % Tries) + 1
  /\ UNCHANGED << tcp, call, arg, peer, pin, sent, finSent, past >>

(* A second without an answer: the segment again, up to Tries times; no    *)
(* route, or no tries left, and the call returns -1.                       *)
Resend ==
  /\ call \in {"connect", "send"} /\ tries < Tries
  /\ tries' = tries + 1
  /\ UNCHANGED << tcp, call, arg, peer, pin, sent, finSent, past >>
NoRoute ==
  /\ call \in {"connect", "send"} /\ tries < Tries
  /\ gaveUp' = (gaveUp \/ call = "send")
  /\ Returns
  /\ UNCHANGED << tcp, peer, pin, sent, finSent, got, told >>
GiveUp ==
  /\ call \in {"connect", "send"} /\ tries = Tries
  /\ state' = IF call = "connect" THEN "free" ELSE state
  /\ gaveUp' = (gaveUp \/ call = "send")
  /\ Returns
  /\ UNCHANGED << seq, ack, peer, pin, sent, finSent, got, told >>

-----------------------------------------------------------------------------
(* net_tcp_send: one segment, sent again until it is acknowledged.         *)
Send(v) ==
  /\ call = "none" /\ state = "est" /\ (gaveUp => SendAgain)
  /\ Len(told) < MaxSends
  /\ \/ Blocks("send", v) /\ sent' = sent \cup {[seq |-> seq, val |-> v]} /\ UNCHANGED gaveUp
     \/ Returns /\ gaveUp' = TRUE /\ UNCHANGED sent
  /\ UNCHANGED << tcp, peer, pin, finSent, got, told >>

(* A bug: the length of the segment is left out of the comparison.         *)
AckedEarly ==
  /\ call = "send" /\ peer = "est"
  /\ \E a \in 0 .. Len(pin) : a >= seq
  /\ seq' = seq + 1 /\ told' = Append(told, arg)
  /\ Returns
  /\ UNCHANGED << state, ack, peer, pin, sent, finSent, got, gaveUp >>

(* Any segment of the connection that acknowledges it; its data is left    *)
(* for the peer to send again.                                             *)
Acked ==
  /\ call = "send" /\ peer = "est"
  /\ \E a \in 0 .. Len(pin) : a >= seq + 1
  /\ seq' = seq + 1 /\ told' = Append(told, arg)
  /\ Returns
  /\ UNCHANGED << state, ack, peer, pin, sent, finSent, got, gaveUp >>

-----------------------------------------------------------------------------
(* net_tcp_recv, with room for so many bytes.                              *)
Recv(room) ==
  /\ call = "none" /\ state \in {"syn", "est"}
  /\ Blocks("recv", room)
  /\ UNCHANGED << tcp, peer, pin, sent, finSent, past >>

RecvTimeout ==
  /\ call = "recv" /\ Returns
  /\ UNCHANGED << tcp, peer, pin, sent, finSent, past >>

Less(a, b) == IF a < b THEN a ELSE b

(* What comes in: n bytes after the first s, the last of them with the FIN *)
(* or not.  The peer sends nothing before our ACK of its SYN.              *)
Segment(s, n, fin) ==
  /\ call = "recv" /\ state = "est" /\ peer = "est"
  /\ s + n <= StreamLen /\ (fin => s + n = StreamLen)

Take(s, n) == got' = got \o [k \in 1 .. n |-> s + k]
Received == UNCHANGED << seq, peer, pin, sent, finSent, told, gaveUp >>

(* A bug: no look at the sequence number.                                  *)
DataAnyOrder(s, n) ==
  LET take == Less(n, arg) IN
  /\ Segment(s, n, FALSE) /\ n > 0
  /\ Take(s, take) /\ ack' = ack + take
  /\ Returns /\ Received /\ UNCHANGED state

(* Data in order: as much of it as there is room for.  The rest comes      *)
(* again, since it is not acknowledged.                                    *)
Data(s, n) ==
  LET take == Less(n, arg) IN
  /\ Segment(s, n, FALSE) /\ n > 0 /\ s = ack
  /\ Take(s, take) /\ ack' = ack + take
  /\ Returns /\ Received /\ UNCHANGED state

DataAndFin(s, n) ==
  LET take == Less(n, arg) IN
  /\ Segment(s, n, TRUE) /\ n > 0 /\ s = ack
  /\ Take(s, take) /\ ack' = s + take
  /\ state' = IF take < n THEN state ELSE "fin"
  /\ Returns /\ Received

(* A FIN alone, or one whose data is not the data awaited: the end of the  *)
(* stream, whatever is still missing.                                      *)
Fin(s, n) ==
  /\ Segment(s, n, TRUE) /\ (n = 0 \/ s # ack)
  /\ ack' = s + 1 + n /\ state' = "fin"
  /\ Returns /\ Received /\ UNCHANGED got

(* net_tcp_close: a FIN when the connection is open, and only then.        *)
Close ==
  /\ call = "none" /\ state # "free"
  /\ state' = "free"
  /\ finSent' = (finSent \/ state = "est")
  /\ seq' = IF state = "est" THEN seq + 1 ELSE seq
  /\ UNCHANGED << ack, self, peer, pin, sent, past >>

-----------------------------------------------------------------------------
(* The peer, and the network from here to there.                           *)
PeerAnswers ==
  /\ peer = "syn" /\ peer' \in {"est", "refused"}
  /\ UNCHANGED << tcp, self, pin, sent, finSent, past >>

PeerTakes ==
  /\ peer = "est"
  /\ \E m \in sent : m.seq = Len(pin) /\ pin' = Append(pin, m.val)
  /\ UNCHANGED << tcp, self, peer, sent, finSent, past >>

Arrives == \E s, n \in 0 .. StreamLen : Data(s, n) \/ DataAndFin(s, n) \/ Fin(s, n)

Next ==
  \/ Connect \/ SynAnswered \/ Resend \/ NoRoute \/ GiveUp
  \/ (\E v \in Payloads : Send(v)) \/ Acked
  \/ (\E room \in Rooms : Recv(room)) \/ RecvTimeout \/ Arrives \/ Close
  \/ PeerAnswers \/ PeerTakes

Spec == Init /\ [][Next]_vars

(* The timer ticks whatever comes in: a wait ends, and the next try begins *)
(* or the call gives up.                                                   *)
FairSpec == Spec /\ WF_vars(Resend \/ GiveUp \/ RecvTimeout)

-----------------------------------------------------------------------------
(* PROPERTIES                                                              *)

Segments == [seq : Nat, val : Payloads]

(* Every variable has its type; a call that waits for an answer has an     *)
(* open or opening connection, and one that sends has something to send.   *)
TypeOK ==
  /\ state \in States /\ seq \in Nat /\ ack \in Nat
  /\ call \in Calls /\ tries \in 0 .. Tries
  /\ arg \in Payloads \cup Rooms \cup {None}
  /\ call = "send" => arg \in Payloads /\ state = "est"
  /\ call = "recv" => arg \in Rooms /\ state \in {"syn", "est"}
  /\ call = "connect" => state = "syn"
  /\ peer \in {"none", "syn", "est", "refused"}
  /\ pin \in Seq(Payloads) /\ sent \subseteq Segments
  /\ finSent \in BOOLEAN /\ gaveUp \in BOOLEAN
  /\ got \in Seq(Nat) /\ told \in Seq(Payloads)

(* "Recibe datos en orden" (net.c:467): what the program was given is the  *)
(* peer's stream from its first byte on, nothing missing, twice or out of  *)
(* place, and what is acknowledged is what it was given.                   *)
InOrder ==
  /\ \A k \in 1 .. Len(got) : got[k] = k
  /\ state = "est" => ack = Len(got)

(* "0 = ok (acked)" (net.c:566): what a send returned 0 for is at its      *)
(* place in what the peer received.                                        *)
AckedIsReceived ==
  /\ Len(told) <= Len(pin)
  /\ \A k \in 1 .. Len(told) : pin[k] = told[k]

(* Every call returns, whatever the network does.                          *)
CallsReturn == call # "none" ~> call = "none"

(* "puede llevar la COLA de datos; entregarla ANTES de marcar EOF"         *)
(* (net.c:503-505): the end of the stream comes after all of it.           *)
EofAfterAll == state = "fin" => Len(got) = StreamLen
=============================================================================

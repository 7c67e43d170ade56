------------------------------- MODULE NetText -------------------------------
(***************************************************************************)
(* What kernel/drivers/net.c and user/win32/ws2_32.c do with the bytes of  *)
(* packets and names: checksums, the way from a frame to a datagram, names *)
(* as DNS has them, the answer of the DNS server, and addresses written as *)
(* four numbers.  A call is one input; the result follows in one step.     *)
(***************************************************************************)
EXTENDS Integers, Sequences

CONSTANTS
  Strings,            (* names and addresses, as numbers of characters      *)
  LABEL_MAX, WireMax, (* 63 letters to a label, 400 bytes to a name         *)
  BYTE_MAX, Word,     (* 255 and 2^32                                       *)
  Base, Packets,      (* 2^8; packets with their checksum not yet filled in *)
  CsumAt,             (* where it belongs, an even number of bytes in front *)
  Frames, Port, Rooms,(* frames that come in; the port and room of a call   *)
  Questions, Records, (* names asked for; what the answers hold             *)
  AnswersMax
VARIABLES call, result
vars == << call, result >>

Dot == 46
At(s, i) == IF i \in DOMAIN s THEN s[i] ELSE 0
Digits == 48 .. 57

-----------------------------------------------------------------------------
(* dns_name_to_wire: labels with their lengths, one dot after each.        *)
LabelEnd(s, i) == CHOOSE j \in i .. Len(s) + 1 : /\ At(s, j) \in {0, Dot}
                                                 /\ \A k \in i .. j - 1 : s[k] # Dot
Fits(out, l) == Len(out) + 1 + l + 1 <= WireMax /\ l # 0 /\ l <= LABEL_MAX
Wire(s) ==
  LET W[k \in 0 .. Len(s)] ==
        IF k = 0 THEN [i |-> 1, out |-> << >>, ok |-> WireMax >= 1]
        ELSE LET w == W[k - 1] IN
             IF ~w.ok \/ w.i > Len(s) THEN w
             ELSE LET j == LabelEnd(s, w.i)  l == j - w.i
                  IN  IF ~Fits(w.out, l) THEN [w EXCEPT !.ok = FALSE]
                      ELSE [w EXCEPT !.i = j + 1, !.out = @ \o << l >> \o SubSeq(s, w.i, j - 1)]
  IN  IF W[Len(s)].ok THEN << Append(W[Len(s)].out, 0) >> ELSE << >>

(* inet_addr and the literal of gethostbyname; << >> when it is none.      *)
InetStep(x, c) ==
  IF ~x.ok \/ Len(x.a) = 4 THEN x
  ELSE IF c \in Digits THEN [x EXCEPT !.v = (@ * 10 + c - 48) % Word]
  ELSE IF c = Dot /\ x.v <= BYTE_MAX THEN [x EXCEPT !.a = Append(@, x.v), !.v = 0]
  ELSE [x EXCEPT !.ok = FALSE]
inet_addr(s) ==
  LET I[k \in 0 .. Len(s)] == IF k = 0 THEN [a |-> << >>, v |-> 0, ok |-> TRUE] ELSE InetStep(I[k - 1], s[k])
      x == I[Len(s)]
  IN  IF x.ok /\ Len(x.a) = 3 /\ x.v <= BYTE_MAX THEN Append(x.a, x.v) ELSE << >>
NumberEnd(s, i) == CHOOSE j \in i .. Len(s) + 1 : /\ At(s, j) \notin Digits
                                                  /\ \A k \in i .. j - 1 : s[k] \in Digits
Number(s, i, j) == LET N[k \in i - 1 .. j - 1] == IF k < i THEN 0 ELSE (N[k - 1] * 10 + s[k] - 48) % Word
                   IN  N[j - 1]
Literal(s) ==
  LET L[k \in 0 .. 4] ==
        IF k = 0 THEN [i |-> 1, a |-> << >>, stop |-> FALSE]
        ELSE LET x == L[k - 1] IN
             IF x.stop \/ x.i > Len(s) THEN x
             ELSE LET j == NumberEnd(s, x.i)  v == Number(s, x.i, j)
                  IN  IF v > BYTE_MAX THEN [x EXCEPT !.i = j, !.stop = TRUE]
                      ELSE IF At(s, j) = Dot THEN [x EXCEPT !.i = j + 1, !.a = Append(@, v)]
                      ELSE [i |-> j, a |-> Append(x.a, v), stop |-> TRUE]
  IN  IF L[4].i > Len(s) /\ Len(L[4].a) = 4 THEN L[4].a ELSE << >>

-----------------------------------------------------------------------------
(* net_csum and csum_with_pseudo: words, the last byte the high one of     *)
(* its own, carries added until there are none.                            *)
LastWord(b) == b * Base
Total(d) ==
  LET S[k \in 0 .. Len(d) \div 2] == IF k = 0 THEN 0 ELSE S[k - 1] + d[2 * k - 1] * Base + d[2 * k]
  IN  S[Len(d) \div 2] + IF Len(d) % 2 = 1 THEN LastWord(d[Len(d)]) ELSE 0
Folded(sum) == LET F[k \in 0 .. sum] == IF k = 0 THEN sum
                                        ELSE (F[k - 1] % (Base * Base)) + F[k - 1] \div (Base * Base)
               IN  F[IF sum < 3 THEN sum ELSE 3]
net_csum(d) == Base * Base - 1 - Folded(Total(d))
Summed(d) == LET c == net_csum(d) IN [d EXCEPT ![CsumAt + 1] = c \div Base, ![CsumAt + 2] = c % Base]

(* ip_parse and net_udp_recv: how many bytes a frame gives a call, or << >>.*)
Taken(f, port, max) ==
  IF /\ f.n >= 34 /\ f.ip /\ f.n >= 14 + f.ihl + 8 /\ f.proto = 17
     /\ f.port = port /\ f.udplen >= 8 /\ f.udplen - 8 <= max
  THEN << f.udplen - 8 >> ELSE << >>

-----------------------------------------------------------------------------
(* dns_query, what it reads of an answer of n bytes after the header: the  *)
(* question is skipped, then record by record up to the first address.     *)
Byte(r, p) == IF p < Len(r) THEN r[p + 1] ELSE 0
Pointer(b) == b >= 64
(* Where the labels that begin at p end: at the 0, the end of the message, *)
(* or after a pointer.                                                     *)
NameEnd(r, p) ==
  LET N[k \in 0 .. Len(r)] ==
        IF k = 0 THEN [p |-> p, stop |-> FALSE]
        ELSE LET x == N[k - 1] IN
             IF x.stop \/ x.p >= Len(r) \/ Byte(r, x.p) = 0 THEN x
             ELSE IF Pointer(Byte(r, x.p)) THEN [p |-> x.p + 2, stop |-> TRUE]
             ELSE [x EXCEPT !.p = @ + 1 + Byte(r, x.p)]
  IN  N[Len(r)].p
Word16(r, p) == Byte(r, p) * 256 + Byte(r, p + 1)
(* A bug: what a record holds is not skipped.                              *)
RecordStays(r, p) ==
  LET q == IF Pointer(Byte(r, p)) THEN p + 2 ELSE NameEnd(r, p) + 1
      data == q + 10  len == Word16(r, q + 8)
  IN  IF q + 10 > Len(r) \/ data + len > Len(r) THEN [p |-> Len(r), found |-> << >>]
      ELSE [p |-> data, found |-> IF len = 4 /\ Word16(r, q) = 1 THEN SubSeq(r, data + 1, data + 4) ELSE << >>]
Record(r, p) ==
  LET q == IF Pointer(Byte(r, p)) THEN p + 2 ELSE NameEnd(r, p) + 1
      data == q + 10  len == Word16(r, q + 8)
  IN  IF q + 10 > Len(r) \/ data + len > Len(r) THEN [p |-> Len(r), found |-> << >>]
      ELSE [p |-> data + len, found |-> IF len = 4 /\ Word16(r, q) = 1 THEN SubSeq(r, data + 1, data + 4) ELSE << >>]
Answer(r, count) ==
  LET A[i \in 0 .. count] ==
        IF i = 0 THEN [p |-> NameEnd(r, 0) + 5, found |-> << >>]
        ELSE LET x == A[i - 1] IN IF x.found # << >> \/ x.p + 10 > Len(r) THEN x ELSE Record(r, x.p)
  IN  A[count].found

-----------------------------------------------------------------------------
(* A message: the question, then records with their owner, type and data.  *)
Encoded(x) == x.owner \o << 0, x.type, 0, 1, 0, 0, 0, 9, 0, Len(x.data) >> \o x.data
Message(q, rs) == LET M[i \in 0 .. Len(rs)] == IF i = 0 THEN q \o << 0, 1, 0, 1 >> ELSE M[i - 1] \o Encoded(rs[i])
                  IN  M[Len(rs)]
Init ==
  /\ result = << >>
  /\ call \in [op : {"name"}, s : Strings] \cup [op : {"sum"}, d : Packets]
       \cup [op : {"udp"}, f : Frames, max : Rooms]
       \cup [op : {"dns"}, q : Questions, rs : UNION {[1 .. n -> Records] : n \in 0 .. AnswersMax}]
Next ==
  /\ result = << >>
  /\ result' = CASE call.op = "name" -> << Wire(call.s), inet_addr(call.s), Literal(call.s) >>
                 [] call.op = "sum" -> << Summed(call.d) >>
                 [] call.op = "udp" -> << Taken(call.f, Port, call.max) >>
                 [] call.op = "dns" -> << Answer(Message(call.q, call.rs), Len(call.rs)) >>
  /\ UNCHANGED call
Spec == Init /\ [][Next]_vars
Done(op) == call.op = op /\ result # << >>

-----------------------------------------------------------------------------
(* A name on the wire is read back as the name that was given, with or     *)
(* without its last dot, and every name with labels of 1 to LABEL_MAX      *)
(* letters that fits is written.                                           *)
Unwired(w) ==
  LET U[k \in 0 .. Len(w)] ==
        IF k = 0 THEN [p |-> 1, s |-> << >>]
        ELSE LET x == U[k - 1] IN
             IF w[x.p] = 0 THEN x
             ELSE [p |-> x.p + 1 + w[x.p], s |-> x.s \o SubSeq(w, x.p + 1, x.p + w[x.p]) \o << Dot >>]
  IN  U[Len(w)]
WireNames ==
  Done("name") =>
    LET s == call.s  w == result[1]
        dotted == IF s = << >> \/ s[Len(s)] = Dot THEN s ELSE Append(s, Dot)
    IN  /\ w # << >> => /\ Len(w[1]) <= WireMax /\ Unwired(w[1]) = [p |-> Len(w[1]), s |-> dotted]
        /\ w = << >> => \/ Len(dotted) + 1 > WireMax
                        \/ \E i \in DOMAIN dotted : dotted[i] = Dot /\ (i = 1 \/ dotted[i - 1] = Dot)
                        \/ \E i \in DOMAIN s : i + LABEL_MAX <= Len(s)
                                               /\ \A k \in i .. i + LABEL_MAX : s[k] # Dot
(* Four numbers that fit a byte are an address, the same one for both      *)
(* readers; letters or too few dots are none.                              *)
Quads(s) == LET cut == {i \in 1 .. Len(s) : s[i] = Dot}
            IN  /\ \A i \in DOMAIN s : s[i] \in Digits \cup {Dot}
                /\ \E x, y, z \in cut :
                     /\ x < y /\ y < z /\ cut = {x, y, z}
                     /\ 1 < x /\ x + 1 < y /\ y + 1 < z /\ z < Len(s)
AddressesAgree ==
  Done("name") =>
    LET s == call.s IN
      /\ Quads(s) => result[2] = result[3]
      /\ result[2] # << >> => \A i \in 1 .. 4 : result[2][i] <= BYTE_MAX
      /\ (\E i \in DOMAIN s : s[i] \notin Digits \cup {Dot}) => result[2] = << >> /\ result[3] = << >>
(* A packet with its checksum filled in sums up to all ones, which is zero *)
(* in the arithmetic of the words; the first byte of a pair is the high    *)
(* one, also of a pair with one byte.                                      *)
Weighed(d) == LET S[k \in 0 .. Len(d)] == IF k = 0 THEN 0
                                          ELSE S[k - 1] + d[k] * (IF k % 2 = 1 THEN Base ELSE 1)
              IN  S[Len(d)]
ChecksumHolds == Done("sum") => Weighed(result[1]) % (Base * Base - 1) = 0
(* A call is given no more than it has room for, and only what came to its *)
(* port as a datagram with a whole header.                                 *)
UdpFits ==
  Done("udp") /\ result[1] # << >> =>
    LET f == call.f IN /\ result[1][1] <= call.max /\ f.ip /\ f.proto = 17 /\ f.port = Port
                       /\ f.n >= 14 + f.ihl + 8
(* What is given was in the frame.  Not kept: the datagram says how long.  *)
UdpWasThere == Done("udp") /\ result[1] # << >> => 14 + call.f.ihl + 8 + result[1][1] <= call.f.n
(* The address of an answer is the one of its first record of that type,   *)
(* whatever is in front of it; and a message that is cut anywhere gives    *)
(* the same one or none.                                                   *)
FirstAddress ==
  Done("dns") =>
    LET rs == call.rs  m == Message(call.q, rs)
        A == {i \in DOMAIN rs : rs[i].type = 1 /\ Len(rs[i].data) = 4}
    IN  /\ result[1] = IF A = {} THEN << >> ELSE rs[CHOOSE i \in A : \A j \in A : i <= j].data
        /\ \A n \in 0 .. Len(m) : Answer(SubSeq(m, 1, n), Len(rs)) \in {<< >>, result[1]}
=============================================================================

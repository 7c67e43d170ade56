----------------------------- MODULE Libs_proofs -----------------------------
(***************************************************************************)
(* The TCP client, for every stream, payload, buffer and number of tries:  *)
(* the types, the bytes in order, and, for a program that stops sending    *)
(* after a send that failed, that what was acknowledged is what the peer   *)
(* received.  Then addresses, for every set of tasks, hosts and names and  *)
(* every cache: what is found is the host's, and stays.  Then the end of a *)
(* program, for every set of functions, table and list of initialisers:    *)
(* the table holds what is owed.  Then sound, for every sound, file,       *)
(* buffer and copy: its frames are made and played in order.  That is the  *)
(* one proof about a recursive function; the induction is done here, over  *)
(* a set of numbers.                                                       *)
(***************************************************************************)
EXTENDS TcpClient, NetIp, Sound, CrtExit, SequenceTheorems, WellFoundedInduction, TLAPS

LEMMA LessIsAtMost ==
  ASSUME NEW a \in Nat, NEW b \in Nat
  PROVE  Less(a, b) \in Nat /\ Less(a, b) <= a
BY DEF Less

(* Rooms are numbers, so that what is taken of a segment is one.           *)
LEMMA TakeIsNat ==
  ASSUME TypeOK, call = "recv", NEW n \in Nat
  PROVE  Less(n, arg) \in Nat /\ Less(n, arg) <= n
<1>1. arg \in Nat
  BY TcpAssumption DEF TypeOK
<1> QED BY <1>1, LessIsAtMost

-----------------------------------------------------------------------------
(* TYPES                                                                   *)

LEMMA NothingTyped == << >> \in Seq(Nat) /\ << >> \in Seq(Payloads)
BY EmptySeq

LEMMA InitTyped == Init => TypeOK
<1> SUFFICES ASSUME Init PROVE TypeOK
  OBVIOUS
<1>1. /\ state \in States /\ seq \in Nat /\ ack \in Nat
      /\ call = "none" /\ call \in Calls /\ tries \in 0 .. Tries
      /\ arg \in Payloads \cup Rooms \cup {None}
  BY TcpAssumption DEF Init, States, Calls
<1>2. /\ peer \in {"none", "syn", "est", "refused"} /\ sent \subseteq Segments
      /\ finSent \in BOOLEAN /\ gaveUp \in BOOLEAN
  BY DEF Init
<1>3. pin \in Seq(Payloads) /\ got \in Seq(Nat) /\ told \in Seq(Payloads)
  BY NothingTyped DEF Init
<1> QED BY <1>1, <1>2, <1>3 DEF TypeOK

LEMMA BytesTyped ==
  ASSUME NEW s \in Nat, NEW n \in Nat, NEW bytes \in Seq(Nat)
  PROVE  bytes \o [k \in 1 .. n |-> s + k] \in Seq(Nat)
<1>1. [k \in 1 .. n |-> s + k] \in Seq(Nat)
  OBVIOUS
<1> QED BY <1>1

LEMMA NextTyped ==
  ASSUME TypeOK, [Next]_vars
  PROVE  TypeOK'
<1> USE TcpAssumption
<1> USE DEF States, Calls, Segments
<1>1. CASE Connect
  <2>1. pin' \in Seq(Payloads) /\ got' \in Seq(Nat) /\ told' \in Seq(Payloads)
    BY <1>1, NothingTyped DEF Connect
  <2>2. sent' \subseteq Segments /\ finSent' \in BOOLEAN /\ gaveUp' \in BOOLEAN
    BY <1>1 DEF Connect
  <2> QED BY <1>1, <2>1, <2>2 DEF Connect, Blocks, Returns, TypeOK
<1>2. CASE SynAnswered
  BY <1>2 DEF SynAnswered, Returns, TypeOK, past
<1>3. CASE Resend
  BY <1>3 DEF Resend, TypeOK, tcp, past
<1>4. CASE NoRoute
  BY <1>4 DEF NoRoute, Returns, TypeOK, tcp
<1>5. CASE GiveUp
  BY <1>5 DEF GiveUp, Returns, TypeOK
<1>6. ASSUME NEW v \in Payloads, Send(v)
      PROVE  TypeOK'
  <2>1. CASE Blocks("send", v) /\ sent' = sent \cup {[seq |-> seq, val |-> v]} /\ UNCHANGED gaveUp
    <3>1. sent' \subseteq Segments
      BY <1>6, <2>1 DEF TypeOK
    <3> HIDE DEF Segments
    <3> QED BY <1>6, <2>1, <3>1 DEF Send, Blocks, TypeOK, tcp
  <2>2. CASE Returns /\ gaveUp' = TRUE /\ UNCHANGED sent
    BY <1>6, <2>2 DEF Send, Returns, TypeOK, tcp
  <2> QED BY <1>6, <2>1, <2>2 DEF Send
<1>7. CASE Acked
  BY <1>7 DEF Acked, Returns, TypeOK
<1>8. ASSUME NEW room \in Rooms, Recv(room)
      PROVE  TypeOK'
  BY <1>8 DEF Recv, Blocks, TypeOK, tcp, past
<1>9. CASE RecvTimeout
  BY <1>9 DEF RecvTimeout, Returns, TypeOK, tcp, past
<1>10. CASE Arrives
  <2>1. PICK s \in 0 .. StreamLen, n \in 0 .. StreamLen :
           Data(s, n) \/ DataAndFin(s, n) \/ Fin(s, n)
    BY <1>10 DEF Arrives
  <2>2. call = "recv" /\ state = "est" /\ peer = "est"
    BY <2>1 DEF Data, DataAndFin, Fin, Segment
  <2>3. Less(n, arg) \in Nat
    BY <2>2, TakeIsNat
  <2>4. got \o [k \in 1 .. Less(n, arg) |-> s + k] \in Seq(Nat)
    BY <2>3, BytesTyped DEF TypeOK
  <2>5. CASE Data(s, n)
    BY <2>2, <2>3, <2>4, <2>5 DEF Data, Take, Returns, Received, TypeOK
  <2>6. CASE DataAndFin(s, n)
    BY <2>2, <2>3, <2>4, <2>6 DEF DataAndFin, Take, Returns, Received, TypeOK
  <2>7. CASE Fin(s, n)
    BY <2>2, <2>7 DEF Fin, Returns, Received, TypeOK
  <2> QED BY <2>1, <2>5, <2>6, <2>7
<1>11. CASE Close
  BY <1>11 DEF Close, TypeOK, self, past
<1>12. CASE PeerAnswers
  BY <1>12 DEF PeerAnswers, TypeOK, tcp, self, past
<1>13. CASE PeerTakes
  BY <1>13 DEF PeerTakes, TypeOK, tcp, self, past
<1>14. CASE UNCHANGED vars
  BY <1>14 DEF vars, tcp, self, past, TypeOK
<1> QED
  BY <1>1, <1>2, <1>3, <1>4, <1>5, <1>6, <1>7, <1>8, <1>9, <1>10, <1>11,
     <1>12, <1>13, <1>14 DEF Next

(* Every variable keeps its type, a waiting call its connection and the    *)
(* count of transmissions its limit (net.c:383, net.c:428).                *)
THEOREM Typing == Spec => []TypeOK
BY InitTyped, NextTyped, PTL DEF Spec

-----------------------------------------------------------------------------
(* THE BYTES RECEIVED                                                      *)

(* The next SYN+ACK sets ack to the start of the stream, so nothing may    *)
(* have been taken before it.                                              *)
Fresh == state = "syn" => got = << >>

RecvInv == TypeOK /\ InOrder /\ Fresh

LEMMA TakenInOrder ==
  ASSUME NEW bytes \in Seq(Nat), NEW n \in Nat,
         \A k \in 1 .. Len(bytes) : bytes[k] = k
  PROVE  LET more == bytes \o [k \in 1 .. n |-> Len(bytes) + k] IN
         /\ Len(more) = Len(bytes) + n
         /\ \A k \in 1 .. Len(more) : more[k] = k
<1> DEFINE new  == [k \in 1 .. n |-> Len(bytes) + k]
           more == bytes \o new
<1>1. new \in Seq(Nat) /\ Len(new) = n
  OBVIOUS
<1>2. Len(more) = Len(bytes) + n
  BY <1>1
<1>3. ASSUME NEW k \in 1 .. Len(more)
      PROVE  more[k] = k
  <2>1. CASE k <= Len(bytes)
    BY <1>1, <1>2, <2>1
  <2>2. CASE k > Len(bytes)
    <3>1. k - Len(bytes) \in 1 .. n
      BY <1>2, <2>2
    <3>2. more[k] = new[k - Len(bytes)]
      BY <1>1, <1>2, <2>2
    <3> QED BY <3>1, <3>2
  <2> QED BY <2>1, <2>2
<1> QED BY <1>2, <1>3

LEMMA NextInOrder ==
  ASSUME RecvInv, [Next]_vars
  PROVE  RecvInv'
<1>0. TypeOK /\ InOrder /\ Fresh /\ TypeOK'
  BY NextTyped DEF RecvInv
<1>1. CASE Connect
  BY <1>0, <1>1 DEF Connect, RecvInv, InOrder, Fresh
<1>2. CASE SynAnswered
  BY <1>0, <1>2 DEF SynAnswered, RecvInv, InOrder, Fresh, TypeOK, past
<1>3. CASE GiveUp
  BY <1>0, <1>3 DEF GiveUp, RecvInv, InOrder, Fresh, TypeOK
<1>4. CASE Close
  BY <1>0, <1>4 DEF Close, RecvInv, InOrder, Fresh, past
<1>5. CASE Arrives
  <2>1. PICK s \in 0 .. StreamLen, n \in 0 .. StreamLen :
           Data(s, n) \/ DataAndFin(s, n) \/ Fin(s, n)
    BY <1>5 DEF Arrives
  <2>2. call = "recv" /\ state = "est" /\ ack = Len(got)
    BY <1>0, <2>1 DEF Data, DataAndFin, Fin, Segment, InOrder
  <2>3. Less(n, arg) \in Nat /\ Less(n, arg) <= n
    BY <1>0, <2>2, TakeIsNat, TcpAssumption
  <2>4. CASE s = ack /\ Take(s, Less(n, arg)) /\ ack' = s + Less(n, arg) /\ state' \in {"est", "fin"}
    <3>1. /\ Len(got') = Len(got) + Less(n, arg)
          /\ \A k \in 1 .. Len(got') : got'[k] = k
      BY <1>0, <2>2, <2>3, <2>4, TakenInOrder DEF Take, TypeOK, InOrder
    <3> QED BY <1>0, <2>2, <2>4, <3>1 DEF RecvInv, InOrder, Fresh
  <2>5. CASE Fin(s, n)
    BY <1>0, <2>5 DEF Fin, Received, RecvInv, InOrder, Fresh
  <2> QED
    BY <2>1, <2>2, <2>4, <2>5 DEF Data, DataAndFin
<1>6. CASE UNCHANGED << state, ack, got >>
  BY <1>0, <1>6 DEF RecvInv, InOrder, Fresh
<1> QED
  BY <1>1, <1>2, <1>3, <1>4, <1>5, <1>6
  DEF Next, Resend, NoRoute, Send, Acked, Recv, RecvTimeout, PeerAnswers,
      PeerTakes, vars, tcp, past

(* "Recibe datos en orden" (net.c:467): what the program got is the        *)
(* beginning of the peer's stream, over any network.                       *)
THEOREM ReceivedInOrder == Spec => []InOrder
<1>1. Init => RecvInv
  BY InitTyped DEF Init, RecvInv, InOrder, Fresh
<1>2. RecvInv /\ [Next]_vars => RecvInv'
  BY NextInOrder
<1>3. RecvInv => InOrder
  BY DEF RecvInv
<1> QED BY <1>1, <1>2, <1>3, PTL DEF Spec

-----------------------------------------------------------------------------
(* THE BYTES SENT                                                          *)

(* Before the connection opens nothing was sent in it; while it is open,   *)
(* seq counts the sends acknowledged.                                      *)
SeqIsTold ==
  /\ state = "syn" => told = << >>
  /\ state = "est" => seq = Len(told)

(* What the peer took was sent, for the place where it took it.            *)
TakenWasSent == \A k \in 1 .. Len(pin) : [seq |-> k - 1, val |-> pin[k]] \in sent

(* A segment under way is one already acknowledged, the one the call waits *)
(* for, or one of a send that gave up, after which there is no other.      *)
SentOnce ==
  /\ call = "send" => ~gaveUp
  /\ \A m \in sent :
       /\ m.seq <= Len(told)
       /\ m.seq < Len(told) => m.val = told[m.seq + 1]
       /\ m.seq = Len(told) => IF call = "send" THEN m.val = arg ELSE gaveUp

SendInv ==
  /\ TypeOK
  /\ SeqIsTold /\ TakenWasSent /\ SentOnce
  /\ Len(told) <= Len(pin)

LEMMA InitSendInv == Init => SendInv
BY InitTyped, NothingTyped DEF Init, SendInv, SeqIsTold, TakenWasSent, SentOnce

LEMMA SendInvIsEnough == SendInv => AckedIsReceived
<1> SUFFICES ASSUME SendInv, NEW k \in 1 .. Len(told)
             PROVE  pin[k] = told[k]
  BY DEF AckedIsReceived, SendInv
<1> DEFINE m == [seq |-> k - 1, val |-> pin[k]]
<1>1. Len(told) \in Nat /\ Len(pin) \in Nat /\ Len(told) <= Len(pin)
  BY DEF SendInv, TypeOK
<1>2. m \in sent
  BY <1>1 DEF SendInv, TakenWasSent
<1>3. m.seq = k - 1 /\ m.val = pin[k] /\ k - 1 < Len(told) /\ (k - 1) + 1 = k
  BY <1>1
<1> QED BY <1>2, <1>3 DEF SendInv, SentOnce

LEMMA NextSendInv ==
  ASSUME ~SendAgain, SendInv, [Next]_vars
  PROVE  SendInv'
<1>0. /\ TypeOK /\ SeqIsTold /\ TakenWasSent /\ SentOnce
      /\ Len(told) <= Len(pin) /\ TypeOK'
      /\ Len(told) \in Nat /\ Len(pin) \in Nat
  BY NextTyped DEF SendInv, TypeOK
<1>1. CASE Connect
  BY <1>0, <1>1 DEF Connect, SendInv, SeqIsTold, TakenWasSent, SentOnce
<1>2. CASE SynAnswered
  <2>1. state = "syn" /\ call = "connect"
    BY <1>0, <1>2 DEF SynAnswered, TypeOK
  <2>2. told = << >> /\ UNCHANGED << told, pin, sent, gaveUp >> /\ call' = "none"
    BY <1>0, <1>2, <2>1 DEF SynAnswered, Returns, past, SeqIsTold
  <2>3. SeqIsTold'
    BY <1>2, <2>2 DEF SynAnswered, SeqIsTold
  <2> QED BY <1>0, <2>1, <2>2, <2>3 DEF SendInv, TakenWasSent, SentOnce
<1>3. CASE NoRoute
  BY <1>0, <1>3 DEF NoRoute, Returns, tcp, SendInv, SeqIsTold, TakenWasSent, SentOnce
<1>4. CASE GiveUp
  BY <1>0, <1>4 DEF GiveUp, Returns, SendInv, SeqIsTold, TakenWasSent, SentOnce
<1>5. ASSUME NEW v \in Payloads, Send(v)
      PROVE  SendInv'
  <2>0. /\ call = "none" /\ state = "est" /\ ~gaveUp /\ seq = Len(told)
        /\ UNCHANGED << state, seq, pin, told >>
    BY <1>0, <1>5 DEF Send, tcp, SeqIsTold
  <2>1. CASE Blocks("send", v) /\ sent' = sent \cup {[seq |-> seq, val |-> v]} /\ UNCHANGED gaveUp
    <3>1. TakenWasSent'
      BY <1>0, <2>0, <2>1 DEF TakenWasSent
    <3>2. SentOnce'
      <4> SUFFICES ASSUME NEW m \in sent'
                   PROVE  /\ m.seq <= Len(told)
                          /\ m.seq < Len(told) => m.val = told[m.seq + 1]
                          /\ m.seq = Len(told) => m.val = v
        BY <2>0, <2>1 DEF SentOnce, Blocks
      <4>1. CASE m \in sent
        BY <1>0, <2>0, <4>1 DEF SentOnce
      <4>2. CASE m = [seq |-> seq, val |-> v]
        BY <1>0, <2>0, <4>2
      <4> QED BY <2>1, <4>1, <4>2
    <3> QED BY <1>0, <2>0, <2>1, <3>1, <3>2 DEF SendInv, SeqIsTold
  <2>2. CASE Returns /\ gaveUp' = TRUE /\ UNCHANGED sent
    BY <1>0, <2>0, <2>2 DEF Returns, SendInv, SeqIsTold, TakenWasSent, SentOnce
  <2> QED BY <1>5, <2>1, <2>2 DEF Send
<1>6. CASE Acked
  <2>0. /\ call = "send" /\ state = "est" /\ ~gaveUp /\ seq = Len(told)
        /\ call' = "none" /\ seq' = seq + 1 /\ told' = Append(told, arg)
        /\ UNCHANGED << state, pin, sent, gaveUp >>
    BY <1>0, <1>6 DEF Acked, Returns, TypeOK, SeqIsTold, SentOnce
  <2>1. /\ Len(told') = Len(told) + 1
        /\ told'[Len(told) + 1] = arg
        /\ \A k \in 1 .. Len(told) : told'[k] = told[k]
    BY <1>0, <2>0 DEF TypeOK
  <2>2. Len(told') <= Len(pin)
    BY <1>0, <1>6, <2>0, <2>1 DEF Acked
  <2>3. SentOnce'
    <3> SUFFICES ASSUME NEW m \in sent
                 PROVE  /\ m.seq < Len(told')
                        /\ m.val = told'[m.seq + 1]
      BY <1>0, <2>0, <2>1, \A m \in sent : m.seq \in Nat
      DEF SentOnce, TypeOK, Segments
    <3>1. m.seq \in Nat /\ m.seq <= Len(told)
      BY <1>0 DEF SentOnce, TypeOK, Segments
    <3>2. CASE m.seq < Len(told)
      BY <1>0, <2>1, <3>1, <3>2 DEF SentOnce
    <3>3. CASE m.seq = Len(told)
      BY <1>0, <2>0, <2>1, <3>3 DEF SentOnce
    <3> QED BY <1>0, <2>1, <3>1, <3>2, <3>3
  <2> QED BY <1>0, <2>0, <2>1, <2>2, <2>3 DEF SendInv, SeqIsTold, TakenWasSent
<1>7. CASE Close
  BY <1>0, <1>7 DEF Close, self, past, SendInv, SeqIsTold, TakenWasSent, SentOnce
<1>8. CASE PeerTakes
  <2>1. PICK m \in sent : m.seq = Len(pin) /\ pin' = Append(pin, m.val)
    BY <1>8 DEF PeerTakes
  <2>2. UNCHANGED << state, seq, call, arg, sent, told, gaveUp >>
    BY <1>8 DEF PeerTakes, tcp, self, past
  <2>3. m \in Segments /\ m = [seq |-> Len(pin), val |-> m.val]
    BY <1>0, <2>1 DEF TypeOK, Segments
  <2>4. /\ Len(pin') = Len(pin) + 1
        /\ pin'[Len(pin) + 1] = m.val
        /\ \A k \in 1 .. Len(pin) : pin'[k] = pin[k]
    BY <1>0, <2>1, <2>3 DEF TypeOK, Segments
  <2>5. TakenWasSent'
    <3> SUFFICES ASSUME NEW k \in 1 .. Len(pin')
                 PROVE  [seq |-> k - 1, val |-> pin'[k]] \in sent
      BY <2>2 DEF TakenWasSent
    <3>1. CASE k \in 1 .. Len(pin)
      BY <1>0, <2>4, <3>1 DEF TakenWasSent
    <3>2. CASE k = Len(pin) + 1
      BY <1>0, <2>1, <2>3, <2>4, <3>2
    <3> QED BY <1>0, <2>4, <3>1, <3>2
  <2> QED BY <1>0, <2>2, <2>4, <2>5 DEF SendInv, SeqIsTold, SentOnce
<1>9. CASE Arrives
  <2>1. /\ state' \in {"est", "fin"} /\ state = "est"
        /\ call = "recv" /\ call' = "none"
        /\ UNCHANGED << seq, pin, sent, told, gaveUp >>
    BY <1>9 DEF Arrives, Data, DataAndFin, Fin, Segment, Received, Returns
  <2> QED BY <1>0, <2>1 DEF SendInv, SeqIsTold, TakenWasSent, SentOnce
<1>10. CASE /\ UNCHANGED << state, seq, pin, sent, told, gaveUp >>
            /\ (call = "send" \/ call' = "send") => UNCHANGED << call, arg >>
  BY <1>0, <1>10 DEF SendInv, SeqIsTold, TakenWasSent, SentOnce
<1> QED
  BY <1>1, <1>2, <1>3, <1>4, <1>5, <1>6, <1>7, <1>8, <1>9, <1>10
  DEF Next, Resend, Recv, RecvTimeout, Blocks, Returns, PeerAnswers, vars,
      tcp, self, past

(* "0 = ok (acked)" (net.c:566): in a program that does not send again     *)
(* after a send that returned -1, a send that returned 0 was received, at  *)
(* its place, whatever the network lost, repeated or reordered.            *)
THEOREM AckedWasReceived == ASSUME ~SendAgain PROVE Spec => []AckedIsReceived
<1>1. Init => SendInv
  BY InitSendInv
<1>2. SendInv /\ [Next]_vars => SendInv'
  BY NextSendInv
<1>3. SendInv => AckedIsReceived
  BY SendInvIsEnough
<1> QED BY <1>1, <1>2, <1>3, PTL DEF Spec

-----------------------------------------------------------------------------
(* ADDRESSES                                                               *)

Entries == [ip : Hosts \cup {Nobody}, mac : Macs \cup {Nobody}, old : BOOLEAN]
Askings == [at : {"no", "arp", "udp"}, ip : Hosts \cup {Me, Nobody}, name : Names \cup {Nobody}]
Findings == [mac : Macs \cup {MyMac, Nobody}, for : Hosts \cup Names \cup {Me, Nobody},
             name : Names \cup {Nobody}]
NetTypeOK ==
  /\ arp \in [1 .. ARP_CACHE -> Entries] /\ mac \in [Hosts -> Macs]
  /\ asks \in [Tasks -> Askings] /\ found \in [Tasks -> Findings]
  /\ had \subseteq Hosts \X Macs /\ \A h \in Hosts : << h, mac[h] >> \in had
(* What makes the two facts inductive: every reply that was sent, and may  *)
(* come in at any time, is true of a moment, and an answer is to a name.   *)
FramesTrue == \A f \in air : /\ f.kind = "is" => << f.ip, f.mac >> \in had
                             /\ f.kind = "answer" => f.name \in Names
NetInv == NetTypeOK /\ FramesTrue /\ MacIsTheHosts /\ AnswerIsAsked

(* A cache has a first entry of those that will do.                        *)
LEMMA FirstPlaceIn ==
  ASSUME NEW S, S \subseteq 1 .. ARP_CACHE, S # {}
  PROVE  FirstPlace(S) \in S
<1>1. S \subseteq Nat
  BY NetAssumption
<1>2. PICK a \in S : \A b \in S : ~(<< b, a >> \in OpToRel(<, Nat))
  BY <1>1, NatLessThanWellFounded, WFMin
<1>3. \A b \in S : ~(b < a)
  BY <1>1, <1>2 DEF OpToRel
<1>4. \A b \in S : a <= b
  BY <1>1, <1>3
<1> QED BY <1>4 DEF FirstPlace

(* What a call comes back with is true, and stays so when a host is        *)
(* replaced: the history only grows.                                       *)
FindTrue(g) == /\ g.for \in Hosts => << g.for, g.mac >> \in had
               /\ g.name # Nobody => Id[g.name] = Id[g.for]
LEMMA FoundSplit ==
  MacIsTheHosts /\ AnswerIsAsked <=>
    /\ \A i \in 1 .. ARP_CACHE : arp[i].ip # Nobody => << arp[i].ip, arp[i].mac >> \in had
    /\ \A t \in Tasks : FindTrue(found[t])
BY DEF MacIsTheHosts, AnswerIsAsked, FindTrue

LEMMA NothingTrue == Nothing \in Findings /\ FindTrue(Nothing)
BY NetAssumption DEF Nothing, Findings, FindTrue
LEMMA NoCallTyped == NoCall \in Askings
BY DEF NoCall, Askings

LEMMA AnsweredTrue ==
  ASSUME NetInv, UNCHANGED had, NEW t \in Tasks, NEW g \in Findings, FindTrue(g), Answered(t, g)
  PROVE  /\ asks' \in [Tasks -> Askings] /\ found' \in [Tasks -> Findings]
         /\ \A u \in Tasks : FindTrue(found[u])'
<1>1. \A u \in Tasks : FindTrue(found[u])
  BY FoundSplit DEF NetInv
<1>2. asks' \in [Tasks -> Askings] /\ found' \in [Tasks -> Findings]
  BY NoCallTyped DEF Answered, NetInv, NetTypeOK
<1>3. \A u \in Tasks : found'[u] = IF u = t THEN g ELSE found[u]
  BY DEF Answered, NetInv, NetTypeOK
<1>4. \A u \in Tasks : FindTrue(found[u])'
  BY <1>1, <1>3 DEF FindTrue
<1> QED BY <1>2, <1>4

(* A frame more on its way.                                                *)
LEMMA FramesGrow ==
  ASSUME FramesTrue, UNCHANGED had, NEW r, air' = air \cup {r},
         r.kind = "is" => << r.ip, r.mac >> \in had, r.kind = "answer" => r.name \in Names
  PROVE  FramesTrue'
<1>1. ASSUME NEW f \in air'
      PROVE  /\ f.kind = "is" => << f.ip, f.mac >> \in had
             /\ f.kind = "answer" => f.name \in Names
  <2>1. CASE f \in air
    BY <2>1 DEF FramesTrue
  <2>2. CASE f = r
    BY <2>2
  <2> QED BY <2>1, <2>2
<1> QED BY <1>1 DEF FramesTrue

(* A call whose mac is known returns it, or asks the server.               *)
LEMMA ResolvedTrue ==
  ASSUME NetInv, UNCHANGED had, NEW t \in Tasks, NEW ip \in Hosts \cup {Me},
         NEW name \in Names \cup {Nobody}, NEW m \in Macs \cup {MyMac},
         ip \in Hosts => << ip, m >> \in had, Resolved(t, ip, name, m)
  PROVE  /\ asks' \in [Tasks -> Askings] /\ found' \in [Tasks -> Findings]
         /\ \A u \in Tasks : FindTrue(found[u])'
         /\ FramesTrue'
<1>1. CASE name = Nobody
  <2> DEFINE g == [Nothing EXCEPT !.mac = m, !.for = ip]
  <2>1. g \in Findings /\ g.for = ip /\ g.mac = m /\ g.name = Nobody
    BY DEF Findings, Nothing
  <2>2. Answered(t, g) /\ UNCHANGED air
    BY <1>1 DEF Resolved
  <2> HIDE DEF g
  <2>3. FindTrue(g)
    BY <2>1 DEF FindTrue
  <2> QED BY <2>1, <2>2, <2>3, AnsweredTrue DEF NetInv, FramesTrue
<1>2. CASE name # Nobody
  <2>1. Waits(t, "udp", ip, name) /\ Sends({Query(name, m)}) /\ UNCHANGED found
    BY <1>2 DEF Resolved
  <2>2. [at |-> "udp", ip |-> ip, name |-> name] \in Askings
    BY DEF Askings
  <2>3. asks' \in [Tasks -> Askings]
    BY <2>1, <2>2 DEF Waits, NetInv, NetTypeOK
  <2>4. FramesTrue'
    <3> DEFINE r == [kind |-> "query", name |-> name, mac |-> m]
    <3>1. r.kind = "query" /\ air' = air \cup {r}
      BY <2>1 DEF Sends, Query
    <3> HIDE DEF r
    <3> QED BY <3>1, FramesGrow DEF NetInv
  <2>5. \A u \in Tasks : FindTrue(found[u])'
    BY <2>1, FoundSplit DEF NetInv, FindTrue
  <2> QED BY <2>1, <2>3, <2>4, <2>5 DEF NetInv, NetTypeOK
<1> QED BY <1>1, <1>2

LEMMA FoundSplitNext ==
  ASSUME \A i \in 1 .. ARP_CACHE : arp'[i].ip # Nobody => << arp'[i].ip, arp'[i].mac >> \in had',
         \A t \in Tasks : FindTrue(found[t])'
  PROVE  MacIsTheHosts' /\ AnswerIsAsked'
BY DEF MacIsTheHosts, AnswerIsAsked, FindTrue

LEMMA NetBegins == NetInit => NetInv
<1> SUFFICES ASSUME NetInit PROVE NetInv
  OBVIOUS
<1>1. /\ arp \in [1 .. ARP_CACHE -> Entries] /\ \A i \in 1 .. ARP_CACHE : arp[i].ip = Nobody
  BY DEF NetInit, Free, Entries
<1>2. /\ asks \in [Tasks -> Askings] /\ found \in [Tasks -> Findings]
      /\ \A t \in Tasks : FindTrue(found[t])
  BY NoCallTyped, NothingTrue DEF NetInit
<1>3. had \subseteq Hosts \X Macs /\ \A h \in Hosts : << h, mac[h] >> \in had
  BY DEF NetInit
<1>4. mac \in [Hosts -> Macs] /\ air = {}
  BY DEF NetInit
<1>5. MacIsTheHosts /\ AnswerIsAsked
  BY <1>1, <1>2, FoundSplit
<1> QED BY <1>1, <1>2, <1>3, <1>4, <1>5 DEF NetInv, NetTypeOK, FramesTrue

(* net_arp_resolve: what the cache has of an address was the host's.       *)
LEMMA ResolveKeeps ==
  ASSUME NetInv, NEW t \in Tasks, NEW ip \in Hosts \cup {Me}, NEW name \in Names \cup {Nobody},
         Resolve(t, ip, name)
  PROVE  NetInv' /\ UNCHANGED arp
<1>1. UNCHANGED << arp, mac, had >>
  BY DEF Resolve
<1>2. /\ asks' \in [Tasks -> Askings] /\ found' \in [Tasks -> Findings]
      /\ \A u \in Tasks : FindTrue(found[u])'
      /\ FramesTrue'
  <2>1. CASE Known(ip) # {}
    <3> DEFINE i == FirstPlace(Known(ip))
    <3>1. i \in 1 .. ARP_CACHE /\ arp[i].ip = ip
      BY <2>1, FirstPlaceIn DEF Known
    <3> HIDE DEF i
    <3>2. << ip, arp[i].mac >> \in had /\ ip # Nobody
      BY <3>1, NetAssumption DEF NetInv, MacIsTheHosts
    <3>3. arp[i].mac \in Macs
      BY <3>2 DEF NetInv, NetTypeOK
    <3>4. Resolved(t, ip, name, arp[i].mac)
      BY <2>1 DEF Resolve, i
    <3> QED BY <1>1, <3>2, <3>3, <3>4, ResolvedTrue
  <2>2. CASE Known(ip) = {} /\ ip = Me
    BY <1>1, <2>2, NetAssumption, ResolvedTrue DEF Resolve
  <2>3. CASE Known(ip) = {} /\ ip # Me
    <3>1. /\ Waits(t, "arp", ip, name) /\ Sends({[kind |-> "who", ip |-> ip]})
          /\ UNCHANGED found
      BY <2>3 DEF Resolve
    <3>2. [at |-> "arp", ip |-> ip, name |-> name] \in Askings
      BY DEF Askings
    <3>3. asks' \in [Tasks -> Askings]
      BY <3>1, <3>2 DEF Waits, NetInv, NetTypeOK
    <3>4. FramesTrue'
      <4> DEFINE r == [kind |-> "who", ip |-> ip]
      <4>1. r.kind = "who" /\ air' = air \cup {r}
        BY <3>1 DEF Sends
      <4> HIDE DEF r
      <4> QED BY <1>1, <4>1, FramesGrow DEF NetInv
    <3>5. \A u \in Tasks : FindTrue(found[u])'
      BY <1>1, <3>1, FoundSplit DEF NetInv, FindTrue
    <3> QED BY <3>1, <3>3, <3>4, <3>5 DEF NetInv, NetTypeOK
  <2> QED BY <2>1, <2>2, <2>3
<1>3. MacIsTheHosts' /\ AnswerIsAsked'
  BY <1>1, <1>2, FoundSplitNext DEF NetInv, MacIsTheHosts
<1> QED BY <1>1, <1>2, <1>3 DEF NetInv, NetTypeOK

(* A call that ends with nothing, or with an answer, leaves the rest.      *)
LEMMA AnsweredKeeps ==
  ASSUME NetInv, NEW t \in Tasks, NEW g \in Findings, FindTrue(g), Answered(t, g),
         UNCHANGED << arp, mac, had, air >>
  PROVE  NetInv'
<1>1. /\ asks' \in [Tasks -> Askings] /\ found' \in [Tasks -> Findings]
      /\ \A u \in Tasks : FindTrue(found[u])'
  BY AnsweredTrue
<1>2. MacIsTheHosts' /\ AnswerIsAsked'
  BY <1>1, FoundSplitNext DEF NetInv, MacIsTheHosts
<1> QED BY <1>1, <1>2 DEF NetInv, NetTypeOK, FramesTrue

(* arp_wait: the reply that is taken is about the address asked for, so    *)
(* that what is kept and what is returned was the host's.                  *)
LEMMA ArpReplyKeeps ==
  ASSUME NetInv, NEW t \in Tasks, NEW f \in air, ArpReply(t, f)
  PROVE  /\ NetInv'
         /\ arp' = arp \/ \E i \in Place : \E e : arp' = [arp EXCEPT ![i] = e]
<1> DEFINE c == asks[t]
           e == [ip |-> c.ip, mac |-> f.mac, old |-> FALSE]
<1>1. /\ f.kind = "is" /\ f.ip = c.ip /\ UNCHANGED << mac, had >>
      /\ Resolved(t, c.ip, c.name, f.mac)
      /\ arp' = IF Place = {} THEN arp ELSE [arp EXCEPT ![FirstPlace(Place)] = e]
  BY DEF ArpReply, About
<1>2. << c.ip, f.mac >> \in had /\ c.name \in Names \cup {Nobody}
  BY <1>1 DEF NetInv, NetTypeOK, FramesTrue, Askings
<1>3. c.ip \in Hosts /\ f.mac \in Macs
  BY <1>2 DEF NetInv, NetTypeOK
<1> HIDE DEF c
<1>4. /\ asks' \in [Tasks -> Askings] /\ found' \in [Tasks -> Findings]
      /\ \A u \in Tasks : FindTrue(found[u])'
      /\ FramesTrue'
  BY <1>1, <1>2, <1>3, ResolvedTrue
<1>5. e \in Entries /\ e.ip = c.ip /\ e.mac = f.mac
  BY <1>3 DEF Entries
<1> HIDE DEF e
<1>6. arp' = arp \/ \E i \in Place : arp' = [arp EXCEPT ![i] = e]
  BY <1>1, FirstPlaceIn DEF Place
<1>7. /\ arp' \in [1 .. ARP_CACHE -> Entries]
      /\ \A i \in 1 .. ARP_CACHE : arp'[i].ip # Nobody => << arp'[i].ip, arp'[i].mac >> \in had'
  <2>1. /\ arp \in [1 .. ARP_CACHE -> Entries] /\ had' = had
        /\ \A i \in 1 .. ARP_CACHE : arp[i].ip # Nobody => << arp[i].ip, arp[i].mac >> \in had
    BY <1>1 DEF NetInv, NetTypeOK, MacIsTheHosts
  <2>2. CASE arp' = arp
    BY <2>1, <2>2
  <2>3. ASSUME NEW i \in Place, arp' = [arp EXCEPT ![i] = e]
        PROVE  /\ arp' \in [1 .. ARP_CACHE -> Entries]
               /\ \A k \in 1 .. ARP_CACHE : arp'[k].ip # Nobody => << arp'[k].ip, arp'[k].mac >> \in had'
    BY <1>2, <1>5, <2>1, <2>3 DEF Place
  <2> QED BY <1>6, <2>2, <2>3
<1>8. MacIsTheHosts' /\ AnswerIsAsked'
  BY <1>4, <1>7, FoundSplitNext
<1> QED BY <1>1, <1>4, <1>6, <1>7, <1>8 DEF NetInv, NetTypeOK

Stays(i) == arp[i].ip # Nobody /\ ~arp[i].old => arp'[i].ip = arp[i].ip /\ arp'[i].mac = arp[i].mac

LEMMA NetKeeps ==
  ASSUME NetInv, [NetNext]_nvars
  PROVE  NetInv' /\ \A i \in 1 .. ARP_CACHE : Stays(i)
<1>0. arp' = arp => \A i \in 1 .. ARP_CACHE : Stays(i)
  BY DEF Stays
<1>1. ASSUME NEW t \in Tasks, NEW ip \in Hosts \cup {Me}, Resolve(t, ip, Nobody)
      PROVE  NetInv' /\ UNCHANGED arp
  BY <1>1, ResolveKeeps
<1>2. ASSUME NEW t \in Tasks, NEW name \in Names, GetHost(t, name)
      PROVE  NetInv' /\ UNCHANGED arp
  <2>1. CASE Resolve(t, Server, name)
    BY <2>1, NetAssumption, ResolveKeeps
  <2>2. CASE Answered(t, Nothing) /\ UNCHANGED << arp, mac, had, air >>
    BY <2>2, NothingTrue, AnsweredKeeps
  <2> QED BY <1>2, <2>1, <2>2 DEF GetHost
<1>3. ASSUME NEW t \in Tasks, NEW f \in air, ArpReply(t, f)
      PROVE  NetInv' /\ \A i \in 1 .. ARP_CACHE : Stays(i)
  <2>1. NetInv' /\ (arp' = arp \/ \E i \in Place : \E e : arp' = [arp EXCEPT ![i] = e])
    BY <1>3, ArpReplyKeeps
  <2>2. ASSUME NEW i \in Place, NEW e, arp' = [arp EXCEPT ![i] = e]
        PROVE  \A k \in 1 .. ARP_CACHE : Stays(k)
    BY <2>2 DEF Place, Stays, NetInv, NetTypeOK
  <2> QED BY <1>0, <2>1, <2>2
<1>4. ASSUME NEW t \in Tasks, NEW f \in air, UdpAnswer(t, f)
      PROVE  NetInv' /\ UNCHANGED arp
  <2> DEFINE c == asks[t]
             g == IF Answers(f, c.name) THEN [Nothing EXCEPT !.for = c.name, !.name = f.name] ELSE Nothing
  <2>1. f.name \in Names /\ c.name \in Names \cup {Nobody}
    BY <1>4 DEF UdpAnswer, NetInv, NetTypeOK, FramesTrue, Askings
  <2>2. g \in Findings /\ FindTrue(g)
    <3>1. CASE Answers(f, c.name)
      <4> DEFINE r == [Nothing EXCEPT !.for = c.name, !.name = f.name]
      <4>1. r \in Findings /\ r.for = c.name /\ r.name = f.name
        BY <2>1 DEF Nothing, Findings
      <4>2. r.for \notin Hosts /\ Id[r.name] = Id[r.for]
        BY <2>1, <3>1, <4>1, NetAssumption DEF Answers
      <4>3. g = r
        BY <3>1
      <4> QED BY <4>1, <4>2, <4>3 DEF FindTrue
    <3>2. CASE ~Answers(f, c.name)
      BY <3>2, NothingTrue
    <3> QED BY <3>1, <3>2
  <2>3. Answered(t, g) /\ UNCHANGED << arp, mac, had, air >>
    BY <1>4 DEF UdpAnswer
  <2> QED BY <2>2, <2>3, AnsweredKeeps
<1>5. ASSUME NEW t \in Tasks, Timeout(t)
      PROVE  NetInv' /\ UNCHANGED arp
  BY <1>5, NothingTrue, AnsweredKeeps DEF Timeout
(* A host answers with the mac it has.                                     *)
<1>6. ASSUME NEW h \in Hosts, HostAnswers(h)
      PROVE  NetInv' /\ UNCHANGED arp
  <2>1. FramesTrue'
    <3> DEFINE r == [kind |-> "is", ip |-> h, mac |-> mac[h]]
    <3>1. r.kind = "is" /\ r.ip = h /\ r.mac = mac[h] /\ air' = air \cup {r} /\ UNCHANGED had
      BY <1>6 DEF HostAnswers, Sends
    <3> HIDE DEF r
    <3> QED BY <3>1, FramesGrow DEF NetInv, NetTypeOK
  <2> QED BY <1>6, <2>1 DEF HostAnswers, NetInv, NetTypeOK, MacIsTheHosts, AnswerIsAsked
<1>7. ASSUME NEW name \in Names, ServerAnswers(name)
      PROVE  NetInv' /\ UNCHANGED arp
  <2>1. FramesTrue'
    <3> DEFINE r == [kind |-> "answer", name |-> name]
    <3>1. r.kind = "answer" /\ r.name = name /\ air' = air \cup {r} /\ UNCHANGED had
      BY <1>7 DEF ServerAnswers, Sends
    <3> HIDE DEF r
    <3> QED BY <3>1, FramesGrow DEF NetInv
  <2> QED BY <1>7, <2>1 DEF ServerAnswers, NetInv, NetTypeOK, MacIsTheHosts, AnswerIsAsked
<1>8. ASSUME NEW h \in Hosts, NEW m \in Macs, HostReplaced(h, m)
      PROVE  NetInv' /\ UNCHANGED arp
  <2>1. /\ mac' = [mac EXCEPT ![h] = m] /\ had' = had \cup {<< h, m >>}
        /\ UNCHANGED << arp, air, asks, found, asked >>
    BY <1>8 DEF HostReplaced
  <2>2. /\ mac' \in [Hosts -> Macs] /\ had' \subseteq Hosts \X Macs
        /\ \A g \in Hosts : << g, mac'[g] >> \in had'
    BY <2>1 DEF NetInv, NetTypeOK
  <2> QED BY <2>1, <2>2 DEF NetInv, NetTypeOK, FramesTrue, MacIsTheHosts, AnswerIsAsked
<1>9. ASSUME NEW i \in 1 .. ARP_CACHE, Age(i)
      PROVE  NetInv' /\ \A k \in 1 .. ARP_CACHE : Stays(k)
  <2>1. /\ arp' = [arp EXCEPT ![i].old = TRUE] /\ UNCHANGED << mac, had, air, asks, found, asked >>
        /\ arp \in [1 .. ARP_CACHE -> Entries]
    BY <1>9 DEF Age, NetInv, NetTypeOK
  <2>2. /\ arp' \in [1 .. ARP_CACHE -> Entries]
        /\ \A k \in 1 .. ARP_CACHE : arp'[k].ip = arp[k].ip /\ arp'[k].mac = arp[k].mac
    BY <2>1 DEF Entries
  <2> QED BY <2>1, <2>2 DEF Stays, NetInv, NetTypeOK, FramesTrue, MacIsTheHosts, AnswerIsAsked
<1>10. CASE UNCHANGED nvars
  BY <1>10 DEF nvars, Stays, NetInv, NetTypeOK, FramesTrue, MacIsTheHosts, AnswerIsAsked
<1> QED BY <1>0, <1>1, <1>2, <1>3, <1>4, <1>5, <1>6, <1>7, <1>8, <1>9, <1>10 DEF NetNext

(* net.c:60-150 and dns_query: however late replies come, whichever task   *)
(* waits and whatever host is replaced, the mac that the cache or a call   *)
(* has was the host's, an answer has the id that was asked, and an entry   *)
(* younger than ten seconds is not taken by another.                       *)
THEOREM AddressesAreTrue == NetSpec => HostsFound
<1>1. NetInit => NetInv
  BY NetBegins
<1>2. NetInv /\ [NetNext]_nvars => NetInv'
  BY NetKeeps
<1>3. NetInv => MacIsTheHosts /\ AnswerIsAsked
  BY DEF NetInv
<1>4. NetInv /\ [NetNext]_nvars =>
        [\A i \in 1 .. ARP_CACHE :
           arp[i].ip # Nobody /\ ~arp[i].old => arp'[i].ip = arp[i].ip /\ arp'[i].mac = arp[i].mac]_nvars
  BY NetKeeps DEF Stays
<1> QED BY <1>1, <1>2, <1>3, <1>4, PTL DEF NetSpec, HostsFound, YoungStays

-----------------------------------------------------------------------------
(* HOW A PROGRAM ENDS                                                      *)

(* The table and what is owed agree also when the process has ended.       *)
Owed == /\ atexit_n = Len(reg)
        /\ \A i \in 1 .. atexit_n : atexit_tab[i] = reg[i]
ExitInv == ExitTypeOK /\ Owed /\ ExitRunsAll

LEMMA ExitBegins == ExitInit => ExitInv
<1> SUFFICES ASSUME ExitInit PROVE ExitInv
  OBVIOUS
<1>1. atexit_tab \in [1 .. ATEXIT_MAX -> Fns \cup {NoFn}] /\ atexit_n \in 0 .. ATEXIT_MAX
  BY ExitAssumption DEF ExitInit
<1>2. /\ stack \in Seq([who : Codes, exits : BOOLEAN])
      /\ reg \in Seq(Fns) /\ ran \in Seq(Fns) /\ Len(reg) = 0
  BY EmptySeq DEF ExitInit
<1> QED BY <1>1, <1>2 DEF ExitInit, ExitInv, ExitTypeOK, Owed, ExitRunsAll

(* One more runs inside of what runs, or what runs returns.                *)
LEMMA FrameTyped ==
  ASSUME ExitTypeOK, NEW f \in Codes, NEW e \in BOOLEAN
  PROVE  /\ Append(stack, [who |-> f, exits |-> e]) \in Seq([who : Codes, exits : BOOLEAN])
         /\ << [who |-> f, exits |-> e] >> \in Seq([who : Codes, exits : BOOLEAN])
<1>1. [who |-> f, exits |-> e] \in [who : Codes, exits : BOOLEAN]
  OBVIOUS
<1> QED BY <1>1 DEF ExitTypeOK

LEMMA ShorterTyped ==
  ASSUME NEW S, NEW s \in Seq(S), s # << >>
  PROVE  SubSeq(s, 1, Len(s) - 1) \in Seq(S)
<1>1. Len(s) \in Nat /\ Len(s) >= 1
  BY EmptySeq
<1> QED BY <1>1

LEMMA PopTyped ==
  ASSUME ExitTypeOK, stack # << >>
  PROVE  Pop \in Seq([who : Codes, exits : BOOLEAN])
BY ShorterTyped DEF ExitTypeOK, Pop

LEMMA ExitKeeps ==
  ASSUME ExitInv, [ExitNext]_xvars
  PROVE  ExitInv'
<1> USE ExitAssumption
<1>1. CASE InitTerm
  <2> DEFINE f == IF at > Len(Inits) THEN "main" ELSE Inits[at]
  <2>1. f \in Codes
    BY DEF ExitInv, ExitTypeOK, Codes
  <2>2. stack' = << [who |-> f, exits |-> FALSE] >>
    BY <1>1 DEF InitTerm
  <2> HIDE DEF f
  <2>3. stack' \in Seq([who : Codes, exits : BOOLEAN])
    BY <2>1, <2>2, FrameTyped DEF ExitInv
  <2> QED BY <1>1, <2>3 DEF InitTerm, ExitInv, ExitTypeOK, Owed, ExitRunsAll
<1>2. CASE SkipInit
  BY <1>2 DEF SkipInit, ExitInv, ExitTypeOK, Owed, ExitRunsAll
<1>3. ASSUME NEW e \in BOOLEAN, Cexit(e) PROVE ExitInv'
  <2>1. stack' \in Seq([who : Codes, exits : BOOLEAN])
    BY <1>3, FrameTyped DEF Cexit, ExitInv, Codes
  <2> QED BY <1>3, <2>1 DEF Cexit, ExitInv, ExitTypeOK, Owed, ExitRunsAll
<1>4. ASSUME NEW f \in Fns, Atexit(f) PROVE ExitInv'
  <2>1. /\ atexit_n \in 0 .. ATEXIT_MAX /\ atexit_n < ATEXIT_MAX
        /\ atexit_tab \in [1 .. ATEXIT_MAX -> Fns \cup {NoFn}]
        /\ atexit_tab' = [atexit_tab EXCEPT ![atexit_n + 1] = f] /\ atexit_n' = atexit_n + 1
        /\ reg \in Seq(Fns) /\ reg' = Append(reg, f) /\ Owed /\ over = "no"
        /\ UNCHANGED << at, stack, ran, over >>
    BY <1>4 DEF Atexit, Program, Running, ExitInv, ExitTypeOK
  <2>2. /\ atexit_tab' \in [1 .. ATEXIT_MAX -> Fns \cup {NoFn}] /\ atexit_n' \in 0 .. ATEXIT_MAX
        /\ reg' \in Seq(Fns)
    BY <2>1
  <2>3. Owed'
    BY <2>1, AppendProperties DEF Owed
  <2> QED BY <2>1, <2>2, <2>3 DEF ExitInv, ExitTypeOK, ExitRunsAll
(* The last entry is the last that is owed.                                *)
<1>5. CASE CexitCall
  <2> DEFINE f == atexit_tab[atexit_n]
  <2>1. /\ atexit_n \in 1 .. ATEXIT_MAX /\ f = reg[Len(reg)] /\ Len(reg) = atexit_n
        /\ reg \in Seq(Fns) /\ reg' = SubSeq(reg, 1, Len(reg) - 1) /\ atexit_n' = atexit_n - 1
        /\ UNCHANGED << at, atexit_tab, over >> /\ over = "no"
        /\ stack' = Append(stack, [who |-> f, exits |-> FALSE]) /\ ran' = Append(ran, f)
    BY <1>5 DEF CexitCall, Running, ExitInv, ExitTypeOK, Owed
  <2>2. f \in Fns /\ f \in Codes
    BY <2>1 DEF Codes
  <2> HIDE DEF f
  <2>3. stack' \in Seq([who : Codes, exits : BOOLEAN]) /\ ran' \in Seq(Fns)
    BY <2>1, <2>2, FrameTyped DEF ExitInv, ExitTypeOK
  <2>4. reg' \in Seq(Fns) /\ Len(reg') = Len(reg) - 1 /\ \A i \in 1 .. Len(reg) - 1 : reg'[i] = reg[i]
    BY <2>1
  <2>5. Owed'
    BY <2>1, <2>4 DEF Owed, ExitInv
  <2> QED BY <2>1, <2>3, <2>4, <2>5 DEF ExitInv, ExitTypeOK, ExitRunsAll
(* _cexit is through when nothing is owed.                                 *)
<1>6. CASE CexitEnd
  <2>1. /\ atexit_n = 0 /\ stack # << >>
        /\ over' \in {over, "exit"} /\ (stack' = stack \/ stack' = Pop)
        /\ UNCHANGED << at, atexit_tab, atexit_n, reg, ran >>
    BY <1>6 DEF CexitEnd, Running
  <2>2. stack' \in Seq([who : Codes, exits : BOOLEAN])
    BY <2>1, PopTyped DEF ExitInv, ExitTypeOK
  <2>3. reg = << >>
    BY <2>1, EmptySeq DEF ExitInv, ExitTypeOK, Owed
  <2> QED BY <2>1, <2>2, <2>3 DEF ExitInv, ExitTypeOK, Owed, ExitRunsAll
<1>7. CASE Return
  <2>1. /\ stack # << >> /\ over' \in {over, "return"} /\ (stack' = stack \/ stack' = Pop)
        /\ UNCHANGED << at, atexit_tab, atexit_n, reg, ran >>
    BY <1>7 DEF Return, Program, Running
  <2>2. stack' \in Seq([who : Codes, exits : BOOLEAN])
    BY <2>1, PopTyped DEF ExitInv, ExitTypeOK
  <2> QED BY <2>1, <2>2 DEF ExitInv, ExitTypeOK, Owed, ExitRunsAll
<1>8. CASE Abort
  BY <1>8 DEF Abort, ExitInv, ExitTypeOK, Owed, ExitRunsAll
<1>9. CASE UNCHANGED xvars
  BY <1>9 DEF xvars, ExitInv, ExitTypeOK, Owed, ExitRunsAll
<1> QED BY <1>1, <1>2, <1>3, <1>4, <1>5, <1>6, <1>7, <1>8, <1>9 DEF ExitNext

(* msvcrt.c:405-434: the table holds what was registered and has not run,  *)
(* in order, whatever the functions that _cexit runs register and call,    *)
(* and a process that ends by exit owes nothing.                           *)
THEOREM ProgramEnds == ExitSpec => []ExitKept
<1>1. ExitInit => ExitInv
  BY ExitBegins
<1>2. ExitInv /\ [ExitNext]_xvars => ExitInv'
  BY ExitKeeps
<1>3. ExitInv => ExitKept
  BY DEF ExitInv, ExitKept, Owed, TableIsOwed
<1> QED BY <1>1, <1>2, <1>3, PTL DEF ExitSpec

-----------------------------------------------------------------------------
(* SOUND                                                                   *)

(* Induction and recursion over the numbers up to n, for a set and for a   *)
(* function with a step.                                                   *)
LEMMA UpTo ==
  ASSUME NEW n \in Nat, NEW G, 0 \in G, \A k \in 1 .. n : k - 1 \in G => k \in G
  PROVE  n \in G
<1> SUFFICES \A k \in 0 .. n : k \in G
  OBVIOUS
<1> DEFINE B == {k \in 0 .. n : k \notin G}
<1> SUFFICES ASSUME B # {} PROVE FALSE
  OBVIOUS
<1>1. B \subseteq Nat
  OBVIOUS
<1>2. PICK a \in B : \A b \in B : ~(<< b, a >> \in OpToRel(<, Nat))
  BY <1>1, NatLessThanWellFounded, WFMin
<1>3. \A b \in B : ~(b < a)
  BY <1>1, <1>2 DEF OpToRel
<1>4. a \in 1 .. n /\ a - 1 \in 0 .. n
  <2>1. a \in 0 .. n /\ a # 0
    BY <1>2
  <2> QED BY <2>1
<1>5. a - 1 \in G
  BY <1>3, <1>4
<1> QED BY <1>2, <1>4, <1>5

Defined(n, V, a, g) == \E C \in [0 .. n -> V] : C[0] = a /\ \A k \in 1 .. n : C[k] = g[k][C[k - 1]]
LEMMA Steps ==
  ASSUME NEW n \in Nat, NEW V, NEW a \in V, NEW g \in [1 .. n -> [V -> V]]
  PROVE  Defined(n, V, a, g)
<1> DEFINE Ok(m) == \E C \in [0 .. m -> V] : C[0] = a /\ \A k \in 1 .. m : C[k] = g[k][C[k - 1]]
           G == {m \in 0 .. n : Ok(m)}
<1>1. Ok(0)
  <2> DEFINE C == [k \in 0 .. 0 |-> a]
  <2>1. C \in [0 .. 0 -> V] /\ C[0] = a /\ 1 .. 0 = {}
    OBVIOUS
  <2> HIDE DEF C
  <2> QED BY <2>1
<1>2. ASSUME NEW k \in 1 .. n, k - 1 \in G PROVE k \in G
  <2>1. PICK C \in [0 .. k - 1 -> V] : C[0] = a /\ \A j \in 1 .. k - 1 : C[j] = g[j][C[j - 1]]
    BY <1>2
  <2> DEFINE D == [j \in 0 .. k |-> IF j = k THEN g[k][C[k - 1]] ELSE C[j]]
  <2>2. g[k][C[k - 1]] \in V
    BY <1>2, <2>1
  <2>3. D \in [0 .. k -> V]
    BY <2>1, <2>2
  <2>4. D[0] = a /\ D[k] = g[k][C[k - 1]] /\ \A j \in 0 .. k - 1 : D[j] = C[j]
    BY <1>2, <2>1
  <2> HIDE DEF D
  <2>5. \A j \in 1 .. k : D[j] = g[j][D[j - 1]]
    <3> TAKE j \in 1 .. k
    <3>1. CASE j = k
      BY <2>4, <3>1
    <3>2. CASE j # k
      <4>1. j \in 1 .. k - 1 /\ j - 1 \in 0 .. k - 1 /\ j \in 0 .. k - 1
        BY <3>2
      <4> QED BY <2>1, <2>4, <4>1
    <3> QED BY <3>1, <3>2
  <2>6. Ok(k)
    BY <2>3, <2>4, <2>5
  <2>7. k \in 0 .. n
    OBVIOUS
  <2> HIDE DEF Ok
  <2> QED BY <2>6, <2>7
<1>3. 0 \in G
  BY <1>1
<1>4. \A k \in 1 .. n : k - 1 \in G => k \in G
  BY <1>2
<1> HIDE DEF G
<1>5. n \in G
  BY <1>3, <1>4, UpTo
<1> QED BY <1>5 DEF G, Defined

Fitted == [ch : {1, 2}, bits : {8, 16}]
LEMMA FitsFitted ==
  ASSUME NEW f
  PROVE  Fits(f) \in Fitted /\ Fits(Fits(f)) = Fits(f)
BY DEF Fits, Fitted

(* A frame lies within the sound.                                          *)
LEMMA FrameIs ==
  ASSUME NEW d \in Seq(Bytes), NEW f \in Fitted, NEW k \in 1 .. FramesOf(d, f), NEW side \in {1, 2}
  PROVE  \E x, y \in Bytes : Frame(d, f, k, side) = << x, y >>
<1> DEFINE w == f.bits \div 8
           i == (k - 1) * w * f.ch + 1 + (IF side = 2 /\ f.ch = 2 THEN w ELSE 0)
<1>1. f.ch \in {1, 2} /\ f.bits \in {8, 16}
  BY DEF Fitted
<1>2. Len(d) \in Nat /\ \A j \in 1 .. Len(d) : d[j] \in Bytes
  OBVIOUS
<1>3. i \in 1 .. Len(d) /\ (f.bits = 16 => i + 1 \in 1 .. Len(d))
  <2>1. CASE f.ch = 1 /\ f.bits = 8
    BY <1>2, <2>1 DEF FramesOf
  <2>2. CASE f.ch = 2 /\ f.bits = 8
    BY <1>2, <2>2 DEF FramesOf
  <2>3. CASE f.ch = 1 /\ f.bits = 16
    BY <1>2, <2>3 DEF FramesOf
  <2>4. CASE f.ch = 2 /\ f.bits = 16
    BY <1>2, <2>4 DEF FramesOf
  <2> QED BY <1>1, <2>1, <2>2, <2>3, <2>4
<1>4. Frame(d, f, k, side) = Sample(d, i, f.bits)
  BY DEF Frame
<1> HIDE DEF i
<1>5. CASE f.bits = 8
  BY <1>2, <1>3, <1>4, <1>5, SoundAssumption DEF Sample
<1>6. CASE f.bits = 16
  BY <1>2, <1>3, <1>4, <1>6 DEF Sample
<1> QED BY <1>1, <1>5, <1>6

LEMMA JoinFour ==
  ASSUME NEW s \in Seq(Bytes), NEW a \in Bytes, NEW b \in Bytes, NEW c \in Bytes, NEW e \in Bytes,
         NEW r, r = s \o << a, b >> \o << c, e >>
  PROVE  /\ r \in Seq(Bytes) /\ Len(r) = Len(s) + 4 /\ \A j \in 1 .. Len(s) : r[j] = s[j]
         /\ r[Len(s) + 1] = a /\ r[Len(s) + 2] = b /\ r[Len(s) + 3] = c /\ r[Len(s) + 4] = e
<1> DEFINE q == s \o << a, b >>
           n == Len(s)
<1>0. << a, b >> \in Seq(Bytes) /\ Len(<< a, b >>) = 2 /\ << c, e >> \in Seq(Bytes) /\ Len(<< c, e >>) = 2
  OBVIOUS
<1>1. /\ q \in Seq(Bytes) /\ Len(q) = n + 2 /\ \A j \in 1 .. n : q[j] = s[j]
      /\ q[n + 1] = a /\ q[n + 2] = b
  BY <1>0, ConcatProperties
<1> HIDE DEF q
<1>2. /\ r \in Seq(Bytes) /\ Len(r) = Len(q) + 2 /\ \A j \in 1 .. Len(q) : r[j] = q[j]
      /\ r[Len(q) + 1] = c /\ r[Len(q) + 2] = e
  <2>1. r = q \o << c, e >>
    BY DEF q
  <2> QED BY <1>0, <1>1, <2>1, ConcatProperties
<1> QED BY <1>1, <1>2

(* The loop of wav_play makes the frames one after the other.              *)
FrameAt(c, d, f, k) == /\ << c[4 * k - 3], c[4 * k - 2] >> = Frame(d, f, k, 1)
                       /\ << c[4 * k - 1], c[4 * k] >> = Frame(d, f, k, 2)
Joined(s, d, f, k) == s \o Frame(d, f, k, 1) \o Frame(d, f, k, 2)
LEMMA JoinedFrame ==
  ASSUME NEW d \in Seq(Bytes), NEW f \in Fitted, NEW k \in 1 .. FramesOf(d, f), NEW s \in Seq(Bytes)
  PROVE  /\ Joined(s, d, f, k) \in Seq(Bytes)
         /\ Len(s) = 4 * (k - 1) /\ (\A j \in 1 .. k - 1 : FrameAt(s, d, f, j)) =>
              /\ Len(Joined(s, d, f, k)) = 4 * k
              /\ \A j \in 1 .. k : FrameAt(Joined(s, d, f, k), d, f, j)
<1>1. PICK a \in Bytes, b \in Bytes : Frame(d, f, k, 1) = << a, b >>
  BY FrameIs
<1>2. PICK c \in Bytes, e \in Bytes : Frame(d, f, k, 2) = << c, e >>
  BY FrameIs
<1> DEFINE r == Joined(s, d, f, k)
<1>3. /\ r \in Seq(Bytes) /\ Len(r) = Len(s) + 4 /\ \A j \in 1 .. Len(s) : r[j] = s[j]
      /\ r[Len(s) + 1] = a /\ r[Len(s) + 2] = b /\ r[Len(s) + 3] = c /\ r[Len(s) + 4] = e
  <2>1. r = s \o << a, b >> \o << c, e >>
    BY <1>1, <1>2 DEF Joined
  <2> HIDE DEF r
  <2> QED BY <2>1, JoinFour
<1> HIDE DEF r
<1>4. ASSUME Len(s) = 4 * (k - 1), \A j \in 1 .. k - 1 : FrameAt(s, d, f, j), NEW j \in 1 .. k
      PROVE  FrameAt(r, d, f, j)
  <2>0. k \in Nat /\ j \in Nat
    BY <1>4 DEF FramesOf
  <2>1. CASE j = k
    <3>1. 4 * k - 3 = Len(s) + 1 /\ 4 * k - 2 = Len(s) + 2 /\ 4 * k - 1 = Len(s) + 3 /\ 4 * k = Len(s) + 4
      BY <1>4, <2>0
    <3> QED BY <1>1, <1>2, <1>3, <2>1, <3>1 DEF FrameAt
  <2>2. CASE j # k
    <3>1. /\ j \in 1 .. k - 1 /\ 4 * j - 3 \in 1 .. Len(s) /\ 4 * j - 2 \in 1 .. Len(s)
          /\ 4 * j - 1 \in 1 .. Len(s) /\ 4 * j \in 1 .. Len(s)
      BY <1>4, <2>0, <2>2
    <3> QED BY <1>3, <1>4, <3>1 DEF FrameAt
  <2> QED BY <2>1, <2>2
<1>5. k \in Nat
  BY DEF FramesOf
<1> QED BY <1>3, <1>4, <1>5 DEF r

LEMMA ConvertedFrames ==
  ASSUME NEW d \in Seq(Bytes), NEW f \in Fitted
  PROVE  /\ Converted(d, f) \in Seq(Bytes) /\ Len(Converted(d, f)) = 4 * FramesOf(d, f)
         /\ \A k \in 1 .. FramesOf(d, f) : FrameAt(Converted(d, f), d, f, k)
<1> DEFINE n == FramesOf(d, f)
           w == f.bits \div 8
           step == w * f.ch
           IsC(C) == C = [k \in 0 .. n |->
                            IF k = 0 THEN NoSound
                            ELSE LET i == (k - 1) * step + 1
                                 IN  C[k - 1] \o Sample(d, i, f.bits)
                                       \o Sample(d, IF f.ch = 2 THEN i + w ELSE i, f.bits)]
           V == Seq(Bytes)
           g == [k \in 1 .. n |-> [v \in V |-> Joined(v, d, f, k)]]
<1>1. f.ch \in {1, 2} /\ f.bits \in {8, 16}
  BY DEF Fitted
<1>2. n \in Nat
  BY <1>1 DEF FramesOf
<1>3. Converted(d, f) = (CHOOSE C : IsC(C))[n]
  BY DEF Converted, FramesOf
<1>4. ASSUME NEW k \in 1 .. n, NEW s
       PROVE  Joined(s, d, f, k) =
                s \o Sample(d, (k - 1) * step + 1, f.bits)
                  \o Sample(d, IF f.ch = 2 THEN (k - 1) * step + 1 + w ELSE (k - 1) * step + 1, f.bits)
  <2> DEFINE i == (k - 1) * step + 1
  <2>1. k \in Nat
    BY <1>2
  <2>2. w \in {1, 2}
    BY <1>1
  <2>3. i = (k - 1) * w * f.ch + 1 + 0 /\ i + w = (k - 1) * w * f.ch + 1 + w
    <3> HIDE DEF w
    <3>1. CASE w = 1
      BY <1>1, <2>1, <3>1
    <3>2. CASE w = 2
      BY <1>1, <2>1, <3>2
    <3> QED BY <2>2, <3>1, <3>2
  <2>4. Frame(d, f, k, 1) = Sample(d, i, f.bits)
    BY <2>3 DEF Frame
  <2>5. Frame(d, f, k, 2) = Sample(d, IF f.ch = 2 THEN i + w ELSE i, f.bits)
    BY <2>3 DEF Frame
  <2> QED BY <2>4, <2>5 DEF Joined
<1>5. ASSUME NEW C
       PROVE  IsC(C) <=> C = [k \in 0 .. n |-> IF k = 0 THEN << >> ELSE Joined(C[k - 1], d, f, k)]
  <2> HIDE DEF n, w, step
  <2>1. ASSUME NEW k \in 0 .. n, k # 0
        PROVE  Joined(C[k - 1], d, f, k) =
                 LET i == (k - 1) * step + 1
                 IN  C[k - 1] \o Sample(d, i, f.bits) \o Sample(d, IF f.ch = 2 THEN i + w ELSE i, f.bits)
    <3>1. k \in 1 .. n
      BY <1>2, <2>1
    <3> QED BY <1>4, <3>1
  <2> DEFINE J == [k \in 0 .. n |-> IF k = 0 THEN << >> ELSE Joined(C[k - 1], d, f, k)]
             R == [k \in 0 .. n |->
                     IF k = 0 THEN << >>
                     ELSE LET i == (k - 1) * step + 1
                          IN  C[k - 1] \o Sample(d, i, f.bits)
                                \o Sample(d, IF f.ch = 2 THEN i + w ELSE i, f.bits)]
  <2>2. J = R
    BY <2>1, Zenon
  <2>3. IsC(C) <=> C = R
    BY DEF NoSound
  <2>4. IsC(C) <=> C = J
    <3> HIDE DEF J, R, IsC
    <3> QED BY <2>2, <2>3
  <2> HIDE DEF IsC
  <2> QED BY <2>4
<1> HIDE DEF n, IsC, w, step
<1>6. g \in [1 .. n -> [V -> V]]
  BY JoinedFrame DEF n
<1>7. << >> \in V
  OBVIOUS
<1>8. PICK C0 \in [0 .. n -> V] : C0[0] = << >> /\ \A k \in 1 .. n : C0[k] = g[k][C0[k - 1]]
  <2> HIDE DEF V, g
  <2>1. Defined(n, V, << >>, g)
    BY <1>2, <1>6, <1>7, Steps
  <2> QED BY <2>1 DEF Defined
<1>9. IsC(C0)
  <2>1. ASSUME NEW k \in 1 .. n PROVE C0[k] = Joined(C0[k - 1], d, f, k)
    <3>1. k - 1 \in 0 .. n
      BY <1>2
    <3>2. C0[k - 1] \in V
      BY <1>8, <3>1
    <3>3. g[k][C0[k - 1]] = Joined(C0[k - 1], d, f, k)
      <4> HIDE DEF V
      <4> QED BY <3>2
    <3> HIDE DEF g
    <3> QED BY <1>8, <3>3
  <2>2. \A k \in 0 .. n : C0[k] = IF k = 0 THEN << >> ELSE Joined(C0[k - 1], d, f, k)
    <3> TAKE k \in 0 .. n
    <3>1. CASE k = 0
      BY <1>8, <3>1
    <3>2. CASE k # 0
      <4>1. k \in 1 .. n
        BY <1>2, <3>2
      <4> QED BY <2>1, <3>2, <4>1
    <3> QED BY <3>1, <3>2
  <2>3. C0 = [k \in 0 .. n |-> IF k = 0 THEN << >> ELSE Joined(C0[k - 1], d, f, k)]
    <3> HIDE DEF V, g
    <3>1. C0 = [k \in 0 .. n |-> C0[k]]
      BY <1>8
    <3> QED BY <2>2, <3>1, Zenon
  <2> QED BY <1>5, <2>3
<1> DEFINE C == CHOOSE C : IsC(C)
<1>10. IsC(C)
  BY <1>9
<1> HIDE DEF C
<1>11. C = [k \in 0 .. n |-> IF k = 0 THEN << >> ELSE Joined(C[k - 1], d, f, k)]
  BY <1>10, <1>5
<1>12. C[0] = << >> /\ \A k \in 1 .. n : C[k] = Joined(C[k - 1], d, f, k)
  <2>1. 0 \in 0 .. n /\ \A k \in 1 .. n : k \in 0 .. n /\ k # 0
    BY <1>2
  <2> QED BY <1>11, <2>1, Zenon
<1> DEFINE Good(k) == /\ C[k] \in Seq(Bytes) /\ Len(C[k]) = 4 * k
                      /\ \A j \in 1 .. k : FrameAt(C[k], d, f, j)
           G == {k \in 0 .. n : Good(k)}
<1>13. 0 \in G
  <2>1. C[0] \in Seq(Bytes) /\ Len(C[0]) = 0 /\ 1 .. 0 = {} /\ 0 \in 0 .. n
    BY <1>2, <1>12
  <2> QED BY <2>1
<1>14. ASSUME NEW k \in 1 .. n, k - 1 \in G PROVE k \in G
  <2>1. C[k] = Joined(C[k - 1], d, f, k)
    BY <1>12
  <2>2. Good(k)
    BY <1>14, <2>1, JoinedFrame DEF n
  <2> QED BY <2>2
<1>15. \A k \in 1 .. n : k - 1 \in G => k \in G
  BY <1>14
<1>16. n \in G
  <2> HIDE DEF G
  <2> QED BY <1>2, <1>13, <1>15, UpTo
<1>17. Good(n)
  BY <1>16 DEF G
<1> QED BY <1>3, <1>17 DEF C, n

(* A sound that is to be played has the frames of the one it is of.        *)
HasFrames(c) == /\ Len(c.data) \div 4 = FramesOf(c.of, c.as)
                /\ c.as # Stereo => Len(c.data) = 4 * FramesOf(c.of, c.as)
                /\ \A k \in 1 .. FramesOf(c.of, c.as) : FrameAt(c.data, c.of, c.as, k)
LEMMA ToPlayHasFrames ==
  ASSUME NEW d \in Seq(Bytes), NEW f,
         NEW c, c.data = ToPlay(d, f), c.of = d, c.as = Fits(f)
  PROVE  ToPlay(d, f) \in Seq(Bytes) /\ HasFrames(c)
<1>1. CASE Direct(f)
  <2>1. c.data = d /\ c.as = Stereo /\ c.of = d
    BY <1>1 DEF Direct, ToPlay
  <2>2. FramesOf(d, Stereo) = Len(d) \div 4
    BY DEF FramesOf, Stereo
  <2>3. ASSUME NEW k \in 1 .. FramesOf(d, Stereo) PROVE FrameAt(d, d, Stereo, k)
    <3>1. k \in Nat
      BY <2>2
    <3>2. Frame(d, Stereo, k, 1) = << d[4 * k - 3], d[4 * k - 2] >>
      BY <3>1 DEF Frame, Stereo, Sample
    <3>3. Frame(d, Stereo, k, 2) = << d[4 * k - 1], d[4 * k] >>
      BY <3>1 DEF Frame, Stereo, Sample
    <3> QED BY <3>2, <3>3 DEF FrameAt
  <2> QED BY <1>1, <2>1, <2>2, <2>3 DEF HasFrames, Direct, ToPlay
<1>2. CASE ~Direct(f)
  <2>1. c.data = Converted(d, Fits(f)) /\ c.as \in Fitted /\ c.as = Fits(f) /\ c.of = d
    BY <1>2, FitsFitted DEF ToPlay
  <2>2. /\ c.data \in Seq(Bytes) /\ Len(c.data) = 4 * FramesOf(c.of, c.as)
        /\ \A k \in 1 .. FramesOf(c.of, c.as) : FrameAt(c.data, c.of, c.as, k)
    BY <2>1, ConvertedFrames
  <2>3. FramesOf(c.of, c.as) \in Nat
    BY <2>1 DEF FramesOf, Fitted
  <2> HIDE DEF HasFrames
  <2>4. Len(c.data) \div 4 = FramesOf(c.of, c.as)
    BY <2>2, <2>3
  <2> QED BY <2>2, <2>4 DEF HasFrames
<1> QED BY <1>1, <1>2

Plies == [at : {"no", "chunk", "piece", "run", "wait"}, data : Seq(Bytes), base : Nat, end : Nat,
          off : Nat, of : Seq(Bytes), as : Fitted]
(* Where a call stands: in the data, chunk after chunk, at a whole frame   *)
(* unless it is at the end.                                                *)
Placed(c) ==
  /\ c.off <= Len(c.data) /\ c.end <= Len(c.data) /\ c.base % 4 = 0
  /\ c.at \in {"piece", "run", "wait"} =>
       /\ c.off <= c.end /\ c.end = Smaller(c.base + CHUNK, Len(c.data))
       /\ c.off % 4 = 0 \/ c.off = Len(c.data)
  /\ c.at = "piece" => c.off < c.end
(* How many frames have been played by then, when b halfwords are due.     *)
Counted(c, p, b) ==
  /\ c.at = "chunk" => p = Smaller(c.base, Len(c.data)) \div 4
  /\ c.at \in {"piece", "wait"} => p = c.off \div 4
  /\ c.at = "run" => p + b \div 2 = c.off \div 4
Called(t) == \E i \in DOMAIN plays : plays[i] = t
Alone(t) == \A i \in DOMAIN plays : plays[i] = t
SoundInv ==
  /\ play \in [Players -> Plies] /\ played \in [Players -> Nat] /\ plays \in Seq(Players)
  /\ bd \in Nat /\ bd <= 2 * FRAMES
  /\ \A t \in Players : /\ play[t].at # "no" => HasFrames(play[t]) /\ Called(t)
                        /\ Placed(play[t])
                        /\ Alone(t) => Counted(play[t], played[t], bd)

LEMMA SilentIs == Silent \in Plies /\ Placed(Silent) /\ Silent.at = "no" /\ \A p, b : Counted(Silent, p, b)
<1>1. NoSound \in Seq(Bytes) /\ Len(NoSound) = 0 /\ Stereo \in Fitted
  BY DEF NoSound, Stereo, Fitted
<1>2. 0 % 4 = 0
  OBVIOUS
<1> QED BY <1>1, <1>2 DEF Silent, Plies, Placed, Counted

LEMMA SoundAtInit == SoundInit => SoundInv
<1> SUFFICES ASSUME SoundInit PROVE SoundInv
  OBVIOUS
<1>1. FRAMES \in Nat /\ plays \in Seq(Players)
  BY SoundAssumption DEF SoundInit
<1>2. play \in [Players -> Plies] /\ \A t \in Players : play[t] = Silent
  BY SilentIs DEF SoundInit
<1> QED BY <1>1, <1>2, SilentIs DEF SoundInit, SoundInv

(* The step of a task that plays: what it must establish for itself.       *)
LEMMA OneStep ==
  ASSUME SoundInv, NEW u \in Players, NEW c \in Plies, NEW p \in Nat,
         play' = [play EXCEPT ![u] = c], played' = [played EXCEPT ![u] = p],
         (plays' = plays /\ Called(u)) \/ plays' = Append(plays, u),
         bd' \in Nat, bd' <= 2 * FRAMES,
         c.at # "no" => HasFrames(c), Placed(c), Alone(u) => Counted(c, p, bd')
  PROVE  SoundInv'
<1>1. plays \in Seq(Players) /\ plays' \in Seq(Players) /\ DOMAIN plays = 1 .. Len(plays)
  <2>1. plays \in Seq(Players)
    BY DEF SoundInv
  <2>2. Append(plays, u) \in Seq(Players)
    BY <2>1
  <2> QED BY <2>1, <2>2
<1>2. /\ \A t \in Players : Called(t) => Called(t)'
      /\ Called(u)'
      /\ \A t \in Players : Alone(t)' => Alone(t) /\ t = u
  <2>1. CASE plays' = plays /\ Called(u)
    BY <2>1 DEF Called, Alone
  <2>2. CASE plays' = Append(plays, u)
    <3>1. /\ Len(plays') = Len(plays) + 1 /\ plays'[Len(plays) + 1] = u
          /\ \A i \in 1 .. Len(plays) : plays'[i] = plays[i]
      BY <1>1, <2>2
    <3>2. DOMAIN plays' = 1 .. Len(plays) + 1 /\ Len(plays) \in Nat
      BY <1>1, <3>1
    <3> QED BY <1>1, <3>1, <3>2 DEF Called, Alone
  <2> QED BY <2>1, <2>2
<1>3. play' \in [Players -> Plies] /\ played' \in [Players -> Nat]
  BY DEF SoundInv
<1>4. ASSUME NEW t \in Players
      PROVE  /\ play'[t].at # "no" => HasFrames(play'[t]) /\ Called(t)'
             /\ Placed(play'[t])
             /\ Alone(t)' => Counted(play'[t], played'[t], bd')
  <2>1. CASE t = u
    <3>1. play'[t] = c /\ played'[t] = p
      BY <2>1 DEF SoundInv
    <3> QED BY <1>2, <2>1, <3>1
  <2>2. CASE t # u
    <3>1. play'[t] = play[t]
      BY <2>2 DEF SoundInv
    <3> QED BY <1>2, <2>2, <3>1 DEF SoundInv
  <2> QED BY <2>1, <2>2
<1> HIDE DEF HasFrames
<1> QED BY <1>1, <1>3, <1>4 DEF SoundInv, HasFrames, Placed, Counted

(* A call that begins, and one that ends.                                  *)
LEMMA EndsKeeps ==
  ASSUME SoundInv, NEW u \in Players, NEW r, Ends(u, r),
         played' = played \/ played' = [played EXCEPT ![u] = 0],
         (plays' = plays /\ Called(u)) \/ plays' = Append(plays, u), bd' = bd
  PROVE  SoundInv'
<1>1. play' = [play EXCEPT ![u] = Silent]
  BY DEF Ends
<1>2. \E p \in Nat : played' = [played EXCEPT ![u] = p]
  <2>1. CASE played' = played
    <3>1. played' = [played EXCEPT ![u] = played[u]] /\ played[u] \in Nat
      BY <2>1 DEF SoundInv
    <3> QED BY <3>1
  <2>2. CASE played' = [played EXCEPT ![u] = 0]
    BY <2>2
  <2> QED BY <2>1, <2>2
<1>3. PICK p \in Nat : played' = [played EXCEPT ![u] = p]
  BY <1>2
<1>4. bd' \in Nat /\ bd' <= 2 * FRAMES
  BY DEF SoundInv
<1> QED BY <1>1, <1>3, <1>4, SilentIs, OneStep

LEMMA PlaysKeeps ==
  ASSUME SoundInv, NEW u \in Players, Begins(u), NEW d \in Seq(Bytes), NEW f, Plays(u, d, f), bd' = bd
  PROVE  SoundInv'
<1>1. plays' = Append(plays, u) /\ played' = [played EXCEPT ![u] = 0]
  BY DEF Begins, Plays
<1>2. CASE \E r : Ends(u, r)
  BY <1>1, <1>2, EndsKeeps
<1>3. CASE \A r : ~Ends(u, r)
  <2> DEFINE c == [Silent EXCEPT !.at = "chunk", !.data = ToPlay(d, f), !.of = d, !.as = Fits(f)]
  <2>1. play' = [play EXCEPT ![u] = c]
    BY <1>3 DEF Plays
  <2>2. Silent \in Plies /\ Silent.base = 0 /\ Silent.off = 0 /\ Silent.end = 0
    BY SilentIs DEF Silent
  <2>3. /\ c.at = "chunk" /\ c.data = ToPlay(d, f) /\ c.of = d /\ c.as = Fits(f)
        /\ c.base = 0 /\ c.off = 0 /\ c.end = 0
    BY <2>2 DEF Plies
  <2>4. ToPlay(d, f) \in Seq(Bytes) /\ HasFrames(c)
    <3> HIDE DEF c
    <3> QED BY <2>3, ToPlayHasFrames
  <2>5. c \in Plies
    BY <2>2, <2>4, FitsFitted DEF Plies
  <2> HIDE DEF c
  <2>6. Len(c.data) \in Nat /\ c.data \in Seq(Bytes)
    BY <2>3, <2>4
  <2>7. Placed(c) /\ Counted(c, 0, bd')
    <3>1. 0 % 4 = 0 /\ 0 \div 4 = 0
      OBVIOUS
    <3>2. Smaller(c.base, Len(c.data)) = 0
      BY <2>3, <2>6 DEF Smaller
    <3>3. Placed(c)
      BY <2>3, <2>6, <3>1 DEF Placed
    <3>4. Counted(c, 0, bd')
      BY <2>3, <3>1, <3>2 DEF Counted
    <3> QED BY <3>3, <3>4
  <2>8. bd' \in Nat /\ bd' <= 2 * FRAMES /\ 0 \in Nat
    BY DEF SoundInv
  <2> HIDE DEF HasFrames, Placed, Counted
  <2> QED BY <1>1, <2>1, <2>4, <2>5, <2>7, <2>8, OneStep
<1> QED BY <1>2, <1>3

LEMMA PlayFileKeeps ==
  ASSUME SoundInv, NEW u \in Players, Begins(u), NEW name, PlayFile(u, name), bd' = bd
  PROVE  SoundInv'
<1>1. CASE Ends(u, "failed") /\ UNCHANGED played
  <2>1. plays' = Append(plays, u)
    BY DEF Begins
  <2> QED BY <1>1, <2>1, EndsKeeps
<1>2. CASE name \in DOMAIN WaveFiles /\ Plays(u, WaveFiles[name].data, WaveFiles[name].format)
  <2>1. WaveFiles[name].data \in Seq(Bytes)
    BY <1>2, SoundAssumption
  <2> QED BY <1>2, <2>1, PlaysKeeps
<1> QED BY <1>1, <1>2 DEF PlayFile

(* The system call: what of a call is where it stands.                     *)
LEMMA CallTyped ==
  ASSUME SoundInv, NEW u \in Players
  PROVE  LET c == play[u] IN
         /\ c \in Plies /\ c.data \in Seq(Bytes) /\ Len(c.data) \in Nat
         /\ c.base \in Nat /\ c.off \in Nat /\ c.end \in Nat /\ Placed(c) /\ played[u] \in Nat
         /\ c.at # "no" => HasFrames(c) /\ Called(u)
         /\ Alone(u) => Counted(c, played[u], bd)
<1>1. play[u] \in Plies
  BY DEF SoundInv
<1>2. /\ play[u].data \in Seq(Bytes) /\ play[u].base \in Nat /\ play[u].off \in Nat /\ play[u].end \in Nat
  BY <1>1 DEF Plies
<1> HIDE DEF HasFrames, Placed, Counted, Called, Alone
<1> QED BY <1>1, <1>2 DEF SoundInv

LEMMA MovedHasFrames ==
  ASSUME NEW c, NEW d, d.data = c.data, d.of = c.of, d.as = c.as, HasFrames(c)
  PROVE  HasFrames(d)
BY DEF HasFrames

LEMMA ChunkKeeps ==
  ASSUME SoundInv, NEW u \in Players, NextChunk(u)
  PROVE  SoundInv'
<1> DEFINE c == play[u]
           d == [c EXCEPT !.at = "piece", !.off = c.base, !.end = Smaller(c.base + CHUNK, Len(c.data))]
<1>1. bd' = bd /\ played' = played /\ plays' = plays /\ c.at = "chunk" /\ Called(u)
  BY CallTyped DEF NextChunk, Codec
<1>2. CASE \E r : Ends(u, r)
  BY <1>1, <1>2, EndsKeeps
<1>3. CASE \A r : ~Ends(u, r)
  <2>1. c.base < Len(c.data) /\ play' = [play EXCEPT ![u] = d]
    BY <1>3, CallTyped DEF NextChunk
  <2>2. CHUNK \in Nat \ {0}
    BY SoundAssumption
  <2>3. c \in Plies
    BY CallTyped
  <2>4. /\ d \in Plies /\ d.at = "piece" /\ d.off = c.base /\ d.base = c.base /\ d.data = c.data
        /\ d.end = Smaller(c.base + CHUNK, Len(c.data)) /\ d.of = c.of /\ d.as = c.as
    <3>1. Smaller(c.base + CHUNK, Len(c.data)) \in Nat /\ c.base \in Nat
      BY <2>2, CallTyped DEF Smaller
    <3> HIDE DEF c
    <3> QED BY <2>3, <3>1 DEF Plies
  <2> HIDE DEF d
  <2>5. Placed(d)
    BY <2>1, <2>2, <2>4, CallTyped DEF Placed, Smaller
  <2>6. Alone(u) => Counted(d, played[u], bd)
    BY <1>1, <2>1, <2>4, CallTyped DEF Counted, Smaller
  <2>7. HasFrames(d)
    BY <1>1, <2>4, CallTyped, MovedHasFrames
  <2>8. bd' \in Nat /\ bd' <= 2 * FRAMES /\ played' = [played EXCEPT ![u] = played[u]] /\ played[u] \in Nat
    BY <1>1 DEF SoundInv
  <2> HIDE DEF c, HasFrames, Placed, Counted
  <2> QED BY <1>1, <2>1, <2>4, <2>5, <2>6, <2>7, <2>8, OneStep
<1> QED BY <1>2, <1>3

LEMMA Quarters ==
  ASSUME NEW a \in Nat, a % 4 = 0, NEW n \in Nat
  PROVE  /\ (a + n) \div 4 = a \div 4 + n \div 4 /\ (a + n) % 4 = n % 4
         /\ n < 4 => (a + n) \div 4 = a \div 4
<1>1. PICK m \in Nat : a = 4 * m
  <2>1. a = 4 * (a \div 4) /\ a \div 4 \in Nat
    OBVIOUS
  <2> QED BY <2>1
<1>2. PICK k \in Nat, r \in 0 .. 3 : n = 4 * k + r
  <2>1. n = 4 * (n \div 4) + (n % 4) /\ n \div 4 \in Nat /\ n % 4 \in 0 .. 3
    OBVIOUS
  <2> QED BY <2>1
<1>3. a \div 4 = m /\ n \div 4 = k /\ n % 4 = r
  BY <1>1, <1>2
<1>4. a + n = 4 * (m + k) + r
  BY <1>1, <1>2
<1>5. (a + n) \div 4 = m + k /\ (a + n) % 4 = r
  BY <1>2, <1>4
<1>6. n < 4 => k = 0
  BY <1>2
<1> QED BY <1>3, <1>5, <1>6

(* A piece: with a frame in it, it is played; without one, it is the end.  *)
LEMMA PieceKeeps ==
  ASSUME SoundInv, NEW u \in Players, Piece(u)
  PROVE  SoundInv'
<1> DEFINE c == play[u]
           n == PieceLen(c)
           d == IF n \div 4 = 0 THEN [c EXCEPT !.at = "chunk", !.base = c.base + CHUNK]
                ELSE [c EXCEPT !.at = "run", !.off = c.off + n]
<1>1. /\ c.at = "piece" /\ play' = [play EXCEPT ![u] = d] /\ played' = played /\ plays' = plays
      /\ bd' = (IF n \div 4 = 0 THEN bd ELSE 2 * (n \div 4)) /\ Called(u)
  BY CallTyped DEF Piece
<1>2. CHUNK \in Nat \ {0} /\ CHUNK % 4 = 0 /\ FRAMES \in Nat \ {0}
  BY SoundAssumption
<1>3. c \in Plies /\ c.base \in Nat /\ c.off \in Nat /\ c.end \in Nat /\ Len(c.data) \in Nat
  BY CallTyped
<1>4. /\ c.off < c.end /\ c.off % 4 = 0 /\ c.end <= Len(c.data) /\ c.base % 4 = 0
      /\ (c.end = Len(c.data) /\ Len(c.data) <= c.base + CHUNK) \/ c.end = c.base + CHUNK
  BY <1>1, <1>2, <1>3, CallTyped DEF Placed, Smaller
<1>5. /\ n \in Nat \ {0} /\ n <= 4 * FRAMES /\ c.off + n <= c.end
      /\ n % 4 = 0 \/ c.off + n = c.end
  <2>1. (4 * FRAMES) % 4 = 0 /\ 4 * FRAMES \in Nat \ {0}
    BY <1>2
  <2> QED BY <1>3, <1>4, <2>1 DEF PieceLen, Smaller
<1>6. /\ bd \in Nat /\ bd <= 2 * FRAMES /\ played[u] \in Nat
      /\ played' = [played EXCEPT ![u] = played[u]]
  BY <1>1 DEF SoundInv
<1>7. (c.base + CHUNK) % 4 = 0
  BY <1>2, <1>3, <1>4
<1>8. CASE n \div 4 = 0
  <2>1. /\ d \in Plies /\ d.at = "chunk" /\ d.base = c.base + CHUNK /\ d.data = c.data
        /\ d.of = c.of /\ d.as = c.as /\ d.off = c.off /\ d.end = c.end
    <3>1. c.base + CHUNK \in Nat
      BY <1>2, <1>3
    <3> HIDE DEF c, n
    <3> QED BY <1>3, <1>8, <3>1 DEF Plies
  <2>2. c.off + n = Len(c.data) /\ Len(c.data) <= c.base + CHUNK /\ Len(c.data) \div 4 = c.off \div 4
    <3> HIDE DEF n, c
    <3>1. n < 4 /\ n % 4 # 0
      BY <1>5, <1>8
    <3>2. c.off + n = c.end
      BY <1>5, <3>1
    <3>3. c.end # c.base + CHUNK
      BY <1>2, <1>3, <1>4, <1>5, <1>7, <3>1, <3>2
    <3>4. c.off + n = Len(c.data) /\ Len(c.data) <= c.base + CHUNK
      BY <1>4, <3>2, <3>3
    <3>5. (c.off + n) \div 4 = c.off \div 4
      BY <1>3, <1>4, <1>5, <3>1, Quarters
    <3> QED BY <3>4, <3>5
  <2> HIDE DEF d, n, c
  <2>3. Placed(d)
    BY <1>3, <1>4, <1>7, <2>1 DEF Placed
  <2>4. Alone(u) => Counted(d, played[u], bd)
    <3>1. Alone(u) => Counted(c, played[u], bd)
      BY CallTyped DEF c
    <3>2. Smaller(d.base, Len(d.data)) = Len(c.data)
      BY <1>2, <1>3, <2>1, <2>2 DEF Smaller
    <3> QED BY <1>1, <2>1, <2>2, <3>1, <3>2 DEF Counted
  <2>5. HasFrames(d)
    BY <1>1, <2>1, CallTyped, MovedHasFrames DEF c
  <2> HIDE DEF HasFrames, Placed, Counted
  <2> QED BY <1>1, <1>6, <1>8, <2>1, <2>3, <2>4, <2>5, OneStep
<1>9. CASE n \div 4 # 0
  <2>1. /\ d \in Plies /\ d.at = "run" /\ d.base = c.base /\ d.data = c.data
        /\ d.of = c.of /\ d.as = c.as /\ d.off = c.off + n /\ d.end = c.end
    <3>1. c.off + n \in Nat
      BY <1>3, <1>5
    <3> HIDE DEF c, n
    <3> QED BY <1>3, <1>9, <3>1 DEF Plies
  <2>2. /\ bd' = 2 * (n \div 4) /\ bd' \in Nat /\ bd' <= 2 * FRAMES /\ bd' \div 2 = n \div 4
    <3> HIDE DEF n, c, d
    <3> QED BY <1>1, <1>2, <1>5, <1>9
  <2>3. (c.off + n) \div 4 = c.off \div 4 + n \div 4
    <3> HIDE DEF n, c
    <3> QED BY <1>3, <1>4, <1>5, Quarters
  <2>4. c.off + n <= Len(c.data) /\ ((c.off + n) % 4 = 0 \/ c.off + n = Len(c.data))
    <3> HIDE DEF n, c
    <3>1. CASE n % 4 = 0
      BY <1>3, <1>4, <1>5, <3>1
    <3>2. CASE c.off + n = c.end
      BY <1>2, <1>3, <1>4, <1>7, <3>2
    <3> QED BY <1>5, <3>1, <3>2
  <2> HIDE DEF d, n, c
  <2>5. Placed(c)
    BY CallTyped DEF c
  <2>6. Placed(d)
    BY <1>1, <1>3, <1>4, <1>5, <2>1, <2>4, <2>5 DEF Placed
  <2>7. Alone(u) => Counted(d, played[u], bd')
    <3>1. Alone(u) => Counted(c, played[u], bd)
      BY CallTyped DEF c
    <3> QED BY <1>1, <1>3, <1>5, <1>6, <2>1, <2>2, <2>3, <3>1 DEF Counted
  <2>8. HasFrames(d)
    BY <1>1, <2>1, CallTyped, MovedHasFrames DEF c
  <2> HIDE DEF HasFrames, Placed, Counted
  <2> QED BY <1>1, <1>6, <2>1, <2>2, <2>6, <2>7, <2>8, OneStep
<1> QED BY <1>8, <1>9

LEMMA RunKeeps ==
  ASSUME SoundInv, NEW u \in Players, Run(u)
  PROVE  SoundInv'
<1> DEFINE c == play[u]
           d == [c EXCEPT !.at = "wait"]
           p == played[u] + bd \div 2
<1>1. /\ c.at = "run" /\ plays' = plays /\ bd' = bd /\ Called(u)
      /\ play' = [play EXCEPT ![u] = d] /\ played' = [played EXCEPT ![u] = p]
  <2>1. Called(u)
    BY CallTyped DEF Run
  <2> QED BY <2>1 DEF Run, SoundInv
<1>2. c \in Plies /\ Placed(c) /\ HasFrames(c) /\ (Alone(u) => Counted(c, played[u], bd))
  <2> HIDE DEF HasFrames, Placed, Counted
  <2> QED BY <1>1, CallTyped
<1>3. bd \in Nat /\ bd <= 2 * FRAMES /\ played[u] \in Nat
  BY DEF SoundInv
<1>4. p \in Nat
  BY <1>3
<1> HIDE DEF c
<1>5. /\ d \in Plies /\ d.at = "wait" /\ d.base = c.base /\ d.data = c.data /\ d.off = c.off
      /\ d.end = c.end /\ d.of = c.of /\ d.as = c.as
  BY <1>2 DEF Plies
<1> HIDE DEF d
<1>6. Placed(d)
  BY <1>1, <1>2, <1>5 DEF Placed
<1>7. HasFrames(d)
  BY <1>2, <1>5, MovedHasFrames
<1>8. Alone(u) => Counted(d, p, bd)
  BY <1>1, <1>2, <1>5 DEF Counted
<1> HIDE DEF HasFrames, Placed, Counted, p
<1> QED BY <1>1, <1>3, <1>4, <1>5, <1>6, <1>7, <1>8, OneStep

LEMMA PolledKeeps ==
  ASSUME SoundInv, NEW u \in Players, Polled(u)
  PROVE  SoundInv'
<1> DEFINE c == play[u]
           d == IF c.off < c.end THEN [c EXCEPT !.at = "piece"]
                ELSE [c EXCEPT !.at = "chunk", !.base = c.base + CHUNK]
<1>1. c.at = "wait" /\ plays' = plays /\ bd' = bd /\ played' = played /\ Called(u)
  BY CallTyped DEF Polled, Codec
<1>2. CASE running
  <2>1. Ends(u, "failed")
    BY <1>2 DEF Polled
  <2> QED BY <1>1, <2>1, EndsKeeps
<1>3. CASE ~running
  <2>1. play' = [play EXCEPT ![u] = d]
    BY <1>3 DEF Polled
  <2>2. /\ c \in Plies /\ Placed(c) /\ HasFrames(c) /\ (Alone(u) => Counted(c, played[u], bd))
        /\ c.base \in Nat /\ c.off \in Nat /\ c.end \in Nat /\ Len(c.data) \in Nat
    <3> HIDE DEF HasFrames, Placed, Counted
    <3> QED BY <1>1, CallTyped
  <2>3. /\ bd \in Nat /\ bd <= 2 * FRAMES /\ played[u] \in Nat
        /\ played' = [played EXCEPT ![u] = played[u]]
    BY <1>1 DEF SoundInv
  <2>4. CHUNK \in Nat \ {0} /\ CHUNK % 4 = 0
    BY SoundAssumption
  <2> HIDE DEF c
  <2>5. /\ c.off <= c.end /\ c.end <= Len(c.data) /\ c.base % 4 = 0
        /\ c.off % 4 = 0 \/ c.off = Len(c.data)
        /\ (c.end = Len(c.data) /\ Len(c.data) <= c.base + CHUNK) \/ c.end = c.base + CHUNK
    BY <1>1, <2>2, <2>4 DEF Placed, Smaller
  <2>6. CASE c.off < c.end
    <3>1. /\ d \in Plies /\ d.at = "piece" /\ d.base = c.base /\ d.data = c.data /\ d.off = c.off
          /\ d.end = c.end /\ d.of = c.of /\ d.as = c.as
      BY <2>2, <2>6 DEF Plies
    <3> HIDE DEF d
    <3>2. Placed(d)
      BY <1>1, <2>2, <2>6, <3>1 DEF Placed
    <3>3. HasFrames(d)
      BY <2>2, <3>1, MovedHasFrames
    <3>4. Alone(u) => Counted(d, played[u], bd)
      BY <1>1, <2>2, <3>1 DEF Counted
    <3> HIDE DEF HasFrames, Placed, Counted
    <3> QED BY <1>1, <2>1, <2>3, <3>1, <3>2, <3>3, <3>4, OneStep
  <2>7. CASE ~(c.off < c.end)
    <3>1. /\ d \in Plies /\ d.at = "chunk" /\ d.base = c.base + CHUNK /\ d.data = c.data /\ d.off = c.off
          /\ d.end = c.end /\ d.of = c.of /\ d.as = c.as
      <4>1. c.base + CHUNK \in Nat
        BY <2>2, <2>4
      <4> QED BY <2>2, <2>7, <4>1 DEF Plies
    <3> HIDE DEF d
    <3>2. Placed(d)
      <4>1. (c.base + CHUNK) % 4 = 0
        BY <2>2, <2>4, <2>5, Quarters
      <4> QED BY <2>2, <2>5, <3>1, <4>1 DEF Placed
    <3>3. HasFrames(d)
      BY <2>2, <3>1, MovedHasFrames
    <3>4. Alone(u) => Counted(d, played[u], bd)
      <4>1. Smaller(d.base, Len(d.data)) = c.off
        BY <2>2, <2>4, <2>5, <2>7, <3>1 DEF Smaller
      <4> QED BY <1>1, <2>2, <3>1, <4>1 DEF Counted
    <3> HIDE DEF HasFrames, Placed, Counted
    <3> QED BY <1>1, <2>1, <2>3, <3>1, <3>2, <3>3, <3>4, OneStep
  <2> QED BY <2>6, <2>7
<1> QED BY <1>2, <1>3

LEMMA SoundKeeps == SoundInv /\ [SoundNext]_svars => SoundInv'
<1> SUFFICES ASSUME SoundInv, [SoundNext]_svars PROVE SoundInv'
  OBVIOUS
<1>1. CASE UNCHANGED << play, played, plays, bd >>
  BY <1>1 DEF SoundInv, Called, Alone, HasFrames, Placed, Counted
<1>2. ASSUME NEW u \in Players, NEW r, Begins(u), Ends(u, r), UNCHANGED << played, bd >>
      PROVE  SoundInv'
  <2>1. plays' = Append(plays, u)
    BY <1>2 DEF Begins
  <2> QED BY <1>2, <2>1, EndsKeeps
<1>3. ASSUME NEW u \in Players, NEW n, PlaySound(u, n) PROVE SoundInv'
  BY <1>3, PlayFileKeeps DEF PlaySound, Codec
<1>4. ASSUME NEW u \in Players, NEW n, MciPlay(u, n) PROVE SoundInv'
  BY <1>4, PlayFileKeeps DEF MciPlay, Codec
<1>5. ASSUME NEW u \in Players, NEW n, NEW a, MciOpen(u, n, a) PROVE SoundInv'
  BY <1>2, <1>5 DEF MciOpen, Codec
<1>6. ASSUME NEW u \in Players, NEW f, waveOutOpen(u, f) PROVE SoundInv'
  BY <1>2, <1>6 DEF waveOutOpen, Codec
<1>7. ASSUME NEW u \in Players, waveOutClose(u) PROVE SoundInv'
  BY <1>2, <1>7 DEF waveOutClose, Codec
<1>8. ASSUME NEW u \in Players, NEW d \in Sounds, waveOutWrite(u, d) PROVE SoundInv'
  <2>1. d \in Seq(Bytes)
    BY SoundAssumption
  <2> QED BY <1>8, <2>1, PlaysKeeps DEF waveOutWrite, Codec
<1>9. CASE CodecDone
  BY <1>1, <1>9 DEF CodecDone
<1> QED BY <1>1, <1>3, <1>4, <1>5, <1>6, <1>7, <1>8, <1>9, ChunkKeeps, PieceKeeps, RunKeeps,
           PolledKeeps DEF SoundNext, svars

LEMMA SoundInvIsEnough == SoundInv => SoundKept
<1> SUFFICES ASSUME SoundInv PROVE SoundKept
  OBVIOUS
<1>1. SoundTypeOK
  <2>1. bd <= 2 * FRAMES
    BY DEF SoundInv
  <2>2. ASSUME NEW t \in Players
        PROVE  /\ play[t].off <= Len(play[t].data) /\ play[t].end <= Len(play[t].data)
               /\ play[t].at = "wait" => play[t].off <= play[t].end
    BY DEF SoundInv, Placed
  <2> QED BY <2>1, <2>2 DEF SoundTypeOK
<1>2. KeepsFrames
  BY DEF SoundInv, KeepsFrames, HasFrames, FrameAt
<1>3. AllFramesPlayed
  <2> SUFFICES ASSUME NEW t \in Players, Alone(t), play[t].at = "chunk", play[t].base >= Len(play[t].data)
               PROVE  played[t] = FramesOf(play[t].of, play[t].as)
    BY DEF AllFramesPlayed, Alone
  <2> DEFINE c == play[t]
  <2>1. c.base \in Nat /\ Len(c.data) \in Nat /\ HasFrames(c) /\ Counted(c, played[t], bd)
    <3> HIDE DEF HasFrames, Placed, Counted
    <3> QED BY CallTyped
  <2>2. Smaller(c.base, Len(c.data)) = Len(c.data)
    BY <2>1 DEF Smaller
  <2> QED BY <2>1, <2>2 DEF Counted, HasFrames
<1> QED BY <1>1, <1>2, <1>3 DEF SoundKept

(* winmm.c, SYS_AUDIO_PLAY, ac97.c: whatever a program plays, of any format *)
(* and length, is made into frames of two samples of 16 bits in order, no  *)
(* piece is longer than the buffer, and a call of a task that plays alone  *)
(* is through only when the codec had every frame.                         *)
THEOREM SoundIsPlayed == SoundSpec => []SoundKept
<1>1. SoundInit => SoundInv
  BY SoundAtInit
<1>2. SoundInv /\ [SoundNext]_svars => SoundInv'
  BY SoundKeeps
<1>3. SoundInv => SoundKept
  BY SoundInvIsEnough
<1> QED BY <1>1, <1>2, <1>3, PTL DEF SoundSpec
=============================================================================

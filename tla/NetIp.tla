-------------------------------- MODULE NetIp --------------------------------
(***************************************************************************)
(* Who is where: the ARP cache and the UDP calls of kernel/drivers/net.c,  *)
(* and the DNS query of user/win32/ws2_32.c on top of them.                *)
(*                                                                         *)
(* The calls of several tasks wait in loops of their own over the frames   *)
(* that come in; a frame that a loop does not want is lost to the others.  *)
(* The network loses, repeats, delays and reorders: a frame that was sent  *)
(* may come in at any time, in any number, and to any loop.                *)
(***************************************************************************)
EXTENDS Integers, Sequences, FiniteSets

CONSTANTS
  Tasks,
  Hosts, Server, Me,  (* addresses of hosts, 10.0.2.3 and 10.0.2.15         *)
  Macs, MyMac,
  Names, Id,          (* names asked for; their id: the first letter's      *)
  ARP_CACHE,          (* 4                                                  *)
  Nobody, AskMax      (* AskMax bounds the calls of the tasks               *)

ASSUME NetAssumption ==
  /\ ARP_CACHE \in Nat /\ AskMax \in Nat /\ Server \in Hosts /\ Me \notin Hosts
  /\ Nobody \notin Hosts \cup Names \cup {Me} /\ (Hosts \cup {Me}) \cap Names = {}

VARIABLES
  arp,                \* the cache: address, mac, older than ten seconds
  mac, had,           \* the hosts' macs now; history: those they had
  air,                \* what was sent
  asks, found,        \* each task's call; what it came back with
  asked
nvars == << arp, mac, had, air, asks, found, asked >>

Free == [ip |-> Nobody, mac |-> Nobody, old |-> FALSE]
NoCall == [at |-> "no", ip |-> Nobody, name |-> Nobody]
Nothing == [mac |-> Nobody, for |-> Nobody, name |-> Nobody]
NetInit ==
  /\ arp = [i \in 1 .. ARP_CACHE |-> Free]
  /\ mac \in [Hosts -> Macs] /\ \A g, h \in Hosts : g # h => mac[g] # mac[h]
  /\ had = {<< h, mac[h] >> : h \in Hosts} /\ air = {}
  /\ asks = [t \in Tasks |-> NoCall] /\ found = [t \in Tasks |-> Nothing] /\ asked = 0

Waits(t, at, ip, name) == asks' = [asks EXCEPT ![t] = [at |-> at, ip |-> ip, name |-> name]]
Answered(t, g) == asks' = [asks EXCEPT ![t] = NoCall] /\ found' = [found EXCEPT ![t] = g]
Sends(frames) == air' = air \cup frames
Known(ip) == {i \in 1 .. ARP_CACHE : arp[i].ip = ip}
FirstPlace(S) == CHOOSE i \in S : \A j \in S : i <= j
Query(name, to) == [kind |-> "query", name |-> name, mac |-> to]

(* What follows when the mac is known: SYS_NET_ARP returns, dns_query      *)
(* sends and waits.                                                        *)
Resolved(t, ip, name, m) ==
  IF name = Nobody THEN Answered(t, [Nothing EXCEPT !.mac = m, !.for = ip]) /\ UNCHANGED air
  ELSE Waits(t, "udp", ip, name) /\ Sends({Query(name, m)}) /\ UNCHANGED found

(* net_arp_resolve: the cache, our own address, or a request to all.       *)
Resolve(t, ip, name) ==
  /\ asks[t].at = "no" /\ asked < AskMax /\ asked' = asked + 1
  /\ IF Known(ip) # {} THEN Resolved(t, ip, name, arp[FirstPlace(Known(ip))].mac)
     ELSE IF ip = Me THEN Resolved(t, ip, name, MyMac)
     ELSE /\ Waits(t, "arp", ip, name) /\ Sends({[kind |-> "who", ip |-> ip]})
          /\ UNCHANGED found
  /\ UNCHANGED << arp, mac, had >>
(* gethostbyname with a name: a call without memory fails.                 *)
GetHost(t, name) ==
  \/ Resolve(t, Server, name)
  \/ /\ asks[t].at = "no" /\ asked < AskMax /\ asked' = asked + 1
     /\ Answered(t, Nothing) /\ UNCHANGED << arp, mac, had, air >>

(* arp_wait takes any reply about its address; it is kept when an entry    *)
(* is free or older than ten seconds.                                      *)
(* A bug: any reply will do.                                               *)
AboutAny(f, ip) == f.kind = "is"
About(f, ip) == f.kind = "is" /\ f.ip = ip
Place == {i \in 1 .. ARP_CACHE : arp[i].ip = Nobody \/ arp[i].old}
ArpReply(t, f) ==
  LET c == asks[t]
  IN  /\ c.at = "arp" /\ About(f, c.ip)
      /\ arp' = IF Place = {} THEN arp
                ELSE [arp EXCEPT ![FirstPlace(Place)] = [ip |-> c.ip, mac |-> f.mac, old |-> FALSE]]
      /\ Resolved(t, c.ip, c.name, f.mac)
      /\ UNCHANGED << mac, had, asked >>
(* net_udp_recv gives the first datagram to port 53000; dns_query looks at *)
(* its id, and fails with any other.                                       *)
Answers(f, name) == Id[f.name] = Id[name]
UdpAnswer(t, f) ==
  LET c == asks[t]
  IN  /\ c.at = "udp" /\ f.kind = "answer"
      /\ Answered(t, IF Answers(f, c.name) THEN [Nothing EXCEPT !.for = c.name, !.name = f.name] ELSE Nothing)
      /\ UNCHANGED << arp, mac, had, air, asked >>
(* Two or three seconds.                                                   *)
Timeout(t) ==
  /\ asks[t].at # "no" /\ Answered(t, Nothing)
  /\ UNCHANGED << arp, mac, had, air, asked >>

-----------------------------------------------------------------------------
(* The network and time.                                                   *)
HostAnswers(h) ==
  /\ [kind |-> "who", ip |-> h] \in air
  /\ Sends({[kind |-> "is", ip |-> h, mac |-> mac[h]]})
  /\ UNCHANGED << arp, mac, had, asks, found, asked >>
ServerAnswers(name) ==
  /\ Query(name, mac[Server]) \in air
  /\ Sends({[kind |-> "answer", name |-> name]})
  /\ UNCHANGED << arp, mac, had, asks, found, asked >>
HostReplaced(h, m) ==
  /\ \A p \in had : p[2] # m
  /\ mac' = [mac EXCEPT ![h] = m] /\ had' = had \cup {<< h, m >>}
  /\ UNCHANGED << arp, air, asks, found, asked >>
Age(i) ==
  /\ arp[i].ip # Nobody /\ ~arp[i].old /\ arp' = [arp EXCEPT ![i].old = TRUE]
  /\ UNCHANGED << mac, had, air, asks, found, asked >>

NetNext ==
  \/ \E t \in Tasks :
       \/ \E ip \in Hosts \cup {Me} : Resolve(t, ip, Nobody)
       \/ \E name \in Names : GetHost(t, name)
       \/ \E f \in air : ArpReply(t, f) \/ UdpAnswer(t, f)
       \/ Timeout(t)
  \/ \E h \in Hosts : HostAnswers(h) \/ \E m \in Macs : HostReplaced(h, m)
  \/ \E name \in Names : ServerAnswers(name)
  \/ \E i \in 1 .. ARP_CACHE : Age(i)
NetSpec == NetInit /\ [][NetNext]_nvars
(* The timer ticks whatever comes in.                                      *)
NetFair == \A t \in Tasks : WF_nvars(Timeout(t))

-----------------------------------------------------------------------------
(* The cache, and every call that asked for a mac, has one that the host   *)
(* had: a reply about another host is never taken for it, however late     *)
(* replies come and whichever task waits.                                  *)
MacIsTheHosts ==
  /\ \A i \in 1 .. ARP_CACHE : arp[i].ip # Nobody => << arp[i].ip, arp[i].mac >> \in had
  /\ \A t \in Tasks : found[t].for \in Hosts => << found[t].for, found[t].mac >> \in had
(* The answer that a program is given is one to a question with the same   *)
(* id, also when another task's answer or an old one came in first.        *)
AnswerIsAsked == \A t \in Tasks : found[t].name # Nobody => Id[found[t].name] = Id[found[t].for]
(* ... and is the answer to its question.  Not kept: the id is made of the  *)
(* name's first letter.                                                    *)
AnswerIsTheNames == \A t \in Tasks : found[t].name # Nobody => found[t].name = found[t].for
(* What is found out stays for ten seconds.                                *)
YoungStays == [][\A i \in 1 .. ARP_CACHE :
  arp[i].ip # Nobody /\ ~arp[i].old => arp'[i].ip = arp[i].ip /\ arp'[i].mac = arp[i].mac]_nvars
(* net_arp_resolve and dns_query find the host that was asked for.         *)
HostsFound == [](MacIsTheHosts /\ AnswerIsAsked) /\ YoungStays
(* Every call returns.                                                     *)
NetReturns == \A t \in Tasks : asks[t].at # "no" ~> asks[t].at = "no"
=============================================================================

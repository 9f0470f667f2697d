---------------------------- MODULE NetworkProofs ---------------------------
(***************************************************************************)
(* Proofs about the network: the e1000 driver and the stack of the kernel, *)
(* for every ring size, set of hosts, ports and payloads; the firewalls of *)
(* stage 2 and NetGuard, for every size of their tables and of the ring,   *)
(* and every set of addresses, flows, rules and packets.                   *)
(***************************************************************************)
EXTENDS KNet, SFilter, SStateful, SAdaptive, NGRing, SNetGuard,
        FiniteSetTheorems, SequenceTheorems, WellFoundedInduction, TLAPS

R == RX_RING

(* The place of descriptor i, counted from the head. *)
Off(i) == IF i >= rx_head THEN i - rx_head ELSE i - rx_head + R

(***************************************************************************)
(* RxInOrder is not inductive: it must also be known that the tail         *)
(* register stops the card before it laps the driver.  The tail is the     *)
(* head, or, before the first frame is read, the descriptor before it.     *)
(***************************************************************************)
RxInv ==
  /\ arrived \in Seq(Frame)
  /\ Len(arrived) <= R
  /\ rdh = IF rx_head + Len(arrived) < R THEN rx_head + Len(arrived) ELSE rx_head + Len(arrived) - R
  /\ \A i \in RxIndex :
       rx_ring[i] = IF Off(i) < Len(arrived) THEN arrived[Off(i) + 1] ELSE NoFrame
  /\ rdt = rx_head \/ (Len(arrived) < R /\ rdt = IF rx_head = 0 THEN R - 1 ELSE rx_head - 1)

(* An entry without an address is not valid, so the search for an address  *)
(* finds valid entries only.                                               *)
ArpInv ==
  /\ DOMAIN arp_cache = ArpIndex
  /\ \A i \in ArpIndex : arp_cache[i] \in [valid : BOOLEAN, ip : Hosts \cup {NoHost}, mac : Macs \cup {NoHost}]
  /\ \A i \in ArpIndex : ~arp_cache[i].valid => arp_cache[i].ip = NoHost
  /\ DOMAIN learned = Hosts

NetInv == NetTypeOK /\ RxInv /\ ArpInv /\ ArpNewest

-----------------------------------------------------------------------------
(* Wrapping needs at most one turn in either direction. *)
LEMMA RxWrap ==
  \A a \in -R .. 2 * R - 1 : a % R = IF a < 0 THEN a + R ELSE IF a < R THEN a ELSE a - R
  <1> SUFFICES ASSUME NEW a \in -R .. 2 * R - 1
               PROVE  a % R = IF a < 0 THEN a + R ELSE IF a < R THEN a ELSE a - R
    OBVIOUS
  <1>0. R \in Nat \ {0}
    BY NetAssumption DEF R
  <1>1. a % R \in 0 .. R - 1 /\ a = R * (a \div R) + (a % R) /\ a \div R \in Int
    BY <1>0
  <1>2. a \div R \in {-1, 0, 1}
    BY <1>0, <1>1
  <1> QED BY <1>0, <1>1, <1>2

(* A non-empty set of entries has a first one. *)
LEMMA FirstExists ==
  ASSUME NEW T, T \subseteq ArpIndex, T # {}
  PROVE  (CHOOSE i \in T : \A j \in T : i <= j) \in T
  <1>1. T \subseteq Nat
    BY NetAssumption DEF ArpIndex
  <1> DEFINE Lt == OpToRel(<, Nat)
  <1>2. IsWellFoundedOn(Lt, Nat)
    BY NatLessThanWellFounded
  <1>3. \A x, y \in Nat : x < y => <<x, y>> \in Lt
    BY DEF OpToRel
  <1> HIDE DEF Lt
  <1>4. \E x \in T : \A y \in T : ~(<<y, x>> \in Lt)
    BY <1>1, <1>2, WFMin
  <1>5. PICK x \in T : \A y \in T : ~(<<y, x>> \in Lt)
    BY <1>4
  <1>6. ASSUME NEW y \in T
        PROVE  x <= y
    <2>1. x \in Nat /\ y \in Nat
      BY <1>1
    <2>2. ~(y < x)
      BY <2>1, <1>3, <1>5, Zenon
    <2> QED BY <2>1, <2>2
  <1> QED BY <1>6

(* The invariant says of the ring what RxInOrder says. *)
LEMMA RxInvOrder == NetTypeOK /\ RxInv => RxInOrder
  <1> SUFFICES ASSUME NetTypeOK, RxInv PROVE RxInOrder
    OBVIOUS
  <1>0. R \in Nat \ {0} /\ RxIndex = 0 .. R - 1 /\ rx_head \in 0 .. R - 1 /\ Len(arrived) \in 0 .. R
    BY NetAssumption DEF R, RxIndex, NetTypeOK, RxInv
  <1>1. rdh = (rx_head + Len(arrived)) % RX_RING
    <2> DEFINE a == rx_head + Len(arrived)
    <2>1. a \in -R .. 2 * R - 1 /\ a >= 0
      BY <1>0
    <2>2. rdh = IF a < R THEN a ELSE a - R
      BY <1>0 DEF RxInv
    <2> HIDE DEF a
    <2>3. a % R = IF a < 0 THEN a + R ELSE IF a < R THEN a ELSE a - R
      BY <2>1, RxWrap
    <2>4. rdh = a % R
      BY <2>1, <2>2, <2>3, <1>0
    <2> QED BY <2>4 DEF a, R
  <1>2. ASSUME NEW i \in RxIndex
        PROVE  (i - rx_head) % RX_RING = Off(i)
    <2> DEFINE a == i - rx_head
    <2>1. a \in -R .. 2 * R - 1 /\ a < R
      BY <1>0
    <2>2. Off(i) = IF a < 0 THEN a + R ELSE a
      BY <1>0 DEF Off
    <2> HIDE DEF a
    <2>3. a % R = Off(i)
      BY <2>1, <2>2, RxWrap, <1>0
    <2> QED BY <2>3 DEF a, R
  <1>3. ASSUME NEW i \in RxIndex
        PROVE  Off(i) \in Nat
    BY <1>0 DEF Off
  <1>4. ASSUME NEW i \in RxIndex
        PROVE  LET k == ((i - rx_head) % RX_RING) + 1
               IN  rx_ring[i] = IF k <= Len(arrived) THEN arrived[k] ELSE NoFrame
    <2>1. rx_ring[i] = IF Off(i) < Len(arrived) THEN arrived[Off(i) + 1] ELSE NoFrame
      BY DEF RxInv
    <2>2. (i - rx_head) % RX_RING = Off(i) /\ Off(i) \in Nat
      BY <1>2, <1>3
    <2> HIDE DEF Off
    <2> QED BY <2>1, <2>2, <1>0
  <1> QED BY <1>0, <1>1, <1>4 DEF RxInOrder, R

-----------------------------------------------------------------------------
(* The card appends to what has arrived, below the tail register. *)
LEMMA CardKeepsRx ==
  ASSUME NetTypeOK, RxInv, NEW f \in Frame, card_receive(f)
  PROVE  RxInv'
  <1> DEFINE n == Len(arrived)
  <1>0. /\ R \in Nat \ {0} /\ R > 1 /\ RxIndex = 0 .. R - 1
        /\ rx_head \in 0 .. R - 1 /\ rdh \in 0 .. R - 1 /\ rdt \in 0 .. R - 1
        /\ n \in 0 .. R /\ arrived \in Seq(Frame)
        /\ DOMAIN rx_ring = RxIndex
    BY NetAssumption DEF R, RxIndex, NetTypeOK, RxInv
  <1>1. /\ rx_ring' = [rx_ring EXCEPT ![rdh] = f] /\ rdh' = (rdh + 1) % R
        /\ arrived' = Append(arrived, f) /\ rx_head' = rx_head /\ rdt' = rdt /\ rdh # rdt
    BY DEF card_receive, R
  <1>2. rdh = IF rx_head + n < R THEN rx_head + n ELSE rx_head + n - R
    BY DEF RxInv
  <1>3. n < R
    <2>1. rdt = rx_head \/ n < R
      BY DEF RxInv
    <2> HIDE DEF n
    <2> QED BY <2>1, <1>0, <1>1, <1>2
  <1>4. rdh' = IF rdh + 1 < R THEN rdh + 1 ELSE 0
    <2> DEFINE a == rdh + 1
    <2>1. a \in -R .. 2 * R - 1 /\ a > 0 /\ a <= R
      BY <1>0
    <2> HIDE DEF a
    <2>2. a % R = IF a < 0 THEN a + R ELSE IF a < R THEN a ELSE a - R
      BY <2>1, RxWrap
    <2>3. a % R = IF a < R THEN a ELSE 0
      BY <2>1, <2>2, <1>0
    <2> QED BY <2>3, <1>1 DEF a
  <1>5. /\ arrived' \in Seq(Frame) /\ Len(arrived') = n + 1
        /\ \A j \in 1 .. n : arrived'[j] = arrived[j]
        /\ arrived'[n + 1] = f
    BY <1>0, <1>1
  <1>6. ASSUME NEW i \in RxIndex
        PROVE  rx_ring'[i] = IF Off(i) < n + 1 THEN arrived'[Off(i) + 1] ELSE NoFrame
    <2>1. Off(i) \in 0 .. R - 1 /\ (i = rdh <=> Off(i) = n)
      BY <1>0, <1>2, <1>3 DEF Off
    <2>2. rx_ring[i] = IF Off(i) < n THEN arrived[Off(i) + 1] ELSE NoFrame
      BY DEF RxInv
    <2>3. rx_ring'[i] = IF i = rdh THEN f ELSE rx_ring[i]
      BY <1>0, <1>1
    <2> HIDE DEF Off
    <2>4. CASE i = rdh
      BY <2>1, <2>3, <2>4, <1>0, <1>5
    <2>5. CASE i # rdh
      BY <2>1, <2>2, <2>3, <2>5, <1>0, <1>5
    <2> QED BY <2>4, <2>5
  <1>7. \A i : Off(i)' = Off(i)
    BY <1>1 DEF Off
  <1>8. rdh' = IF rx_head + (n + 1) < R THEN rx_head + (n + 1) ELSE rx_head + (n + 1) - R
    BY <1>0, <1>2, <1>3, <1>4
  <1>9. rdt' = rx_head' \/ (n + 1 < R /\ rdt' = IF rx_head' = 0 THEN R - 1 ELSE rx_head' - 1)
    <2>1. CASE rdt = rx_head
      BY <2>1, <1>1
    <2>2. CASE rdt # rx_head
      <3>1. rdt = IF rx_head = 0 THEN R - 1 ELSE rx_head - 1
        BY <2>2 DEF RxInv
      <3>2. n + 1 < R
        BY <3>1, <1>0, <1>1, <1>2, <1>3
      <3> QED BY <3>1, <3>2, <1>1
    <2> QED BY <2>1, <2>2
  <1>10. \A i \in RxIndex :
           rx_ring'[i] = IF Off(i)' < Len(arrived') THEN arrived'[Off(i)' + 1] ELSE NoFrame
    BY <1>5, <1>6, <1>7
  <1>11. Len(arrived') <= R
    BY <1>0, <1>3, <1>5
  <1>12. Len(arrived') = n + 1 /\ rx_head' = rx_head
    BY <1>1, <1>5
  <1> HIDE DEF Off, n
  <1> QED BY <1>5, <1>8, <1>9, <1>10, <1>11, <1>12 DEF RxInv

(* The driver takes the first of what has arrived, and moves both heads. *)
LEMMA DriverKeepsRx ==
  ASSUME NetTypeOK, RxInv, e1000_recv
  PROVE  RxInv' /\ rx_head' \in RxIndex
  <1> DEFINE n == Len(arrived)
  <1>0. /\ R \in Nat \ {0} /\ R > 1 /\ RxIndex = 0 .. R - 1
        /\ rx_head \in 0 .. R - 1 /\ rdh \in 0 .. R - 1
        /\ n \in 0 .. R /\ arrived \in Seq(Frame)
        /\ DOMAIN rx_ring = RxIndex
    BY NetAssumption DEF R, RxIndex, NetTypeOK, RxInv
  <1>1. /\ rx_ring' = [rx_ring EXCEPT ![rx_head] = NoFrame] /\ rx_head' = (rx_head + 1) % R
        /\ arrived' = Tail(arrived) /\ rdt' = rx_head' /\ rdh' = rdh
        /\ rx_ring[rx_head] # NoFrame
    BY DEF e1000_recv, R
  <1>2. n > 0
    <2>1. Off(rx_head) = 0
      BY <1>0 DEF Off
    <2> QED BY <2>1, <1>0, <1>1 DEF RxInv
  <1>3. rx_head' = IF rx_head + 1 < R THEN rx_head + 1 ELSE 0
    <2> DEFINE a == rx_head + 1
    <2>1. a \in -R .. 2 * R - 1 /\ a > 0 /\ a <= R
      BY <1>0
    <2> HIDE DEF a
    <2>2. a % R = IF a < 0 THEN a + R ELSE IF a < R THEN a ELSE a - R
      BY <2>1, RxWrap
    <2>3. a % R = IF a < R THEN a ELSE 0
      BY <2>1, <2>2, <1>0
    <2> QED BY <2>3, <1>1 DEF a
  <1>4. /\ arrived' \in Seq(Frame) /\ Len(arrived') = n - 1
        /\ \A j \in 1 .. n - 1 : arrived'[j] = arrived[j + 1]
    BY <1>0, <1>1, <1>2
  <1>5. ASSUME NEW i \in RxIndex
        PROVE  rx_ring'[i] = IF Off(i)' < n - 1 THEN arrived'[Off(i)' + 1] ELSE NoFrame
    <2>1. /\ Off(i) \in 0 .. R - 1
          /\ i # rx_head => Off(i) > 0 /\ Off(i)' = Off(i) - 1
          /\ i = rx_head => Off(i)' = R - 1
      BY <1>0, <1>3 DEF Off
    <2>2. rx_ring[i] = IF Off(i) < n THEN arrived[Off(i) + 1] ELSE NoFrame
      BY DEF RxInv
    <2>3. rx_ring'[i] = IF i = rx_head THEN NoFrame ELSE rx_ring[i]
      BY <1>0, <1>1
    <2> HIDE DEF Off
    <2>4. CASE i = rx_head
      BY <2>1, <2>3, <2>4, <1>0
    <2>5. CASE i # rx_head
      BY <2>1, <2>2, <2>3, <2>5, <1>0, <1>4
    <2> QED BY <2>4, <2>5
  <1>6. rdh' = IF rx_head' + (n - 1) < R THEN rx_head' + (n - 1) ELSE rx_head' + (n - 1) - R
    <2>1. rdh = IF rx_head + n < R THEN rx_head + n ELSE rx_head + n - R
      BY DEF RxInv
    <2>2. rdh' = rdh
      BY <1>1
    <2> HIDE DEF n
    <2> QED BY <2>1, <2>2, <1>0, <1>2, <1>3
  <1>7. rx_head' \in RxIndex
    BY <1>0, <1>3
  <1>8. \A i \in RxIndex :
          rx_ring'[i] = IF Off(i)' < Len(arrived') THEN arrived'[Off(i)' + 1] ELSE NoFrame
    BY <1>4, <1>5
  <1>9. Len(arrived') <= R /\ rdt' = rx_head'
    BY <1>0, <1>1, <1>4
  <1> HIDE DEF Off, n
  <1> QED BY <1>4, <1>6, <1>7, <1>8, <1>9 DEF RxInv

(* Learning an address keeps one newest entry for each host. *)
LEMMA LearnKeepsArp ==
  ASSUME NetTypeOK, ArpInv, ArpNewest, NEW ip \in Hosts, NEW mac \in Macs,
         arp_cache' = arp_cache_add(arp_cache, ip, mac),
         learned' = [learned EXCEPT ![ip] = mac]
  PROVE  ArpInv' /\ ArpNewest' /\ \A i \in ArpIndex : arp_cache[i].valid' => arp_cache[i].ip' \in Hosts
  <1> DEFINE same == {i \in ArpIndex : arp_cache[i].ip = ip}
             free == {i \in ArpIndex : ~arp_cache[i].valid}
             new  == [valid |-> TRUE, ip |-> ip, mac |-> mac]
  <1>0. /\ 0 \in ArpIndex /\ NoHost \notin Hosts /\ ip # NoHost
        /\ DOMAIN learned = Hosts
    BY NetAssumption DEF ArpIndex, ArpInv
  <1>1. PICK at \in ArpIndex :
          /\ arp_cache' = [arp_cache EXCEPT ![at] = new]
          /\ \A i \in ArpIndex : arp_cache[i].ip = ip => i = at
    <2>1. CASE same # {}
      <3> DEFINE at == CHOOSE i \in same : \A j \in same : i <= j
      <3>1. at \in same
        BY <2>1, FirstExists
      <3>2. arp_cache' = [arp_cache EXCEPT ![at] =
                            [valid |-> same = {} \/ arp_cache[at].valid, ip |-> ip, mac |-> mac]]
        BY <2>1 DEF arp_cache_add
      <3> HIDE DEF at
      <3>3. arp_cache[at].valid = TRUE /\ arp_cache[at].ip = ip
        BY <3>1, <1>0 DEF ArpInv
      <3>5. arp_cache' = [arp_cache EXCEPT ![at] = new]
        BY <3>2, <3>3
      <3>6. \A i \in ArpIndex : arp_cache[i].ip = ip => i = at
        BY <3>1, <3>3, <1>0 DEF ArpInv, ArpNewest
      <3> QED BY <3>1, <3>5, <3>6
    <2>2. CASE same = {}
      <3> DEFINE at == IF free = {} THEN 0 ELSE CHOOSE i \in free : \A j \in free : i <= j
      <3>1. at \in ArpIndex
        BY FirstExists, <1>0
      <3>2. arp_cache' = [arp_cache EXCEPT ![at] = new]
        BY <2>2 DEF arp_cache_add
      <3> HIDE DEF at
      <3> QED BY <2>2, <3>1, <3>2
    <2> QED BY <2>1, <2>2
  <1>2. \A i \in ArpIndex : arp_cache'[i] = IF i = at THEN new ELSE arp_cache[i]
    BY <1>1 DEF ArpInv
  <1>3. \A h \in Hosts : learned'[h] = IF h = ip THEN mac ELSE learned[h]
    BY <1>0
  <1>4. ArpInv'
    BY <1>0, <1>1, <1>2 DEF ArpInv
  <1>5. \A i \in ArpIndex : arp_cache[i].valid' => arp_cache[i].ip' \in Hosts
    BY <1>2 DEF NetTypeOK
  <1>6. ArpNewest'
    BY <1>0, <1>1, <1>2, <1>3 DEF ArpNewest, NetTypeOK
  <1> QED BY <1>4, <1>5, <1>6

-----------------------------------------------------------------------------
(* Sending moves the tail within the ring. *)
LEMMA SendStaysInRing ==
  ASSUME NetTypeOK, e1000_send
  PROVE  tx_tail' \in TxIndex /\ tdh' \in TxIndex
  BY NetAssumption DEF e1000_send, NetTypeOK, TxIndex

(* What a step may do to the rings, the cache and ping. *)
RxStep == (\E f \in Frame : card_receive(f)) \/ e1000_recv \/ UNCHANGED rxVars
TxStep == e1000_send \/ (tx_tail' = tx_tail /\ tdh' \in TxIndex)
ArpStep ==
  \/ \E ip \in Hosts, mac \in Macs : /\ arp_cache' = arp_cache_add(arp_cache, ip, mac)
                                     /\ learned' = [learned EXCEPT ![ip] = mac]
  \/ UNCHANGED <<arp_cache, learned>>
PingStep == ping' \in 0 .. PINGS

(* Every step is of these kinds. *)
LEMMA StepCases ==
  ASSUME NetTypeOK, [NetNext]_netVars
  PROVE  RxStep /\ TxStep /\ ArpStep /\ PingStep
  <1> USE DEF rxVars, txVars, ip_send, RxStep, TxStep, ArpStep, PingStep
  <1>0. tdh \in TxIndex /\ ping \in 0 .. PINGS /\ PINGS \in Nat \ {0} /\ TX_RING \in Nat /\ TX_RING > 1
    BY NetAssumption DEF NetTypeOK
  <1>1. CASE \E f \in Frame : card_receive(f)
    BY <1>0, <1>1 DEF card_receive
  <1>2. CASE card_send
    BY <1>0, <1>2 DEF card_send, TxIndex
  <1>3. CASE cmd_ping
    BY <1>0, <1>3 DEF cmd_ping
  <1>4. CASE net_poll
    <2> DEFINE f == rx_ring[rx_head]
    <2>1. e1000_recv /\ ping' = ping /\ net_recv_frame(f)
      BY <1>4 DEF net_poll
    <2>2. f \in Frame
      BY <2>1 DEF e1000_recv, NetTypeOK
    <2> HIDE DEF f
    <2>3. CASE f.type \in {"arp_request", "arp_reply"} /\ arp_handle_request(f)
      <3>1. f \in ArpFrames
        BY <2>2, <2>3 DEF Frame
      <3>2. f.ip \in Hosts /\ f.mac \in Macs
        BY <3>1, NetAssumption
      <3> QED BY <2>1, <2>3, <3>2, <1>0 DEF arp_handle_request
    <2>4. CASE f.type \in {"echo_request", "echo_reply"} /\ icmp_handle_packet(f)
      BY <2>1, <2>4, <1>0 DEF icmp_handle_packet
    <2>5. CASE f.type = "udp" /\ udp_handle_packet(f)
      BY <2>1, <2>5, <1>0 DEF udp_handle_packet
    <2> QED BY <2>1, <2>3, <2>4, <2>5 DEF net_recv_frame
  <1>5. CASE ping_next
    BY <1>0, <1>5 DEF ping_next
  <1>6. CASE \E port \in Ports : udp_socket(port)
    BY <1>0, <1>6 DEF udp_socket
  <1>7. CASE \E s \in Socket : udp_close(s) \/ udp_recv(s) \/ udp_send(s)
    BY <1>0, <1>7 DEF udp_close, udp_recv, udp_send
  <1>8. CASE UNCHANGED netVars
    BY <1>0, <1>8 DEF netVars
  <1> QED BY <1>1, <1>2, <1>3, <1>4, <1>5, <1>6, <1>7, <1>8 DEF NetNext

(* The invariant is inductive. *)
LEMMA NetInvInductive == NetInv /\ [NetNext]_netVars => NetInv'
  <1> SUFFICES ASSUME NetInv, [NetNext]_netVars PROVE NetInv'
    OBVIOUS
  <1>0. NetTypeOK /\ RxInv /\ ArpInv /\ ArpNewest
    BY DEF NetInv
  <1>1. RxStep /\ TxStep /\ ArpStep /\ PingStep
    BY <1>0, StepCases
  <1>2. /\ RxInv' /\ rx_ring' \in [RxIndex -> Frame \cup {NoFrame}]
        /\ rx_head' \in RxIndex /\ rdh' \in RxIndex /\ rdt' \in RxIndex
    <2>1. CASE \E f \in Frame : card_receive(f)
      <3>1. PICK f \in Frame : card_receive(f)
        BY <2>1
      <3>2. RxInv'
        BY <3>1, <1>0, CardKeepsRx
      <3>3. rx_ring' \in [RxIndex -> Frame \cup {NoFrame}] /\ rx_head' = rx_head /\ rdt' = rdt
        BY <3>1, <1>0 DEF card_receive, NetTypeOK
      <3>4. rdh' \in RxIndex
        BY <3>1, <1>0, NetAssumption DEF card_receive, NetTypeOK, RxIndex
      <3> QED BY <3>2, <3>3, <3>4, <1>0 DEF NetTypeOK
    <2>2. CASE e1000_recv
      <3>1. RxInv' /\ rx_head' \in RxIndex
        BY <2>2, <1>0, DriverKeepsRx
      <3> QED BY <3>1, <2>2, <1>0 DEF e1000_recv, NetTypeOK
    <2>3. CASE UNCHANGED rxVars
      BY <2>3, <1>0 DEF rxVars, RxInv, NetTypeOK, Off
    <2> QED BY <2>1, <2>2, <2>3, <1>1 DEF RxStep
  <1>3. tx_tail' \in TxIndex /\ tdh' \in TxIndex
    BY <1>0, <1>1, SendStaysInRing DEF TxStep, NetTypeOK
  <1>4. ArpInv' /\ ArpNewest' /\ \A i \in ArpIndex : arp_cache[i].valid' => arp_cache[i].ip' \in Hosts
    <2>1. CASE \E ip \in Hosts, mac \in Macs : /\ arp_cache' = arp_cache_add(arp_cache, ip, mac)
                                               /\ learned' = [learned EXCEPT ![ip] = mac]
      BY <2>1, <1>0, LearnKeepsArp
    <2>2. CASE UNCHANGED <<arp_cache, learned>>
      BY <2>2, <1>0 DEF ArpInv, ArpNewest, NetTypeOK
    <2> QED BY <2>1, <2>2, <1>1 DEF ArpStep
  <1>5. NetTypeOK'
    BY <1>1, <1>2, <1>3, <1>4 DEF NetTypeOK, PingStep
  <1> QED BY <1>2, <1>4, <1>5 DEF NetInv

LEMMA NetInvInit == NetInit => NetInv
  <1> SUFFICES ASSUME NetInit PROVE NetInv
    OBVIOUS
  <1> USE NetAssumption DEF NetInit
  <1>1. NetTypeOK
    BY DEF NetTypeOK, RxIndex, TxIndex, NoEntry
  <1>2. RxInv
    BY DEF RxInv, Off, R, RxIndex
  <1>3. ArpInv
    BY DEF ArpInv, NoEntry
  <1>4. ArpNewest
    BY DEF ArpNewest, NoEntry
  <1> QED BY <1>1, <1>2, <1>3, <1>4 DEF NetInv

LEMMA NetInvHolds == NetSpec => []NetInv
  BY NetInvInit, NetInvInductive, PTL DEF NetSpec

(* The registers, the cache and the number of the ping stay within their   *)
(* types whatever arrives (e1000.c, net.c).                                *)
THEOREM TypeCorrect == NetSpec => []NetTypeOK
  <1>1. NetInv => NetTypeOK
    BY DEF NetInv
  <1> QED BY <1>1, NetInvHolds, PTL

(* For every ring size, e1000_recv takes the frames the card accepted once *)
(* each and in order, and the card never overwrites one that was not read. *)
THEOREM FramesInOrder == NetSpec => []RxInOrder
  <1>1. NetInv => RxInOrder
    BY RxInvOrder DEF NetInv
  <1> QED BY <1>1, NetInvHolds, PTL

(* For every cache size and set of hosts, arp_lookup answers with the      *)
(* address last heard for the host, however entries were replaced.         *)
THEOREM LookupNewest == NetSpec => []ArpNewest
  <1>1. NetInv => ArpNewest
    BY DEF NetInv
  <1> QED BY <1>1, NetInvHolds, PTL

-----------------------------------------------------------------------------
(***************************************************************************)
(* Sockets.  SocketData speaks of bound sockets; what is kept says it of   *)
(* closed ones as well: a datagram stays with the port it came to, and     *)
(* only udp_socket, which drops it, changes a port.                        *)
(***************************************************************************)
SocketInv ==
  /\ udp_sockets \in [Socket -> [bound : BOOLEAN, port : Ports \cup {0}, data : Ports \cup {0}]]
  /\ \A s \in Socket : udp_sockets[s].data # 0 => udp_sockets[s].data = udp_sockets[s].port

LEMMA SocketInductive ==
  ASSUME NetTypeOK, SocketInv, [NetNext]_netVars
  PROVE  SocketInv'
  <1>1. CASE UNCHANGED udp_sockets
    BY <1>1 DEF SocketInv
  <1>2. ASSUME NEW s \in Socket, NEW e \in [bound : BOOLEAN, port : Ports \cup {0}, data : Ports \cup {0}],
               e.data # 0 => e.data = e.port,
               udp_sockets' = [udp_sockets EXCEPT ![s] = e]
        PROVE  SocketInv'
    BY <1>2 DEF SocketInv
  <1>4. ASSUME net_poll PROVE SocketInv'
    <2> DEFINE f == rx_ring[rx_head]
    <2>1. f \in Frame /\ net_recv_frame(f)
      BY <1>4 DEF net_poll, e1000_recv, NetTypeOK
    <2> HIDE DEF f
    <2>2. CASE UNCHANGED udp_sockets
      BY <1>1, <2>2
    <2>3. ASSUME f.type = "udp", NEW s \in Socket, udp_sockets[s].port = f.port,
                 udp_sockets' = [udp_sockets EXCEPT ![s].data = f.port]
          PROVE  SocketInv'
      <3>1. f.port \in Ports
        BY <2>1, <2>3, NetAssumption DEF Frame
      <3>2. /\ udp_sockets[s].port = f.port
            /\ udp_sockets' = [udp_sockets EXCEPT ![s].data = f.port]
        BY <2>3
      <3> DEFINE e == [udp_sockets[s] EXCEPT !.data = f.port]
      <3>3. /\ e \in [bound : BOOLEAN, port : Ports \cup {0}, data : Ports \cup {0}]
            /\ e.data = e.port
        <4>1. udp_sockets[s] \in [bound : BOOLEAN, port : Ports \cup {0}, data : Ports \cup {0}]
          BY DEF SocketInv
        <4> QED BY <3>1, <3>2, <4>1
      <3>4. udp_sockets' = [udp_sockets EXCEPT ![s] = e]
        BY <3>2
      <3> HIDE DEF e
      <3> QED BY <1>2, <3>3, <3>4
    <2> QED BY <2>1, <2>2, <2>3
            DEF net_recv_frame, arp_handle_request, icmp_handle_packet, udp_handle_packet
  <1>5. ASSUME NEW port \in Ports, udp_socket(port) PROVE SocketInv'
    <2> DEFINE e == [bound |-> TRUE, port |-> port, data |-> 0]
    <2>1. PICK s \in Socket : udp_sockets' = [udp_sockets EXCEPT ![s] = e]
      BY <1>5 DEF udp_socket
    <2>2. e \in [bound : BOOLEAN, port : Ports \cup {0}, data : Ports \cup {0}] /\ e.data = 0
      OBVIOUS
    <2> HIDE DEF e
    <2> QED BY <1>2, <2>1, <2>2
  <1>6. ASSUME NEW s \in Socket, udp_close(s) PROVE SocketInv'
    <2> DEFINE e == [udp_sockets[s] EXCEPT !.bound = FALSE]
    <2>1. /\ e \in [bound : BOOLEAN, port : Ports \cup {0}, data : Ports \cup {0}]
          /\ e.data # 0 => e.data = e.port
      BY DEF SocketInv
    <2>2. udp_sockets' = [udp_sockets EXCEPT ![s] = e]
      BY <1>6 DEF udp_close
    <2> HIDE DEF e
    <2> QED BY <1>2, <2>1, <2>2
  <1>7. ASSUME NEW s \in Socket, udp_recv(s) PROVE SocketInv'
    <2> DEFINE e == [udp_sockets[s] EXCEPT !.data = 0]
    <2>1. /\ e \in [bound : BOOLEAN, port : Ports \cup {0}, data : Ports \cup {0}]
          /\ e.data = 0
      <3>1. udp_sockets[s] \in [bound : BOOLEAN, port : Ports \cup {0}, data : Ports \cup {0}]
        BY DEF SocketInv
      <3> QED BY <3>1
    <2>2. udp_sockets' = [udp_sockets EXCEPT ![s] = e]
      BY <1>7 DEF udp_recv
    <2> HIDE DEF e
    <2> QED BY <1>2, <2>1, <2>2
  <1> QED BY <1>1, <1>4, <1>5, <1>6, <1>7
          DEF NetNext, card_receive, card_send, cmd_ping, ping_next, udp_send, netVars

LEMMA SocketInvHolds == NetSpec => []SocketInv
  <1>1. NetInit => SocketInv
    BY DEF NetInit, SocketInv
  <1>2. NetInv /\ SocketInv /\ [NetNext]_netVars => SocketInv'
    BY SocketInductive DEF NetInv
  <1> QED BY <1>1, <1>2, NetInvHolds, PTL DEF NetSpec

(* udp_recv returns a datagram that was addressed to the port the socket   *)
(* has now, whoever closed and opened it before.                           *)
THEOREM DatagramsReachTheirPort == NetSpec => []SocketData
  <1>1. SocketInv => SocketData
    BY DEF SocketInv, SocketData
  <1> QED BY <1>1, SocketInvHolds, PTL

-----------------------------------------------------------------------------
(***************************************************************************)
(* The firewalls of stage 2 and NetGuard.                                  *)
(***************************************************************************)

(* A set of numbers that is not empty has a smallest one. *)
LEMMA SmallestOfNat ==
  ASSUME NEW T, T \subseteq Nat, T # {}
  PROVE  \E x \in T : \A y \in T : x <= y
  <1> DEFINE Lt == OpToRel(<, Nat)
  <1>1. IsWellFoundedOn(Lt, Nat)
    BY NatLessThanWellFounded
  <1>2. \A x, y \in Nat : x < y => <<x, y>> \in Lt
    BY DEF OpToRel
  <1> HIDE DEF Lt
  <1>3. PICK x \in T : \A y \in T : ~(<<y, x>> \in Lt)
    BY <1>1, WFMin
  <1>4. ASSUME NEW y \in T PROVE x <= y
    <2>1. x \in Nat /\ y \in Nat
      OBVIOUS
    <2>2. ~(y < x)
      BY <2>1, <1>2, <1>3, Zenon
    <2> QED BY <2>1, <2>2
  <1> QED BY <1>4

(* What is left of a sequence when entry i is taken out. *)
LEMMA RemoveAtProperties ==
  ASSUME NEW S, NEW s \in Seq(S), NEW i \in 1 .. Len(s)
  PROVE  /\ RemoveAt(s, i) \in Seq(S)
         /\ Len(RemoveAt(s, i)) = Len(s) - 1
         /\ \A k \in 1 .. Len(s) - 1 : RemoveAt(s, i)[k] = IF k < i THEN s[k] ELSE s[k + 1]
  <1> DEFINE a == SubSeq(s, 1, i - 1)
             b == SubSeq(s, i + 1, Len(s))
  <1>1. /\ a \in Seq(S) /\ Len(a) = i - 1
        /\ \A k \in 1 .. i - 1 : a[k] = s[k]
    BY SubSeqProperties, ElementOfSeq
  <1>2. /\ b \in Seq(S) /\ Len(b) = Len(s) - i
        /\ \A k \in 1 .. Len(s) - i : b[k] = s[k + i]
    BY SubSeqProperties, ElementOfSeq
  <1>3. RemoveAt(s, i) = a \o b
    BY DEF RemoveAt
  <1> HIDE DEF a, b
  <1>0. Len(s) \in Nat
    BY LenProperties
  <1>4. /\ a \o b \in Seq(S) /\ Len(a \o b) = Len(a) + Len(b)
        /\ \A k \in 1 .. Len(a) + Len(b) : (a \o b)[k] = IF k <= Len(a) THEN a[k] ELSE b[k - Len(a)]
    BY <1>1, <1>2, ConcatProperties
  <1>5. Len(a) + Len(b) = Len(s) - 1
    BY <1>0, <1>1, <1>2
  <1>6. ASSUME NEW k \in 1 .. Len(s) - 1 PROVE (a \o b)[k] = IF k < i THEN s[k] ELSE s[k + 1]
    <2>1. CASE k < i
      BY <1>0, <1>1, <1>4, <1>5, <2>1
    <2>2. CASE k >= i
      <3>1. (a \o b)[k] = b[k - (i - 1)]
        BY <1>0, <1>1, <1>4, <1>5, <2>2
      <3>2. PICK j \in 1 .. Len(s) - i : j = k - (i - 1) /\ j + i = k + 1
        BY <1>0, <2>2
      <3>3. b[j] = s[j + i]
        BY <1>2
      <3>4. (a \o b)[k] = s[k + 1]
        BY <3>1, <3>2, <3>3
      <3> QED BY <1>0, <2>2, <3>4
    <2>3. k < i \/ k >= i
      BY <1>0
    <2> QED BY <2>1, <2>2, <2>3, Zenon
  <1> QED BY <1>3, <1>4, <1>5, <1>6

-----------------------------------------------------------------------------
(***************************************************************************)
(* The stateful firewall.  seen lists every entry in use exactly once, so  *)
(* its length is what conn_count has to be.                                *)
(***************************************************************************)
TcpState == {"NONE", "SYN_RCVD", "ESTABLISHED", "FIN_WAIT_1", "FIN_WAIT_2", "CLOSING",
             "TIME_WAIT", "CLOSE_WAIT", "LAST_ACK", "CLOSED"}

StatefulTypeOK ==
  /\ connections \in [Conn -> [flow : Flows \cup {NoFlow}, state : TcpState]]
  /\ conn_count \in Int /\ seen \in Seq(Conn)
  /\ syn_cookie_count \in 0 .. SYN_COOKIES_MAX /\ halfopen_count \in 0 .. CONN_HALFOPEN_MAX

InUse == {c \in Conn : connections[c].flow # NoFlow}

Listed(s, used) ==
  /\ \A i, j \in 1 .. Len(s) : s[i] = s[j] => i = j
  /\ \A i \in 1 .. Len(s) : s[i] \in used
  /\ \A c \in used : \E i \in 1 .. Len(s) : s[i] = c

StatefulInv == StatefulTypeOK /\ Listed(seen, InUse) /\ conn_count = Len(seen)

(* A list of the entries in use counts them. *)
LEMMA ListedCounts ==
  ASSUME NEW S, NEW s \in Seq(S), NEW used, Listed(s, used)
  PROVE  IsFiniteSet(used) /\ Cardinality(used) = Len(s)
  <1>1. s \in Bijection(1 .. Len(s), used)
    <2>1. s \in [1 .. Len(s) -> used]
      BY LenProperties DEF Listed
    <2>2. s \in Injection(1 .. Len(s), used)
      BY <2>1, Zenon DEF Listed, Injection, IsInjective
    <2>3. s \in Surjection(1 .. Len(s), used)
      BY <2>1, Zenon DEF Listed, Surjection
    <2> QED BY <2>2, <2>3 DEF Bijection
  <1>2. ExistsBijection(1 .. Len(s), used)
    BY <1>1 DEF ExistsBijection
  <1>3. Len(s) \in Nat /\ IsFiniteSet(1 .. Len(s)) /\ Cardinality(1 .. Len(s)) = Len(s)
    <2>1. Len(s) \in Nat
      BY LenProperties
    <2>2. IsFiniteSet(1 .. Len(s)) /\ Cardinality(1 .. Len(s)) = IF 1 > Len(s) THEN 0 ELSE Len(s) - 1 + 1
      BY <2>1, FS_Interval
    <2> QED BY <2>1, <2>2
  <1> QED BY <1>2, <1>3, FS_Bijection

(* Taking an entry out of the list, and putting one at its end. *)
LEMMA ListedWithout ==
  ASSUME NEW c \in Conn, NEW used, seen \in Seq(Conn), Listed(seen, used), c \in used
  PROVE  Without(c) \in Seq(Conn) /\ Len(Without(c)) = Len(seen) - 1 /\ Listed(Without(c), used \ {c})
  <1> DEFINE i == CHOOSE k \in DOMAIN seen : seen[k] = c
             w == RemoveAt(seen, i)
  <1>1. i \in 1 .. Len(seen) /\ seen[i] = c
    BY LenProperties DEF Listed
  <1>2. Without(c) = w
    BY DEF Without
  <1>3. /\ w \in Seq(Conn) /\ Len(w) = Len(seen) - 1
        /\ \A k \in 1 .. Len(seen) - 1 : w[k] = IF k < i THEN seen[k] ELSE seen[k + 1]
    BY <1>1, RemoveAtProperties
  <1> HIDE DEF i, w
  <1>4. Len(seen) \in Nat
    BY LenProperties
  <1>5. ASSUME NEW j \in 1 .. Len(w), NEW k \in 1 .. Len(w), w[j] = w[k] PROVE j = k
    <2> DEFINE a == IF j < i THEN j ELSE j + 1
               b == IF k < i THEN k ELSE k + 1
    <2>1. a \in 1 .. Len(seen) /\ w[j] = seen[a]
      BY <1>1, <1>3, <1>4
    <2>2. b \in 1 .. Len(seen) /\ w[k] = seen[b]
      BY <1>1, <1>3, <1>4
    <2>3. a = b
      <3> HIDE DEF a, b
      <3> QED BY <1>5, <2>1, <2>2 DEF Listed
    <2> QED BY <1>1, <1>3, <1>4, <2>3
  <1>6. \A k \in 1 .. Len(w) : w[k] \in used \ {c}
    BY <1>1, <1>3, <1>4 DEF Listed
  <1>7. ASSUME NEW d \in used \ {c} PROVE \E k \in 1 .. Len(w) : w[k] = d
    <2>1. PICK k \in 1 .. Len(seen) : seen[k] = d
      BY DEF Listed
    <2>2. CASE k < i
      BY <1>1, <1>3, <1>4, <2>1, <2>2
    <2>3. CASE k > i
      <3>1. k - 1 \in 1 .. Len(w) /\ w[k - 1] = d
        BY <1>1, <1>3, <1>4, <2>1, <2>3
      <3> QED BY <3>1
    <2> QED BY <1>1, <1>4, <2>1, <2>2, <2>3
  <1> QED BY <1>2, <1>3, <1>5, <1>6, <1>7 DEF Listed

LEMMA ListedAppend ==
  ASSUME NEW s \in Seq(Conn), NEW c \in Conn, NEW used, Listed(s, used), c \notin used
  PROVE  Append(s, c) \in Seq(Conn) /\ Len(Append(s, c)) = Len(s) + 1 /\ Listed(Append(s, c), used \cup {c})
  <1> DEFINE t == Append(s, c)
  <1>1. /\ t \in Seq(Conn) /\ Len(t) = Len(s) + 1
        /\ \A k \in 1 .. Len(s) : t[k] = s[k]
        /\ t[Len(s) + 1] = c
    BY AppendProperties
  <1> HIDE DEF t
  <1>2. Len(s) \in Nat
    BY LenProperties
  <1>3. \A j, k \in 1 .. Len(t) : t[j] = t[k] => j = k
    BY <1>1, <1>2 DEF Listed
  <1>4. \A k \in 1 .. Len(t) : t[k] \in used \cup {c}
    BY <1>1, <1>2 DEF Listed
  <1>5. \A d \in used \cup {c} : \E k \in 1 .. Len(t) : t[k] = d
    BY <1>1, <1>2 DEF Listed
  <1>6. t \in Seq(Conn) /\ Len(t) = Len(s) + 1 /\ Listed(t, used \cup {c})
    BY <1>1, <1>3, <1>4, <1>5 DEF Listed
  <1> QED BY <1>6 DEF t

(* find_connection is exact: the first entry of the flow, if there is one. *)
LEMMA FindsConnection ==
  ASSUME NEW f
  PROVE  /\ find_connection(f) \subseteq {c \in Conn : connections[c].flow = f}
         /\ find_connection(f) = {} => \A c \in Conn : connections[c].flow # f
  <1>1. ASSUME NEW c \in Conn, connections[c].flow = f PROVE find_connection(f) # {}
    <2> DEFINE T == {d \in Conn : connections[d].flow = f}
    <2>1. T \subseteq Nat /\ T # {}
      BY <1>1, StatefulAssumption DEF Conn
    <2>2. PICK x \in T : \A y \in T : x <= y
      <3> HIDE DEF T
      <3> QED BY <2>1, SmallestOfNat
    <2>3. \A d \in 1 .. x - 1 : d \in Conn /\ d < x
      BY StatefulAssumption DEF Conn
    <2>4. \A d \in 1 .. x - 1 : connections[d].flow # f
      BY <2>2, <2>3 DEF Conn
    <2> QED BY <2>4 DEF find_connection
  <1> QED BY <1>1 DEF find_connection

LEMMA TcpAdvanceType ==
  ASSUME NEW s \in TcpState, NEW flags
  PROVE  tcp_state_advance(s, flags) \in TcpState
  BY DEF TcpState, tcp_state_advance

LEMMA StatefulSyn ==
  ASSUME StatefulInv, NEW f \in Flows, NEW flags, eval_syn(f, flags)
  PROVE  StatefulInv'
  <1>1. syn_cookie_count' \in 0 .. SYN_COOKIES_MAX
    BY StatefulAssumption DEF StatefulInv, StatefulTypeOK, eval_syn, syn_cookie_create
  <1>2. CASE create_connection = {}
    <2>1. UNCHANGED <<connections, seen, conn_count, halfopen_count>>
      BY <1>2 DEF eval_syn
    <2> QED BY <1>1, <2>1 DEF StatefulInv, StatefulTypeOK, InUse
  <1>3. CASE create_connection # {}
    <2> DEFINE st == tcp_state_advance("NONE", flags)
    <2>1. PICK c \in create_connection :
            /\ connections' = [connections EXCEPT ![c] = [flow |-> f, state |-> st]]
            /\ seen' = Append(seen, c)
            /\ conn_count' = conn_count + 1
            /\ halfopen_count' = halfopen_count + 1
      BY <1>3 DEF eval_syn
    <2>2. st \in TcpState
      BY TcpAdvanceType DEF TcpState
    <2> HIDE DEF st
    <2>3. c \in Conn /\ connections[c].flow = NoFlow /\ c \notin InUse
      BY <2>1, FindsConnection DEF create_connection, InUse
    <2>4. connections' \in [Conn -> [flow : Flows \cup {NoFlow}, state : TcpState]]
      BY <2>1, <2>2, <2>3 DEF StatefulInv, StatefulTypeOK
    <2>5. halfopen_count' \in 0 .. CONN_HALFOPEN_MAX
      BY <2>1, StatefulAssumption DEF StatefulInv, StatefulTypeOK, eval_syn
    <2>6. InUse' = InUse \cup {c}
      BY <2>1, <2>3, StatefulAssumption DEF InUse, StatefulInv, StatefulTypeOK
    <2>7. seen' \in Seq(Conn) /\ Len(seen') = Len(seen) + 1 /\ Listed(seen', InUse \cup {c})
      BY <2>1, <2>3, ListedAppend DEF StatefulInv, StatefulTypeOK
    <2>8. conn_count' = Len(seen') /\ conn_count' \in Int
      BY <2>1, <2>7, LenProperties DEF StatefulInv, StatefulTypeOK
    <2> QED BY <1>1, <2>4, <2>5, <2>6, <2>7, <2>8 DEF StatefulInv, StatefulTypeOK
  <1> QED BY <1>2, <1>3

(* No cookie is ever accepted, so a tracked packet leaves the half-open counter. *)
LEMMA StatefulTracked ==
  ASSUME StatefulInv, NEW f \in Flows, NEW flags, eval_tracked(f, flags)
  PROVE  StatefulInv'
  <1> DEFINE next(c) == tcp_state_advance(connections[c].state, flags)
  <1>1. PICK c \in find_connection(f) :
          /\ halfopen_count' = IF next(c) = "SYN_RCVD" /\ "ACK" \in flags /\ syn_cookie_verify(f)
                               THEN halfopen_count - 1 ELSE halfopen_count
          /\ IF next(c) = "CLOSED"
             THEN /\ connections' = [connections EXCEPT ![c] = Free]
                  /\ conn_count' = conn_count - 1
                  /\ seen' = Without(c)
             ELSE /\ connections' = [connections EXCEPT ![c].state = next(c)]
                  /\ seen' = Append(Without(c), c)
                  /\ UNCHANGED conn_count
    BY DEF eval_tracked
  <1>2. ~ syn_cookie_verify(f)
    BY DEF syn_cookie_verify
  <1>3. halfopen_count' = halfopen_count /\ syn_cookie_count' = syn_cookie_count
    BY <1>1, <1>2 DEF eval_tracked
  <1>4. c \in Conn /\ connections[c].flow = f /\ c \in InUse
    BY FindsConnection, StatefulAssumption DEF InUse
  <1>5. next(c) \in TcpState
    BY <1>4, TcpAdvanceType DEF StatefulInv, StatefulTypeOK
  <1> HIDE DEF next
  <1>6. Without(c) \in Seq(Conn) /\ Len(Without(c)) = Len(seen) - 1 /\ Listed(Without(c), InUse \ {c})
    BY <1>4, ListedWithout DEF StatefulInv, StatefulTypeOK
  <1>7. CASE next(c) = "CLOSED"
    <2>1. connections' = [connections EXCEPT ![c] = Free] /\ seen' = Without(c)
      BY <1>1, <1>7
    <2>2. connections' \in [Conn -> [flow : Flows \cup {NoFlow}, state : TcpState]]
      BY <1>4, <2>1 DEF Free, TcpState, StatefulInv, StatefulTypeOK
    <2>3. InUse' = InUse \ {c}
      BY <1>4, <2>1 DEF InUse, Free, StatefulInv, StatefulTypeOK
    <2>4. conn_count' = Len(seen') /\ conn_count' \in Int
      BY <1>1, <1>6, <1>7, LenProperties DEF StatefulInv, StatefulTypeOK
    <2> QED BY <1>3, <1>6, <2>1, <2>2, <2>3, <2>4 DEF StatefulInv, StatefulTypeOK
  <1>8. CASE next(c) # "CLOSED"
    <2>1. connections' = [connections EXCEPT ![c].state = next(c)] /\ seen' = Append(Without(c), c)
      BY <1>1, <1>8
    <2>2. connections' \in [Conn -> [flow : Flows \cup {NoFlow}, state : TcpState]]
      BY <1>4, <1>5, <2>1 DEF StatefulInv, StatefulTypeOK
    <2>3. InUse' = InUse
      BY <1>4, <2>1 DEF InUse, StatefulInv, StatefulTypeOK
    <2>4. /\ seen' \in Seq(Conn) /\ Len(seen') = Len(Without(c)) + 1
          /\ Listed(seen', (InUse \ {c}) \cup {c})
      BY <1>4, <1>6, <2>1, ListedAppend
    <2>5. (InUse \ {c}) \cup {c} = InUse'
      BY <1>4, <2>3
    <2>6. conn_count' = Len(seen') /\ conn_count' \in Int
      BY <1>1, <1>6, <1>8, <2>4, LenProperties DEF StatefulInv, StatefulTypeOK
    <2> QED BY <1>3, <2>2, <2>4, <2>5, <2>6 DEF StatefulInv, StatefulTypeOK
  <1> QED BY <1>7, <1>8

LEMMA StatefulTimeout ==
  ASSUME StatefulInv, NEW n \in 1 .. Len(seen), fw_stateful_timeout_stale(n)
  PROVE  StatefulInv'
  <1> USE DEF fw_stateful_timeout_stale
  <1>1. Len(seen) \in Nat /\ seen \in Seq(Conn)
    BY LenProperties DEF StatefulInv, StatefulTypeOK
  <1>2. connections' \in [Conn -> [flow : Flows \cup {NoFlow}, state : TcpState]]
    BY DEF Free, TcpState, StatefulInv, StatefulTypeOK
  <1>3. InUse' = {c \in InUse : \A k \in 1 .. n : seen[k] # c}
    BY DEF InUse, Free
  <1>4. /\ seen' \in Seq(Conn) /\ Len(seen') = Len(seen) - n
        /\ \A k \in 1 .. Len(seen) - n : seen'[k] = seen[k + n]
    <2>1. \A k \in n + 1 .. Len(seen) : seen[k] \in Conn
      BY <1>1, ElementOfSeq
    <2>2. /\ SubSeq(seen, n + 1, Len(seen)) \in Seq(Conn)
          /\ Len(SubSeq(seen, n + 1, Len(seen))) = IF n + 1 <= Len(seen) THEN Len(seen) - (n + 1) + 1 ELSE 0
          /\ \A k \in 1 .. Len(seen) - (n + 1) + 1 : SubSeq(seen, n + 1, Len(seen))[k] = seen[(n + 1) + k - 1]
      BY <1>1, <2>1, SubSeqProperties
    <2> QED BY <1>1, <2>2
  <1>5. Listed(seen', InUse')
    <2> USE DEF StatefulInv, Listed
    <2>1. \A i, j \in 1 .. Len(seen') : seen'[i] = seen'[j] => i = j
      BY <1>1, <1>4
    <2>2. \A i \in 1 .. Len(seen') : seen'[i] \in InUse'
      BY <1>1, <1>3, <1>4
    <2>3. ASSUME NEW c \in InUse' PROVE \E i \in 1 .. Len(seen') : seen'[i] = c
      <3>1. PICK i \in 1 .. Len(seen) : seen[i] = c
        BY <1>3
      <3>2. i > n
        BY <1>1, <1>3, <3>1
      <3>3. i - n \in 1 .. Len(seen') /\ seen'[i - n] = c
        BY <1>1, <1>4, <3>1, <3>2
      <3> QED BY <3>3
    <2> QED BY <2>1, <2>2, <2>3
  <1>6. conn_count' = Len(seen') /\ conn_count' \in Int
    BY <1>1, <1>4 DEF StatefulInv, StatefulTypeOK
  <1> QED BY <1>2, <1>4, <1>5, <1>6 DEF StatefulInv, StatefulTypeOK

LEMMA StatefulInductive == StatefulInv /\ [StatefulNext]_statefulVars => StatefulInv'
  <1> SUFFICES ASSUME StatefulInv, [StatefulNext]_statefulVars PROVE StatefulInv'
    OBVIOUS
  <1>1. ASSUME NEW f \in Flows, NEW flags, eval_syn(f, flags) PROVE StatefulInv'
    BY <1>1, StatefulSyn
  <1>2. ASSUME NEW f \in Flows, NEW flags, eval_tracked(f, flags) PROVE StatefulInv'
    BY <1>2, StatefulTracked
  <1>3. ASSUME NEW n \in 1 .. Len(seen), fw_stateful_timeout_stale(n) PROVE StatefulInv'
    BY <1>3, StatefulTimeout
  <1>4. CASE UNCHANGED statefulVars
    BY <1>4 DEF statefulVars, StatefulInv, StatefulTypeOK, InUse
  <1> QED BY <1>1, <1>2, <1>3, <1>4 DEF StatefulNext

LEMMA StatefulInitially == StatefulInit => StatefulInv
  <1> SUFFICES ASSUME StatefulInit PROVE StatefulInv
    OBVIOUS
  <1> USE DEF StatefulInit, Free
  <1>1. InUse = {}
    BY DEF InUse
  <1>2. StatefulTypeOK
    BY StatefulAssumption DEF StatefulTypeOK, TcpState
  <1>3. Listed(seen, InUse) /\ conn_count = Len(seen)
    BY <1>1 DEF Listed
  <1> QED BY <1>2, <1>3 DEF StatefulInv

LEMMA StatefulInvHolds == StatefulSpec => []StatefulInv
  BY StatefulInductive, StatefulInitially, PTL DEF StatefulSpec

(***************************************************************************)
(* conn_count is the number of entries in use after any sequence of opens, *)
(* closes and time-outs (fw_stateful_eval, fw_stateful_timeout_stale).     *)
(***************************************************************************)
THEOREM ConnectionsCounted == StatefulSpec => []ConnCountExact
  <1>1. StatefulInv => ConnCountExact
    <2> SUFFICES ASSUME StatefulInv PROVE ConnCountExact
      OBVIOUS
    <2>1. Cardinality(InUse) = Len(seen)
      BY ListedCounts DEF StatefulInv, StatefulTypeOK
    <2> QED BY <2>1 DEF StatefulInv, ConnCountExact, InUse
  <1> QED BY <1>1, StatefulInvHolds, PTL

(***************************************************************************)
(* A SYN that fw_stateful_eval lets pass its test of conn_count gets an    *)
(* entry: the branch for a table without a free one is never taken.        *)
(***************************************************************************)
THEOREM SynGetsEntry ==
  StatefulSpec => [](conn_count < MAX_CONNECTIONS => create_connection # {})
  <1>1. StatefulInv /\ conn_count < MAX_CONNECTIONS => create_connection # {}
    <2> SUFFICES ASSUME StatefulInv, conn_count < MAX_CONNECTIONS, create_connection = {} PROVE FALSE
      OBVIOUS
    <2>1. InUse = Conn
      BY FindsConnection DEF create_connection, InUse
    <2>2. Cardinality(InUse) = Len(seen)
      BY ListedCounts DEF StatefulInv, StatefulTypeOK
    <2>3. Cardinality(1 .. MAX_CONNECTIONS) = IF 1 > MAX_CONNECTIONS THEN 0 ELSE MAX_CONNECTIONS - 1 + 1
      BY FS_Interval, StatefulAssumption
    <2>4. Cardinality(Conn) = MAX_CONNECTIONS
      BY <2>3, StatefulAssumption DEF Conn
    <2> QED BY <2>1, <2>2, <2>4, StatefulAssumption DEF StatefulInv, StatefulTypeOK
  <1> QED BY <1>1, StatefulInvHolds, PTL

-----------------------------------------------------------------------------
(***************************************************************************)
(* The adaptive firewall.  BlockHolds is inductive together with the type  *)
(* of the block list and of until.                                         *)
(***************************************************************************)
BlockEntry == [active : BOOLEAN, ip : Ips \cup {NoIp}, left : Nat]

AdaptiveInv ==
  /\ blocklist \in [Block -> BlockEntry]
  /\ until \in [Ips -> Nat]
  /\ threshold_block_duration_ms \in Durations
  /\ BlockHolds

(* The entries of an address, and those that still have time, in any list. *)
Active(list, ip) == {b \in Block : list[b].active /\ list[b].ip = ip}
Running(list, ip) == {b \in Active(list, ip) : list[b].left > 0}

(* BlockHolds for one address, with the list and the promise given. *)
HoldsFor(list, promise, ip) ==
  /\ \A b \in Running(list, ip) : list[b].left = promise
  /\ promise > 0 => Running(list, ip) # {}
  /\ \A a, b \in Active(list, ip) : a = b

LEMMA BlockHoldsMeans ==
  ASSUME NEW list \in [Block -> BlockEntry], NEW promise, NEW ip
  PROVE  LET live == {b \in Block : list[b].active /\ list[b].ip = ip /\ list[b].left > 0}
             over == {b \in Block : list[b].active /\ list[b].ip = ip /\ list[b].left = 0}
         IN  HoldsFor(list, promise, ip) <=>
               /\ \A b \in live : list[b].left = promise
               /\ promise > 0 => live # {}
               /\ \A a, b \in live \cup over : a = b
  <1> DEFINE live == {b \in Block : list[b].active /\ list[b].ip = ip /\ list[b].left > 0}
             over == {b \in Block : list[b].active /\ list[b].ip = ip /\ list[b].left = 0}
  <1>1. \A b \in Block : list[b].left \in Nat
    BY DEF BlockEntry
  <1>2. \A b \in Block : list[b].left > 0 \/ list[b].left = 0
    BY <1>1
  <1>3. Running(list, ip) = live /\ Active(list, ip) = live \cup over
    BY <1>2 DEF Running, Active
  <1> HIDE DEF live, over
  <1>4. HoldsFor(list, promise, ip) <=>
          /\ \A b \in live : list[b].left = promise
          /\ promise > 0 => live # {}
          /\ \A a, b \in live \cup over : a = b
    BY <1>3, Zenon DEF HoldsFor
  <1> QED BY <1>4, Zenon DEF live, over

LEMMA SmallestIsIn ==
  ASSUME NEW T, T \subseteq Nat, T # {}
  PROVE  Smallest(T) \in T
  BY SmallestOfNat DEF Smallest

(* Giving up expired entries keeps what is promised to every address, and  *)
(* leaves none of the address that was looked up unless it is blocked.     *)
LEMMA LookUpKeepsBlocks ==
  ASSUME AdaptiveInv, NEW ip \in Ips
  PROVE  /\ ip_in_blocklist(ip) \in [Block -> BlockEntry]
         /\ \A other \in Ips : HoldsFor(ip_in_blocklist(ip), until[other], other)
         /\ Live(ip) = {} => Active(ip_in_blocklist(ip), ip) = {} /\ until[ip] = 0
  <1> DEFINE list == ip_in_blocklist(ip)
             Gone(b) == b \in Expired(ip) /\ \A l \in Live(ip) : b < l
  <1>1. blocklist \in [Block -> BlockEntry] /\ until \in [Ips -> Nat]
    BY DEF AdaptiveInv
  <1>2. \A b \in Block : list[b] = IF Gone(b) THEN [blocklist[b] EXCEPT !.active = FALSE] ELSE blocklist[b]
    BY DEF ip_in_blocklist
  <1>3. list \in [Block -> BlockEntry]
    BY <1>1 DEF ip_in_blocklist, BlockEntry
  <1>4. \A b \in Block : /\ list[b].ip = blocklist[b].ip /\ list[b].left = blocklist[b].left
                         /\ list[b].active <=> blocklist[b].active /\ ~ Gone(b)
    BY <1>1, <1>2 DEF BlockEntry
  <1>5. \A other \in Ips : HoldsFor(blocklist, until[other], other)
    <2>1. BlockHolds
      BY DEF AdaptiveInv
    <2> QED BY <1>1, <2>1, BlockHoldsMeans DEF BlockHolds, Live, Expired
  <1>6. \A b \in Block : Gone(b) => blocklist[b].left = 0
    BY DEF Expired
  <1>7. Live(ip) = {} => \A b \in Active(blocklist, ip) : Gone(b)
    <2> SUFFICES ASSUME Live(ip) = {}, NEW b \in Active(blocklist, ip) PROVE Gone(b)
      OBVIOUS
    <2>1. b \in Block /\ blocklist[b].active /\ blocklist[b].ip = ip
      BY DEF Active
    <2>2. blocklist[b].left \in Nat /\ ~(blocklist[b].left > 0)
      BY <1>1, <2>1 DEF Live, BlockEntry
    <2>3. blocklist[b].left = 0
      BY <2>2
    <2> QED BY <2>1, <2>3 DEF Expired
  <1>8. Running(blocklist, ip) = Live(ip)
    BY DEF Running, Active, Live
  <1> HIDE DEF list, Gone
  <1>9. ASSUME NEW other \in Ips PROVE HoldsFor(list, until[other], other)
    <2>1. Active(list, other) \subseteq Active(blocklist, other)
      BY <1>4 DEF Active
    <2>2. Running(list, other) = Running(blocklist, other)
      BY <1>4, <1>6 DEF Active, Running
    <2>3. \A b \in Running(blocklist, other) : list[b].left = blocklist[b].left
      BY <1>4 DEF Active, Running
    <2> QED BY <1>5, <2>1, <2>2, <2>3 DEF HoldsFor
  <1>10. Live(ip) = {} => Active(list, ip) = {}
    BY <1>4, <1>7 DEF Active
  <1>11. Live(ip) = {} => until[ip] = 0
    <2>1. until[ip] > 0 => Live(ip) # {}
      BY <1>5, <1>8 DEF HoldsFor
    <2>2. until[ip] \in Nat
      BY <1>1
    <2> QED BY <2>1, <2>2
  <1> QED BY <1>3, <1>9, <1>10, <1>11 DEF list

(* Blocking an address without an entry promises it the duration, if there *)
(* is room, and changes nothing for another.                               *)
LEMMA BlockKeepsBlocks ==
  ASSUME NEW list \in [Block -> BlockEntry], NEW promise \in [Ips -> Nat], NEW ip \in Ips,
         \A other \in Ips : HoldsFor(list, promise[other], other),
         Active(list, ip) = {}, threshold_block_duration_ms \in Nat,
         \E b \in Block : ~ list[b].active
  PROVE  /\ ip_block(list, ip) \in [Block -> BlockEntry]
         /\ \A other \in Ips :
              HoldsFor(ip_block(list, ip), [promise EXCEPT ![ip] = threshold_block_duration_ms][other], other)
  <1> DEFINE free == {b \in Block : ~ list[b].active}
             slot == Smallest(free)
             new == [active |-> TRUE, ip |-> ip, left |-> threshold_block_duration_ms]
             after == [list EXCEPT ![slot] = new]
  <1>1. slot \in free
    <2>1. free \subseteq Nat /\ free # {}
      BY AdaptiveAssumption DEF Block
    <2> HIDE DEF free
    <2> QED BY <2>1, SmallestIsIn
  <1>2. ip_block(list, ip) = after
    BY DEF ip_block
  <1>3. slot \in Block /\ ~ list[slot].active
    BY <1>1
  <1> HIDE DEF free, slot
  <1>4. after \in [Block -> BlockEntry]
    BY <1>3 DEF BlockEntry
  <1>5. after[slot] = new /\ \A b \in Block \ {slot} : after[b] = list[b]
    BY <1>3
  <1> HIDE DEF after
  <1>6. ASSUME NEW other \in Ips, other # ip PROVE HoldsFor(after, promise[other], other)
    <2>1. Active(after, other) = Active(list, other)
      BY <1>3, <1>5, <1>6 DEF Active
    <2>2. \A b \in Active(list, other) : after[b] = list[b]
      BY <1>3, <1>5 DEF Active
    <2>3. Running(after, other) = Running(list, other)
      BY <2>1, <2>2 DEF Running
    <2> QED BY <2>1, <2>2, <2>3 DEF HoldsFor, Running
  <1>7. HoldsFor(after, threshold_block_duration_ms, ip)
    <2>1. Active(after, ip) = {slot}
      BY <1>3, <1>5 DEF Active
    <2>2. after[slot].left = threshold_block_duration_ms
      BY <1>5
    <2> QED BY <2>1, <2>2 DEF HoldsFor, Running
  <1> QED BY <1>2, <1>4, <1>6, <1>7

LEMMA ClockKeepsBlocks ==
  ASSUME AdaptiveInv, clock
  PROVE  AdaptiveInv'
  <1>1. /\ blocklist \in [Block -> BlockEntry] /\ until \in [Ips -> Nat]
        /\ \A ip \in Ips : HoldsFor(blocklist, until[ip], ip)
    BY BlockHoldsMeans DEF AdaptiveInv, BlockHolds, Live, Expired
  <1>2. \A n \in Nat : Less(n) \in Nat /\ (Less(n) > 0 => n > 0)
    BY DEF Less
  <1>3. /\ blocklist' \in [Block -> BlockEntry]
        /\ \A b \in Block : /\ blocklist'[b].left = Less(blocklist[b].left)
                            /\ blocklist'[b].ip = blocklist[b].ip
                            /\ blocklist'[b].active = blocklist[b].active
    BY <1>1, <1>2 DEF clock, BlockEntry
  <1>4. until' \in [Ips -> Nat] /\ \A ip \in Ips : until'[ip] = Less(until[ip])
    BY <1>1, <1>2 DEF clock
  <1>5. ASSUME NEW ip \in Ips PROVE HoldsFor(blocklist', until'[ip], ip)
    <2>1. Active(blocklist', ip) = Active(blocklist, ip)
      BY <1>3 DEF Active
    <2>2. \A b \in Active(blocklist, ip) : blocklist[b].left \in Nat /\ b \in Block
      BY <1>1 DEF Active, BlockEntry
    <2>3. Running(blocklist', ip) \subseteq Running(blocklist, ip)
      BY <1>2, <1>3, <2>1, <2>2 DEF Running
    <2>4. \A b \in Running(blocklist', ip) : blocklist'[b].left = until'[ip]
      BY <1>1, <1>3, <1>4, <2>2, <2>3 DEF HoldsFor, Running
    <2>5. until'[ip] > 0 => Running(blocklist', ip) # {}
      <3> SUFFICES ASSUME until'[ip] > 0 PROVE Running(blocklist', ip) # {}
        OBVIOUS
      <3>1. until[ip] \in Nat /\ until'[ip] = Less(until[ip]) /\ until[ip] > 0
        BY <1>1, <1>2, <1>4
      <3>2. PICK b \in Running(blocklist, ip) : blocklist[b].left = until[ip]
        BY <1>1, <3>1 DEF HoldsFor
      <3>3. b \in Active(blocklist', ip) /\ blocklist'[b].left = until'[ip]
        BY <1>3, <2>1, <3>1, <3>2 DEF Running, Active
      <3> QED BY <3>3 DEF Running
    <2> QED BY <1>1, <2>1, <2>4, <2>5 DEF HoldsFor
  <1>6. BlockHolds'
    BY <1>3, <1>5, BlockHoldsMeans DEF BlockHolds, Live, Expired
  <1> QED BY <1>3, <1>4, <1>6 DEF AdaptiveInv, clock

LEMMA JudgedKeepsBlocks ==
  ASSUME AdaptiveInv, NEW ip \in Ips, NEW anomaly \in BOOLEAN, eval_judged(ip, anomaly)
  PROVE  AdaptiveInv'
  <1> DEFINE list == ip_in_blocklist(ip)
             room == \E b \in Block : ~ list[b].active
  <1>1. /\ blocklist' = IF anomaly THEN ip_block(list, ip) ELSE list
        /\ until' = IF anomaly /\ room THEN [until EXCEPT ![ip] = threshold_block_duration_ms] ELSE until
        /\ threshold_block_duration_ms' = threshold_block_duration_ms
    BY Zenon DEF eval_judged
  <1>2. /\ list \in [Block -> BlockEntry]
        /\ \A other \in Ips : HoldsFor(list, until[other], other)
        /\ Active(list, ip) = {}
    BY LookUpKeepsBlocks DEF eval_judged
  <1>3. until \in [Ips -> Nat] /\ threshold_block_duration_ms \in Nat
    BY AdaptiveAssumption DEF AdaptiveInv
  <1>4. ~ room => ip_block(list, ip) = list
    BY DEF ip_block
  <1> HIDE DEF list
  <1>5. /\ blocklist' \in [Block -> BlockEntry] /\ until' \in [Ips -> Nat]
        /\ \A other \in Ips : HoldsFor(blocklist', until'[other], other)
    <2>1. CASE anomaly /\ room
      <3>1. blocklist' = ip_block(list, ip) /\ until' = [until EXCEPT ![ip] = threshold_block_duration_ms]
        BY <1>1, <2>1
      <3> QED BY <1>2, <1>3, <2>1, <3>1, BlockKeepsBlocks
    <2>2. CASE ~ (anomaly /\ room)
      <3>1. blocklist' = list /\ until' = until
        BY <1>1, <1>4, <2>2, Zenon
      <3> QED BY <1>2, <1>3, <3>1
    <2> QED BY <2>1, <2>2
  <1>6. BlockHolds'
    BY <1>5, BlockHoldsMeans DEF BlockHolds, Live, Expired
  <1> QED BY <1>1, <1>5, <1>6 DEF AdaptiveInv

LEMMA AdaptiveInductive == AdaptiveInv /\ [AdaptiveNext]_adaptiveVars => AdaptiveInv'
  <1> SUFFICES ASSUME AdaptiveInv, [AdaptiveNext]_adaptiveVars PROVE AdaptiveInv'
    OBVIOUS
  <1>1. ASSUME NEW ip \in Ips, eval_blocked(ip) PROVE AdaptiveInv'
    <2>1. /\ blocklist' = ip_in_blocklist(ip) /\ until' = until
          /\ threshold_block_duration_ms' = threshold_block_duration_ms
      BY <1>1 DEF eval_blocked
    <2>2. /\ blocklist' \in [Block -> BlockEntry]
          /\ \A other \in Ips : HoldsFor(blocklist', until'[other], other)
      BY <2>1, LookUpKeepsBlocks
    <2>3. BlockHolds'
      BY <2>2, BlockHoldsMeans DEF BlockHolds, Live, Expired
    <2> QED BY <2>1, <2>2, <2>3 DEF AdaptiveInv
  <1>2. ASSUME NEW ip \in Ips, NEW anomaly \in BOOLEAN, eval_judged(ip, anomaly) PROVE AdaptiveInv'
    BY <1>2, JudgedKeepsBlocks
  <1>7. ASSUME blocklist' = blocklist, until' = until, threshold_block_duration_ms' \in Durations
        PROVE  AdaptiveInv'
    <2>1. blocklist \in [Block -> BlockEntry] /\ \A ip \in Ips : HoldsFor(blocklist, until[ip], ip)
      BY BlockHoldsMeans DEF AdaptiveInv, BlockHolds, Live, Expired
    <2>2. BlockHolds'
      BY <1>7, <2>1, BlockHoldsMeans DEF BlockHolds, Live, Expired
    <2> QED BY <1>7, <2>2 DEF AdaptiveInv
  <1>3. CASE fw_adaptive_update_baseline
    BY <1>3, <1>7 DEF fw_adaptive_update_baseline, AdaptiveInv
  <1>4. ASSUME NEW d \in Durations, fw_adaptive_set_threshold(d) PROVE AdaptiveInv'
    BY <1>4, <1>7 DEF fw_adaptive_set_threshold
  <1>5. CASE clock
    BY <1>5, ClockKeepsBlocks
  <1>6. CASE UNCHANGED adaptiveVars
    BY <1>6, <1>7 DEF adaptiveVars, AdaptiveInv
  <1> QED BY <1>1, <1>2, <1>3, <1>4, <1>5, <1>6 DEF AdaptiveNext

LEMMA AdaptiveInitially == AdaptiveInit => AdaptiveInv
  <1> SUFFICES ASSUME AdaptiveInit PROVE AdaptiveInv
    OBVIOUS
  <1>1. blocklist \in [Block -> BlockEntry] /\ until \in [Ips -> Nat] /\ threshold_block_duration_ms \in Durations
    BY AdaptiveAssumption DEF AdaptiveInit, BlockEntry
  <1>2. \A ip \in Ips : Live(ip) = {} /\ Expired(ip) = {} /\ until[ip] = 0
    BY DEF AdaptiveInit, Live, Expired
  <1>3. BlockHolds
    BY <1>2 DEF BlockHolds
  <1> QED BY <1>1, <1>3 DEF AdaptiveInv

(***************************************************************************)
(* An address that ip_block found room for stays blocked for exactly the   *)
(* time it was promised and has one entry, for every size of the list and  *)
(* of the profile table.                                                   *)
(***************************************************************************)
THEOREM BlocksHold == AdaptiveSpec => []BlockHolds
  <1>1. AdaptiveInv => BlockHolds
    BY DEF AdaptiveInv
  <1> QED BY <1>1, AdaptiveInductive, AdaptiveInitially, PTL DEF AdaptiveSpec

-----------------------------------------------------------------------------
(***************************************************************************)
(* NetGuard's ring.  Until two calls of ring_push overlap, one producer at *)
(* most is inside, and between its reads and its stores a thread relies on *)
(* what it read: the producer on the head and on the free slot behind it,  *)
(* the wiper on the packet at the tail.                                    *)
(***************************************************************************)
RingClaims ==
  /\ \A p \in NGProducers : pushing[p].at # "idle" =>
       /\ pushing[p].head = ring_head /\ Advance(ring_head) # ring_tail
       /\ \A q \in NGProducers \ {p} : pushing[q].at = "idle"
  /\ \A p \in NGProducers : pushing[p].at = "publish" => ring_slots[ring_head] = pushing[p].pkt
  /\ popping.at # "idle" => ring_tail # ring_head
  /\ popping.at = "publish" => popping.pkt = ring_slots[ring_tail]
RingInv == RingTypeOK /\ (~ overlapped => RingClaims)

(* How many packets lie between tail and head, the place of the k-th one,  *)
(* and the packets, with the wrapping written out.                         *)
CountOf(h, t) == IF h >= t THEN h - t ELSE h - t + NG_RING_SIZE
SlotOf(t, k) == IF t + k - 1 < NG_RING_SIZE THEN t + k - 1 ELSE t + k - 1 - NG_RING_SIZE
ContentsOf(slots, h, t) == [k \in 1 .. CountOf(h, t) |-> slots[SlotOf(t, k)]]

(* One wrap is enough between - NG_RING_SIZE and twice NG_RING_SIZE. *)
LEMMA NGWrap ==
  \A a \in - NG_RING_SIZE .. 2 * NG_RING_SIZE - 1 :
    a % NG_RING_SIZE = IF a < 0 THEN a + NG_RING_SIZE
                       ELSE IF a < NG_RING_SIZE THEN a ELSE a - NG_RING_SIZE
  <1> DEFINE n == NG_RING_SIZE
  <1> SUFFICES ASSUME NEW a \in - n .. 2 * n - 1
               PROVE  a % n = IF a < 0 THEN a + n ELSE IF a < n THEN a ELSE a - n
    OBVIOUS
  <1>0. n \in Nat \ {0}
    BY NGRingAssumption
  <1> HIDE DEF n
  <1>1. a % n \in 0 .. n - 1 /\ a = n * (a \div n) + (a % n) /\ a \div n \in Int
    BY <1>0
  <1>2. a \div n \in {-1, 0, 1}
    BY <1>0, <1>1
  <1> QED BY <1>0, <1>1, <1>2

LEMMA AdvanceWraps ==
  \A i \in RingIndex : Advance(i) \in RingIndex /\ Advance(i) = IF i = NG_RING_SIZE - 1 THEN 0 ELSE i + 1
  <1> SUFFICES ASSUME NEW i \in RingIndex
               PROVE  Advance(i) \in RingIndex /\ Advance(i) = IF i = NG_RING_SIZE - 1 THEN 0 ELSE i + 1
    OBVIOUS
  <1> DEFINE a == i + 1
  <1>1. a \in - NG_RING_SIZE .. 2 * NG_RING_SIZE - 1 /\ a >= 0
    BY NGRingAssumption DEF RingIndex
  <1>2. Advance(i) = a % NG_RING_SIZE
    BY DEF Advance
  <1> HIDE DEF a
  <1>3. a % NG_RING_SIZE = IF a < NG_RING_SIZE THEN a ELSE a - NG_RING_SIZE
    BY <1>1, NGWrap
  <1> QED BY <1>1, <1>2, <1>3, NGRingAssumption DEF RingIndex, a

LEMMA ContentsUnwrapped ==
  ASSUME NEW h \in RingIndex, NEW t \in RingIndex, NEW slots
  PROVE  [i \in 1 .. ((h - t) % NG_RING_SIZE) |-> slots[(t + i - 1) % NG_RING_SIZE]] = ContentsOf(slots, h, t)
  <1> DEFINE d == h - t
  <1>1. (h - t) % NG_RING_SIZE = CountOf(h, t)
    <2>1. d \in - NG_RING_SIZE .. 2 * NG_RING_SIZE - 1 /\ d < NG_RING_SIZE
      BY NGRingAssumption DEF RingIndex
    <2> HIDE DEF d
    <2>2. d % NG_RING_SIZE = IF d < 0 THEN d + NG_RING_SIZE ELSE d
      BY <2>1, NGWrap
    <2> QED BY <2>1, <2>2, NGRingAssumption DEF RingIndex, CountOf, d
  <1>2. CountOf(h, t) \in 0 .. NG_RING_SIZE - 1
    BY NGRingAssumption DEF CountOf, RingIndex
  <1>3. ASSUME NEW i \in 1 .. CountOf(h, t) PROVE (t + i - 1) % NG_RING_SIZE = SlotOf(t, i)
    <2> DEFINE a == t + i - 1
    <2>1. a \in - NG_RING_SIZE .. 2 * NG_RING_SIZE - 1 /\ a >= 0
      BY <1>2, NGRingAssumption DEF RingIndex
    <2>2. SlotOf(t, i) = IF a < NG_RING_SIZE THEN a ELSE a - NG_RING_SIZE
      BY <1>2, NGRingAssumption DEF SlotOf, RingIndex
    <2> HIDE DEF a
    <2>3. a % NG_RING_SIZE = SlotOf(t, i)
      BY <2>1, <2>2, NGWrap
    <2> QED BY <2>3 DEF a
  <1> QED BY <1>1, <1>3, Zenon DEF ContentsOf

(* The slots a reader sees are different, and none of them is the head. *)
LEMMA SlotsDiffer ==
  ASSUME NEW h \in RingIndex, NEW t \in RingIndex, NEW k \in 1 .. CountOf(h, t)
  PROVE  SlotOf(t, k) \in RingIndex /\ SlotOf(t, k) # h
  BY NGRingAssumption DEF SlotOf, CountOf, RingIndex

LEMMA ContentsType ==
  ASSUME NEW h \in RingIndex, NEW t \in RingIndex, NEW slots \in [RingIndex -> NGPackets]
  PROVE  /\ ContentsOf(slots, h, t) \in Seq(NGPackets)
         /\ Len(ContentsOf(slots, h, t)) = CountOf(h, t) /\ CountOf(h, t) \in 0 .. NG_RING_SIZE - 1
         /\ \A k \in 1 .. CountOf(h, t) : ContentsOf(slots, h, t)[k] = slots[SlotOf(t, k)]
  <1>1. CountOf(h, t) \in 0 .. NG_RING_SIZE - 1
    BY NGRingAssumption DEF CountOf, RingIndex
  <1>2. \A k \in 1 .. CountOf(h, t) : slots[SlotOf(t, k)] \in NGPackets
    BY SlotsDiffer
  <1> QED BY <1>1, <1>2 DEF ContentsOf

(* Storing into the head's slot is not seen before the head moves. *)
LEMMA CopyUnseen ==
  ASSUME NEW h \in RingIndex, NEW t \in RingIndex, NEW slots \in [RingIndex -> NGPackets], NEW pkt
  PROVE  ContentsOf([slots EXCEPT ![h] = pkt], h, t) = ContentsOf(slots, h, t)
  <1>1. \A k \in 1 .. CountOf(h, t) : [slots EXCEPT ![h] = pkt][SlotOf(t, k)] = slots[SlotOf(t, k)]
    BY SlotsDiffer
  <1> QED BY <1>1, Zenon DEF ContentsOf

(* Moving the head appends the packet in its slot to what is seen. *)
LEMMA PublishAppends ==
  ASSUME NEW h \in RingIndex, NEW t \in RingIndex, NEW slots \in [RingIndex -> NGPackets],
         Advance(h) # t
  PROVE  /\ Len(ContentsOf(slots, h, t)) < NG_RING_SIZE - 1
         /\ ContentsOf(slots, Advance(h), t) = Append(ContentsOf(slots, h, t), slots[h])
  <1> DEFINE c == ContentsOf(slots, h, t)
             e == ContentsOf(slots, Advance(h), t)
  <1>0. Advance(h) \in RingIndex /\ Advance(h) = IF h = NG_RING_SIZE - 1 THEN 0 ELSE h + 1
    BY AdvanceWraps
  <1>1. /\ CountOf(h, t) \in Nat /\ CountOf(h, t) < NG_RING_SIZE - 1
        /\ CountOf(Advance(h), t) = CountOf(h, t) + 1
        /\ SlotOf(t, CountOf(h, t) + 1) = h
    BY <1>0, NGRingAssumption DEF CountOf, SlotOf, RingIndex
  <1>2. /\ c \in Seq(NGPackets) /\ Len(c) = CountOf(h, t)
        /\ \A k \in 1 .. CountOf(h, t) : c[k] = slots[SlotOf(t, k)]
    BY ContentsType
  <1>3. /\ e \in Seq(NGPackets) /\ Len(e) = CountOf(h, t) + 1
        /\ \A k \in 1 .. CountOf(h, t) + 1 : e[k] = slots[SlotOf(t, k)]
    BY <1>0, <1>1, ContentsType
  <1> HIDE DEF c, e
  <1>4. /\ Append(c, slots[h]) \in Seq(NGPackets) /\ Len(Append(c, slots[h])) = Len(c) + 1
        /\ \A k \in 1 .. Len(c) : Append(c, slots[h])[k] = c[k]
        /\ Append(c, slots[h])[Len(c) + 1] = slots[h]
    BY <1>2, AppendProperties
  <1>5. ASSUME NEW k \in 1 .. Len(e) PROVE e[k] = Append(c, slots[h])[k]
    <2>1. CASE k = CountOf(h, t) + 1
      BY <1>1, <1>2, <1>3, <1>4, <2>1
    <2>2. CASE k \in 1 .. CountOf(h, t)
      BY <1>1, <1>2, <1>3, <1>4, <2>2
    <2>3. k = CountOf(h, t) + 1 \/ k \in 1 .. CountOf(h, t)
      BY <1>1, <1>3
    <2> QED BY <2>1, <2>2, <2>3, Zenon
  <1>6. e = Append(c, slots[h])
    BY <1>2, <1>3, <1>4, <1>5, SeqEqual
  <1> QED BY <1>1, <1>2, <1>6 DEF c, e

(* Moving the tail takes the packet in its slot from what is seen. *)
LEMMA TakeRemoves ==
  ASSUME NEW h \in RingIndex, NEW t \in RingIndex, NEW slots \in [RingIndex -> NGPackets], t # h
  PROVE  /\ ContentsOf(slots, h, t) # <<>>
         /\ Head(ContentsOf(slots, h, t)) = slots[t]
         /\ ContentsOf(slots, h, Advance(t)) = Tail(ContentsOf(slots, h, t))
  <1> DEFINE c == ContentsOf(slots, h, t)
             e == ContentsOf(slots, h, Advance(t))
  <1>0. Advance(t) \in RingIndex /\ Advance(t) = IF t = NG_RING_SIZE - 1 THEN 0 ELSE t + 1
    BY AdvanceWraps
  <1>1. /\ CountOf(h, t) \in Nat \ {0}
        /\ CountOf(h, Advance(t)) = CountOf(h, t) - 1
        /\ SlotOf(t, 1) = t
        /\ \A k \in 1 .. CountOf(h, t) - 1 : SlotOf(Advance(t), k) = SlotOf(t, k + 1)
    BY <1>0, NGRingAssumption DEF CountOf, SlotOf, RingIndex
  <1>2. /\ c \in Seq(NGPackets) /\ Len(c) = CountOf(h, t)
        /\ \A k \in 1 .. CountOf(h, t) : c[k] = slots[SlotOf(t, k)]
    BY ContentsType
  <1>3. /\ e \in Seq(NGPackets) /\ Len(e) = CountOf(h, t) - 1
        /\ \A k \in 1 .. CountOf(h, t) - 1 : e[k] = slots[SlotOf(Advance(t), k)]
    BY <1>0, <1>1, ContentsType
  <1> HIDE DEF c, e
  <1>4. c # <<>> /\ Head(c) = slots[t]
    BY <1>1, <1>2
  <1>5. /\ Tail(c) \in Seq(NGPackets) /\ Len(Tail(c)) = Len(c) - 1
        /\ \A k \in 1 .. Len(Tail(c)) : Tail(c)[k] = c[k + 1]
    BY <1>2, <1>4, HeadTailProperties
  <1>6. ASSUME NEW k \in 1 .. Len(e) PROVE e[k] = Tail(c)[k]
    <2>1. k \in 1 .. CountOf(h, t) - 1 /\ k \in 1 .. Len(Tail(c)) /\ k + 1 \in 1 .. CountOf(h, t)
      BY <1>1, <1>2, <1>3, <1>5
    <2>2. e[k] = slots[SlotOf(t, k + 1)]
      BY <1>1, <1>3, <2>1
    <2>3. Tail(c)[k] = c[k + 1] /\ c[k + 1] = slots[SlotOf(t, k + 1)]
      BY <1>2, <1>5, <2>1
    <2> QED BY <2>2, <2>3
  <1>7. e = Tail(c)
    <2>1. Len(e) = Len(Tail(c))
      BY <1>2, <1>3, <1>5
    <2> QED BY <1>3, <1>5, <1>6, <2>1, SeqEqual
  <1> QED BY <1>4, <1>7 DEF c, e

(* Types are kept by every step, of overlapping producers too. *)
LEMMA RingTypesKept == RingTypeOK /\ [RingNext]_ringVars => RingTypeOK'
  <1> SUFFICES ASSUME RingTypeOK, [RingNext]_ringVars PROVE RingTypeOK'
    OBVIOUS
  <1> USE DEF RingTypeOK
  <1>0. 0 \in RingIndex
    BY NGRingAssumption DEF RingIndex
  <1>1. ASSUME NEW p \in NGProducers, PushBegin(p) PROVE RingTypeOK'
    BY <1>1 DEF PushBegin
  <1>2. ASSUME NEW p \in NGProducers, PushCopy(p) PROVE RingTypeOK'
    BY <1>2 DEF PushCopy
  <1>3. ASSUME NEW p \in NGProducers, PushPublish(p) PROVE RingTypeOK'
    <2>1. Advance(pushing[p].head) \in RingIndex
      BY AdvanceWraps
    <2> QED BY <1>0, <1>3, <2>1, NGRingAssumption DEF PushPublish, NotPushing
  <1>4. CASE PopBegin
    BY <1>4 DEF PopBegin
  <1>5. CASE PopCopy
    BY <1>5 DEF PopCopy
  <1>6. CASE PopPublish
    <2>1. Advance(ring_tail) \in RingIndex
      BY AdvanceWraps
    <2> QED BY <1>6, <2>1, NGRingAssumption DEF PopPublish, NotPopping
  <1>7. CASE UNCHANGED ringVars
    BY <1>7 DEF ringVars
  <1> QED BY <1>1, <1>2, <1>3, <1>4, <1>5, <1>6, <1>7 DEF RingNext

(***************************************************************************)
(* A step after which no two pushes have overlapped keeps the claims and   *)
(* is, for the packets between tail and head, a step of the queue or none. *)
(***************************************************************************)
LEMMA RingSteps ==
  ASSUME RingTypeOK, RingClaims, ~ overlapped', [RingNext]_ringVars
  PROVE  /\ RingClaims'
         /\ [Fifo!FifoNext]_<<Contents, handed>>
  <1> DEFINE C(slots, h, t) == ContentsOf(slots, h, t)
  <1>0. RingTypeOK'
    BY RingTypesKept
  <1>1. /\ ring_head \in RingIndex /\ ring_tail \in RingIndex
        /\ ring_slots \in [RingIndex -> NGPackets]
        /\ pushing \in [NGProducers -> [at : {"idle", "copy", "publish"}, pkt : NGPackets, head : RingIndex]]
        /\ popping \in [at : {"idle", "copy", "publish"}, pkt : NGPackets] /\ handed \in NGPackets
    BY DEF RingTypeOK
  <1>2. Contents = C(ring_slots, ring_head, ring_tail)
    BY <1>1, ContentsUnwrapped DEF Contents, ring_count
  <1>3. Contents' = C(ring_slots', ring_head', ring_tail')
    BY <1>0, ContentsUnwrapped DEF Contents, ring_count, RingTypeOK
  <1> HIDE DEF C
  <1>4. ASSUME UNCHANGED <<ring_slots, ring_head, ring_tail, handed>>
        PROVE  UNCHANGED <<Contents, handed>>
    BY <1>2, <1>3, <1>4
  <1>5. ASSUME NEW p \in NGProducers, PushBegin(p) PROVE RingClaims' /\ UNCHANGED <<Contents, handed>>
    <2>1. CASE pushing' = pushing
      BY <1>4, <1>5, <2>1 DEF PushBegin, RingClaims
    <2>2. CASE pushing' # pushing
      <3>1. PICK pkt \in NGPackets :
              pushing' = [pushing EXCEPT ![p] = [at |-> "copy", pkt |-> pkt, head |-> ring_head]]
        BY <1>1, <1>5, <2>2 DEF PushBegin
      <3>2. Advance(ring_head) # ring_tail /\ \A q \in NGProducers : pushing[q].at = "idle"
        BY <1>1, <1>5, <2>2 DEF PushBegin
      <3>3. UNCHANGED <<ring_slots, ring_head, ring_tail, popping, handed>>
        BY <1>5 DEF PushBegin
      <3>4. RingClaims'
        BY <1>1, <3>1, <3>2, <3>3 DEF RingClaims, Advance
      <3> QED BY <1>4, <3>3, <3>4
    <2> QED BY <2>1, <2>2
  <1>6. ASSUME NEW p \in NGProducers, PushCopy(p) PROVE RingClaims' /\ UNCHANGED <<Contents, handed>>
    <2>1. /\ pushing[p].head = ring_head /\ pushing[p].at = "copy" /\ Advance(ring_head) # ring_tail
          /\ \A q \in NGProducers \ {p} : pushing[q].at = "idle"
      BY <1>6 DEF PushCopy, RingClaims
    <2>2. ring_slots' = [ring_slots EXCEPT ![ring_head] = pushing[p].pkt]
      BY <1>6, <2>1 DEF PushCopy
    <2>3. /\ pushing' = [pushing EXCEPT ![p].at = "publish"]
          /\ UNCHANGED <<ring_head, ring_tail, popping, handed>>
      BY <1>6 DEF PushCopy
    <2>4. RingClaims'
      <3>1. popping.at = "publish" => ring_slots'[ring_tail] = ring_slots[ring_tail]
        BY <1>1, <2>2 DEF RingClaims
      <3> QED BY <1>1, <2>1, <2>2, <2>3, <3>1 DEF RingClaims, Advance
    <2>5. C(ring_slots', ring_head, ring_tail) = C(ring_slots, ring_head, ring_tail)
      BY <1>1, <2>2, CopyUnseen DEF C
    <2> QED BY <1>2, <1>3, <2>3, <2>4, <2>5
  <1>7. ASSUME NEW p \in NGProducers, PushPublish(p) PROVE RingClaims' /\ Fifo!Enqueue
    <2>1. /\ pushing[p].head = ring_head /\ pushing[p].at = "publish"
          /\ Advance(ring_head) # ring_tail /\ ring_slots[ring_head] = pushing[p].pkt
          /\ \A q \in NGProducers \ {p} : pushing[q].at = "idle"
      BY <1>7 DEF PushPublish, RingClaims
    <2>2. ring_head' = Advance(ring_head) /\ UNCHANGED <<ring_tail, ring_slots, popping, handed>>
      BY <1>7, <2>1 DEF PushPublish
    <2>3. Advance(ring_head) \in RingIndex
      BY <1>1, AdvanceWraps
    <2>4. RingClaims'
      <3>1. \A q \in NGProducers : pushing'[q].at = "idle"
        BY <1>1, <1>7, <2>1 DEF PushPublish, NotPushing
      <3> QED BY <2>1, <2>2, <3>1 DEF RingClaims
    <2>5. /\ Len(Contents) < NG_RING_SIZE - 1
          /\ Contents' = Append(Contents, ring_slots[ring_head])
      BY <1>1, <1>2, <1>3, <2>1, <2>2, PublishAppends DEF C
    <2>6. ring_slots[ring_head] \in NGPackets
      BY <1>1
    <2> QED BY <2>2, <2>4, <2>5, <2>6 DEF Fifo!Enqueue
  <1>8. CASE PopBegin
    <2>1. RingClaims'
      BY <1>1, <1>8 DEF PopBegin, RingClaims, Advance
    <2> QED BY <1>4, <1>8, <2>1 DEF PopBegin
  <1>9. CASE PopCopy
    <2>1. RingClaims'
      BY <1>1, <1>9 DEF PopCopy, RingClaims, Advance
    <2> QED BY <1>4, <1>9, <2>1 DEF PopCopy
  <1>10. ASSUME PopPublish PROVE RingClaims' /\ Fifo!Dequeue
    <2>1. ring_tail # ring_head /\ popping.pkt = ring_slots[ring_tail]
      BY <1>10 DEF PopPublish, RingClaims
    <2>2. /\ ring_tail' = Advance(ring_tail) /\ handed' = ring_slots[ring_tail] /\ popping' = NotPopping
          /\ UNCHANGED <<ring_head, ring_slots, pushing>>
      BY <1>10, <2>1 DEF PopPublish
    <2>3. Advance(ring_head) # Advance(ring_tail)
      BY <1>1, <2>1, AdvanceWraps, NGRingAssumption DEF RingIndex
    <2>4. RingClaims'
      <3>1. Advance(ring_head)' = Advance(ring_head)
        BY <2>2 DEF Advance
      <3> QED BY <2>2, <2>3, <3>1 DEF RingClaims, NotPopping
    <2>5. Contents # <<>> /\ Head(Contents) = ring_slots[ring_tail] /\ Contents' = Tail(Contents)
      BY <1>1, <1>2, <1>3, <2>1, <2>2, TakeRemoves DEF C
    <2> QED BY <2>2, <2>4, <2>5 DEF Fifo!Dequeue
  <1>11. CASE UNCHANGED ringVars
    <2>1. RingClaims'
      BY <1>11 DEF ringVars, RingClaims, Advance
    <2> QED BY <1>4, <1>11, <2>1 DEF ringVars
  <1> QED BY <1>5, <1>6, <1>7, <1>8, <1>9, <1>10, <1>11 DEF RingNext, Fifo!FifoNext

LEMMA RingStarts == RingInit => RingInv /\ Fifo!FifoInit
  <1> SUFFICES ASSUME RingInit PROVE RingInv /\ Fifo!FifoInit
    OBVIOUS
  <1>1. RingInv
    <2>1. 0 \in RingIndex
      BY NGRingAssumption DEF RingIndex
    <2>2. RingTypeOK
      BY <2>1, NGRingAssumption DEF RingInit, RingTypeOK, NotPushing, NotPopping
    <2>3. RingClaims
      BY DEF RingInit, RingClaims, NotPushing, NotPopping
    <2> QED BY <2>2, <2>3 DEF RingInv
  <1>2. Contents = ContentsOf(ring_slots, 0, 0)
    BY ContentsUnwrapped, NGRingAssumption DEF RingInit, RingIndex, Contents, ring_count
  <1>3. ContentsOf(ring_slots, 0, 0) = <<>>
    BY DEF ContentsOf, CountOf
  <1>4. handed \in NGPackets
    BY NGRingAssumption DEF RingInit
  <1> QED BY <1>1, <1>2, <1>3, <1>4 DEF Fifo!FifoInit

LEMMA RingInductive ==
  RingInv /\ [RingNext]_ringVars => RingInv' /\ [overlapped' \/ Fifo!FifoNext]_<<Contents, handed>>
  <1> SUFFICES ASSUME RingInv, [RingNext]_ringVars
               PROVE  RingInv' /\ [overlapped' \/ Fifo!FifoNext]_<<Contents, handed>>
    OBVIOUS
  <1>1. RingTypeOK /\ RingTypeOK'
    BY RingTypesKept DEF RingInv
  <1>2. CASE overlapped'
    BY <1>1, <1>2 DEF RingInv
  <1>3. CASE ~ overlapped'
    <2>1. ~ overlapped
      BY <1>3 DEF RingNext, ringVars, PushBegin, PushCopy, PushPublish, PopBegin, PopCopy, PopPublish
    <2>2. RingClaims' /\ [Fifo!FifoNext]_<<Contents, handed>>
      BY <1>1, <1>3, <2>1, RingSteps DEF RingInv
    <2> QED BY <1>1, <2>2 DEF RingInv
  <1> QED BY <1>2, <1>3

(***************************************************************************)
(* However many threads push, for every size of the ring: until two calls  *)
(* of ring_push overlap, the ring is the bounded queue of NGFifo.  A push  *)
(* takes effect when ring_push stores the head, a pop when ring_pop stores *)
(* the tail, and no interleaving of the two loses, repeats, tears or       *)
(* reorders a packet.  That pushes of the scanner and the hunter do not    *)
(* overlap is nowhere seen to.                                             *)
(***************************************************************************)
THEOREM RingImplementsFifoApart == RingSpec => RingIsFifoApart
  <1> QED BY RingStarts, RingInductive, PTL DEF RingSpec, RingIsFifoApart

-----------------------------------------------------------------------------
(***************************************************************************)
(* NetGuard's blacklist: what is in it is the flow of a packet that was    *)
(* found severe, and nothing takes a flow from the severe ones.            *)
(***************************************************************************)
BlacklistInv == ng_blacklist \in Seq(ng_severe)

LEMMA BlacklistInductive == BlacklistInv /\ [NGNext]_ngVars => BlacklistInv'
  <1> SUFFICES ASSUME BlacklistInv, [NGNext]_ngVars PROVE BlacklistInv'
    OBVIOUS
  <1> USE DEF BlacklistInv
  <1>1. ASSUME NEW pkt \in NGTraffic, thread_scanner(pkt) PROVE BlacklistInv'
    <2> DEFINE severe == check_signatures(pkt) >= 3
    <2>1. /\ ng_blacklist' = IF severe /\ ~ blacklist_check(pkt) THEN blacklist_add(ng_blacklist, pkt)
                             ELSE ng_blacklist
          /\ ng_severe' = IF severe THEN ng_severe \cup {Flow(pkt)} ELSE ng_severe
      BY <1>1, Zenon DEF thread_scanner
    <2> HIDE DEF severe
    <2>2. ng_blacklist \in Seq(ng_severe')
      <3>1. ng_severe \subseteq ng_severe'
        BY <2>1
      <3> QED BY <3>1, SeqMonotonic
    <2>3. severe => Append(ng_blacklist, Flow(pkt)) \in Seq(ng_severe')
      BY <2>1, <2>2, AppendProperties
    <2> QED BY <2>1, <2>2, <2>3 DEF blacklist_add
  <1>2. CASE UNCHANGED <<ng_blacklist, ng_severe>>
    BY <1>2
  <1> QED BY <1>1, <1>2 DEF NGNext, ngVars, thread_telemetry_hunter, thread_wiper, netguard_stop, ThreadReturns

(***************************************************************************)
(* Nobody pays for another's packet: a flow that blacklist_check finds is  *)
(* covered by one that thread_scanner itself found severe, whatever the    *)
(* signatures, the traffic and the size of the list.                       *)
(***************************************************************************)
THEOREM OnlyGuiltyBlacklisted == NGSpec => []OnlyGuiltyFlows
  <1>1. NGInit => BlacklistInv
    BY DEF NGInit, BlacklistInv
  <1>2. BlacklistInv => OnlyGuiltyFlows
    BY LenProperties, Zenon DEF BlacklistInv, OnlyGuiltyFlows, blacklist_check
  <1> QED BY <1>1, <1>2, BlacklistInductive, PTL DEF NGSpec

-----------------------------------------------------------------------------
(***************************************************************************)
(* The packet filter.  The rules in the array keep their types; what the   *)
(* loop of fw_packet_filter_eval knows after any number of rules is        *)
(* LoopInv.                                                                *)
(***************************************************************************)
AnyRule == [id : Nat, enabled : BOOLEAN, priority : Nat, match : SUBSET (Packets \cup DefaultPackets),
            action : {"ALLOW", "DENY", "DROP"}, rate_limit : Nat, burst : Nat]

(* The two loops of the model are functions of the number of rules done.   *)
IsScan(f, rules, start, p, n) ==
  f = [i \in 0 .. n |-> IF i = 0 THEN start ELSE Consider(f[i - 1], rules[i], p)]
IsAdding(f, rules, start, n) ==
  f = [i \in 0 .. n |-> IF i = 0 THEN start ELSE Added(f[i - 1], rules[i])]

LEMMA ScanExists ==
  ASSUME NEW rules, NEW start, NEW p, NEW n \in Nat
  PROVE  \E f : IsScan(f, rules, start, p, n)
  <1> USE DEF IsScan
  <1> DEFINE Is(f, m) == IsScan(f, rules, start, p, m)
             T == {m \in Nat : ~ \E f : Is(f, m)}
  <1>1. SUFFICES ASSUME T # {} PROVE FALSE
    OBVIOUS
  <1>2. PICK m \in T : \A k \in T : m <= k
    <2>1. T \subseteq Nat
      OBVIOUS
    <2> HIDE DEF T
    <2> QED BY <1>1, <2>1, SmallestOfNat
  <1>3. m # 0
    <2>1. SUFFICES ASSUME m = 0 PROVE \E f : Is(f, 0)
      BY <1>2
    <2>2. Is([i \in 0 .. 0 |-> start], 0)
      OBVIOUS
    <2> QED BY <2>2
  <1>4. m - 1 \in Nat /\ m - 1 \notin T
    <2>1. m \in Nat
      BY <1>2
    <2> HIDE DEF T
    <2> QED BY <1>2, <1>3, <2>1
  <1>5. PICK f : Is(f, m - 1)
    BY <1>4
  <1> DEFINE g == [i \in 0 .. m |-> IF i = m THEN Consider(f[m - 1], rules[m], p) ELSE f[i]]
  <1>6. \A i \in 0 .. m : g[i] = IF i = 0 THEN start ELSE Consider(g[i - 1], rules[i], p)
    <2> SUFFICES ASSUME NEW i \in 0 .. m
                 PROVE  g[i] = IF i = 0 THEN start ELSE Consider(g[i - 1], rules[i], p)
      OBVIOUS
    <2>1. CASE i = m
      <3>1. m - 1 \in 0 .. m /\ m - 1 # m
        BY <1>3
      <3> QED BY <1>3, <2>1, <3>1
    <2>2. CASE i = 0
      BY <1>3, <1>4, <1>5, <2>2
    <2>3. CASE i \in 1 .. m - 1
      <3>1. i \in 0 .. m - 1 /\ i - 1 \in 0 .. m /\ i # m /\ i - 1 # m /\ i # 0
        BY <2>3
      <3>2. f[i] = Consider(f[i - 1], rules[i], p)
        BY <1>5, <3>1
      <3> QED BY <3>1, <3>2
    <2> QED BY <1>2, <2>1, <2>2, <2>3
  <1>7. Is(g, m)
    <2>1. g = [i \in 0 .. m |-> g[i]]
      OBVIOUS
    <2> HIDE DEF g
    <2> QED BY <1>6, <2>1
  <1> QED BY <1>2, <1>7

LEMMA AddingExists ==
  ASSUME NEW rules, NEW start, NEW n \in Nat
  PROVE  \E f : IsAdding(f, rules, start, n)
  <1> USE DEF IsAdding
  <1> DEFINE Is(f, m) == IsAdding(f, rules, start, m)
             T == {m \in Nat : ~ \E f : Is(f, m)}
  <1>1. SUFFICES ASSUME T # {} PROVE FALSE
    OBVIOUS
  <1>2. PICK m \in T : \A k \in T : m <= k
    <2>1. T \subseteq Nat
      OBVIOUS
    <2> HIDE DEF T
    <2> QED BY <1>1, <2>1, SmallestOfNat
  <1>3. m # 0
    <2>1. SUFFICES ASSUME m = 0 PROVE \E f : Is(f, 0)
      BY <1>2
    <2>2. Is([i \in 0 .. 0 |-> start], 0)
      OBVIOUS
    <2> QED BY <2>2
  <1>4. m - 1 \in Nat /\ m - 1 \notin T
    <2>1. m \in Nat
      BY <1>2
    <2> HIDE DEF T
    <2> QED BY <1>2, <1>3, <2>1
  <1>5. PICK f : Is(f, m - 1)
    BY <1>4
  <1> DEFINE g == [i \in 0 .. m |-> IF i = m THEN Added(f[m - 1], rules[m]) ELSE f[i]]
  <1>6. \A i \in 0 .. m : g[i] = IF i = 0 THEN start ELSE Added(g[i - 1], rules[i])
    <2> SUFFICES ASSUME NEW i \in 0 .. m
                 PROVE  g[i] = IF i = 0 THEN start ELSE Added(g[i - 1], rules[i])
      OBVIOUS
    <2>1. CASE i = m
      <3>1. m - 1 \in 0 .. m /\ m - 1 # m
        BY <1>3
      <3> QED BY <1>3, <2>1, <3>1
    <2>2. CASE i = 0
      BY <1>3, <1>4, <1>5, <2>2
    <2>3. CASE i \in 1 .. m - 1
      <3>1. i \in 0 .. m - 1 /\ i - 1 \in 0 .. m /\ i # m /\ i - 1 # m /\ i # 0
        BY <2>3
      <3>2. f[i] = Added(f[i - 1], rules[i])
        BY <1>5, <3>1
      <3> QED BY <3>1, <3>2
    <2> QED BY <1>2, <2>1, <2>2, <2>3
  <1>7. Is(g, m)
    <2>1. g = [i \in 0 .. m |-> g[i]]
      OBVIOUS
    <2> HIDE DEF g
    <2> QED BY <1>6, <2>1
  <1> QED BY <1>2, <1>7

(* The rules that the first k of the array match, and what is known then.  *)
HitAmong(k, p) == {i \in 1 .. k : filter_rules[i].enabled /\ p \in filter_rules[i].match}
Below(j, i) == \/ filter_rules[j].priority < filter_rules[i].priority
               \/ filter_rules[j].priority = filter_rules[i].priority /\ j <= i
Decides(i, hit) == i \in hit /\ \A j \in hit : Below(j, i)
LoopInv(e, k, p) ==
  /\ DOMAIN e = {"limited", "found", "priority", "action", "buckets"}
  /\ e.limited \in BOOLEAN /\ e.found \in BOOLEAN
  /\ e.limited => \E i \in HitAmong(k, p) : filter_rules[i].rate_limit > 0
  /\ ~ e.limited =>
       /\ ~ e.found => HitAmong(k, p) = {} /\ e.action = "DENY"
       /\ e.found => \E i \in 1 .. k : /\ Decides(i, HitAmong(k, p))
                                       /\ e.priority = filter_rules[i].priority
                                       /\ e.action = filter_rules[i].action

(* One turn of the loop. *)
LEMMA ConsiderKeepsLoop ==
  ASSUME filter_rules \in Seq(AnyRule), NEW p, NEW k \in 1 .. Len(filter_rules),
         NEW e, LoopInv(e, k - 1, p)
  PROVE  LoopInv(Consider(e, filter_rules[k], p), k, p)
  <1> DEFINE r == filter_rules[k]
             n == Consider(e, r, p)
             before == HitAmong(k - 1, p)
             now == HitAmong(k, p)
             hits == r.enabled /\ p \in r.match
  <1>1. Len(filter_rules) \in Nat /\ \A i \in 1 .. Len(filter_rules) : filter_rules[i] \in AnyRule
    BY LenProperties, ElementOfSeq
  <1>2. \A i \in 1 .. Len(filter_rules) : /\ filter_rules[i].priority \in Nat
                                          /\ filter_rules[i].enabled \in BOOLEAN
                                          /\ filter_rules[i].rate_limit \in Nat
    BY <1>1 DEF AnyRule
  <1>3. now = IF hits THEN before \cup {k} ELSE before
    BY <1>1 DEF HitAmong
  <1>4. before \subseteq 1 .. k - 1 /\ before \subseteq now
    BY <1>3 DEF HitAmong
  <1>5. \A i \in before : i \in 1 .. Len(filter_rules) /\ i < k
    BY <1>1, <1>4
  <1> DEFINE skipped == e.limited \/ ~ r.enabled \/ (e.found /\ r.priority < e.priority) \/ ~ p \in r.match
  <1>6. CASE skipped
    <2>1. n = e
      BY <1>6, Zenon DEF Consider, rule_matches
    <2>2. CASE e.limited
      <3>1. \E i \in now : filter_rules[i].rate_limit > 0
        BY <1>4, <2>2 DEF LoopInv
      <3>2. DOMAIN e = {"limited", "found", "priority", "action", "buckets"} /\ e.found \in BOOLEAN
        BY DEF LoopInv
      <3> HIDE DEF n, now
      <3>3. LoopInv(e, k, p)
        BY <2>2, <3>1, <3>2, Zenon DEF LoopInv, now
      <3> QED BY <2>1, <3>3 DEF n
    <2>3. CASE ~ e.limited /\ ~ hits
      <3>1. now = before
        BY <1>3, <2>3
      <3>2. \A i \in 1 .. k - 1 : i \in 1 .. k
        OBVIOUS
      <3> HIDE DEF n, before, now, hits
      <3>3. LoopInv(e, k - 1, p)
        OBVIOUS
      <3>4. ~ e.found => now = {} /\ e.action = "DENY"
        BY <2>3, <3>1, <3>3, Zenon DEF LoopInv, before
      <3>5. e.found => \E i \in 1 .. k : /\ Decides(i, now)
                                         /\ e.priority = filter_rules[i].priority
                                         /\ e.action = filter_rules[i].action
        BY <2>3, <3>1, <3>2, <3>3, Zenon DEF LoopInv, before
      <3>6. LoopInv(e, k, p)
        BY <2>3, <3>3, <3>4, <3>5, Zenon DEF LoopInv, now
      <3> QED BY <2>1, <3>6 DEF n
    <2>4. CASE ~ e.limited /\ hits
      <3>1. e.found /\ r.priority < e.priority
        BY <1>6, <2>4
      <3>2. PICK i \in 1 .. k - 1 : /\ Decides(i, before)
                                    /\ e.priority = filter_rules[i].priority
                                    /\ e.action = filter_rules[i].action
        BY <2>4, <3>1, Zenon DEF LoopInv
      <3>3. Decides(i, now)
        <4>1. now = before \cup {k}
          BY <1>3, <2>4
        <4>2. filter_rules[k].priority < filter_rules[i].priority
          BY <3>1, <3>2
        <4>3. Below(k, i)
          BY <4>2 DEF Below
        <4> HIDE DEF now, before
        <4> QED BY <3>2, <4>1, <4>3 DEF Decides
      <3>4. i \in 1 .. k
        OBVIOUS
      <3> HIDE DEF n, before, now
      <3>5. /\ DOMAIN e = {"limited", "found", "priority", "action", "buckets"}
            /\ e.limited \in BOOLEAN /\ e.found \in BOOLEAN
        BY DEF LoopInv
      <3>6. LoopInv(e, k, p)
        BY <2>4, <3>1, <3>2, <3>3, <3>4, <3>5, Zenon DEF LoopInv, now
      <3> QED BY <2>1, <3>6 DEF n
    <2> QED BY <2>2, <2>3, <2>4, Zenon DEF LoopInv
  <1>7. CASE ~ skipped /\ r.rate_limit > 0 /\ e.buckets[Bucket(r)].tokens = 0
    <2>1. n = [e EXCEPT !.limited = TRUE, !.action = "DROP"]
      BY <1>7, Zenon DEF Consider, rule_matches
    <2>2. /\ DOMAIN n = {"limited", "found", "priority", "action", "buckets"}
          /\ n.limited = TRUE /\ n.found = e.found
      BY <2>1 DEF LoopInv
    <2>3. k \in now
      BY <1>3, <1>7
    <2>4. \E i \in now : filter_rules[i].rate_limit > 0
      BY <1>7, <2>3
    <2>5. n.found \in BOOLEAN
      BY <2>2 DEF LoopInv
    <2> HIDE DEF n, now
    <2>6. LoopInv(n, k, p)
      BY <2>2, <2>4, <2>5, Zenon DEF LoopInv, now
    <2> QED BY <2>6 DEF n
  <1>8. CASE ~ skipped /\ ~ (r.rate_limit > 0 /\ e.buckets[Bucket(r)].tokens = 0)
    <2> DEFINE b == IF r.rate_limit = 0 THEN e.buckets ELSE [e.buckets EXCEPT ![Bucket(r)].tokens = @ - 1]
    <2>1. n = [limited |-> FALSE, found |-> TRUE, priority |-> r.priority, action |-> r.action, buckets |-> b]
      BY <1>8, Zenon DEF Consider, rule_matches
    <2> HIDE DEF b
    <2>2. /\ DOMAIN n = {"limited", "found", "priority", "action", "buckets"}
          /\ n.limited = FALSE /\ n.found = TRUE /\ n.priority = r.priority /\ n.action = r.action
      BY <2>1
    <2>3. Decides(k, now)
      <3>1. now = before \cup {k}
        BY <1>3, <1>8
      <3>2. CASE ~ e.found
        BY <1>1, <1>8, <3>1, <3>2 DEF LoopInv, Decides, Below
      <3>3. CASE e.found
        <4>1. PICK i \in 1 .. k - 1 : Decides(i, before) /\ e.priority = filter_rules[i].priority
          BY <1>8, <3>3, Zenon DEF LoopInv
        <4>2. r.priority >= filter_rules[i].priority
          <5>1. i \in 1 .. Len(filter_rules)
            BY <1>1
          <5>2. ~ (r.priority < filter_rules[i].priority)
            BY <1>8, <3>3, <4>1
          <5> QED BY <1>2, <5>1, <5>2
        <4>3. \A j \in before : filter_rules[j].priority <= filter_rules[i].priority
          BY <1>2, <1>5, <4>1 DEF Decides, Below
        <4>4. \A j \in before : /\ filter_rules[j].priority \in Nat /\ j < k
                                /\ filter_rules[j].priority <= r.priority
          BY <1>1, <1>2, <1>5, <4>1, <4>2, <4>3
        <4>5. ASSUME NEW j \in before PROVE Below(j, k)
          <5>1. j \in Int /\ j < k /\ filter_rules[j].priority \in Nat /\ filter_rules[k].priority \in Nat
            BY <1>2, <1>4, <4>4
          <5> HIDE DEF before
          <5> QED BY <4>4, <5>1 DEF Below
        <4>6. Below(k, k)
          BY DEF Below
        <4> HIDE DEF now, before
        <4> QED BY <3>1, <4>5, <4>6 DEF Decides
      <3> QED BY <3>2, <3>3
    <2>4. k \in 1 .. k
      OBVIOUS
    <2> HIDE DEF n, now
    <2>5. LoopInv(n, k, p)
      BY <2>2, <2>3, <2>4, Zenon DEF LoopInv, now
    <2> QED BY <2>5 DEF n
  <1> QED BY <1>6, <1>7, <1>8

(* The whole loop. *)
LEMMA EvalKeepsLoop ==
  ASSUME filter_rules \in Seq(AnyRule), NEW buckets, NEW p
  PROVE  LoopInv(Eval(buckets, p), Len(filter_rules), p)
  <1> DEFINE len == Len(filter_rules)
             start == [limited |-> FALSE, found |-> FALSE, priority |-> 0, action |-> "DENY", buckets |-> buckets]
             Is(f) == IsScan(f, filter_rules, start, p, len)
             e == CHOOSE f : Is(f)
             T == {k \in 0 .. len : ~ LoopInv(e[k], k, p)}
  <1>1. len \in Nat
    BY LenProperties
  <1>2. Is(e)
    <2>1. \E f : Is(f)
      <3> HIDE DEF start, len
      <3> QED BY <1>1, ScanExists, Zenon
    <2> HIDE DEF Is
    <2> QED BY <2>1
  <1>3. Eval(buckets, p) = e[len]
    BY DEF Eval, IsScan
  <1>4. e[0] = start /\ \A i \in 1 .. len : e[i] = Consider(e[i - 1], filter_rules[i], p)
    <2> HIDE DEF e, start
    <2>1. 0 \in 0 .. len /\ \A i \in 1 .. len : i \in 0 .. len /\ i # 0
      BY <1>1
    <2> QED BY <1>2, <2>1 DEF IsScan
  <1>5. LoopInv(start, 0, p)
    BY DEF LoopInv, HitAmong
  <1> HIDE DEF e, start, len
  <1>6. ASSUME T # {} PROVE FALSE
    <2>1. PICK k \in T : \A j \in T : k <= j
      <3>1. T \subseteq Nat
        BY <1>1
      <3> HIDE DEF T
      <3> QED BY <1>6, <3>1, SmallestOfNat
    <2>2. k \in 0 .. len /\ ~ LoopInv(e[k], k, p)
      BY <2>1
    <2>3. k # 0
      BY <1>4, <1>5, <2>2
    <2>4. k \in 1 .. len /\ k - 1 \in 0 .. len
      BY <1>1, <2>2, <2>3
    <2>5. LoopInv(e[k - 1], k - 1, p)
      <3>1. ~(k <= k - 1)
        BY <2>4
      <3> QED BY <2>1, <2>4, <3>1
    <2> QED BY <1>4, <2>2, <2>4, <2>5, ConsiderKeepsLoop DEF len
  <1>7. LoopInv(e[len], len, p)
    BY <1>1, <1>6
  <1> QED BY <1>3, <1>7 DEF len

LEMMA VerdictFollows == filter_rules \in Seq(AnyRule) => FilterVerdict
  <1> SUFFICES ASSUME filter_rules \in Seq(AnyRule), NEW p \in Packets
               PROVE  LET e    == Eval(rate_buckets, p)
                          hit  == {i \in DOMAIN filter_rules : filter_rules[i].enabled /\ p \in filter_rules[i].match}
                          best == {i \in hit : \A j \in hit : filter_rules[j].priority <= filter_rules[i].priority}
                      IN  IF e.limited THEN \E i \in hit : filter_rules[i].rate_limit > 0
                          ELSE IF hit = {} THEN e.action = "DENY"
                          ELSE \E i \in best : /\ \A j \in best : j <= i
                                               /\ e.action = filter_rules[i].action
    BY Zenon DEF FilterVerdict
  <1> DEFINE e    == Eval(rate_buckets, p)
             hit  == {i \in DOMAIN filter_rules : filter_rules[i].enabled /\ p \in filter_rules[i].match}
             best == {i \in hit : \A j \in hit : filter_rules[j].priority <= filter_rules[i].priority}
  <1>1. /\ DOMAIN filter_rules = 1 .. Len(filter_rules) /\ Len(filter_rules) \in Nat
        /\ \A i \in 1 .. Len(filter_rules) : filter_rules[i] \in AnyRule
    BY LenProperties, ElementOfSeq
  <1>2. \A i \in 1 .. Len(filter_rules) : filter_rules[i].priority \in Nat
    BY <1>1 DEF AnyRule
  <1>3. hit = HitAmong(Len(filter_rules), p)
    BY <1>1 DEF HitAmong
  <1>4. LoopInv(e, Len(filter_rules), p)
    BY EvalKeepsLoop
  <1>5. e.limited => \E i \in hit : filter_rules[i].rate_limit > 0
    BY <1>3, <1>4, Zenon DEF LoopInv
  <1>6. ~ e.limited /\ hit = {} => e.action = "DENY"
    BY <1>3, <1>4 DEF LoopInv, Decides
  <1>7. ASSUME ~ e.limited, hit # {}
        PROVE  \E i \in best : (\A j \in best : j <= i) /\ e.action = filter_rules[i].action
    <2>1. PICK i \in 1 .. Len(filter_rules) : Decides(i, hit) /\ e.action = filter_rules[i].action
      BY <1>3, <1>4, <1>7, Zenon DEF LoopInv
    <2>2. \A j \in hit : j \in Int /\ filter_rules[j].priority \in Nat
      BY <1>1, <1>2
    <2>3. i \in hit
      BY <2>1 DEF Decides
    <2>4. \A j \in hit : filter_rules[j].priority <= filter_rules[i].priority
      BY <2>1, <2>2, <2>3 DEF Decides, Below
    <2>5. i \in best
      BY <2>3, <2>4
    <2>6. \A j \in best : j <= i
      BY <2>1, <2>2, <2>3 DEF Decides, Below
    <2> HIDE DEF best
    <2> QED BY <2>1, <2>5, <2>6
  <1> HIDE DEF e, best, hit
  <1>8. IF e.limited THEN \E i \in hit : filter_rules[i].rate_limit > 0
        ELSE IF hit = {} THEN e.action = "DENY"
        ELSE \E i \in best : (\A j \in best : j <= i) /\ e.action = filter_rules[i].action
    BY <1>5, <1>6, <1>7
  <1> QED BY <1>8, Zenon DEF e, best, hit

(* Adding rules, one or the defaults, keeps the array an array of rules. *)
LEMMA AddedType ==
  ASSUME NEW f, f.rules \in Seq(AnyRule), NEW r \in AnyRule
  PROVE  Added(f, r).rules \in Seq(AnyRule)
  <1>1. Append(f.rules, r) \in Seq(AnyRule)
    BY AppendProperties
  <1> QED BY <1>1, Zenon DEF Added

LEMMA AddedAllType ==
  ASSUME NEW f, f.rules \in Seq(AnyRule), NEW rules \in Seq(AnyRule)
  PROVE  AddedAll(f, rules).rules \in Seq(AnyRule)
  <1> DEFINE len == Len(rules)
             Is(h) == IsAdding(h, rules, f, len)
             g == CHOOSE h : Is(h)
             T == {k \in 0 .. len : ~ g[k].rules \in Seq(AnyRule)}
  <1>1. len \in Nat /\ \A i \in 1 .. len : rules[i] \in AnyRule
    BY LenProperties, ElementOfSeq
  <1>2. Is(g)
    <2>1. \E h : Is(h)
      <3> HIDE DEF len
      <3> QED BY <1>1, AddingExists, Zenon
    <2> HIDE DEF Is
    <2> QED BY <2>1
  <1>3. AddedAll(f, rules) = g[len]
    BY DEF AddedAll, IsAdding
  <1>4. g[0] = f /\ \A i \in 1 .. len : g[i] = Added(g[i - 1], rules[i])
    <2> HIDE DEF g
    <2>1. 0 \in 0 .. len /\ \A i \in 1 .. len : i \in 0 .. len /\ i # 0
      BY <1>1
    <2> QED BY <1>2, <2>1 DEF IsAdding
  <1> HIDE DEF g, len
  <1>5. ASSUME T # {} PROVE FALSE
    <2>1. PICK k \in T : \A j \in T : k <= j
      <3>1. T \subseteq Nat
        BY <1>1
      <3> HIDE DEF T
      <3> QED BY <1>5, <3>1, SmallestOfNat
    <2>2. k \in 0 .. len /\ ~ g[k].rules \in Seq(AnyRule)
      BY <2>1
    <2>3. k # 0
      BY <1>4, <2>2
    <2>4. k \in 1 .. len /\ k - 1 \in 0 .. len
      BY <1>1, <2>2, <2>3
    <2>5. g[k - 1].rules \in Seq(AnyRule)
      <3>1. ~(k <= k - 1)
        BY <2>4
      <3> QED BY <2>1, <2>4, <3>1
    <2> QED BY <1>1, <1>4, <2>2, <2>4, <2>5, AddedType
  <1>6. g[len].rules \in Seq(AnyRule)
    BY <1>1, <1>5
  <1> QED BY <1>3, <1>6

FilterInv == filter_rules \in Seq(AnyRule)

LEMMA FilterInductive == FilterInv /\ [FilterNext]_filterVars => FilterInv'
  <1> USE DEF FilterInv
  <1> SUFFICES ASSUME filter_rules \in Seq(AnyRule), [FilterNext]_filterVars
               PROVE  filter_rules' \in Seq(AnyRule)
    OBVIOUS
  <1>0. Filter.rules = filter_rules
    BY DEF Filter
  <1>1. ASSUME NEW enabled \in BOOLEAN, NEW pass \in {{}, DefaultPackets}, NEW limit \in {0, 1},
               load_default_rules(enabled, pass, limit)
        PROVE  filter_rules' \in Seq(AnyRule)
    <2>1. filter_rules' = AddedAll(Filter, DefaultRules(enabled, pass, limit)).rules
      BY <1>1, Zenon DEF load_default_rules
    <2>2. DefaultRules(enabled, pass, limit) \in Seq(AnyRule)
      BY DEF DefaultRules, AnyRule, DefaultPackets
    <2> QED BY <1>0, <2>1, <2>2, AddedAllType
  <1>2. ASSUME NEW r \in Rules, fw_packet_filter_add_rule(r) PROVE filter_rules' \in Seq(AnyRule)
    <2>1. r \in AnyRule
      BY FilterAssumption DEF AnyRule
    <2>2. filter_rules' = Added(Filter, r).rules
      BY <1>2 DEF fw_packet_filter_add_rule
    <2> QED BY <1>0, <2>1, <2>2, AddedType
  <1>3. ASSUME NEW id, fw_packet_filter_remove_rule(id) PROVE filter_rules' \in Seq(AnyRule)
    <2>1. PICK i \in DOMAIN filter_rules : filter_rules' = RemoveAt(filter_rules, i)
      BY <1>3 DEF fw_packet_filter_remove_rule
    <2>2. i \in 1 .. Len(filter_rules)
      BY LenProperties
    <2> QED BY <2>1, <2>2, RemoveAtProperties
  <1>4. CASE fw_packet_filter_flush
    BY <1>4 DEF fw_packet_filter_flush
  <1>5. ASSUME NEW p, fw_packet_filter_eval(p) PROVE filter_rules' \in Seq(AnyRule)
    BY <1>5 DEF fw_packet_filter_eval
  <1>6. CASE UNCHANGED filterVars
    BY <1>6 DEF filterVars
  <1> QED BY <1>1, <1>2, <1>3, <1>4, <1>5, <1>6 DEF FilterNext

(***************************************************************************)
(* fw_packet_filter_eval decides as "priority ordering" says, for every    *)
(* array of rules that adding, removing, flushing and load_default_rules   *)
(* can build and every content of the token buckets.                       *)
(***************************************************************************)
THEOREM VerdictByPriority == FilterSpec => []FilterVerdict
  <1>1. FilterInit => FilterInv
    BY DEF FilterInit, FilterInv
  <1>2. FilterInv => FilterVerdict
    BY VerdictFollows DEF FilterInv
  <1> QED BY <1>1, <1>2, FilterInductive, PTL DEF FilterSpec
=============================================================================

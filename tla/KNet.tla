-------------------------------- MODULE KNet --------------------------------
(***************************************************************************)
(* The kernel's network: the e1000 card's descriptor rings                 *)
(* (kernel/drivers/e1000.c), ARP, ICMP and UDP (kernel/drivers/net.c) and  *)
(* the shell's ping (kernel/shell.c).                                      *)
(*                                                                         *)
(* The card works beside the kernel: it fills receive descriptors from     *)
(* rdh up to the tail register, takes frames to send from tdh up to its    *)
(* tail register, and stops when the two are equal.  The network delivers  *)
(* any frame at any time, so frames are lost, repeated, late and out of    *)
(* order.  Frames are records of what the stack looks at; checksums,       *)
(* lengths and payloads are left out.  ip_send and udp_send differ only in *)
(* the frame they build.  An ARP request for somebody else and an ARP      *)
(* reply have the same effect and are one kind of frame.                   *)
(*                                                                         *)
(* arp_clock is never advanced, so all ages are 0 and the search for the   *)
(* oldest entry of a full cache ends at entry 0.                           *)
(*                                                                         *)
(* History variables: arrived is the frames the card accepted and the      *)
(* driver has not taken; learned is the last address heard for each host.  *)
(***************************************************************************)
EXTENDS Integers, Sequences

CONSTANTS RX_RING, TX_RING, ARP_CACHE_SIZE, UDP_MAX_SOCKETS,
          Hosts, Macs,      \* addresses of other hosts
          NoHost,           \* address 0 of an entry never used
          ArpFrames,        \* ARP frames that other hosts send
          Ports,
          PINGS             \* requests of one ping command

ASSUME NetAssumption ==
  /\ RX_RING \in Nat /\ RX_RING > 1 /\ TX_RING \in Nat /\ TX_RING > 1
  /\ ARP_CACHE_SIZE \in Nat \ {0} /\ NoHost \notin Hosts /\ PINGS \in Nat \ {0}
  /\ ArpFrames \subseteq [type : {"arp_request", "arp_reply"}, ip : Hosts, mac : Macs]

RxIndex == 0 .. RX_RING - 1
TxIndex == 0 .. TX_RING - 1
ArpIndex == 0 .. ARP_CACHE_SIZE - 1
Socket  == 0 .. UDP_MAX_SOCKETS - 1

\* What can arrive, and what the kernel sends.
Frame == ArpFrames
           \cup [type : {"echo_request", "echo_reply"}]
           \cup [type : {"udp"}, port : Ports]
NoFrame == [type |-> "none"]

VARIABLES rx_ring, rx_head, rdh, rdt,
          tx_tail, tdh,
          arp_cache, udp_sockets,
          ping_reply_received,
          ping,             \* cmd_ping: number of the request, 0 when idle
          arrived, learned

rxVars  == <<rx_ring, rx_head, rdh, rdt, arrived>>
txVars  == <<tx_tail, tdh>>
netVars == <<rxVars, txVars, arp_cache, udp_sockets, ping_reply_received, ping, learned>>

NoEntry == [valid |-> FALSE, ip |-> NoHost, mac |-> NoHost]

\* e1000_init and net_init, which sends an announcement.
NetInit ==
  /\ rx_ring = [i \in RxIndex |-> NoFrame]
  /\ rx_head = 0 /\ rdh = 0 /\ rdt = RX_RING - 1
  /\ tx_tail = 1 /\ tdh \in {0, 1}
  /\ arp_cache = [i \in ArpIndex |-> NoEntry]
  /\ udp_sockets = [s \in Socket |-> [bound |-> FALSE, port |-> 0, data |-> 0]]
  /\ ping_reply_received = FALSE
  /\ ping = 0
  /\ arrived = <<>> /\ learned = [h \in Hosts |-> NoHost]

-----------------------------------------------------------------------------
(* The card *)
card_receive(f) ==
  /\ rdh # rdt
  /\ rx_ring' = [rx_ring EXCEPT ![rdh] = f]
  /\ rdh' = (rdh + 1) % RX_RING
  /\ arrived' = Append(arrived, f)
  /\ UNCHANGED <<rx_head, rdt, txVars, arp_cache, udp_sockets, ping_reply_received, ping, learned>>

card_send ==
  /\ tdh # tx_tail
  /\ tdh' = (tdh + 1) % TX_RING
  /\ UNCHANGED <<rxVars, tx_tail, arp_cache, udp_sockets, ping_reply_received, ping, learned>>

-----------------------------------------------------------------------------
(* Sending *)
\* Mutant: the tail is not wrapped.
e1000_send_no_wrap ==
  /\ tx_tail' = tx_tail + 1
  /\ tdh' \in {tx_tail', tdh}

\* e1000_send waits for the card, for a while: the frame has left, or stays in
\* the ring.  There is no test for a full ring.
e1000_send ==
  /\ tx_tail' = (tx_tail + 1) % TX_RING
  /\ tdh' \in {tx_tail', tdh}

\* udp_send and ip_send send the packet, or an ARP request for its receiver.
\* Either way one frame goes to the card.
ip_send == e1000_send

-----------------------------------------------------------------------------
(* Receiving *)
\* Mutant: the cache is searched for a free entry before the address.
arp_cache_add_dup(c, ip, mac) ==
  LET free == {i \in ArpIndex : ~c[i].valid}
      at   == IF free = {} THEN 0 ELSE CHOOSE i \in free : \A j \in free : i <= j
  IN  [c EXCEPT ![at] = [valid |-> TRUE, ip |-> ip, mac |-> mac]]

\* arp_cache_add: the entry of that address, else a free one, else entry 0.
arp_cache_add(c, ip, mac) ==
  LET same == {i \in ArpIndex : c[i].ip = ip}
      free == {i \in ArpIndex : ~c[i].valid}
      First(S) == CHOOSE i \in S : \A j \in S : i <= j
      at == IF same # {} THEN First(same) ELSE IF free # {} THEN First(free) ELSE 0
  IN  [c EXCEPT ![at] = [valid |-> same = {} \/ c[at].valid, ip |-> ip, mac |-> mac]]

\* arp_handle_request learns the sender and answers a request for us.
arp_handle_request(f) ==
  /\ arp_cache' = arp_cache_add(arp_cache, f.ip, f.mac)
  /\ learned' = [learned EXCEPT ![f.ip] = f.mac]
  /\ IF f.type = "arp_request" THEN e1000_send ELSE UNCHANGED txVars
  /\ UNCHANGED <<udp_sockets, ping_reply_received>>

\* icmp_handle_packet answers a request and takes any reply for the one waited
\* for: address, id and sequence number are not looked at.
icmp_handle_packet(f) ==
  /\ \/ f.type = "echo_request" /\ ip_send /\ UNCHANGED ping_reply_received
     \/ f.type = "echo_reply" /\ ping_reply_received' = TRUE /\ UNCHANGED txVars
  /\ UNCHANGED <<arp_cache, learned, udp_sockets>>

\* udp_handle_packet: the first socket of that port gets the datagram, in
\* place of one not yet read.
udp_handle_packet(f) ==
  /\ \/ \E s \in Socket :
          /\ udp_sockets[s].bound /\ udp_sockets[s].port = f.port
          /\ \A t \in 0 .. s - 1 : ~(udp_sockets[t].bound /\ udp_sockets[t].port = f.port)
          /\ udp_sockets' = [udp_sockets EXCEPT ![s].data = f.port]
     \/ /\ \A s \in Socket : ~(udp_sockets[s].bound /\ udp_sockets[s].port = f.port)
        /\ UNCHANGED udp_sockets
  /\ UNCHANGED <<arp_cache, learned, ping_reply_received, txVars>>

net_recv_frame(f) ==
  \/ f.type \in {"arp_request", "arp_reply"} /\ arp_handle_request(f)
  \/ f.type \in {"echo_request", "echo_reply"} /\ icmp_handle_packet(f)
  \/ f.type = "udp" /\ udp_handle_packet(f)

\* Mutant: the done bit of the descriptor is not cleared.
e1000_recv_keeps_done ==
  /\ rx_ring[rx_head] # NoFrame
  /\ rx_head' = (rx_head + 1) % RX_RING
  /\ rdt' = rx_head'
  /\ arrived' = Tail(arrived)
  /\ UNCHANGED <<rx_ring, rdh>>

\* e1000_recv takes the frame at rx_head and moves the card's tail to the new
\* head.
e1000_recv ==
  /\ rx_ring[rx_head] # NoFrame
  /\ rx_ring' = [rx_ring EXCEPT ![rx_head] = NoFrame]
  /\ rx_head' = (rx_head + 1) % RX_RING
  /\ rdt' = rx_head'
  /\ arrived' = Tail(arrived)
  /\ UNCHANGED rdh

-----------------------------------------------------------------------------
(* cmd_ping, and the socket calls *)
Pinging == ping > 0

\* net_send_ping
cmd_ping ==
  /\ ~Pinging
  /\ ping' = 1
  /\ ping_reply_received' = FALSE
  /\ ip_send
  /\ UNCHANGED <<rxVars, arp_cache, udp_sockets, learned>>

\* One turn of net_poll's loop.
net_poll ==
  /\ Pinging
  /\ e1000_recv
  /\ net_recv_frame(rx_ring[rx_head])
  /\ UNCHANGED ping

\* net_poll has returned: a reply, or the last of the polls without one.  The
\* next request is sent or the command ends.
ping_next ==
  /\ Pinging
  /\ rx_ring[rx_head] = NoFrame
  /\ ping_reply_received' = FALSE
  /\ \/ ping < PINGS /\ ping' = ping + 1 /\ ip_send
     \/ ping = PINGS /\ ping' = 0 /\ UNCHANGED txVars
  /\ UNCHANGED <<rxVars, arp_cache, udp_sockets, learned>>

\* Mutant: a datagram for the socket's last owner is kept.
udp_socket_keeps(port) ==
  /\ \E s \in Socket :
       /\ ~udp_sockets[s].bound
       /\ \A t \in 0 .. s - 1 : udp_sockets[t].bound
       /\ udp_sockets' = [udp_sockets EXCEPT ![s].bound = TRUE, ![s].port = port]
  /\ UNCHANGED <<rxVars, txVars, arp_cache, ping_reply_received, ping, learned>>

udp_socket(port) ==
  /\ \E s \in Socket :
       /\ ~udp_sockets[s].bound
       /\ \A t \in 0 .. s - 1 : udp_sockets[t].bound
       /\ udp_sockets' = [udp_sockets EXCEPT ![s] = [bound |-> TRUE, port |-> port, data |-> 0]]
  /\ UNCHANGED <<rxVars, txVars, arp_cache, ping_reply_received, ping, learned>>

udp_close(s) ==
  /\ udp_sockets' = [udp_sockets EXCEPT ![s].bound = FALSE]
  /\ UNCHANGED <<rxVars, txVars, arp_cache, ping_reply_received, ping, learned>>

udp_recv(s) ==
  /\ udp_sockets[s].bound /\ udp_sockets[s].data # 0
  /\ udp_sockets' = [udp_sockets EXCEPT ![s].data = 0]
  /\ UNCHANGED <<rxVars, txVars, arp_cache, ping_reply_received, ping, learned>>

udp_send(s) ==
  /\ udp_sockets[s].bound
  /\ ip_send
  /\ UNCHANGED <<rxVars, arp_cache, udp_sockets, ping_reply_received, ping, learned>>

NetNext ==
  \/ \E f \in Frame : card_receive(f)
  \/ card_send
  \/ cmd_ping
  \/ net_poll
  \/ ping_next
  \/ \E port \in Ports : udp_socket(port)
  \/ \E s \in Socket : udp_close(s) \/ udp_recv(s) \/ udp_send(s)

NetSpec == NetInit /\ [][NetNext]_netVars

-----------------------------------------------------------------------------
NetTypeOK ==
  /\ rx_ring \in [RxIndex -> Frame \cup {NoFrame}]
  /\ rx_head \in RxIndex /\ rdh \in RxIndex /\ rdt \in RxIndex
  /\ tx_tail \in TxIndex /\ tdh \in TxIndex
  /\ \A i \in ArpIndex : arp_cache[i].valid => arp_cache[i].ip \in Hosts
  /\ ping \in 0 .. PINGS

(***************************************************************************)
(* The driver takes the frames the card accepted once each and in order:   *)
(* the descriptors from rx_head to rdh hold them, all others are empty,    *)
(* and the card is never allowed to fill one that was not read             *)
(* (e1000_recv against a card that goes on receiving).                     *)
(***************************************************************************)
RxInOrder ==
  /\ Len(arrived) <= RX_RING
  /\ rdh = (rx_head + Len(arrived)) % RX_RING
  /\ \A i \in RxIndex :
       LET k == ((i - rx_head) % RX_RING) + 1
       IN  rx_ring[i] = IF k <= Len(arrived) THEN arrived[k] ELSE NoFrame

(***************************************************************************)
(* What arp_lookup answers is the address last heard for the host, however *)
(* entries are replaced: a valid entry holds the newest address, and a     *)
(* host has one entry.                                                     *)
(***************************************************************************)
ArpNewest ==
  \A i \in ArpIndex : arp_cache[i].valid =>
    /\ arp_cache[i].mac = learned[arp_cache[i].ip]
    /\ \A j \in ArpIndex : arp_cache[j].valid /\ arp_cache[j].ip = arp_cache[i].ip => i = j

(***************************************************************************)
(* A datagram udp_recv returns was addressed to the port the socket has    *)
(* now, also after the socket was closed and opened for another port.      *)
(***************************************************************************)
SocketData ==
  \A s \in Socket : udp_sockets[s].bound /\ udp_sockets[s].data # 0
                       => udp_sockets[s].data = udp_sockets[s].port

(***************************************************************************)
(* README.md: "Ethernet frame send/receive".  When the driver has emptied  *)
(* the ring, the card has a descriptor for the next frame.                 *)
(***************************************************************************)
CardCanReceive == rx_ring = [i \in RxIndex |-> NoFrame] => rdh # rdt
=============================================================================

SPECIFICATION NetSpec
CONSTANTS
  RX_RING = 3
  TX_RING = 2
  ARP_CACHE_SIZE = 2
  UDP_MAX_SOCKETS = 1
  Hosts = {h1}
  Macs = {m1}
  ArpFrames = {}
  NoHost = NoHost
  Ports = {q1, q2}
  PINGS = 2
CHECK_DEADLOCK FALSE
INVARIANT CardCanReceive

SPECIFICATION Spec
CONSTANTS
  KMSG_BUF_SIZE = 3
  Levels = {"LOG", "WARN"}
  Msgs = {a, b}
  NoMsg = NoMsg
  MaxTicks = 1
  MaxAdds = 5
  RING = 3
  LINE_MAX = 1
  HISTORY_SIZE = 2
  Keys = {14, 18, 22, 28, 29, 30, 37}
  ExtendedKeys = {72, 80}
  MaxCommands = 3
  VGA_WIDTH = 3
  VGA_HEIGHT = 2
  TAB_WIDTH = 2
  PIPE_BUF_SIZE = 3
  MaxRows = 3
  KS_PARTS = 4
  KS_CHILDREN = 2
  KS_LINE = 2
  KS_PIPE = 4
  KS_PATHS <- MCKsPaths
  KS_LINES <- MCKsLines
  KS_MAX = 4
  RX_RING = 3
  TX_RING = 2
  ARP_CACHE_SIZE = 2
  UDP_MAX_SOCKETS = 1
  Hosts = {"h1", "h2", "h3"}
  Macs = {"m1", "m2"}
  ArpFrames <- MCArpFrames
  NoHost = NoHost
  Ports = {q1, q2}
  PINGS = 2
VIEW View
CONSTRAINT Sound
INVARIANTS IoTypeOK DmesgShowsNewest RingIsQueue LineEditorSound ScreenShowsNewest ShellSound NetTypeOK RxInOrder ArpNewest SocketData
CHECK_DEADLOCK FALSE

SPECIFICATION Spec
CONSTANTS
  MAX_PROCESSES = 2
  VFS_MAX_FDS = 2
  STDIO = 1
  VFS_MAX_CHILDREN = 2
  PAGE_SIZE = 1
  Names = {x}
  Data = {1}
  MaxNodes = 2
  MaxLength = 2
  MaxMoved = 1
  MAX_FILTER_RULES = 3
  RATE_BUCKETS = 2
  Rules <- MCRules
  Packets = {"dns", "http", "other"}
  MAX_CONNECTIONS = 3
  SYN_COOKIES_MAX = 2
  CONN_HALFOPEN_MAX = 5
  Flows = {f1, f2}
  NoFlow = NoFlow
  MAX_TRACK_IPS = 3
  MAX_BLOCKLIST = 2
  Ips = {a1, a2, a3}
  NoIp = NoIp
  Durations = {1, 2}
  BLOCK_DURATION = 2
  NG_RING_SIZE = 4
  NGPackets = {a, b, none}
  NGProducers = {scanner, hunter}
  NGNone = none
  NG_RING = 4
  NG_MAX_BLACKLIST = 2
  NG_WIPE_BATCH = 2
  NGTraffic <- MCTraffic
  NGSignatures <- MCSignatures
  NGTelemetry <- MCTelemetry
  NGSmp = TRUE
CHECK_DEADLOCK FALSE
VIEW View
CONSTRAINTS NotStale FewMoved WholePipes Apart
INVARIANTS FileContents FilesReachable NoFdLeak FilterVerdict ConnCountExact BlockHolds OnlyGuiltyFlows
PROPERTY RingIsFifoApart

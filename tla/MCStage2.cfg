SPECIFICATION Spec
CONSTANTS
  FL_MAX = 4
  FL_KILL_MAX = 2
  FL_SEARCH_MAX = 1
  FL_SLOTS = 1
  FL_COMPS = 2
  FLChars = {"a", " "}
  FLCommands <- MCCommands
  FLFiles <- MCFiles
  FS_MAX_VARS = 2
  FS_MAX_ABBREVS = 2
  FS_MAX_FUNCS = 1
  FS_MAX_EVENTS = 1
  FS_PATH_DEPTH = 2
  FS_DIR_STACK = 1
  FSLines <- MCLines
  FSAnswers = {"v"}
  FSVarOf <- MCVarOf
  FSSubOf <- MCSubOf
  FSStored <- MCStored
  FSFile <- MCFile
  FSPath <- MCPath
  FSDirs <- MCDirs
  FSBodies <- MCBodies
  SM_PAGE = 2
  SM_E820 <- MCE820
  SM_FIXED <- MCFixed
  SM_DMA = 12
  SM_N = 3
  SM_GIGABYTES = 2
  SM_KERNEL <- MCKernel
  SM_WINDOW = 1
  SM_CLUSTERS = 4
  SM_MOUNTS = 2
  SM_DRIVES = {128, 129}
  SM_USER <- MCUser
  SB_SECTORS = 3
  SB_BATCH = 2
  SB_S4_SECTORS = 1
  SB_BYTE = 4
  SB_KERNEL_LBA = 4
  SB_STAGE4_LBA = 12
  SB_IMAGES = {0, 1}
  SB_CONFIGS <- MCConfigs
  SB_DIGITS = {0}
  SB_WIDTHS <- MCWidths
  SB_STAGES = 7
  SB_PAGE = 2
  SB_BOOTS = 3
  TlChars = {1, 2, 6, 7}
  TlNl = 1
  TlSp = 2
  TlUpper = {6}
  TlCase = 1
  TlLen = 4
  TlOut = 4
  TlLines = 3
  TlBuf = 4
  TlBytes <- MCBytes
  WFMachines <- MCMachines
  WFDrivers = {"ath", "prism", "iwl"}
  WL_MAX_DETECTED = 3
  WL_MAX_DRIVERS = 2
  WL_MAX_SCAN = 1
  WFBssids = {"b1"}
  WFChannels = {1}
  WFRssi <- MCRssi
  JNLower <- MCJnLower
  JNUpper <- MCJnUpper
  JNDigits <- MCJnDigits
  JNSymbols <- MCJnSymbols
  JNBuiltin <- MCJnBuiltin
  JNLists <- MCJnLists
  JNTargets <- MCJnTargets
  JNConfigs <- MCJnConfigs
  JNPool <- MCJnPool
  JNPasswords <- MCJnPw
  JNCommon <- MCJnCommon
  JNPatterns <- MCJnPat
  JOHN_MAX_PASSWORD = 10
  JN_RULE_BUF = 8
  JN_CLOCK = 2
  JN_MAX_CALLS = 2
  CY_HBLOCK = 6
  CY_HLEN = 2
  CY_DIGEST = 2
  CY_KBLOCK = 2
  CY_BYTES = {"a", "0"}
  CY_CHUNKS = {1, 3}
  CY_MAX = 7
  CY_OKM = {1, 2, 5}
  TR_CIRCUITS = 2
  TR_STREAMS = 1
  TR_HOPS = 3
  TR_SOCKS = 2
  TR_LOW = 4
  TR_HSDIRS = 1
  TR_RELAYS <- MCTrRelays
  TR_CELLS = 2
  SL_RANDS = 2
  SL_PEERS = {1, 2}
  SL_KEYS <- MCSlKeys
  SL_PN = 2
  SL_SERVERS = {1, 2}
  SL_NONCES = 3
  SL_IV = 2
  SL_TAG = 3
  SL_PAD = 4
  SL_LABEL = 2
  SL_HOST = 2
  SL_PORTS = 64
  SL_LENGTHS = {1, 2, 3, 4, 7}
  SL_NAMES <- MCSlNames
  SL_URLS <- MCSlUrls
  SD_DISKS = {0, 1}
  SD_PARTS = {0, 1}
  SD_TABLE = 2
  SD_KEYS <- MCSdKeys
  SD_STRINGS <- MCSdStrings
  SD_STR_LEN = 4
  SD_FSTYPES <- MCSdTypes
  SD_SIZES = {7, 20}
  SD_RANDOM = {0, 3, 9}
  SD_CALLS = 5
  SI_RANDOM = {1, 2, 3, 4}
  SI_HISTORY = 4
  SI_CHAIN = 2
  SI_OUIS <- MCSiOuis
  SI_TARGETS = 1
  SI_HASH = {11, 12}
  SI_PEERS = {7, 8}
  SI_MAP = 4
  SI_ADDR_HISTORY = 8
  SI_LAYERS = 1
  SI_EXPIRE = 2
  SI_CALLS = 4
  SV_MOUNTS = 2
  SV_FDS = 2
  SV_PATH_MAX = 6
  SV_MOUNT_PATHS <- MCSvMounts
  SV_PATHS <- MCSvPaths
  SV_BACKENDS = {1}
  SV_OFFSETS = {1}
  SV_SECTOR = 48
  SV_CLUSTERS = {0, 1, 2, 30, 31}
  SV_CALLS = 5
  TP_BYTE = 2
  TP_HEAD = 2
  TP_DRIVES <- MCTpDrives
  TP_CAP = 17
  TP_LBAS = {7, 15}
  TP_COUNT = 2
  TP_DATA = {1, 2}
  TP_CALLS = 4
  TxArgs = 3
  TxArg = 12
  TxPipes = 2
  TxFile = 2
  TxMatches = 2
  TxWords <- MCTxWords
  TxLines <- MCTxLines
  TxDirs <- MCTxDirs
  TxPatterns <- MCTxPatterns
  TxExprs <- MCTxExprs
  TxBits = 6
  TxFormats <- MCTxFormats
  AwFields = 4
  AwStmts = 6
  AwVars = 3
  AwVarLen = 4
  AwBits = 8
  AwFuel = 8
  AwInputs <- MCAwInputs
CHECK_DEADLOCK FALSE
VIEW View
INVARIANTS FishSound PageOwners WindowAgrees SnapshotSound ToolsSound DriverServesDevice TorClient SectorsKept FilesKept LinkKeys  SecretsSound

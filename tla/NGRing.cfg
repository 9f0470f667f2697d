SPECIFICATION RingSpec
CONSTANTS
  NG_RING_SIZE = 4
  NGPackets = {a, b, none}
  NGProducers = {scanner, hunter}
  NGNone = none
CHECK_DEADLOCK FALSE
PROPERTY RingIsFifo

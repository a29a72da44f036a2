\* Two payloads of up to two full packets; writev() takes two chunks.
SPECIFICATION StreamSpec
CONSTANTS
    PACKET_LEN_MAX = 2
    IOV_MAX = 2
    HAVE_WRITEV = TRUE
    MaxPayloads = 2
    MaxWire = 3
    MaxRetries = 1
INVARIANTS PacketsInOrder NothingLost NoPacketStranded PayloadsEnd
CHECK_DEADLOCK FALSE

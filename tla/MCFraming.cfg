SPECIFICATION UartSpec
CONSTANTS
    Full = 3
    CrcLen = 2
    Crc <- CheckSum
    MaxBody = 2
    Body <- SomeBodies
    MaxUnread = 11
    MaxFaults = 1
INVARIANTS UartTypeOK CodecsMirror
PROPERTIES HubHearsIntact DecodersAgree NoSilentLoss

SPECIFICATION RingFairSpec
CONSTANTS
    M = 9
    Size = 3
    Byte <- MCByte
    MaxWrite = 4
    MaxRead = 2
PROPERTIES IsFifo WritesEnd

SPECIFICATION RingFairSpec
CONSTANTS
    M = 8
    Size = 3
    Byte <- MCByte
    MaxWrite = 4
    MaxRead = 2
PROPERTY IsFifo
